------------------------------ MODULE ByteRing ------------------------------
(* What a circular buffer of `size' slots holds, for keyboard.c and the     *)
(* pipes of disk.c: n bytes from slot t on, past the last slot at slot 0.   *)
EXTENDS Integers, Sequences

Slice(b, size, t, n) == [i \in 1 .. n |-> b[(t + i - 1) % size]]
=============================================================================
