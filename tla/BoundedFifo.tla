---------------------------- MODULE BoundedFifo ----------------------------
(***************************************************************************)
(* What the kernel's byte rings promise their two sides (keyboard.c, the   *)
(* pipes of disk.c): a first-in first-out queue of bounded length.  A call *)
(* that offers more than there is room for gets the longest prefix that    *)
(* fits accepted, the rest is dropped; a call that asks for bytes gets the *)
(* oldest ones, and nothing only when there are none.                      *)
(***************************************************************************)
EXTENDS Naturals, Sequences

CONSTANTS
    Capacity,
    Offers,     \* the sequences one call may offer
    Requests    \* how many bytes one call may ask for

VARIABLES
    items,      \* what is queued, oldest first
    delivered   \* what the last call that asked was given

vars == <<items, delivered>>

Least(m, n) == IF m <= n THEN m ELSE n

Init == items = <<>> /\ delivered = <<>>

Put(s) ==
    /\ items' = items \o SubSeq(s, 1, Least(Len(s), Capacity - Len(items)))
    /\ UNCHANGED delivered

Get(n) ==
    /\ delivered' = SubSeq(items, 1, Least(n, Len(items)))
    /\ items' = SubSeq(items, Least(n, Len(items)) + 1, Len(items))

Next == (\E s \in Offers : Put(s)) \/ (\E n \in Requests : Get(n))

Spec == Init /\ [][Next]_vars
=============================================================================
