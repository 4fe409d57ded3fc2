---------------------------- MODULE MCOpenFiles ----------------------------
(***************************************************************************)
(* A disk of three clusters of two sectors of two bytes, as mkfs.fat and   *)
(* mcopy may leave it: A is three sectors long and owns clusters 2 and 3,  *)
(* 4 is free.  The first FAT sector covers clusters 2 and 3, the second    *)
(* cluster 4 and an entry 5 that no cluster belongs to.  A directory shows *)
(* the first two entries of the root.                                      *)
(***************************************************************************)
EXTENDS OpenFiles

CONSTANTS A, B, old, new

MCNames == {A, B}
MCDirNames == {B}
MCTexts == {old, new}
MCWritten == {new}

MCFat == [c \in 2 .. 4 |-> CASE c = 2 -> 3 [] c = 3 -> 65535 [] OTHER -> 0]

MCDir == [i \in 1 .. Slots |->
            IF i = 1 THEN [name |-> A, dir |-> FALSE, cluster |-> 2, size |-> 3]
            ELSE NoEntry]

MCData == [k \in 0 .. 4 |-> <<old, k>>]

\* Bound: a state after which nothing is promised of files has no successors.
NotSpoilt == ~Spoilt
=============================================================================
