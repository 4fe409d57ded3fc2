----------------------------- MODULE FileStore -----------------------------
(***************************************************************************)
(* What a caller may expect of the file calls of disk.c: one call at a     *)
(* time works on one file.  While it does, that file may read back as      *)
(* anything; when it returns, the file reads back as the call asked; power *)
(* may fail at any point; and no other file ever changes.  A name that a   *)
(* directory got on top of a file is loose: it may read back as any of     *)
(* what it stands for.  Once the store is spoilt nothing is promised.      *)
(***************************************************************************)
CONSTANTS
    Files,
    Contents,   \* what a file may read back as, NoFile included
    NoFile

VARIABLES
    files,      \* what every file reads back as
    busy,       \* the file a call is working on, or NoFile
    wanted,     \* what the call is to leave in it
    loose,      \* names with more than one entry, now or earlier
    spoilt

vars == <<files, busy, wanted, loose, spoilt>>

OthersKept(f) == \A g \in Files \ {f} : files'[g] = files[g]

Init ==
    /\ files \in [Files -> Contents]
    /\ busy = NoFile
    /\ wanted = NoFile
    /\ loose = {} /\ spoilt = FALSE

Begin ==
    /\ busy = NoFile
    /\ busy' \in Files
    /\ wanted' \in Contents
    /\ UNCHANGED <<files, loose>>

Work ==
    /\ busy # NoFile
    /\ OthersKept(busy)
    /\ UNCHANGED <<busy, wanted, loose>>

Return ==
    /\ busy # NoFile
    /\ OthersKept(busy)
    /\ busy \in loose \/ files'[busy] = wanted
    /\ busy' = NoFile /\ wanted' = NoFile
    /\ UNCHANGED loose

\* A directory of a name that is taken, which may hide what had the name.
Hide ==
    /\ busy = NoFile
    /\ \E f \in Files : OthersKept(f) /\ loose' = loose \cup {f}
    /\ UNCHANGED <<busy, wanted>>

PowerLoss ==
    /\ busy' = NoFile /\ wanted' = NoFile
    /\ UNCHANGED <<files, loose>>

Next == (~spoilt' /\ (Begin \/ Work \/ Return \/ Hide \/ PowerLoss)) \/ spoilt'

Spec == Init /\ [][Next]_vars
=============================================================================
