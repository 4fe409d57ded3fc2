----------------------------- MODULE NamedPipes -----------------------------
(***************************************************************************)
(* What the VFS promises the programs that open FIFOs: a queue of bounded  *)
(* length for every name.  A handle leads to the queue of the name it was  *)
(* opened with until it is closed or its program ends; a queue keeps its   *)
(* bytes whoever comes and goes.  A write appends the longest prefix that  *)
(* fits, a read takes the oldest bytes.                                    *)
(***************************************************************************)
EXTENDS Naturals, Sequences

CONSTANTS
    Programs,
    Handles,
    Names,
    NoName,
    Capacity,
    Offers,     \* the sequences one write may offer
    Requests    \* how many bytes one read may ask for

VARIABLES
    handles,    \* the name behind every handle, NoName when it is closed
    queues,     \* the bytes waiting under every name
    delivered   \* what the last read was given

vars == <<handles, queues, delivered>>

Least(m, n) == IF m <= n THEN m ELSE n

Init ==
    /\ handles = [p \in Programs |-> [h \in Handles |-> NoName]]
    /\ queues = [n \in Names |-> <<>>]
    /\ delivered = <<>>

Open(p, n) ==
    /\ \E h \in Handles : /\ handles[p][h] = NoName
                          /\ handles' = [handles EXCEPT ![p][h] = n]
    /\ UNCHANGED <<queues, delivered>>

Write(p, h, s) ==
    /\ handles[p][h] # NoName
    /\ LET n == handles[p][h]
           room == Capacity - Len(queues[n])
       IN  queues' = [queues EXCEPT ![n] = @ \o SubSeq(s, 1, Least(Len(s), room))]
    /\ UNCHANGED <<handles, delivered>>

Read(p, h, k) ==
    /\ handles[p][h] # NoName
    /\ LET n == handles[p][h]
           got == Least(k, Len(queues[n]))
       IN  /\ delivered' = SubSeq(queues[n], 1, got)
           /\ queues' = [queues EXCEPT ![n] = SubSeq(@, got + 1, Len(@))]
    /\ UNCHANGED handles

Close(p, h) ==
    /\ handles' = [handles EXCEPT ![p][h] = NoName]
    /\ UNCHANGED <<queues, delivered>>

\* A program ends, and another takes its place.
Exit(p) ==
    /\ handles' = [handles EXCEPT ![p] = [h \in Handles |-> NoName]]
    /\ UNCHANGED <<queues, delivered>>

Next ==
    \E p \in Programs :
        \/ \E n \in Names : Open(p, n)
        \/ \E h \in Handles : \/ \E s \in Offers : Write(p, h, s)
                              \/ \E k \in Requests : Read(p, h, k)
                              \/ Close(p, h)
        \/ Exit(p)

Spec == Init /\ [][Next]_vars
=============================================================================
