----------------------------- MODULE KernelHeap -----------------------------
(***************************************************************************)
(* The kernel's heap (memory.c): a list of blocks in address order, each   *)
(* behind a header, searched next-fit by malloc and coalesced by free.     *)
(*                                                                         *)
(* Two parties use it.  A system call runs with interrupts off: its malloc *)
(* or free is a run of steps that nothing interleaves.  The reaper frees   *)
(* in the kernel's main loop with interrupts on, so a system call may come *)
(* between any two of its steps.  Addresses count words of 4 bytes from    *)
(* HEAP_START; what a client writes into its payload is not modelled.      *)
(***************************************************************************)
EXTENDS Integers, FiniteSetsExt

CONSTANTS
    HeapWords,    \* HEAP_SIZE in words
    AddressSpace, \* 2^32 in the code: where the byte count of malloc wraps
    Requests      \* the byte counts malloc is called with

HeaderWords == 3  \* size, is_free, next
Head == 0         \* heap_head
Null == -1

Addr == 0 .. HeapWords - 1
Reaper == "reaper"
Syscall == "syscall"
Party == {Reaper, Syscall}

ASSUME HeapAssumption == HeapWords \in Nat /\ HeapWords > HeaderWords
ASSUME RequestAssumption ==
    /\ AddressSpace \in Nat /\ AddressSpace % 4 = 0 /\ AddressSpace > 4 * HeapWords
    /\ Requests \subseteq 1 .. AddressSpace - 1

VARIABLES
    size,     \* words of payload, in the header at an address
    isFree,
    next,
    nextFit,  \* next_fit_ptr
    total,    \* total_used_memory, in words
    pc,       \* where each party is
    cur,      \* each party's local `current'
    start,    \* the local `start_search' of malloc
    wrapped,  \* and its local `wrapped'
    want,     \* the argument of malloc
    heads,    \* history: the headers that are in the list
    held,     \* history: the blocks clients hold, with the bytes they asked for
    collided  \* history: a system call has met a list that the reaper's free
              \* was changing

list == <<size, isFree, next, heads>>
vars == <<list, nextFit, total, pc, cur, start, wrapped, want, held, collided>>

Held == {h.at : h \in held}

-----------------------------------------------------------------------------
Init ==
    /\ size = [a \in Addr |-> IF a = Head THEN HeapWords - HeaderWords ELSE 0]
    /\ isFree = [a \in Addr |-> TRUE]
    /\ next = [a \in Addr |-> Null]
    /\ nextFit = Head
    /\ total = 0
    /\ pc = [t \in Party |-> "idle"]
    /\ cur = [t \in Party |-> Head]
    /\ start = Head
    /\ wrapped = FALSE
    /\ want = 1
    /\ heads = {Head}
    /\ held = {}
    /\ collided = FALSE

\* Interrupts are off while a system call is in the heap...
ReaperRuns == pc[Syscall] = "idle"

\* ... and on while the reaper is: a call may enter between any two of its
\* steps.  From the store of is_free to that of next_fit_ptr the count, the
\* list and the search's start do not agree.
CallEnters ==
    /\ pc[Syscall] = "idle"
    /\ collided' = IF pc[Reaper] \in {"idle", "mark"} THEN collided ELSE TRUE

\* A call returns; its locals are dead and go back to their first values.
Return(t) ==
    /\ pc' = [pc EXCEPT ![t] = "idle"]
    /\ cur' = [cur EXCEPT ![t] = Head]
    /\ IF t = Syscall THEN start' = Head /\ wrapped' = FALSE /\ want' = 1
                      ELSE UNCHANGED <<start, wrapped, want>>

-----------------------------------------------------------------------------
(* malloc.                                                                 *)

\* size = (size + 3) & ~3, in words: a request near 2^32 wraps to 0.
Rounded(bytes) == ((bytes + 3) % AddressSpace) \div 4

Malloc(bytes) ==
    /\ CallEnters
    /\ want' = bytes
    /\ cur' = [cur EXCEPT ![Syscall] = nextFit]
    /\ start' = nextFit
    /\ wrapped' = FALSE
    /\ pc' = [pc EXCEPT ![Syscall] = "search"]
    /\ UNCHANGED <<list, nextFit, total, held>>

\* Without the comparison of sizes.
FitsAny(a) == isFree[a]

Fits(a) == isFree[a] /\ size[a] >= Rounded(want)

\* The rest of a block must hold a header and more than one word.
Splits(a) == size[a] > Rounded(want) + HeaderWords + 1

\* The size of that rest, with the header forgotten.
RestSizeNoHeader(a) == size[a] - Rounded(want)

RestSize(a) == size[a] - Rounded(want) - HeaderWords

\* next_fit_ptr after an allocation whose `next' is a.
NextFitFrom(a) == IF a = Null THEN Head ELSE a

\* The request added to total_used_memory, not the size of the block.
ChargeRequest(a) == Rounded(want)

\* What an allocation at a adds to total_used_memory.
Charge(a) == IF Splits(a) THEN Rounded(want) ELSE size[a]

Allocate ==
    LET a == cur[Syscall]
        b == a + HeaderWords + Rounded(want)   \* new_block
    IN  /\ pc[Syscall] = "search" /\ a # Null /\ Fits(a)
        /\ IF Splits(a)
           THEN /\ size' = [size EXCEPT ![a] = Rounded(want), ![b] = RestSize(a)]
                /\ isFree' = [isFree EXCEPT ![a] = FALSE, ![b] = TRUE]
                /\ next' = [next EXCEPT ![a] = b, ![b] = next[a]]
                /\ heads' = heads \cup {b}
           ELSE /\ isFree' = [isFree EXCEPT ![a] = FALSE]
                /\ UNCHANGED <<size, next, heads>>
        /\ nextFit' = NextFitFrom(next'[a])
        /\ total' = total + Charge(a)
        /\ held' = held \cup {[at |-> a, bytes |-> want]}
        /\ Return(Syscall)
        /\ UNCHANGED collided

\* A search that gives up at the end of the list.
GoesRoundNever(a) == FALSE

\* The search goes round to the head, once.
GoesRound(a) == a = Null /\ ~wrapped

\* The search is over: it is back at its start, or at the end a second time.
ComesBack(a) == a = Null \/ (wrapped' /\ a = start)

TryNext ==
    LET c == cur[Syscall]
        n == IF GoesRound(next[c]) THEN Head ELSE next[c]
    IN  /\ pc[Syscall] = "search" /\ c # Null /\ ~Fits(c)
        /\ wrapped' = (wrapped \/ GoesRound(next[c]))
        /\ cur' = [cur EXCEPT ![Syscall] = n]
        /\ pc' = [pc EXCEPT ![Syscall] = IF ComesBack(n) THEN "failed" ELSE "search"]
        /\ UNCHANGED <<list, nextFit, total, start, want, held, collided>>

\* "HATA: Heap uzerinde yeterli bellek kalmadi!", return 0
Fail ==
    /\ pc[Syscall] = "failed"
    /\ Return(Syscall)
    /\ UNCHANGED <<list, nextFit, total, held, collided>>

-----------------------------------------------------------------------------
(* free, by either party.                                                  *)

Enters(t) ==
    IF t = Syscall THEN CallEnters
                   ELSE ReaperRuns /\ pc[t] = "idle" /\ UNCHANGED collided

Turn(t) == t = Syscall \/ ReaperRuns

Free(t) ==
    /\ Enters(t)
    /\ \E h \in held :
         /\ held' = held \ {h}
         /\ cur' = [cur EXCEPT ![t] = h.at]
    /\ pc' = [pc EXCEPT ![t] = "mark"]
    /\ UNCHANGED <<list, nextFit, total, start, wrapped, want>>

\* block->is_free = 1
Mark(t) ==
    /\ Turn(t) /\ pc[t] = "mark"
    /\ isFree' = [isFree EXCEPT ![cur[t]] = TRUE]
    /\ pc' = [pc EXCEPT ![t] = "count"]
    /\ UNCHANGED <<size, next, heads, nextFit, total, cur, start, wrapped, want, held, collided>>

\* total_used_memory -= block->size; current = heap_head
Count(t) ==
    /\ Turn(t) /\ pc[t] = "count"
    /\ total' = total - size[cur[t]]
    /\ cur' = [cur EXCEPT ![t] = Head]
    /\ pc' = [pc EXCEPT ![t] = "coalesce"]
    /\ UNCHANGED <<list, nextFit, start, wrapped, want, held, collided>>

AtPair(t) == Turn(t) /\ pc[t] = "coalesce" /\ next[cur[t]] # Null

BothFree(a) == isFree[a] /\ isFree[next[a]]

\* current->size += current->next->size + sizeof(struct block_header)
MergeSize(t) ==
    /\ AtPair(t) /\ BothFree(cur[t])
    /\ size' = [size EXCEPT ![cur[t]] = @ + size[next[cur[t]]] + HeaderWords]
    /\ pc' = [pc EXCEPT ![t] = "merge"]
    /\ UNCHANGED <<isFree, next, heads, nextFit, total, cur, start, wrapped, want, held, collided>>

\* Moving on after a merge: a run of three free blocks stays two.
AfterMergeOn(a) == IF next[next[a]] = Null THEN a ELSE next[next[a]]

\* After a merge the loop looks at the same block again.
AfterMerge(a) == a

\* current->next = current->next->next
MergeNext(t) ==
    /\ Turn(t) /\ pc[t] = "merge"
    /\ next' = [next EXCEPT ![cur[t]] = next[next[cur[t]]]]
    /\ heads' = heads \ {next[cur[t]]}
    /\ cur' = [cur EXCEPT ![t] = AfterMerge(cur[t])]
    /\ pc' = [pc EXCEPT ![t] = "coalesce"]
    /\ UNCHANGED <<size, isFree, nextFit, total, start, wrapped, want, held, collided>>

\* Without the else of the loop.
StaysOnPair(a) == a

AfterPair(a) == next[a]

Advance(t) ==
    /\ AtPair(t) /\ ~BothFree(cur[t])
    /\ cur' = [cur EXCEPT ![t] = AfterPair(cur[t])]
    /\ UNCHANGED <<list, nextFit, total, pc, start, wrapped, want, held, collided>>

\* The words of headers that left the list are payload once nobody can be on
\* one of them; the model keeps no value for them.
Forget(f, none) == [a \in Addr |-> IF a \in heads THEN f[a] ELSE none]

\* next_fit_ptr = heap_head
Finish(t) ==
    /\ Turn(t) /\ pc[t] = "coalesce" /\ next[cur[t]] = Null
    /\ nextFit' = Head
    /\ Return(t)
    /\ IF \A u \in Party \ {t} : pc[u] = "idle"
       THEN size' = Forget(size, 0) /\ isFree' = Forget(isFree, TRUE) /\ next' = Forget(next, Null)
       ELSE UNCHANGED <<size, isFree, next>>
    /\ UNCHANGED <<heads, total, held, collided>>

-----------------------------------------------------------------------------
FreeStep(t) == Mark(t) \/ Count(t) \/ MergeSize(t) \/ MergeNext(t) \/ Advance(t) \/ Finish(t)

SyscallStep == Allocate \/ TryNext \/ Fail \/ FreeStep(Syscall)

Next ==
    \/ \E n \in Requests : Malloc(n)
    \/ \E t \in Party : Free(t)
    \/ SyscallStep \/ FreeStep(Reaper)

\* A call that entered the heap executes its next instruction; the reaper
\* does whenever it keeps being scheduled between the calls.
Fairness == WF_vars(SyscallStep) /\ SF_vars(FreeStep(Reaper))

Spec == Init /\ [][Next]_vars
FairSpec == Spec /\ Fairness
-----------------------------------------------------------------------------
(* Properties.                                                             *)

TypeOK ==
    /\ size \in [Addr -> Nat]
    /\ isFree \in [Addr -> BOOLEAN]
    /\ next \in [Addr -> Addr \cup {Null}]
    /\ nextFit \in Addr
    /\ total \in Int
    /\ pc \in [Party -> {"idle", "search", "failed", "mark", "count", "coalesce", "merge"}]
    /\ cur \in [Party -> Addr]
    /\ start \in Addr
    /\ wrapped \in BOOLEAN
    /\ want \in Nat
    /\ heads \subseteq Addr
    /\ held \subseteq [at : Addr, bytes : Nat]
    /\ collided \in BOOLEAN

\* No free has stored anything yet that it has more to store for.
Quiet == \A t \in Party : pc[t] \in {"idle", "search", "failed", "mark"}

\* The end of the block at a; between the two halves of a merge its size
\* already includes the block that is still in the list.
Torn(a) == \E t \in Party : pc[t] = "merge" /\ cur[t] = a
End(a) == a + HeaderWords + size[a]

\* The blocks of the list tile the heap: each ends where the next one begins,
\* and the last one at the end of the heap.  next_fit_ptr points to one.
Tiled ==
    /\ Head \in heads /\ (Quiet => nextFit \in heads)
    /\ \A a \in heads :
         LET e == IF Torn(a) THEN next[a] ELSE End(a) IN
           /\ End(a) <= HeapWords
           /\ e > a /\ e <= HeapWords
           /\ IF e = HeapWords THEN next[a] = Null ELSE next[a] = e /\ e \in heads
           /\ \A b \in heads : b > a => b >= e

\* The bytes malloc was asked for fit below 2^32 when rounded up.
Representable(bytes) == bytes <= AddressSpace - 4

\* A block a client holds is a block of the list, not free, as large as the
\* client asked, and no other client holds it.
HeldBlocksSafe ==
    \A h \in held :
      /\ h.at \in heads /\ ~isFree[h.at]
      /\ Representable(h.bytes) => 4 * size[h.at] >= h.bytes
      /\ \A g \in held : g.at = h.at => g = h

\* free leaves no two neighbours free, so the largest hole is one block.
Coalesced ==
    Quiet =>
      \A a \in heads : ~(next[a] # Null /\ isFree[a] /\ isFree[next[a]])

\* malloc returns 0 only when no free block of the list is large enough.
FailsOnlyWhenFull == pc[Syscall] = "failed" => ~\E a \in heads : Fits(a)

\* total_used_memory is the sum of the blocks in use.
Accounted ==
    Quiet =>
      total = MapThenSumSet(LAMBDA a : size[a], {a \in heads : ~isFree[a]})

-----------------------------------------------------------------------------
(* What holds until a system call meets a list that the reaper's free is    *)
(* changing.  After it the code promises nothing of the heap: the call may  *)
(* start its search at a header that is no longer one.                      *)

\* The states TLC goes on from.
NotCollided == ~collided

TiledUntilHit == collided \/ Tiled
HoldersSafeUntilHit == collided \/ HeldBlocksSafe
CoalescedUntilHit == collided \/ Coalesced
FailureTrueUntilHit == collided \/ FailsOnlyWhenFull
TotalExactUntilHit == collided \/ Accounted

\* Every malloc and every free returns.
CallsReturn == \A t \in Party : pc[t] # "idle" ~> pc[t] = "idle" \/ collided
=============================================================================
