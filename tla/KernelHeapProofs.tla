-------------------------- MODULE KernelHeapProofs --------------------------
(***************************************************************************)
(* The kernel's heap for every size of the heap and every set of requests, *)
(* until a system call meets a list that the reaper's free is changing:    *)
(* the blocks tile the heap, held blocks are safe, free leaves no two free *)
(* neighbours, malloc fails only when no free block is large enough, and   *)
(* the count of the memory in use is right.                                *)
(***************************************************************************)
EXTENDS KernelHeap, FiniteSetTheorems, NaturalsInduction, TLAPS

\* One call at a time is in the heap, or the reaper's has stored nothing yet;
\* and where each is in the list.
CallInv ==
    /\ pc[Reaper] \in {"idle", "mark"} \/ pc[Syscall] = "idle"
    /\ pc[Reaper] \notin {"search", "failed"}
    /\ pc[Syscall] = "search" => cur[Syscall] \in heads /\ start \in heads
    /\ \A t \in Party : pc[t] \in {"count", "coalesce", "merge"} => cur[t] \in heads
    /\ \A t \in Party : pc[t] = "merge" =>
         /\ next[cur[t]] # Null
         /\ isFree[cur[t]] /\ isFree[next[cur[t]]]
         /\ End(cur[t]) = End(next[cur[t]])

\* What free is called with: a block of the list in use, nobody's any more.
MarkInv ==
    /\ \A t \in Party : pc[t] = "mark" =>
         cur[t] \in heads /\ cur[t] \notin Held /\ ~isFree[cur[t]]
    /\ pc[Reaper] = "mark" /\ pc[Syscall] = "mark" => cur[Reaper] # cur[Syscall]

\* No block that the search has passed fits.
SearchInv ==
    pc[Syscall] = "search" =>
      IF wrapped
      THEN /\ cur[Syscall] < start
           /\ \A b \in heads : b < cur[Syscall] \/ b >= start => ~Fits(b)
      ELSE /\ start <= cur[Syscall]
           /\ \A b \in heads : start <= b /\ b < cur[Syscall] => ~Fits(b)

FreePair(a) == next[a] # Null /\ isFree[a] /\ isFree[next[a]]

\* Behind the loop of free, no two neighbours are free.
CoalesceInv ==
    \A t \in Party : pc[t] \in {"coalesce", "merge"} =>
      \A a \in heads : a < cur[t] => ~FreePair(a)

IndInv ==
    /\ TypeOK /\ CallInv /\ MarkInv /\ Tiled /\ HeldBlocksSafe
    /\ SearchInv /\ FailsOnlyWhenFull
    /\ CoalesceInv /\ Coalesced
-----------------------------------------------------------------------------
LEMMA RoundedFacts ==
    ASSUME NEW n \in Nat
    PROVE  Rounded(n) \in Nat /\ (Representable(n) => 4 * Rounded(n) >= n)
<1> DEFINE m == (n + 3) % AddressSpace
<1>1. AddressSpace \in Nat /\ AddressSpace > 4
  BY RequestAssumption, HeapAssumption DEF HeaderWords
<1>2. m \in Nat /\ (Representable(n) => m = n + 3)
  BY <1>1 DEF Representable
<1>3. m \div 4 \in Nat /\ 4 * (m \div 4) >= m - 3
  <2> HIDE DEF m
  <2> QED BY <1>2
<1> QED BY <1>2, <1>3 DEF Rounded

LEMMA InitInd == Init => IndInv
<1> SUFFICES ASSUME Init PROVE IndInv
  OBVIOUS
<1> USE HeapAssumption DEF Init, Party, Reaper, Syscall, Addr, Head, Null, HeaderWords
<1>1. TypeOK
  <2>1. size \in [Addr -> Nat] /\ heads \subseteq Addr /\ Head \in Addr
    OBVIOUS
  <2>2. isFree \in [Addr -> BOOLEAN] /\ next \in [Addr -> Addr \cup {Null}]
    OBVIOUS
  <2>3. pc \in [Party -> {"idle", "search", "failed", "mark", "count", "coalesce", "merge"}]
    OBVIOUS
  <2>4. nextFit \in Addr /\ start \in Addr /\ cur \in [Party -> Addr] /\ total \in Int
    BY <2>1
  <2>5. /\ held \subseteq [at : Addr, bytes : Nat] /\ want \in Nat
        /\ wrapped \in BOOLEAN /\ collided \in BOOLEAN
    OBVIOUS
  <2> HIDE DEF Init, Party, Addr
  <2> QED BY <2>1, <2>2, <2>3, <2>4, <2>5 DEF TypeOK
<1>2. CallInv /\ MarkInv /\ SearchInv /\ FailsOnlyWhenFull /\ CoalesceInv
  BY DEF CallInv, MarkInv, SearchInv, FailsOnlyWhenFull, CoalesceInv
<1>3. Tiled
  BY DEF Tiled, Torn, End, Quiet
<1>4. HeldBlocksSafe /\ Coalesced
  BY DEF HeldBlocksSafe, Coalesced, Quiet
<1> QED BY <1>1, <1>2, <1>3, <1>4 DEF IndInv

\* A step that takes nobody to free's first store, frees no block and hands out
\* only one that was free.
LEMMA MarkKept ==
    ASSUME IndInv,
           \A t \in Party : pc'[t] = "mark" =>
             /\ pc[t] = "mark" /\ cur'[t] = cur[t]
             /\ cur[t] \in heads' /\ ~isFree'[cur[t]] /\ cur[t] \notin Held'
    PROVE  MarkInv'
<1> Reaper \in Party /\ Syscall \in Party
  BY DEF Party
<1> QED BY DEF MarkInv, IndInv

LEMMA MallocStep ==
    ASSUME IndInv, ~collided', NEW n \in Requests, Malloc(n)
    PROVE  IndInv'
<1> USE DEF IndInv, Malloc, list, CallEnters
<1>0. /\ n \in Nat /\ nextFit \in heads
      /\ pc[Reaper] \in {"idle", "mark"} /\ pc[Syscall] = "idle"
      /\ collided' \in BOOLEAN
  <2>1. pc[Reaper] \in {"idle", "mark"} /\ pc[Syscall] = "idle" /\ collided' = collided
    OBVIOUS
  <2>2. Quiet
    BY <2>1 DEF Quiet, Party
  <2> QED BY <2>1, <2>2, RequestAssumption DEF Tiled, TypeOK
<1>1. TypeOK'
  BY <1>0 DEF TypeOK, Party
<1>2. CallInv'
  BY <1>0 DEF CallInv, TypeOK, Party, Reaper, Syscall, Held, End
<1>7. MarkInv'
  BY <1>0 DEF MarkInv, TypeOK, Party, Reaper, Syscall, Held
<1>3. Tiled'
  BY <1>0 DEF Tiled, TypeOK, Party, Reaper, Syscall, Torn, End, Quiet
<1>4. HeldBlocksSafe'
  BY DEF HeldBlocksSafe
<1>5. SearchInv' /\ FailsOnlyWhenFull'
  BY <1>0 DEF SearchInv, FailsOnlyWhenFull, TypeOK, Party, Reaper, Syscall, Addr, Fits
<1>6. CoalesceInv' /\ Coalesced'
  BY <1>0 DEF CoalesceInv, Coalesced, TypeOK, Party, Reaper, Syscall, Quiet, FreePair
<1> QED BY <1>1, <1>2, <1>3, <1>4, <1>5, <1>6, <1>7

\* What TypeOK and Tiled say of one block and of two.
LEMMA ListFacts ==
    ASSUME TypeOK, Tiled
    PROVE  /\ Head \in heads /\ Null \notin heads
           /\ \A a \in heads : /\ a \in Addr /\ a \in Int /\ 0 <= a /\ a < HeapWords
                             /\ size[a] \in Nat /\ isFree[a] \in BOOLEAN
                             /\ End(a) \in Int /\ End(a) > a /\ End(a) <= HeapWords
           /\ \A a \in heads : ~Torn(a) =>
                /\ next[a] = Null => End(a) = HeapWords
                /\ next[a] # Null => next[a] = End(a) /\ next[a] \in heads
                /\ \A b \in heads : b > a => b >= End(a)
<1>1. heads \subseteq Addr /\ \A a \in Addr : size[a] \in Nat /\ isFree[a] \in BOOLEAN
  BY DEF TypeOK
<1>2. \A a \in Addr : a \in Int /\ 0 <= a /\ a < HeapWords
  BY HeapAssumption DEF Addr
<1>3. Null \notin heads /\ Head \in heads
  BY <1>1, <1>2 DEF Null, Tiled
<1>4. \A a \in heads : End(a) \in Int /\ End(a) > a /\ End(a) <= HeapWords
  BY <1>1, <1>2 DEF End, HeaderWords, Tiled
<1>5. ASSUME NEW a \in heads, ~Torn(a)
      PROVE  /\ next[a] = Null => End(a) = HeapWords
             /\ next[a] # Null => next[a] = End(a) /\ next[a] \in heads
             /\ \A b \in heads : b > a => b >= End(a)
  BY <1>3, <1>5 DEF Tiled
<1> QED BY <1>1, <1>2, <1>3, <1>4, <1>5

LEMMA TryNextStep ==
    ASSUME IndInv, TryNext
    PROVE  IndInv'
<1> DEFINE c == cur[Syscall]
           r == next[c] = Null
           n == IF r THEN Head ELSE next[c]
<1>1. /\ c \in heads /\ start \in heads /\ pc[Reaper] \in {"idle", "mark"} /\ pc[Syscall] = "search"
      /\ \A t \in Party : pc[t] \in {"idle", "search", "mark"}
      /\ wrapped \in BOOLEAN /\ TypeOK /\ Tiled
      /\ ~Fits(c)
  BY DEF IndInv, CallInv, TypeOK, Party, Reaper, Syscall, TryNext
<1>2. \A a \in Addr : ~Torn(a)
  BY <1>1 DEF Torn
<1>3. \A b \in heads : b > c => ~r /\ b >= n
  BY <1>1, <1>2, ListFacts
<1>4. r => ~wrapped
  <2> SUFFICES ASSUME r, wrapped PROVE FALSE
    BY <1>1
  <2>1. c < start
    BY <1>1 DEF IndInv, SearchInv
  <2> QED BY <2>1, <1>1, <1>3
<1>5. /\ n \in heads /\ n \in Addr /\ n # Null
      /\ ~r => n > c
      /\ r => n = Head
  BY <1>1, <1>2, ListFacts
<1>6. /\ wrapped' = (wrapped \/ r)
      /\ cur' = [cur EXCEPT ![Syscall] = n]
      /\ pc' = [pc EXCEPT ![Syscall] = IF wrapped' /\ n = start THEN "failed" ELSE "search"]
      /\ UNCHANGED <<list, nextFit, total, start, want, held, collided>>
  BY <1>1, <1>4, <1>5 DEF TryNext, GoesRound, ComesBack
<1> HIDE DEF n, r
<1>7. /\ cur'[Syscall] = n /\ cur'[Reaper] = cur[Reaper]
      /\ pc'[Reaper] = pc[Reaper]
      /\ pc'[Syscall] = IF wrapped' /\ n = start THEN "failed" ELSE "search"
      /\ \A t \in Party : pc'[t] \in {"idle", "search", "failed", "mark"}
  BY <1>1, <1>6 DEF TypeOK, Party, Reaper, Syscall
<1>8. TypeOK'
  BY <1>1, <1>5, <1>6 DEF TypeOK, list, Party, Syscall
<1>9. CallInv'
  BY <1>1, <1>5, <1>6, <1>7 DEF CallInv, list
<1>10. Tiled' /\ HeldBlocksSafe' /\ Coalesced'
  <2>1. \A a \in Addr : ~Torn(a)' /\ End(a)' = End(a)
    BY <1>6, <1>7 DEF Torn, End, list
  <2>2. Quiet /\ Quiet'
    BY <1>1, <1>7 DEF Quiet
  <2>3. Tiled'
    BY <1>1, <1>2, <1>6, <2>1, <2>2 DEF Tiled, list, TypeOK
  <2> QED BY <1>6, <2>2, <2>3 DEF IndInv, HeldBlocksSafe, Coalesced, list
<1>11. \A b \in heads : Fits(b)' <=> Fits(b)
  BY <1>6 DEF Fits, list
<1>12. /\ c \in Int /\ n \in Int /\ start \in Int /\ Head = 0
       /\ \A b \in heads : b \in Int /\ b >= 0
  BY <1>1, <1>5, ListFacts DEF Head
<1>13. SearchInv'
  <2> SUFFICES ASSUME pc'[Syscall] = "search"
               PROVE  IF wrapped'
                      THEN /\ n < start
                           /\ \A b \in heads : b < n \/ b >= start => ~Fits(b)
                      ELSE /\ start <= n
                           /\ \A b \in heads : start <= b /\ b < n => ~Fits(b)
    BY <1>6, <1>7, <1>11 DEF SearchInv, list
  <2>1. CASE wrapped
    <3>1. wrapped' /\ ~r
      BY <1>4, <1>6, <2>1
    <3>2. c < start /\ \A b \in heads : b < c \/ b >= start => ~Fits(b)
      BY <1>1, <2>1 DEF IndInv, SearchInv
    <3>3. start >= n /\ n # start
      BY <1>1, <1>3, <1>7, <3>1, <3>2
    <3>4. \A b \in heads : b < n => b < c \/ b = c
      BY <1>3, <1>12
    <3>5. n < start
      BY <1>12, <3>3
    <3>6. ASSUME NEW b \in heads, b < n \/ b >= start PROVE ~Fits(b)
      <4>1. b < c \/ b = c \/ b >= start
        BY <3>4, <3>6
      <4> QED BY <1>1, <3>2, <4>1
    <3> QED BY <3>1, <3>5, <3>6
  <2>2. CASE ~wrapped /\ r
    <3>1. wrapped' /\ n = 0
      BY <1>5, <1>6, <1>12, <2>2
    <3>2. start <= c /\ \A b \in heads : start <= b /\ b < c => ~Fits(b)
      BY <1>1, <2>2 DEF IndInv, SearchInv
    <3>3. n < start
      BY <1>1, <1>7, <1>12, <3>1
    <3>4. \A b \in heads : b < c \/ b = c
      BY <1>3, <1>12, <2>2
    <3> QED BY <1>1, <1>12, <3>1, <3>2, <3>3, <3>4
  <2>3. CASE ~wrapped /\ ~r
    BY <1>1, <1>3, <1>5, <1>6, <1>7, <1>12, <2>3 DEF IndInv, SearchInv
  <2> QED BY <1>1, <2>1, <2>2, <2>3
<1>14. FailsOnlyWhenFull'
  <2> SUFFICES ASSUME pc'[Syscall] = "failed" PROVE \A b \in heads : ~Fits(b)
    BY <1>6, <1>11 DEF FailsOnlyWhenFull, list
  <2>0. wrapped' /\ n = start
    BY <1>7
  <2>1. CASE wrapped
    BY <1>1, <1>3, <1>4, <1>5, <1>6, <2>0, <1>12, <2>1 DEF IndInv, SearchInv
  <2>2. CASE ~wrapped /\ r
    BY <1>1, <1>3, <1>5, <1>6, <2>0, <1>12, <2>2 DEF IndInv, SearchInv
  <2> QED BY <1>1, <1>6, <2>0, <2>1, <2>2
<1>15. CoalesceInv'
  BY <1>7 DEF CoalesceInv
<1>16. MarkInv'
  BY <1>1, <1>6, <1>7 DEF IndInv, MarkInv, Held, list, Party
<1> QED BY <1>8, <1>9, <1>10, <1>13, <1>14, <1>15, <1>16 DEF IndInv

LEMMA FailStep ==
    ASSUME IndInv, Fail
    PROVE  IndInv'
<1> USE DEF IndInv, Fail, list, Return
<1>0. /\ pc[Reaper] \in {"idle", "mark"} /\ pc'[Syscall] = "idle"
      /\ pc'[Reaper] = pc[Reaper] /\ cur'[Reaper] = cur[Reaper]
      /\ pc[Syscall] = "failed" /\ Head \in heads /\ Head \in Addr
  BY DEF CallInv, TypeOK, Party, Syscall, Reaper, Tiled
<1>1. TypeOK'
  <2>1. TypeOK /\ 1 \in Nat /\ Syscall \in Party
    BY DEF Party
  <2> QED BY <1>0, <2>1 DEF TypeOK
<1>2. CallInv' /\ SearchInv' /\ FailsOnlyWhenFull' /\ CoalesceInv'
  BY <1>0 DEF CallInv, SearchInv, FailsOnlyWhenFull, CoalesceInv, Party, Syscall, Reaper
<1>3. Tiled' /\ HeldBlocksSafe' /\ Coalesced'
  BY <1>0 DEF Tiled, HeldBlocksSafe, Coalesced, Party, Torn, End, Quiet
<1>4. MarkInv'
  BY <1>0 DEF MarkInv, Held, Party
<1> QED BY <1>1, <1>2, <1>3, <1>4

LEMMA FreeCallStep ==
    ASSUME IndInv, ~collided', NEW t \in Party, Free(t)
    PROVE  IndInv'
<1> USE DEF IndInv, Free, list
<1>0. /\ \A u \in Party : pc[u] \in {"idle", "mark"}
      /\ \A u \in Party : pc'[u] = IF u = t THEN "mark" ELSE pc[u]
      /\ collided' \in BOOLEAN
  BY DEF Enters, CallEnters, ReaperRuns, CallInv, TypeOK, Party
<1>1. PICK h \in held : held' = held \ {h} /\ cur' = [cur EXCEPT ![t] = h.at]
  OBVIOUS
<1>2. h.at \in heads /\ h.at \in Addr /\ h.at \notin Held' /\ cur'[t] = h.at
  BY <1>1 DEF HeldBlocksSafe, Held, TypeOK
<1>3. TypeOK'
  BY <1>0, <1>1, <1>2 DEF TypeOK
<1>4. CallInv' /\ SearchInv' /\ FailsOnlyWhenFull' /\ CoalesceInv'
  BY <1>0, <1>2 DEF CallInv, SearchInv, FailsOnlyWhenFull, CoalesceInv, Party, Reaper, Syscall
<1>5. Tiled'
  BY <1>0 DEF Tiled, Torn, End, Quiet
<1>6. HeldBlocksSafe' /\ Coalesced'
  BY <1>0, <1>1 DEF HeldBlocksSafe, Coalesced, Quiet
<1>7. MarkInv'
  <2>1. \A u \in Party : pc'[u] = "mark" =>
          cur'[u] \in heads /\ cur'[u] \notin Held' /\ ~isFree[cur'[u]]
    <3>1. ~isFree[h.at] /\ Held' \subseteq Held
      BY <1>1 DEF HeldBlocksSafe, Held
    <3>2. cur \in [Party -> Addr]
      BY DEF TypeOK
    <3>3. \A u \in Party \ {t} : cur'[u] = cur[u] /\ pc'[u] = pc[u]
      BY <1>0, <1>1, <3>2
    <3>4. \A u \in Party : pc[u] = "mark" =>
            cur[u] \in heads /\ cur[u] \notin Held /\ ~isFree[cur[u]]
      BY DEF MarkInv
    <3> QED BY <1>2, <3>1, <3>3, <3>4
  <2>2. \A u \in Party \ {t} : pc'[u] = "mark" => cur'[u] # cur'[t]
    BY <1>0, <1>1, <1>2 DEF MarkInv, TypeOK, Held
  <2> QED BY <2>1, <2>2 DEF MarkInv, Party, Reaper, Syscall
<1> QED BY <1>3, <1>4, <1>5, <1>6, <1>7

LEMMA MarkStep ==
    ASSUME IndInv, NEW t \in Party, Mark(t)
    PROVE  IndInv'
<1> DEFINE a == cur[t]
<1>1. /\ a \in heads /\ a \notin Held /\ pc[t] = "mark" /\ TypeOK /\ Tiled
      /\ t = Reaper => pc[Syscall] = "idle"
      /\ \A u \in Party \ {t} : pc[u] \in {"idle", "mark"}
      /\ isFree' = [isFree EXCEPT ![a] = TRUE] /\ pc' = [pc EXCEPT ![t] = "count"]
      /\ UNCHANGED <<size, next, heads, nextFit, total, cur, start, wrapped, want, held, collided>>
  BY DEF IndInv, CallInv, MarkInv, Mark, Turn, ReaperRuns, Party, Reaper, Syscall
<1>8. \A u \in Party \ {t} : pc[u] = "mark" => cur[u] # a
  BY <1>1 DEF IndInv, MarkInv, Party
<1> HIDE DEF a
<1>2. \A u \in Party : pc'[u] \in {"idle", "mark", "count"} /\ (pc'[u] = "count" => u = t)
  BY <1>1 DEF TypeOK
<1>3. TypeOK'
  BY <1>1 DEF TypeOK
<1>4. CallInv' /\ SearchInv' /\ FailsOnlyWhenFull' /\ CoalesceInv'
  BY <1>1, <1>2 DEF IndInv, CallInv, SearchInv, FailsOnlyWhenFull, CoalesceInv, Party,
                    Reaper, Syscall, a
<1>5. Tiled'
  BY <1>1, <1>2 DEF Tiled, Torn, End, Quiet
<1>6. HeldBlocksSafe'
  BY <1>1 DEF IndInv, HeldBlocksSafe, Held, TypeOK
<1>7. Coalesced'
  BY <1>1, <1>2 DEF Coalesced, Quiet, TypeOK
<1>9. MarkInv'
  <2>1. \A u \in Party : pc'[u] = "mark" => u # t /\ pc[u] = "mark"
    BY <1>1 DEF TypeOK
  <2>2. \A u \in Party : pc'[u] = "mark" => /\ cur[u] \in heads /\ cur[u] \notin Held
                                          /\ ~isFree[cur[u]] /\ cur[u] # a
    BY <1>8, <2>1 DEF IndInv, MarkInv
  <2>3. Held' = Held
    BY <1>1 DEF Held
  <2> QED BY <1>1, <2>1, <2>2, <2>3, MarkKept DEF TypeOK
<1> QED BY <1>3, <1>4, <1>5, <1>6, <1>7, <1>9 DEF IndInv

LEMMA CountStep ==
    ASSUME IndInv, NEW t \in Party, Count(t)
    PROVE  IndInv'
<1>1. /\ t = Reaper => pc[Syscall] = "idle"
      /\ pc[t] = "count" /\ TypeOK /\ Tiled /\ cur[t] \in heads
      /\ \A u \in Party \ {t} : pc[u] \in {"idle", "mark"}
      /\ total' = total - size[cur[t]] /\ cur' = [cur EXCEPT ![t] = Head]
      /\ pc' = [pc EXCEPT ![t] = "coalesce"]
      /\ UNCHANGED <<list, nextFit, start, wrapped, want, held, collided>>
  BY DEF IndInv, CallInv, Count, Turn, ReaperRuns, Party, Reaper, Syscall
<1>2. /\ \A u \in Party : pc'[u] \in {"idle", "mark", "coalesce"} /\ (pc'[u] = "coalesce" => u = t)
      /\ cur'[t] = Head /\ Head \in heads /\ Head \in Addr
  BY <1>1, ListFacts DEF TypeOK
<1>3. TypeOK'
  <2>1. size[cur[t]] \in Nat
    BY <1>1 DEF TypeOK
  <2> QED BY <1>1, <1>2, <2>1 DEF TypeOK, list
<1>4. CallInv' /\ SearchInv' /\ FailsOnlyWhenFull'
  BY <1>1, <1>2 DEF CallInv, SearchInv, FailsOnlyWhenFull, Party, Reaper, Syscall, list
<1>5. CoalesceInv'
  BY <1>1, <1>2, ListFacts DEF CoalesceInv, Head, list
<1>6. Tiled' /\ HeldBlocksSafe' /\ Coalesced'
  BY <1>1, <1>2 DEF IndInv, Tiled, Torn, End, Quiet, HeldBlocksSafe, Coalesced, list
<1>7. MarkInv'
  <2>1. \A u \in Party : pc'[u] = "mark" =>
          u # t /\ pc[u] = "mark" /\ cur'[u] = cur[u]
    BY <1>1 DEF TypeOK
  <2>2. \A u \in Party : pc[u] = "mark" =>
          cur[u] \in heads /\ cur[u] \notin Held /\ ~isFree[cur[u]]
    BY DEF IndInv, MarkInv
  <2>3. Held' = Held /\ heads' = heads /\ isFree' = isFree
    BY <1>1 DEF Held, list
  <2> QED BY <2>1, <2>2, <2>3, MarkKept
<1> QED BY <1>3, <1>4, <1>5, <1>6, <1>7 DEF IndInv

LEMMA MergeSizeStep ==
    ASSUME IndInv, NEW t \in Party, MergeSize(t)
    PROVE  IndInv'
<1> DEFINE a == cur[t]
           b == next[a]
<1>1. /\ t = Reaper => pc[Syscall] = "idle"
      /\ a \in heads /\ pc[t] = "coalesce" /\ TypeOK /\ Tiled
      /\ \A u \in Party \ {t} : pc[u] \in {"idle", "mark"}
      /\ b # Null /\ isFree[a] /\ isFree[b]
      /\ size' = [size EXCEPT ![a] = size[a] + size[b] + HeaderWords]
      /\ pc' = [pc EXCEPT ![t] = "merge"]
      /\ UNCHANGED <<isFree, next, heads, nextFit, total, cur, start, wrapped, want, held, collided>>
  BY DEF IndInv, CallInv, MergeSize, AtPair, BothFree, Turn, ReaperRuns, Party, Reaper, Syscall
<1>0. a' = a
  BY <1>1
<1> HIDE DEF a
<1>2. /\ \A u \in Party : pc'[u] \in {"idle", "mark", "merge"} /\ (pc'[u] = "merge" => u = t)
      /\ pc'[t] = "merge"
  BY <1>1 DEF TypeOK
<1>3. \A x \in Addr : ~Torn(x)
  BY <1>1 DEF Torn
<1>4. /\ b \in heads /\ b = End(a) /\ b > a
  BY <1>1, <1>3, ListFacts
<1> HIDE DEF b
<1>5. /\ a \in Addr /\ b \in Addr /\ size[a] \in Nat /\ size[b] \in Nat
      /\ a \in Int /\ b \in Int /\ b < HeapWords /\ HeapWords \in Int /\ b = next[a]
  BY <1>1, <1>4, ListFacts, HeapAssumption DEF b
<1>6. TypeOK'
  <2>1. size[a] + size[b] + HeaderWords \in Nat
    BY <1>5 DEF HeaderWords
  <2> QED BY <1>1, <2>1 DEF TypeOK
<1>7. /\ \A x \in heads : x # a => End(x)' = End(x)
      /\ End(a)' = End(b)
      /\ End(b) <= HeapWords
  <2>1. /\ size'[a] = size[a] + size[b] + HeaderWords
        /\ \A x \in Addr : x # a => size'[x] = size[x]
    BY <1>1, <1>5 DEF TypeOK
  <2>0. heads \subseteq Addr
    BY <1>1 DEF TypeOK
  <2>2. \A x \in heads : x # a => End(x)' = End(x)
    BY <2>0, <2>1 DEF End, HeaderWords
  <2>3. End(a)' = End(b)
    BY <1>0, <1>4, <1>5, <2>1 DEF End, HeaderWords
  <2> QED BY <1>1, <1>4, <2>2, <2>3, ListFacts
<1>8. \A x \in heads : Torn(x)' <=> x = a
  BY <1>1, <1>2 DEF Torn, a
<1>9. CallInv'
  BY <1>1, <1>2, <1>4, <1>5, <1>7 DEF CallInv, Party, Reaper, Syscall, a
<1>10. SearchInv' /\ FailsOnlyWhenFull' /\ Coalesced'
  BY <1>1, <1>2 DEF SearchInv, FailsOnlyWhenFull, Coalesced, Quiet, Party, Syscall
<1>11. CoalesceInv'
  BY <1>1, <1>2 DEF IndInv, CoalesceInv, FreePair
<1>12. HeldBlocksSafe'
  <2> SUFFICES ASSUME NEW h \in held
               PROVE  /\ h.at \in heads /\ ~isFree[h.at]
                      /\ Representable(h.bytes) => 4 * size'[h.at] >= h.bytes
                      /\ \A g \in held : g.at = h.at => g = h
    BY <1>1 DEF HeldBlocksSafe
  <2>1. h.at \in heads /\ ~isFree[h.at] /\ h.at # a
    BY <1>1 DEF IndInv, HeldBlocksSafe
  <2>2. size'[h.at] = size[h.at]
    BY <1>1, <2>1 DEF TypeOK
  <2> QED BY <2>1, <2>2 DEF IndInv, HeldBlocksSafe
<1>13. Tiled'
  <2> SUFFICES ASSUME NEW x \in heads
               PROVE  LET e == IF x = a THEN b ELSE End(x) IN
                      /\ End(x)' <= HeapWords
                      /\ e > x /\ e <= HeapWords
                      /\ IF e = HeapWords THEN next[x] = Null ELSE next[x] = e /\ e \in heads
                      /\ \A y \in heads : y > x => y >= e
    <3>1. ~Quiet' /\ Head \in heads
      BY <1>1, <1>2, ListFacts DEF Quiet
    <3>2. heads' = heads /\ next' = next
      BY <1>1
    <3>3. \A x \in heads : (IF Torn(x)' THEN next'[x] ELSE End(x)') = IF x = a THEN b ELSE End(x)
      BY <1>5, <1>7, <1>8, <3>2
    <3> QED BY <3>1, <3>2, <3>3 DEF Tiled, Head, Null
  <2>1. CASE x = a
    <3>1. \A y \in heads : y > a => y >= b
      BY <1>1, <1>3, <1>4, <1>5, ListFacts
    <3> QED BY <1>0, <1>4, <1>5, <1>7, <2>1, <3>1
  <2>2. CASE x # a
    BY <1>1, <1>3, <1>5, <1>7, <2>2 DEF Tiled, TypeOK
  <2> QED BY <2>1, <2>2
<1>14. MarkInv'
  <2>1. \A u \in Party : pc'[u] = "mark" =>
          u # t /\ pc[u] = "mark" /\ cur'[u] = cur[u]
    BY <1>1 DEF TypeOK
  <2>2. \A u \in Party : pc[u] = "mark" =>
          cur[u] \in heads /\ cur[u] \notin Held /\ ~isFree[cur[u]]
    BY DEF IndInv, MarkInv
  <2>3. Held' = Held
    BY <1>1 DEF Held
  <2> QED BY <1>1, <2>1, <2>2, <2>3, MarkKept
<1> QED BY <1>6, <1>9, <1>10, <1>11, <1>12, <1>13, <1>14 DEF IndInv

LEMMA MergeNextStep ==
    ASSUME IndInv, NEW t \in Party, MergeNext(t)
    PROVE  IndInv'
<1> DEFINE a == cur[t]
           b == next[a]
<1>1. /\ t = Reaper => pc[Syscall] = "idle"
      /\ a \in heads /\ pc[t] = "merge" /\ TypeOK /\ Tiled
      /\ \A u \in Party \ {t} : pc[u] \in {"idle", "mark"}
      /\ b # Null /\ isFree[a] /\ isFree[b] /\ End(a) = End(b)
      /\ next' = [next EXCEPT ![a] = next[b]]
      /\ heads' = heads \ {b}
      /\ cur' = cur
      /\ pc' = [pc EXCEPT ![t] = "coalesce"]
      /\ UNCHANGED <<size, isFree, nextFit, total, start, wrapped, want, held, collided>>
  BY DEF IndInv, CallInv, MergeNext, AfterMerge, Turn, ReaperRuns, Party, Reaper, Syscall, TypeOK
<1>2. /\ \A u \in Party : pc'[u] \in {"idle", "mark", "coalesce"} /\ (pc'[u] = "coalesce" => u = t)
      /\ pc'[t] = "coalesce"
  BY <1>1 DEF TypeOK
<1>3. \A x \in heads : Torn(x) <=> x = a
  BY <1>1 DEF Torn
<1> HIDE DEF a
<1>4. /\ b \in heads /\ b > a /\ End(b) <= HeapWords
      /\ \A y \in heads : y > a => y >= b
  BY <1>1, <1>3 DEF Tiled
<1>5. /\ a \in Addr /\ b \in Addr /\ a \in Int /\ b \in Int /\ b # Head /\ b # a /\ b = next[a]
      /\ Head \in heads /\ heads \subseteq Addr /\ next[b] \in Addr \cup {Null}
  BY <1>1, <1>4, ListFacts DEF Head, TypeOK
<1>6. /\ End(b) > b
      /\ next[b] = Null => End(b) = HeapWords
      /\ next[b] # Null => next[b] = End(b) /\ next[b] \in heads
      /\ \A y \in heads : y > b => y >= End(b)
  BY <1>1, <1>3, <1>4, <1>5, ListFacts
<1> HIDE DEF b
<1>7. TypeOK'
  BY <1>1, <1>5 DEF TypeOK
<1>8. \A x \in heads' : End(x)' = End(x) /\ ~Torn(x)'
  BY <1>1, <1>2 DEF End, Torn, HeaderWords
<1>9. /\ next'[a] = next[b]
      /\ \A x \in heads : x # a => next'[x] = next[x]
  BY <1>1, <1>5 DEF TypeOK
<1>10. \A x \in heads : x # a => next[x] # b
  <2> SUFFICES ASSUME NEW x \in heads, x # a, next[x] = b PROVE FALSE
    OBVIOUS
  <2>1. ~Torn(x) /\ End(x) = b /\ x \in Int /\ x < b
    BY <1>1, <1>3, <1>5, ListFacts
  <2>2. CASE x > a
    BY <1>4, <1>5, <2>1, <2>2
  <2>3. CASE x < a
    BY <1>1, <1>4, <1>5, <2>1, <2>3, ListFacts
  <2> QED BY <1>5, <2>1, <2>2, <2>3
<1>11. CallInv'
  BY <1>1, <1>2, <1>5 DEF CallInv, Party, Reaper, Syscall, a
<1>12. SearchInv' /\ FailsOnlyWhenFull' /\ Coalesced'
  BY <1>1, <1>2 DEF SearchInv, FailsOnlyWhenFull, Coalesced, Quiet, Party, Syscall
<1>13. CoalesceInv'
  <2> SUFFICES ASSUME NEW x \in heads', x < a PROVE ~FreePair(x)'
    BY <1>1, <1>2 DEF CoalesceInv, a
  <2>1. ~FreePair(x) /\ next'[x] = next[x] /\ x \in heads
    BY <1>1, <1>5, <1>9 DEF IndInv, CoalesceInv, a
  <2> QED BY <1>1, <2>1 DEF FreePair, Null
<1>14. HeldBlocksSafe'
  <2>1. \A h \in held : h.at # b
    BY <1>1 DEF IndInv, HeldBlocksSafe
  <2> QED BY <1>1, <2>1 DEF IndInv, HeldBlocksSafe
<1>15. Tiled'
  <2>1. ~Quiet' /\ Head \in heads'
    BY <1>1, <1>2, <1>5 DEF Quiet
  <2>2. SUFFICES ASSUME NEW x \in heads'
                 PROVE  /\ End(x) <= HeapWords /\ End(x) > x
                        /\ IF End(x) = HeapWords THEN next'[x] = Null
                           ELSE next'[x] = End(x) /\ End(x) \in heads'
                        /\ \A y \in heads' : y > x => y >= End(x)
    BY <1>8, <2>1, <2>2 DEF Tiled, Head, Null
  <2>3. CASE x = a
    <3>1. next[b] # Null => next[b] # b
      BY <1>5, <1>6
    <3>2. \A y \in heads' : y > a => y > b
      BY <1>1, <1>4, <1>5, ListFacts
    <3>3. next[b] \in heads => next[b] # HeapWords
      BY <1>1, ListFacts
    <3> QED BY <1>1, <1>4, <1>5, <1>6, <1>9, <2>3, <3>1, <3>2, <3>3, ListFacts
  <2>4. CASE x # a
    <3>1. /\ x \in heads /\ ~Torn(x) /\ next'[x] = next[x] /\ next[x] # b
      BY <1>1, <1>3, <1>9, <1>10, <2>4
    <3> QED BY <1>1, <3>1 DEF Tiled
  <2> QED BY <2>3, <2>4
<1>16. MarkInv'
  <2>1. \A u \in Party : pc'[u] = "mark" =>
          u # t /\ pc[u] = "mark" /\ cur'[u] = cur[u]
    BY <1>1 DEF TypeOK
  <2>2. \A u \in Party : pc[u] = "mark" =>
          cur[u] \in heads /\ cur[u] \notin Held /\ ~isFree[cur[u]]
    BY DEF IndInv, MarkInv
  <2>3. Held' = Held
    BY <1>1 DEF Held
  <2> QED BY <1>1, <2>1, <2>2, <2>3, MarkKept
<1> QED BY <1>7, <1>11, <1>12, <1>13, <1>14, <1>15, <1>16 DEF IndInv

LEMMA AdvanceStep ==
    ASSUME IndInv, NEW t \in Party, Advance(t)
    PROVE  IndInv'
<1> DEFINE a == cur[t]
           b == next[a]
<1>1. /\ t = Reaper => pc[Syscall] = "idle"
      /\ a \in heads /\ pc[t] = "coalesce" /\ TypeOK /\ Tiled
      /\ \A u \in Party \ {t} : pc[u] \in {"idle", "mark"}
      /\ ~FreePair(a)
      /\ cur' = [cur EXCEPT ![t] = b]
      /\ b # Null
      /\ UNCHANGED <<list, nextFit, total, pc, start, wrapped, want, held, collided>>
  BY DEF IndInv, CallInv, Advance, AtPair, BothFree, AfterPair, FreePair, Turn, ReaperRuns, Party, Reaper, Syscall
<1>2. \A x \in Addr : ~Torn(x)
  BY <1>1 DEF Torn
<1>3. /\ b \in heads /\ b \in Addr /\ cur'[t] = b /\ a \in Int /\ b \in Int /\ b = End(a)
      /\ \A x \in heads : x \in Int /\ (x > a => x >= b)
  BY <1>1, <1>2, ListFacts DEF TypeOK
<1>4. \A x \in heads : x < b => x < a \/ x = a
  BY <1>3
<1> HIDE DEF b
<1>5. TypeOK'
  BY <1>1, <1>3 DEF TypeOK, list
<1>6. CallInv'
  BY <1>1, <1>3 DEF CallInv, Party, Reaper, Syscall, list
<1>7. SearchInv' /\ FailsOnlyWhenFull' /\ Coalesced'
  BY <1>1 DEF SearchInv, FailsOnlyWhenFull, Coalesced, Quiet, Party, Syscall
<1>8. CoalesceInv'
  <2>1. \A x \in heads : x < b => ~FreePair(x)
    BY <1>1, <1>4 DEF IndInv, CoalesceInv
  <2> QED BY <1>1, <1>3, <2>1 DEF CoalesceInv, FreePair, list, Null
<1>9. Tiled' /\ HeldBlocksSafe'
  <2>1. \A x \in Addr : ~Torn(x)' /\ End(x)' = End(x)
    BY <1>1 DEF Torn, End, list, HeaderWords
  <2>2. ~Quiet'
    BY <1>1 DEF Quiet
  <2> QED BY <1>1, <1>2, <2>1, <2>2 DEF IndInv, Tiled, HeldBlocksSafe, list, TypeOK, Head, Null
<1>10. MarkInv'
  <2>1. \A u \in Party : pc'[u] = "mark" =>
          u # t /\ pc[u] = "mark" /\ cur'[u] = cur[u]
    BY <1>1 DEF TypeOK
  <2>2. \A u \in Party : pc[u] = "mark" =>
          cur[u] \in heads /\ cur[u] \notin Held /\ ~isFree[cur[u]]
    BY DEF IndInv, MarkInv
  <2>3. Held' = Held /\ heads' = heads /\ isFree' = isFree
    BY <1>1 DEF Held, list
  <2> QED BY <2>1, <2>2, <2>3, MarkKept
<1> QED BY <1>5, <1>6, <1>7, <1>8, <1>9, <1>10 DEF IndInv

LEMMA FinishStep ==
    ASSUME IndInv, NEW t \in Party, Finish(t)
    PROVE  IndInv'
<1>1. /\ t = Reaper => pc[Syscall] = "idle"
      /\ cur[t] \in heads /\ pc[t] = "coalesce" /\ TypeOK /\ Tiled
      /\ \A u \in Party \ {t} : pc[u] \in {"idle", "mark"}
      /\ next[cur[t]] = Null /\ nextFit' = Head
      /\ Return(t)
      /\ heads' = heads /\ total' = total /\ held' = held /\ collided' = collided
  BY DEF IndInv, CallInv, Finish, Turn, ReaperRuns, Party, Reaper, Syscall
<1>2. /\ \A u \in Party : pc'[u] \in {"idle", "mark"}
      /\ pc'[t] = "idle"
      /\ Head \in heads /\ Head \in Addr /\ heads \subseteq Addr
      /\ \A x \in heads : x \in Int /\ x < HeapWords
  BY <1>1, ListFacts DEF TypeOK, Return
<1>3. /\ size' \in [Addr -> Nat] /\ isFree' \in [Addr -> BOOLEAN]
      /\ next' \in [Addr -> Addr \cup {Null}]
      /\ \A x \in heads : size'[x] = size[x] /\ isFree'[x] = isFree[x] /\ next'[x] = next[x]
  <2>1. CASE \A u \in Party \ {t} : pc[u] = "idle"
    <3>1. size' = Forget(size, 0) /\ isFree' = Forget(isFree, TRUE) /\ next' = Forget(next, Null)
      BY <2>1 DEF Finish
    <3>2. size' \in [Addr -> Nat] /\ \A x \in heads : size'[x] = size[x]
      BY <1>1, <1>2, <3>1 DEF Forget, TypeOK
    <3>3. isFree' \in [Addr -> BOOLEAN] /\ \A x \in heads : isFree'[x] = isFree[x]
      BY <1>1, <1>2, <3>1 DEF Forget, TypeOK
    <3>4. next' \in [Addr -> Addr \cup {Null}] /\ \A x \in heads : next'[x] = next[x]
      BY <1>1, <1>2, <3>1 DEF Forget, TypeOK
    <3> QED BY <3>2, <3>3, <3>4
  <2>2. CASE ~\A u \in Party \ {t} : pc[u] = "idle"
    <3>1. size' = size /\ isFree' = isFree /\ next' = next
      BY <2>2 DEF Finish
    <3> QED BY <1>1, <3>1 DEF TypeOK
  <2> QED BY <2>1, <2>2
<1>4. TypeOK'
  <2>1. start' \in Addr /\ wrapped' \in BOOLEAN /\ want' \in Nat
    <3>1. CASE t = Syscall
      <4>1. start' = Head /\ wrapped' = FALSE /\ want' = 1
        BY <1>1, <3>1 DEF Return
      <4> QED BY <1>2, <4>1
    <3>2. CASE ~(t = Syscall)
      BY <1>1, <3>2 DEF Return, TypeOK
    <3> QED BY <3>1, <3>2
  <2>2. pc' \in [Party -> {"idle", "search", "failed", "mark", "count", "coalesce", "merge"}]
    BY <1>1 DEF Return, TypeOK
  <2>3. cur' \in [Party -> Addr]
    BY <1>1, <1>2 DEF Return, TypeOK
  <2> QED BY <1>1, <1>2, <1>3, <2>1, <2>2, <2>3 DEF TypeOK
<1>5. CallInv' /\ SearchInv' /\ FailsOnlyWhenFull' /\ CoalesceInv'
  BY <1>2 DEF CallInv, SearchInv, FailsOnlyWhenFull, CoalesceInv, Party, Reaper, Syscall
<1>6. \A x \in heads : ~Torn(x) /\ ~Torn(x)' /\ End(x)' = End(x)
  BY <1>1, <1>2, <1>3 DEF Torn, End, HeaderWords
<1>7. Tiled'
  BY <1>1, <1>2, <1>3, <1>6 DEF Tiled, Head, Null
<1>8. HeldBlocksSafe'
  BY <1>1, <1>3 DEF IndInv, HeldBlocksSafe
<1>9. Coalesced'
  <2> SUFFICES ASSUME NEW x \in heads, next[x] # Null PROVE ~(isFree[x] /\ isFree[next[x]])
    BY <1>1, <1>3, <1>6, ListFacts DEF Coalesced, Null
  <2>1. \A y \in heads : y <= cur[t]
    BY <1>1, <1>2, <1>6, ListFacts
  <2>2. x # cur[t] /\ x <= cur[t] /\ x \in Int /\ cur[t] \in Int
    BY <1>1, <1>2, <2>1
  <2>3. x < cur[t]
    BY <2>2
  <2> QED BY <1>1, <2>3 DEF IndInv, CoalesceInv, FreePair
<1>10. MarkInv'
  <2>1. \A u \in Party : pc'[u] = "mark" =>
          u # t /\ pc[u] = "mark" /\ cur'[u] = cur[u]
    BY <1>1 DEF TypeOK, Return
  <2>2. \A u \in Party : pc[u] = "mark" =>
          cur[u] \in heads /\ cur[u] \notin Held /\ ~isFree[cur[u]]
    BY DEF IndInv, MarkInv
  <2>3. Held' = Held
    BY <1>1 DEF Held
  <2> QED BY <1>1, <1>3, <2>1, <2>2, <2>3, MarkKept
<1> QED BY <1>4, <1>5, <1>7, <1>8, <1>9, <1>10 DEF IndInv

LEMMA AllocateStep ==
    ASSUME IndInv, Allocate
    PROVE  IndInv'
<1> DEFINE a == cur[Syscall]
           w == Rounded(want)
           b == a + HeaderWords + w
<1>1. /\ a \in heads /\ pc[Syscall] = "search" /\ TypeOK /\ Tiled
      /\ \A u \in Party : pc[u] \in {"idle", "search", "mark"}
      /\ \A u \in Party \ {Syscall} : pc[u] \in {"idle", "mark"}
      /\ isFree[a] /\ size[a] >= w
      /\ nextFit' = NextFitFrom(next'[a])
      /\ held' = held \cup {[at |-> a, bytes |-> want]}
      /\ total' = total + Charge(a)
      /\ Return(Syscall)
      /\ collided' = collided
  BY DEF IndInv, CallInv, Allocate, Party, Reaper, Syscall, Fits
<1>2. /\ IF Splits(a)
         THEN /\ size' = [size EXCEPT ![a] = w, ![b] = size[a] - w - HeaderWords]
              /\ isFree' = [isFree EXCEPT ![a] = FALSE, ![b] = TRUE]
              /\ next' = [next EXCEPT ![a] = b, ![b] = next[a]]
              /\ heads' = heads \cup {b}
         ELSE /\ isFree' = [isFree EXCEPT ![a] = FALSE]
              /\ size' = size /\ next' = next /\ heads' = heads
      /\ Splits(a) <=> size[a] > w + HeaderWords + 1
  BY DEF Allocate, Splits, RestSize
<1>3. /\ want \in Nat /\ w \in Nat
      /\ Representable(want) => 4 * w >= want
  BY <1>1, RoundedFacts DEF TypeOK
<1>4. PICK a0 \in heads, w0 \in Nat : a0 = a /\ w0 = w
  BY <1>1, <1>3
<1>5. PICK b0 \in Int : b0 = a0 + HeaderWords + w0
  BY <1>1, <1>4, ListFacts DEF HeaderWords
<1>6. /\ b0 = b /\ isFree[a0] /\ size[a0] >= w0
      /\ held' = held \cup {[at |-> a0, bytes |-> want]}
      /\ Representable(want) => 4 * w0 >= want
      /\ Splits(a) <=> size[a0] > w0 + HeaderWords + 1
  BY <1>1, <1>2, <1>3, <1>4, <1>5
<1>7. /\ \A x \in Addr : ~Torn(x) /\ ~Torn(x)'
      /\ \A u \in Party : pc'[u] \in {"idle", "mark"}
      /\ pc'[Syscall] = "idle"
      /\ Quiet /\ Quiet'
  BY <1>1 DEF Torn, Return, TypeOK, Quiet, Party
<1>8. /\ a0 \in Addr /\ Head \in heads /\ Head \in Addr /\ heads \subseteq Addr
      /\ a0 \in Int /\ size[a0] \in Nat /\ End(a0) = a0 + 3 + size[a0] /\ End(a0) <= HeapWords
      /\ HeapWords \in Int
  BY <1>1, <1>4, ListFacts, HeapAssumption DEF End, HeaderWords
\* The list after the allocation, in the two cases.
<1> DEFINE ListAfter ==
      /\ size' \in [Addr -> Nat] /\ isFree' \in [Addr -> BOOLEAN]
      /\ next' \in [Addr -> Addr \cup {Null}] /\ heads' \subseteq Addr
      /\ heads \subseteq heads' /\ nextFit' \in heads'
      /\ ~isFree'[a0] /\ size'[a0] >= w0
      /\ \A x \in heads : x # a0 => size'[x] = size[x] /\ isFree'[x] = isFree[x]
      /\ Tiled' /\ Coalesced'
      /\ Charge(a) \in Int
<1>9. ASSUME Splits(a) PROVE ListAfter
  <2>1. /\ b0 \in Addr /\ b0 > a0 /\ b0 < End(a0) /\ size[a0] - w0 - HeaderWords \in Nat
    BY <1>5, <1>6, <1>8, <1>9 DEF Addr, HeaderWords
  <2>2. b0 \notin heads
    BY <1>1, <1>4, <1>7, <1>8, <2>1, ListFacts
  <2>3. /\ size' = [size EXCEPT ![a0] = w0, ![b0] = size[a0] - w0 - HeaderWords]
        /\ isFree' = [isFree EXCEPT ![a0] = FALSE, ![b0] = TRUE]
        /\ next' = [next EXCEPT ![a0] = b0, ![b0] = next[a0]]
        /\ heads' = heads \cup {b0}
    BY <1>2, <1>4, <1>6, <1>9
  <2>4. /\ size'[a0] = w0 /\ size'[b0] = size[a0] - w0 - HeaderWords
        /\ ~isFree'[a0] /\ isFree'[b0] /\ next'[a0] = b0 /\ next'[b0] = next[a0]
        /\ \A x \in heads : x # a0 => size'[x] = size[x] /\ isFree'[x] = isFree[x] /\ next'[x] = next[x]
        /\ size' \in [Addr -> Nat] /\ isFree' \in [Addr -> BOOLEAN]
        /\ next' \in [Addr -> Addr \cup {Null}]
    BY <1>1, <1>8, <2>1, <2>2, <2>3 DEF TypeOK
  <2>5. nextFit' = b0
    BY <1>1, <1>4, <2>1, <2>4 DEF NextFitFrom, Null, Addr
  <2>6. Tiled'
    <3>1. /\ a0 + HeaderWords + size'[a0] = b0
          /\ b0 + HeaderWords + size'[b0] = End(a0)
          /\ \A x \in heads : x # a0 => x + HeaderWords + size'[x] = End(x)
      BY <1>5, <1>8, <2>1, <2>4 DEF End, HeaderWords
    <3>2. SUFFICES ASSUME NEW x \in heads'
                   PROVE  LET e == x + HeaderWords + size'[x] IN
                          /\ e > x /\ e <= HeapWords
                          /\ IF e = HeapWords THEN next'[x] = Null
                             ELSE next'[x] = e /\ e \in heads'
                          /\ \A y \in heads' : y > x => y >= e
      <4>1. \A x \in heads' : End(x)' = x + HeaderWords + size'[x] /\ ~Torn(x)'
        BY <1>7, <1>8, <2>1, <2>3 DEF End, HeaderWords
      <4>2. Head \in heads' /\ nextFit' \in heads'
        BY <1>8, <2>3, <2>5
      <4> QED BY <3>2, <4>1, <4>2 DEF Tiled, Head, Null
    <3>3. CASE x = a0
      BY <1>1, <1>4, <1>7, <1>8, <2>1, <2>3, <2>4, <3>1, <3>3, ListFacts
    <3>4. CASE x = b0
      BY <1>1, <1>4, <1>7, <1>8, <2>1, <2>3, <2>4, <3>1, <3>4, ListFacts
    <3>5. CASE x \in heads /\ x # a0
      <4>1. /\ End(x) > x /\ End(x) <= HeapWords /\ x \in Int /\ End(x) \in Int
            /\ IF End(x) = HeapWords THEN next[x] = Null ELSE next[x] = End(x) /\ End(x) \in heads
            /\ \A y \in heads : y > x => y >= End(x)
        BY <1>1, <1>7, <1>8, <3>5, ListFacts DEF Tiled
      <4>2. b0 > x => b0 >= End(x)
        BY <1>1, <1>4, <1>7, <1>8, <2>1, <3>5, <4>1, ListFacts
      <4>3. x + HeaderWords + size'[x] = End(x) /\ next'[x] = next[x]
        BY <2>4, <3>1, <3>5
      <4>4. \A y \in heads' : y > x => y >= End(x)
        BY <2>3, <4>1, <4>2
      <4>5. IF End(x) = HeapWords THEN next'[x] = Null ELSE next'[x] = End(x) /\ End(x) \in heads'
        BY <2>3, <4>1, <4>3
      <4> QED BY <4>1, <4>3, <4>4, <4>5
    <3> QED BY <2>3, <3>3, <3>4, <3>5
  <2>7. Coalesced'
    <3> SUFFICES ASSUME NEW x \in heads', next'[x] # Null
                 PROVE  ~(isFree'[x] /\ isFree'[next'[x]])
      BY DEF Coalesced, Null
    <3>1. CASE x = a0
      BY <2>4, <3>1
    <3>2. CASE x = b0
      <4>1. next[a0] # Null /\ ~isFree[next[a0]] /\ next[a0] \in heads /\ next[a0] # a0
        BY <1>1, <1>4, <1>6, <1>7, <1>8, <2>4, <3>2, ListFacts DEF IndInv, Coalesced
      <4> QED BY <2>4, <3>2, <4>1
    <3>3. CASE x \in heads /\ x # a0
      <4>1. next[x] # Null /\ ~(isFree[x] /\ isFree[next[x]]) /\ next[x] \in heads
        BY <1>1, <1>7, <1>8, <2>4, <3>3, ListFacts DEF IndInv, Coalesced
      <4> QED BY <2>4, <3>3, <4>1
    <3> QED BY <2>3, <3>1, <3>2, <3>3
  <2>8. Charge(a) \in Int
    BY <1>3, <1>9 DEF Charge
  <2>9. heads' \subseteq Addr /\ heads \subseteq heads' /\ nextFit' \in heads'
    BY <1>8, <2>1, <2>3, <2>5
  <2>10. size'[a0] >= w0
    BY <2>4
  <2> QED BY <2>4, <2>6, <2>7, <2>8, <2>9, <2>10
<1>10. ASSUME ~Splits(a) PROVE ListAfter
  <2>1. /\ isFree' = [isFree EXCEPT ![a0] = FALSE]
        /\ size' = size /\ next' = next /\ heads' = heads
    BY <1>2, <1>4, <1>10
  <2>2. nextFit' \in heads
    BY <1>1, <1>4, <1>7, <1>8, <2>1, ListFacts DEF NextFitFrom
  <2>3. Tiled'
    BY <1>1, <1>7, <1>8, <2>1, <2>2 DEF Tiled, End, Head, Null, HeaderWords
  <2>4. Coalesced'
    <3> SUFFICES ASSUME NEW x \in heads, next[x] # Null
                 PROVE  ~(isFree'[x] /\ isFree'[next[x]])
      BY <2>1 DEF Coalesced, Null
    <3>1. next[x] \in heads /\ ~(isFree[x] /\ isFree[next[x]])
      BY <1>1, <1>7, <1>8, ListFacts DEF IndInv, Coalesced
    <3> QED BY <1>1, <1>8, <2>1, <3>1 DEF TypeOK
  <2>5. Charge(a) \in Int
    BY <1>4, <1>8, <1>10 DEF Charge
  <2> QED BY <1>1, <1>6, <1>8, <2>1, <2>2, <2>3, <2>4, <2>5 DEF TypeOK
<1>11. ListAfter
  BY <1>9, <1>10
<1>12. TypeOK'
  <2>1. start' \in Addr /\ wrapped' \in BOOLEAN /\ want' \in Nat
    <3>1. start' = Head /\ wrapped' = FALSE /\ want' = 1
      BY <1>1 DEF Return
    <3> QED BY <1>8, <3>1
  <2>2. pc' \in [Party -> {"idle", "search", "failed", "mark", "count", "coalesce", "merge"}]
    BY <1>1 DEF Return, TypeOK
  <2>3. cur' \in [Party -> Addr]
    BY <1>1, <1>8 DEF Return, TypeOK
  <2>4. total' \in Int /\ held' \subseteq [at : Addr, bytes : Nat]
    BY <1>1, <1>3, <1>6, <1>8, <1>11 DEF TypeOK
  <2>5. collided' \in BOOLEAN
    BY <1>1 DEF TypeOK
  <2> QED BY <1>11, <2>1, <2>2, <2>3, <2>4, <2>5 DEF TypeOK
<1>13. CallInv' /\ SearchInv' /\ FailsOnlyWhenFull' /\ CoalesceInv'
  BY <1>7 DEF CallInv, SearchInv, FailsOnlyWhenFull, CoalesceInv, Party, Reaper, Syscall
<1>14. HeldBlocksSafe'
  <2>1. \A h \in held : /\ h.at \in heads /\ h.at # a0 /\ ~isFree[h.at]
                        /\ Representable(h.bytes) => 4 * size[h.at] >= h.bytes
                        /\ \A g \in held : g.at = h.at => g = h
    BY <1>6 DEF IndInv, HeldBlocksSafe
  <2>2. ASSUME NEW h \in held'
        PROVE  /\ h.at \in heads' /\ ~isFree'[h.at]
               /\ Representable(h.bytes) => 4 * size'[h.at] >= h.bytes
               /\ \A g \in held' : g.at = h.at => g = h
    <3>1. CASE h \in held
      BY <1>6, <1>11, <2>1, <3>1
    <3>2. CASE h = [at |-> a0, bytes |-> want]
      <4>1. h.at = a0 /\ h.bytes = want
        BY <3>2
      <4>2. Representable(want) => 4 * size'[a0] >= want
        BY <1>3, <1>6, <1>8, <1>11
      <4> QED BY <1>6, <1>11, <2>1, <3>2, <4>1, <4>2
    <3> QED BY <1>6, <3>1, <3>2
  <2> QED BY <2>2 DEF HeldBlocksSafe
<1>15. MarkInv'
  <2>1. \A u \in Party : pc'[u] = "mark" =>
          u # Syscall /\ pc[u] = "mark" /\ cur'[u] = cur[u]
    BY <1>1 DEF TypeOK, Return
  <2>2. \A u \in Party : pc[u] = "mark" =>
          cur[u] \in heads /\ cur[u] \notin Held /\ ~isFree[cur[u]]
    BY DEF IndInv, MarkInv
  <2>3. \A u \in Party : pc[u] = "mark" => cur[u] # a0
    BY <1>6, <2>2
  <2>4. \A x \in Held' : x \in Held \/ x = a0
    <3>1. \A h \in held' : h \in held \/ h.at = a0
      BY <1>6
    <3> QED BY <3>1 DEF Held
  <2>5. \A u \in Party : pc[u] = "mark" => isFree'[cur[u]] = isFree[cur[u]] /\ cur[u] \in heads'
    BY <1>11, <2>2, <2>3
  <2> QED BY <2>1, <2>2, <2>3, <2>4, <2>5, MarkKept
<1> QED BY <1>11, <1>12, <1>13, <1>14, <1>15 DEF IndInv
-----------------------------------------------------------------------------
LEMMA Step == ASSUME IndInv, ~collided', [Next]_vars PROVE IndInv'
<1>1. CASE UNCHANGED vars
  BY <1>1 DEF IndInv, vars, list, TypeOK, CallInv, MarkInv, Tiled, HeldBlocksSafe, SearchInv,
              FailsOnlyWhenFull, CoalesceInv, Coalesced, Quiet, Torn, End, Held, Fits, FreePair
<1>2. ASSUME NEW n \in Requests, Malloc(n) PROVE IndInv'
  BY <1>2, MallocStep
<1>3. ASSUME NEW t \in Party, Free(t) PROVE IndInv'
  BY <1>3, FreeCallStep
<1>4. ASSUME NEW t \in Party, FreeStep(t) PROVE IndInv'
  BY <1>4, MarkStep, CountStep, MergeSizeStep, MergeNextStep, AdvanceStep, FinishStep
     DEF FreeStep
<1>5. CASE SyscallStep
  BY <1>4, <1>5, AllocateStep, TryNextStep, FailStep DEF SyscallStep, Party
<1> QED BY <1>1, <1>2, <1>3, <1>4, <1>5 DEF Next, Party

\* Once a call has met a list in between, that stays so.
LEMMA CollidedStays == ASSUME collided, [Next]_vars PROVE collided'
BY DEF Next, vars, Malloc, Free, Enters, CallEnters, SyscallStep, FreeStep, Allocate,
       TryNext, Fail, Mark, Count, MergeSize, MergeNext, Advance, Finish

\* The inductive invariant holds until then, of every heap size and every set
\* of requests.
THEOREM Invariant == Spec => [](collided \/ IndInv)
<1>1. Init => collided \/ IndInv
  BY InitInd
<1>2. (collided \/ IndInv) /\ [Next]_vars => (collided \/ IndInv)'
  BY CollidedStays, Step
<1> QED BY <1>1, <1>2, PTL DEF Spec

\* Until a system call meets a list that the reaper's free is changing, every
\* pointer stays in the heap and every size is a natural number.
THEOREM TypeCorrect == Spec => [](collided \/ TypeOK)
<1>1. collided \/ IndInv => collided \/ TypeOK
  BY DEF IndInv
<1> QED BY Invariant, <1>1, PTL

\* malloc's split and free's merges keep the list a tiling of the heap.
THEOREM HeapTiled == Spec => []TiledUntilHit
<1>1. collided \/ IndInv => TiledUntilHit
  BY DEF IndInv, TiledUntilHit
<1> QED BY Invariant, <1>1, PTL

\* A block stays its holder's alone, and large enough, until it is freed.
THEOREM HeldBlocksStaySafe == Spec => []HoldersSafeUntilHit
<1>1. collided \/ IndInv => HoldersSafeUntilHit
  BY DEF IndInv, HoldersSafeUntilHit
<1> QED BY Invariant, <1>1, PTL

\* The single pass of free is enough: no two neighbours stay free.
THEOREM FreeCoalesces == Spec => []CoalescedUntilHit
<1>1. collided \/ IndInv => CoalescedUntilHit
  BY DEF IndInv, CoalescedUntilHit
<1> QED BY Invariant, <1>1, PTL

\* The search that starts at next_fit_ptr and wraps once sees every block.
THEOREM MallocSearchComplete == Spec => []FailureTrueUntilHit
<1>1. collided \/ IndInv => FailureTrueUntilHit
  BY DEF IndInv, FailureTrueUntilHit
<1> QED BY Invariant, <1>1, PTL
-----------------------------------------------------------------------------
(* Sums over sets of addresses.                                            *)

SumOver(f, S) == MapThenSumSet(LAMBDA a : f[a], S)

\* g is the function that the fold of MapThenSumSet computes...
Folding(f, S, g) ==
    g = [s \in SUBSET S |->
           IF s = {} THEN 0
           ELSE f[CHOOSE x \in s : TRUE] + g[s \ {CHOOSE x \in s : TRUE}]]

\* ... and g the sums of f, whichever element is taken first.
Additive(f, D, g) ==
    /\ g \in [SUBSET D -> Int]
    /\ g[{}] = 0
    /\ \A s \in SUBSET D : \A x \in s : g[s] = f[x] + g[s \ {x}]

HasSum(f, D) == \E g : Additive(f, D, g)

\* From every subset of S, both g and h take one element off in the same way.
FoldAlike(f, S, g, h) ==
    /\ g[{}] = h[{}]
    /\ \A s \in SUBSET S : s # {} =>
          \E x \in s : g[s] = f[x] + g[s \ {x}] /\ h[s] = f[x] + h[s \ {x}]

LEMMA SumIsFold ==
  ASSUME NEW f, NEW S
  PROVE  SumOver(f, S) = (CHOOSE g : Folding(f, S, g))[S]
  BY DEF SumOver, MapThenSumSet, MapThenFoldSet, Folding

\* Every set of numbers that is not empty has a least one.
LEMMA LeastNumber ==
  ASSUME NEW T, T \subseteq Nat, T # {}
  PROVE  \E x \in T : \A y \in T : x <= y
<1>1. \E R : IsWellFoundedOn(R, Nat) /\ \A x, y \in Nat : <<y, x>> \in R <=> y < x
  <2>1. \A x, y \in Nat : <<y, x>> \in OpToRel(<, Nat) <=> y < x
    BY DEF OpToRel
  <2> QED BY <2>1, NatLessThanWellFounded, Zenon
<1>2. PICK R : IsWellFoundedOn(R, Nat) /\ \A x, y \in Nat : <<y, x>> \in R <=> y < x
  BY <1>1
<1>3. PICK x \in T : \A y \in T : ~ (<<y, x>> \in R)
  BY <1>2, WFMin
<1>4. \A m, n \in Nat : <<m, n>> \in R <=> m < n
  BY <1>2
<1>5. \A y \in T : ~ (y < x)
  BY <1>3, <1>4
<1> QED BY <1>5

\* Two functions on the subsets of a finite set are the same there when both
\* take one element, the same, off every set in the same way.
LEMMA FoldsAgree ==
  ASSUME NEW S, IsFiniteSet(S), NEW f, NEW g, NEW h, FoldAlike(f, S, g, h)
  PROVE  \A s \in SUBSET S : g[s] = h[s]
<1> SUFFICES ASSUME NEW u \in SUBSET S, g[u] # h[u] PROVE FALSE
  OBVIOUS
<1> DEFINE T == {Cardinality(s) : s \in {r \in SUBSET S : g[r] # h[r]}}
<1>1. \A s \in SUBSET S : IsFiniteSet(s) /\ Cardinality(s) \in Nat
  BY FS_Subset, FS_CardinalityType
<1>2. T \subseteq Nat /\ T # {}
  BY <1>1
<1>3. PICK k \in T : \A y \in T : k <= y
  BY <1>2, LeastNumber
<1>4. PICK s \in SUBSET S : g[s] # h[s] /\ k = Cardinality(s)
  OBVIOUS
<1>5. PICK x \in s : g[s] = f[x] + g[s \ {x}] /\ h[s] = f[x] + h[s \ {x}]
  BY <1>4 DEF FoldAlike
<1>6. Cardinality(s \ {x}) = k - 1 /\ s \ {x} \in SUBSET S /\ k \in Nat
  BY <1>1, <1>4, FS_RemoveElement
<1>7. g[s \ {x}] # h[s \ {x}]
  BY <1>4, <1>5
<1>8. k - 1 \in T
  BY <1>6, <1>7
<1> QED BY <1>3, <1>6, <1>8

\* Sums exist: of the addresses below n for every n, by adding one address.
LEMMA SumsExist ==
  ASSUME NEW f \in [Addr -> Int]
  PROVE  HasSum(f, Addr)
<1> DEFINE Below(n) == 0 .. n - 1
           T == {n \in 0 .. HeapWords : ~ HasSum(f, Below(n))}
<1>0. HeapWords \in Nat /\ Addr = Below(HeapWords)
  BY HeapAssumption DEF Addr
<1> SUFFICES ASSUME T # {} PROVE FALSE
  BY <1>0
<1>1. PICK n \in T : \A y \in T : n <= y
  <2>1. T \subseteq Nat
    BY <1>0
  <2> QED BY <2>1, LeastNumber
<1>2. n # 0
  <2>1. Below(0) = {}
    OBVIOUS
  <2>2. Additive(f, {}, [s \in {{}} |-> 0])
    BY DEF Additive
  <2> QED BY <2>1, <2>2 DEF HasSum
<1>3. PICK m \in Nat : n = m + 1 /\ m < HeapWords
  BY <1>0, <1>2
<1>4. PICK g : Additive(f, Below(m), g)
  <2>1. m \in 0 .. HeapWords /\ m \notin T
    BY <1>0, <1>1, <1>3
  <2> QED BY <2>1 DEF HasSum
<1> DEFINE h == [s \in SUBSET Below(n) |->
                   IF m \in s THEN f[m] + g[s \ {m}] ELSE g[s]]
<1>5. /\ m \in Below(n) /\ m \in Addr /\ f[m] \in Int
      /\ \A s \in SUBSET Below(n) : s \ {m} \in SUBSET Below(m)
      /\ \A s \in SUBSET Below(n) : m \notin s => s \in SUBSET Below(m)
      /\ \A x \in Below(m) : x \in Addr /\ f[x] \in Int /\ x # m
  BY <1>0, <1>3
<1>6. Additive(f, Below(n), h)
  <2>1. h \in [SUBSET Below(n) -> Int] /\ h[{}] = 0
    <3>1. \A s \in SUBSET Below(m) : g[s] \in Int
      BY <1>4 DEF Additive
    <3>2. g[{}] = 0
      BY <1>4 DEF Additive
    <3> HIDE DEF Below
    <3> QED BY <1>5, <3>1, <3>2
  <2>2. ASSUME NEW s \in SUBSET Below(n), NEW x \in s
        PROVE  h[s] = f[x] + h[s \ {x}]
    <3> HIDE DEF Below
    <3>1. CASE x = m
      BY <1>5, <3>1
    <3>2. CASE x # m /\ m \notin s
      <4>1. s \in SUBSET Below(m) /\ m \notin s \ {x} /\ s \ {x} \in SUBSET Below(n)
        BY <1>5, <3>2
      <4>2. g[s] = f[x] + g[s \ {x}]
        BY <1>4, <4>1 DEF Additive
      <4> QED BY <3>2, <4>1, <4>2
    <3>3. CASE x # m /\ m \in s
      <4>1. PICK r \in SUBSET Below(m) : r = s \ {m}
        BY <1>5
      <4>2. (s \ {x}) \ {m} = r \ {x} /\ x \in r /\ m \in s \ {x} /\ s \ {x} \in SUBSET Below(n)
        BY <3>3, <4>1
      <4>3. g[r] = f[x] + g[r \ {x}] /\ g[r \ {x}] \in Int
        BY <1>4, <4>1, <4>2 DEF Additive
      <4>4. h[s] = f[m] + g[r] /\ h[s \ {x}] = f[m] + g[r \ {x}]
        BY <3>3, <4>1, <4>2
      <4>5. f[x] \in Int /\ f[m] \in Int
        BY <1>5, <4>1, <4>2
      <4> QED BY <4>3, <4>4, <4>5
    <3> QED BY <3>1, <3>2, <3>3
  <2> QED
    <3> HIDE DEF h, Below
    <3> QED BY <2>1, <2>2 DEF Additive
<1> HIDE DEF h
<1> QED BY <1>1, <1>6 DEF HasSum

LEMMA AddrFinite == \A S \in SUBSET Addr : IsFiniteSet(S)
<1>1. IsFiniteSet(0 .. HeapWords - 1)
  BY HeapAssumption, FS_Interval
<1> QED BY <1>1, FS_Subset DEF Addr

\* The fold computes the sums.
LEMMA SumIs ==
  ASSUME NEW f \in [Addr -> Int], NEW g, Additive(f, Addr, g), NEW S \in SUBSET Addr
  PROVE  SumOver(f, S) = g[S]
<1> DEFINE One(s) == CHOOSE x \in s : TRUE
           h == CHOOSE k : Folding(f, S, k)
           G == [s \in SUBSET S |-> g[s]]
<1>1. \A s \in SUBSET S : s # {} => One(s) \in s /\ s \ {One(s)} \in SUBSET S
  OBVIOUS
<1>2. \A s \in SUBSET S : s # {} => g[s] = f[One(s)] + g[s \ {One(s)}]
  BY <1>1 DEF Additive
<1>3. Folding(f, S, G)
  <2>1. G = [s \in SUBSET S |-> IF s = {} THEN 0 ELSE f[One(s)] + G[s \ {One(s)}]]
    <3>1. ASSUME NEW s \in SUBSET S
          PROVE  G[s] = IF s = {} THEN 0 ELSE f[One(s)] + G[s \ {One(s)}]
      <4> HIDE DEF One
      <4>1. CASE s = {}
        BY <4>1 DEF Additive
      <4>2. CASE s # {}
        BY <1>1, <1>2, <4>2
      <4> QED BY <4>1, <4>2
    <3> HIDE DEF One
    <3> QED BY <3>1
  <2> QED BY <2>1 DEF Folding
<1>4. Folding(f, S, h)
  <2> HIDE DEF G
  <2> QED BY <1>3
<1>5. /\ h[{}] = 0
      /\ \A s \in SUBSET S : s # {} => h[s] = f[One(s)] + h[s \ {One(s)}]
  <2> HIDE DEF h
  <2>1. h = [s \in SUBSET S |-> IF s = {} THEN 0 ELSE f[One(s)] + h[s \ {One(s)}]]
    BY <1>4 DEF Folding
  <2> HIDE DEF One
  <2> QED BY <2>1
<1>6. \A s \in SUBSET S : g[s] = h[s]
  <2>1. g[{}] = h[{}]
    BY <1>5 DEF Additive
  <2>2. \A s \in SUBSET S : s # {} =>
           \E x \in s : g[s] = f[x] + g[s \ {x}] /\ h[s] = f[x] + h[s \ {x}]
    <3> HIDE DEF h, One
    <3> QED BY <1>1, <1>2, <1>5
  <2> HIDE DEF h
  <2>3. FoldAlike(f, S, g, h)
    BY <2>1, <2>2 DEF FoldAlike
  <2> QED BY <2>3, AddrFinite, FoldsAgree
<1> QED BY <1>6, SumIsFold

LEMMA SumAdds ==
  ASSUME NEW f \in [Addr -> Int], NEW S \in SUBSET Addr, NEW x \in S
  PROVE  /\ SumOver(f, S) \in Int
         /\ SumOver(f, S \ {x}) \in Int
         /\ SumOver(f, S) = f[x] + SumOver(f, S \ {x})
<1>1. PICK g : Additive(f, Addr, g)
  BY SumsExist DEF HasSum
<1>2. SumOver(f, S) = g[S] /\ SumOver(f, S \ {x}) = g[S \ {x}]
  BY <1>1, SumIs
<1> QED BY <1>1, <1>2 DEF Additive

LEMMA SumEmpty ==
  ASSUME NEW f \in [Addr -> Int]
  PROVE  SumOver(f, {}) = 0
<1>1. PICK g : Additive(f, Addr, g)
  BY SumsExist DEF HasSum
<1> QED BY <1>1, SumIs DEF Additive

\* Only the values on the set count.
LEMMA SumSame ==
  ASSUME NEW f \in [Addr -> Int], NEW e \in [Addr -> Int], NEW S \in SUBSET Addr,
         \A a \in S : f[a] = e[a]
  PROVE  SumOver(f, S) = SumOver(e, S)
<1>1. PICK g : Additive(f, Addr, g)
  BY SumsExist DEF HasSum
<1>2. PICK h : Additive(e, Addr, h)
  BY SumsExist DEF HasSum
<1>3. ASSUME NEW s \in SUBSET S, s # {}
      PROVE  \E x \in s : g[s] = f[x] + g[s \ {x}] /\ h[s] = f[x] + h[s \ {x}]
  <2>1. PICK x \in s : TRUE
    BY <1>3
  <2>2. g[s] = f[x] + g[s \ {x}]
    BY <1>1 DEF Additive
  <2>3. h[s] = e[x] + h[s \ {x}]
    BY <1>2 DEF Additive
  <2>4. f[x] = e[x]
    OBVIOUS
  <2> QED BY <2>2, <2>3, <2>4
<1>4. g[{}] = h[{}]
  BY <1>1, <1>2 DEF Additive
<1>5. \A s \in SUBSET S : g[s] = h[s]
  <2>1. FoldAlike(f, S, g, h)
    BY <1>3, <1>4 DEF FoldAlike
  <2> QED BY <2>1, AddrFinite, FoldsAgree
<1> QED BY <1>1, <1>2, <1>5, SumIs

-----------------------------------------------------------------------------
(* total_used_memory.                                                      *)

UsedBlocks == {a \in heads : ~isFree[a]}
UsedWords == SumOver(size, UsedBlocks)

\* The count is the sum of the blocks in use, and between free's two first
\* stores also the block that was in use until then.
AccountInv ==
    /\ (\A t \in Party : pc[t] # "count") => total = UsedWords
    /\ \A t \in Party : pc[t] = "count" => total = UsedWords + size[cur[t]]

LEMMA AccountInit == Init => AccountInv
<1> SUFFICES ASSUME Init PROVE AccountInv
  OBVIOUS
<1>1. IndInv /\ size \in [Addr -> Int]
  BY InitInd DEF IndInv, TypeOK
<1>2. UsedBlocks = {} /\ total = 0 /\ \A t \in Party : pc[t] = "idle"
  BY HeapAssumption DEF Init, UsedBlocks, Head, Addr, HeaderWords
<1>3. UsedWords = 0
  BY <1>1, <1>2, SumEmpty DEF UsedWords
<1> QED BY <1>2, <1>3 DEF AccountInv

\* What the steps below use of the state before them.
LEMMA AccountFacts ==
  ASSUME IndInv
  PROVE  /\ size \in [Addr -> Int] /\ isFree \in [Addr -> BOOLEAN]
         /\ heads \in SUBSET Addr /\ UsedBlocks \in SUBSET Addr
         /\ pc \in [Party -> {"idle", "search", "failed", "mark", "count", "coalesce", "merge"}]
         /\ cur \in [Party -> Addr] /\ total \in Int
         /\ Party = {Reaper, Syscall} /\ Reaper # Syscall
         /\ pc[Reaper] \in {"idle", "mark"} \/ pc[Syscall] = "idle"
         /\ pc[Reaper] \notin {"search", "failed"}
  BY DEF IndInv, TypeOK, CallInv, UsedBlocks, Party, Reaper, Syscall

\* A step that leaves the blocks in use and the count alone, while no call is
\* between the two first stores of free.
LEMMA AccountKept ==
  ASSUME IndInv, AccountInv, total' = total,
         UsedBlocks' = UsedBlocks, size' \in [Addr -> Int],
         \A a \in UsedBlocks : size'[a] = size[a],
         \A t \in Party : pc[t] # "count" /\ pc'[t] # "count"
  PROVE  AccountInv'
<1>1. UsedWords' = UsedWords
  <2>1. SumOver(size', UsedBlocks) = SumOver(size, UsedBlocks)
    BY AccountFacts, SumSame
  <2> QED BY <2>1 DEF UsedWords
<1> QED BY <1>1 DEF AccountInv

LEMMA AccountAllocate ==
  ASSUME IndInv, AccountInv, Allocate
  PROVE  AccountInv'
<1> DEFINE a == cur[Syscall]
           w == Rounded(want)
           b == a + HeaderWords + w
<1>1. /\ a \in heads /\ pc[Syscall] = "search" /\ pc[Reaper] \in {"idle", "mark"}
      /\ isFree[a] /\ size[a] >= w /\ w \in Nat /\ size[a] \in Nat /\ a \in Int
      /\ total' = total + Charge(a)
      /\ Return(Syscall)
  <2>1. /\ pc[Syscall] = "search" /\ isFree[a] /\ size[a] >= w
        /\ total' = total + Charge(a) /\ Return(Syscall)
    BY DEF Allocate, Fits
  <2>2. a \in heads /\ pc[Reaper] \in {"idle", "mark"}
    BY <2>1, AccountFacts DEF IndInv, CallInv
  <2>3. want \in Nat /\ size[a] \in Nat /\ a \in Int
    <3>1. want \in Nat
      BY DEF IndInv, TypeOK
    <3>2. \A c \in heads : size[c] \in Nat /\ c \in Int
      BY ListFacts DEF IndInv
    <3> QED BY <2>2, <3>1, <3>2
  <2> QED BY <2>1, <2>2, <2>3, RoundedFacts
<1>2. IndInv'
  BY AllocateStep
<1>3. /\ IF Splits(a)
         THEN /\ size' = [size EXCEPT ![a] = w, ![b] = size[a] - w - HeaderWords]
              /\ isFree' = [isFree EXCEPT ![a] = FALSE, ![b] = TRUE]
              /\ heads' = heads \cup {b}
         ELSE /\ isFree' = [isFree EXCEPT ![a] = FALSE]
              /\ size' = size /\ heads' = heads
      /\ Splits(a) <=> size[a] > w + HeaderWords + 1
      /\ Charge(a) = IF Splits(a) THEN w ELSE size[a]
  BY DEF Allocate, Splits, RestSize, Charge
<1>4. Splits(a) => b \notin heads /\ b # a
  <2>1. ~Torn(a)
    BY <1>1, AccountFacts DEF Torn
  <2>2. \A c \in heads : c > a => c >= End(a)
    BY <1>1, <2>1, ListFacts DEF IndInv
  <2>3. Splits(a) => b > a /\ b < End(a)
    BY <1>1, <1>3 DEF End, HeaderWords
  <2>4. End(a) \in Int /\ b \in Int
    BY <1>1 DEF End, HeaderWords
  <2> QED BY <1>1, <2>2, <2>3, <2>4
<1>5. /\ a \in Addr /\ size' \in [Addr -> Int] /\ isFree' \in [Addr -> BOOLEAN]
      /\ \A c \in heads : c \in Addr
      /\ Splits(a) => b \in Addr
  <2>1. heads' \subseteq Addr /\ size' \in [Addr -> Int] /\ isFree' \in [Addr -> BOOLEAN]
    BY <1>2 DEF IndInv, TypeOK
  <2> QED BY <1>1, <1>3, <2>1, AccountFacts
<1>6. /\ UsedBlocks' = UsedBlocks \cup {a}
      /\ a \notin UsedBlocks
      /\ size'[a] = Charge(a)
      /\ \A c \in UsedBlocks : size'[c] = size[c]
  <2> HIDE DEF a, w, b
  <2>1. /\ a \in heads' /\ ~isFree'[a] /\ size'[a] = Charge(a)
        /\ \A c \in heads : c # a => size'[c] = size[c] /\ isFree'[c] = isFree[c]
        /\ heads' = heads \/ (heads' = heads \cup {b} /\ isFree'[b])
    <3>1. CASE Splits(a)
      <4>1. /\ size'[a] = w /\ isFree'[a] = FALSE /\ isFree'[b] = TRUE
            /\ \A c \in Addr : c # a /\ c # b => size'[c] = size[c] /\ isFree'[c] = isFree[c]
        BY <1>3, <1>4, <1>5, <3>1, AccountFacts
      <4>2. \A c \in heads : c # b
        BY <1>4, <3>1
      <4> QED BY <1>1, <1>3, <1>5, <3>1, <4>1, <4>2
    <3>2. CASE ~Splits(a)
      <4>1. /\ size' = size /\ heads' = heads /\ isFree'[a] = FALSE
            /\ \A c \in Addr : c # a => isFree'[c] = isFree[c]
        BY <1>3, <1>5, <3>2, AccountFacts
      <4> QED BY <1>1, <1>3, <1>5, <3>2, <4>1
    <3> QED BY <3>1, <3>2
  <2>2. a \notin UsedBlocks /\ \A c \in UsedBlocks : c \in heads /\ c # a
    BY <1>1 DEF UsedBlocks
  <2>3. ASSUME NEW c PROVE c \in UsedBlocks' <=> c \in UsedBlocks \cup {a}
    BY <2>1, <2>2 DEF UsedBlocks
  <2> QED BY <2>1, <2>2, <2>3
<1>7. SumOver(size', UsedBlocks) = SumOver(size, UsedBlocks)
  BY <1>5, <1>6, AccountFacts, SumSame
<1>8. PICK U \in SUBSET Addr : U = UsedBlocks \cup {a}
  BY <1>5, AccountFacts
<1>9. U \ {a} = UsedBlocks /\ a \in U
  BY <1>6, <1>8
<1>10. SumOver(size', U) = size'[a] + SumOver(size', U \ {a}) /\ SumOver(size', U \ {a}) \in Int
  BY <1>5, <1>9, SumAdds
<1>11. UsedWords' = Charge(a) + UsedWords /\ UsedWords \in Int
  BY <1>6, <1>7, <1>8, <1>9, <1>10 DEF UsedWords
<1>12. total = UsedWords /\ \A t \in Party : pc'[t] # "count"
  BY <1>1, AccountFacts DEF AccountInv, Return
<1>13. total' = UsedWords'
  BY <1>1, <1>3, <1>11, <1>12
<1> QED BY <1>12, <1>13 DEF AccountInv

LEMMA AccountMark ==
  ASSUME IndInv, AccountInv, NEW t \in Party, Mark(t)
  PROVE  AccountInv'
<1>1. PICK c \in Addr : c = cur[t]
  BY AccountFacts
<1>2. /\ pc[t] = "mark" /\ ~isFree[c] /\ c \in heads
      /\ isFree' = [isFree EXCEPT ![c] = TRUE] /\ pc' = [pc EXCEPT ![t] = "count"]
      /\ size' = size /\ heads' = heads /\ total' = total /\ cur' = cur
      /\ \A u \in Party \ {t} : pc[u] \in {"idle", "mark"}
  BY <1>1, AccountFacts DEF Mark, AccountInv, IndInv, CallInv, MarkInv, Turn, ReaperRuns
<1>3. c \in UsedBlocks /\ UsedBlocks' = UsedBlocks \ {c}
  BY <1>2, AccountFacts DEF UsedBlocks
<1>4. /\ SumOver(size, UsedBlocks) = size[c] + SumOver(size, UsedBlocks \ {c})
      /\ SumOver(size, UsedBlocks \ {c}) \in Int
  BY <1>3, AccountFacts, SumAdds
<1>5. total = UsedWords
  BY <1>2, AccountFacts DEF AccountInv
<1>6. UsedWords' = SumOver(size, UsedBlocks \ {c})
  BY <1>2, <1>3 DEF UsedWords
<1>7. total' = UsedWords' + size'[cur'[t]] /\ size[c] \in Int
  BY <1>1, <1>2, <1>4, <1>5, <1>6, AccountFacts DEF UsedWords
<1>8. pc'[t] = "count" /\ \A u \in Party \ {t} : pc'[u] # "count"
  BY <1>2, AccountFacts
<1> QED BY <1>7, <1>8 DEF AccountInv

LEMMA AccountCount ==
  ASSUME IndInv, AccountInv, NEW t \in Party, Count(t)
  PROVE  AccountInv'
<1>1. /\ pc[t] = "count" /\ total' = total - size[cur[t]]
      /\ pc' = [pc EXCEPT ![t] = "coalesce"]
      /\ size' = size /\ isFree' = isFree /\ heads' = heads
      /\ \A u \in Party \ {t} : pc[u] \in {"idle", "mark"}
  BY AccountFacts DEF Count, Turn, ReaperRuns, list
<1>2. UsedWords' = UsedWords
  BY <1>1 DEF UsedWords, UsedBlocks
<1>3. total = UsedWords + size[cur[t]] /\ size[cur[t]] \in Int
  BY <1>1, AccountFacts DEF AccountInv
<1>4. UsedWords \in Int
  <2>1. PICK g : Additive(size, Addr, g)
    BY AccountFacts, SumsExist DEF HasSum
  <2>2. UsedWords = g[UsedBlocks]
    BY <2>1, AccountFacts, SumIs DEF UsedWords
  <2> QED BY <2>1, <2>2, AccountFacts DEF Additive
<1>5. total' = UsedWords'
  BY <1>1, <1>2, <1>3, <1>4
<1>6. \A u \in Party : pc'[u] # "count"
  BY <1>1, AccountFacts
<1> QED BY <1>5, <1>6 DEF AccountInv

\* free's loop merges free blocks, which are not counted.
LEMMA AccountMerge ==
  ASSUME IndInv, AccountInv, NEW t \in Party,
         MergeSize(t) \/ MergeNext(t) \/ Advance(t) \/ Finish(t)
  PROVE  AccountInv'
<1>0. /\ pc[t] \in {"coalesce", "merge"} /\ cur[t] \in heads
      /\ \A u \in Party \ {t} : pc[u] \in {"idle", "mark"}
      /\ \A u \in Party : pc'[u] # "count"
      /\ total' = total
  BY AccountFacts DEF IndInv, CallInv, Turn, ReaperRuns, MergeSize, MergeNext, Advance, Finish, AtPair, Return, list
<1>1. CASE MergeSize(t)
  <2>1. /\ isFree[cur[t]] /\ isFree' = isFree /\ heads' = heads
        /\ \A a \in Addr \ {cur[t]} : size'[a] = size[a]
    BY <1>1, AccountFacts DEF MergeSize, BothFree
  <2>2. UsedBlocks' = UsedBlocks /\ cur[t] \notin UsedBlocks
    BY <2>1 DEF UsedBlocks
  <2>3. size' \in [Addr -> Int]
    BY <1>1, MergeSizeStep DEF IndInv, TypeOK
  <2> QED BY <1>0, <2>1, <2>2, <2>3, AccountKept, AccountFacts
<1>2. CASE MergeNext(t)
  <2>1. isFree[next[cur[t]]] /\ size' = size /\ isFree' = isFree /\ heads' = heads \ {next[cur[t]]}
    BY <1>2 DEF MergeNext, IndInv, CallInv
  <2>2. UsedBlocks' = UsedBlocks
    BY <2>1 DEF UsedBlocks
  <2> QED BY <1>0, <2>1, <2>2, AccountKept, AccountFacts
<1>3. CASE Advance(t)
  <2>1. size' = size /\ UsedBlocks' = UsedBlocks
    BY <1>3 DEF Advance, UsedBlocks, list
  <2> QED BY <1>0, <2>1, AccountKept, AccountFacts
<1>4. CASE Finish(t)
  <2>1. heads' = heads /\ \A a \in heads : size'[a] = size[a] /\ isFree'[a] = isFree[a]
    BY <1>4, AccountFacts DEF Finish, Forget
  <2>2. UsedBlocks' = UsedBlocks
    BY <2>1 DEF UsedBlocks
  <2>3. \A a \in UsedBlocks : size'[a] = size[a]
    BY <2>1 DEF UsedBlocks
  <2>4. size' \in [Addr -> Int]
    BY <1>4, FinishStep DEF IndInv, TypeOK
  <2> QED BY <1>0, <2>2, <2>3, <2>4, AccountKept
<1> QED BY <1>1, <1>2, <1>3, <1>4

LEMMA AccountStep == ASSUME IndInv, AccountInv, ~collided', [Next]_vars PROVE AccountInv'
<1>1. CASE UNCHANGED vars
  BY <1>1 DEF vars, list, AccountInv, UsedWords, UsedBlocks
<1>2. ASSUME NEW n \in Requests, Malloc(n) PROVE AccountInv'
  <2>1. /\ size' = size /\ UsedBlocks' = UsedBlocks /\ total' = total
        /\ \A t \in Party : pc[t] # "count" /\ pc'[t] # "count"
    BY <1>2, AccountFacts DEF Malloc, CallEnters, UsedBlocks, list
  <2> QED BY <2>1, AccountKept, AccountFacts
<1>3. CASE TryNext \/ Fail
  <2>1. /\ size' = size /\ UsedBlocks' = UsedBlocks /\ total' = total
        /\ \A t \in Party : pc[t] # "count" /\ pc'[t] # "count"
    BY <1>3, AccountFacts DEF TryNext, Fail, Return, UsedBlocks, list
  <2> QED BY <2>1, AccountKept, AccountFacts
<1>4. ASSUME NEW t \in Party, Free(t) PROVE AccountInv'
  <2>1. /\ \A u \in Party : pc[u] \in {"idle", "mark"}
        /\ pc' = [pc EXCEPT ![t] = "mark"]
        /\ UNCHANGED <<size, isFree, heads, total>>
    BY <1>4, AccountFacts DEF Free, Enters, CallEnters, ReaperRuns, list
  <2>2. UsedBlocks' = UsedBlocks
    BY <2>1 DEF UsedBlocks
  <2>3. \A u \in Party : pc[u] # "count" /\ pc'[u] # "count"
    BY <2>1, AccountFacts
  <2> QED BY <2>1, <2>2, <2>3, AccountKept, AccountFacts
<1>5. ASSUME NEW t \in Party, FreeStep(t) PROVE AccountInv'
  BY <1>5, AccountMark, AccountCount, AccountMerge DEF FreeStep
<1> QED BY <1>1, <1>2, <1>3, <1>4, <1>5, AccountAllocate
        DEF Next, SyscallStep, Party

\* total_used_memory, which system call 29 shows as the RAM in use, is the sum
\* of the blocks in use between calls, however they were split and merged.
THEOREM MemoryAccounted == Spec => []TotalExactUntilHit
<1>1. (collided \/ (IndInv /\ AccountInv)) /\ [Next]_vars => (collided \/ (IndInv /\ AccountInv))'
  BY CollidedStays, Step, AccountStep
<1>2. Init => collided \/ (IndInv /\ AccountInv)
  BY InitInd, AccountInit
<1>3. collided \/ (IndInv /\ AccountInv) => TotalExactUntilHit
  <2>1. MapThenSumSet(LAMBDA a : size[a], {a \in heads : ~isFree[a]}) = UsedWords
    BY DEF UsedWords, UsedBlocks, SumOver
  <2> QED BY <2>1 DEF AccountInv, Accounted, Quiet, TotalExactUntilHit
<1> QED BY <1>1, <1>2, <1>3, PTL DEF Spec
=============================================================================
