---------------------------- MODULE MCUserMemory ----------------------------
(* Two programs, one of which needs the library, on pages of two words. *)
EXTENDS UserMemory

CONSTANTS Plain, Linked

MCFiles == {Plain, Linked}
MCFileSize == [f \in MCFiles |-> IF f = Plain THEN 2 ELSE 3]
MCMemSize == [f \in MCFiles |-> IF f = Plain THEN 3 ELSE 4]
MCNeedsLibc == {Linked}

\* Three places side by side, the first and the last at an odd word, the
\* second at the beginning of a page.
MCHeapSpots == {45, 52, 59}

\* Two words, and a size that wraps and lowers the break by a word.
MCRequests == {2, Space - UserHeader - 1}

\* In the page below the region of heaps: growing from there spills.
MCBreaks == {FirstWord(HeapRegion) - PageSize}
=============================================================================
