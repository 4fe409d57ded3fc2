---------------------------- MODULE Fat16Proofs ----------------------------
(***************************************************************************)
(* Proofs about the FAT16 engine and the descriptors over it, for every    *)
(* disk, every set of names and every text.  The invariant has parts that  *)
(* hold whatever goes wrong (BaseInv), parts about the FAT that hold until *)
(* a delete goes astray (FatInv), and parts about the data that hold until *)
(* then or until a write leaves its chain (DataInv).                       *)
(***************************************************************************)
EXTENDS OpenFiles, SequenceTheorems, FunctionTheorems, WellFoundedInduction,
        NaturalsInduction, TLAPS

-----------------------------------------------------------------------------
(* The inductive invariant of the engine.                                  *)

\* What an entry of the root directory may be: free, a directory without a
\* cluster, or a file with one.
IsDirectory(e) == e.name \in DirNames /\ e.dir /\ e.cluster = 0 /\ e.size = 0
IsFile(e) == e.name \in Names /\ ~e.dir /\ e.cluster \in Cluster

\* Entries are well formed, and a name that no directory doubled has one.
DirInv ==
    /\ \A i \in Slot : dir[i] = NoEntry \/ IsDirectory(dir[i]) \/ IsFile(dir[i])
    /\ \A i, j \in Slot :
          dir[i].name \in Names \ doubled /\ dir[j].name = dir[i].name => i = j

Writing == pc \in {"fat", "fat2", "data"}

\* The entry that a file without a cluster will get is free, and there is
\* none of its name, or it is a directory's of that name.
NewFile ==
    \/ dir[slot] = NoEntry /\ SlotsOf(file) = {}
    \/ IsDirectory(dir[slot]) /\ dir[slot].name = file

\* The file has the cluster that is written.
OldFile == dir[slot].name = file /\ dir[slot].cluster = cluster

\* What the running call is about.
CallInv ==
    /\ Writing =>
          /\ file \in Names /\ slot \in Slot /\ cluster \in Cluster
          /\ want \in Seq(Block) /\ Len(want) <= MaxSectors /\ done <= Len(want)
          /\ pc \in {"fat", "fat2"} => NewFile /\ done = 0
          /\ pc = "data" => NewFile \/ OldFile
    /\ pc \in {"unlink", "walk", "free2"} => file \in Names /\ want = NoFile
    /\ pc = "unlink" => slot \in Slot /\ OldFile
    /\ pc \in {"walk", "free2"} => file \in doubled \/ SlotsOf(file) = {}
    /\ pc = "idle" => file = NoFile /\ want = NoFile /\ done = 0

BaseInv == TypeOK /\ DirInv /\ CallInv

\* A cluster that no file owns.
Unowned(c) == \A i \in Owners : c \notin Chain(dir[i].cluster)

\* The clusters of all files are allocated, and every file's own.
ChainsRight ==
    /\ \A i \in Owners : \A c \in Chain(dir[i].cluster) : fat[c] # 0
    /\ \A i, j \in Owners : i # j => Chain(dir[i].cluster) \cap Chain(dir[j].cluster) = {}

\* A write: the cluster is free, or marked and nobody's, or the file's own.
WriteInv ==
    /\ pc = "fat" => fat[cluster] = 0
    /\ pc \in {"fat2", "data"} =>
          \/ NewFile /\ fat[cluster] = EndOfChain /\ Unowned(cluster)
          \/ pc = "data" /\ OldFile

\* A delete: before the entry goes the copy of FAT sector 0 is fresh; then it
\* differs from the FAT in clusters that no file owns, and what is left of
\* the chain is nobody's, unless the next cluster was read off the stack.
DeleteInv ==
    /\ pc = "unlink" => \A c \in SectorZero : table[c] = fat[c]
    /\ pc = "walk" =>
          /\ cluster \in SectorZero => \A c \in Chain(cluster) : Unowned(c)
          /\ \A c \in SectorZero : table[c] = fat[c] \/ (table[c] = 0 /\ Unowned(c))

FatInv == ChainsRight /\ WriteInv /\ DeleteInv

\* A file lies in clusters of its chain one behind the other, and so does what
\* was written so far.
DataInv ==
    /\ \A i \in Owners : \A k \in 1 .. dir[i].size : Within(dir[i].cluster, k - 1)
    /\ Writing =>
          \A k \in 1 .. done : /\ Within(cluster, k - 1)
                               /\ data[Lba(cluster) + k - 1] = want[k]

\* The FAT as it will be when the delete is over.
Freed == [c \in Cluster |-> IF c \in SectorZero THEN table[c] ELSE fat[c]]

\* While power has not failed in a call, and every chain that was deleted lay
\* in FAT sector 0: what is allocated is a file's, or is what the running call
\* is about; and the two FATs differ in what the call has yet to copy only.
LeakInv ==
    mishaps \subseteq {"overrun"} =>
        /\ \A c \in Cluster :
              (IF pc = "walk" THEN Freed[c] ELSE fat[c]) # 0 =>
                 \/ ~Unowned(c)
                 \/ pc \in {"fat2", "data"} /\ c = cluster
                 \/ pc = "walk" /\ c \in ChainIn(Freed, cluster)
        /\ \A c \in Cluster :
              \/ fat2[c] = fat[c]
              \/ pc = "fat2" /\ c = cluster
              \/ pc = "free2" /\ c \in SectorZero

-----------------------------------------------------------------------------
(* The invariant of the descriptors.                                       *)

OpenTypeOK ==
    /\ fd_table \in [Fd -> [open : BOOLEAN, size : Nat, lba : Int, offset : Nat]]
    /\ opened \in [Fd -> [file : Names \cup {NoFile}, text : Seq(Block),
                          got : Seq(Block \X Nat)]]
    /\ \A fd \in Fd : fd_table[fd].offset <= fd_table[fd].size

\* A text is in the data area from a sector on.
StoredAt(lba, text) == \A k \in 1 .. Len(text) : data[lba + k - 1] = text[k]

\* The file of a descriptor is where it was when it was opened.
Kept(h, f) ==
    /\ Len(h.text) > 0 =>
          \E i \in Owners : /\ dir[i].name = h.file
                            /\ Lba(dir[i].cluster) = f.lba
                            /\ dir[i].size = Len(h.text)
    /\ StoredAt(f.lba, h.text)

OpenInv ==
    \A fd \in Fd :
        opened[fd] # Unknown =>
            LET h == opened[fd]
                f == fd_table[fd]
            IN  /\ h.file \in Names /\ h.file # file
                /\ Kept(h, f)
                /\ f.size = Len(h.text) * SectorSize
                /\ h.got = SubSeq(Bytes(h.text), 1, f.offset)

-----------------------------------------------------------------------------
(* Arithmetic of sectors and clusters.                                     *)

LEMMA Sizes ==
  /\ SectorsPerCluster \in Nat \ {0} /\ EntriesPerSector \in Nat \ {0}
  /\ Slots \in Nat /\ MaxSectors \in Nat \ {0}
  /\ LastCluster \in Nat /\ LastCluster >= 2 /\ LastCluster < EndOfChain
  /\ NoFile \notin Names /\ DirNames \subseteq Names /\ Written \subseteq Texts
  BY SizesAssumption DEF EndOfChain

LEMMA ClusterFact ==
  /\ \A c \in Cluster : c \in Nat /\ c >= 2 /\ c <= LastCluster
  /\ 0 \notin Cluster /\ EndOfChain \notin Cluster
  BY Sizes DEF Cluster, EndOfChain

\* Every set of numbers that is not empty has a least one.
LEMMA LeastNumber ==
  ASSUME NEW T, T \subseteq Nat, T # {}
  PROVE  \E x \in T : \A y \in T : x <= y
<1>1. \E R : IsWellFoundedOn(R, Nat) /\ \A x, y \in Nat : <<y, x>> \in R <=> y < x
  <2>1. \A x, y \in Nat : <<y, x>> \in OpToRel(<, Nat) <=> y < x
    BY DEF OpToRel
  <2> QED BY <2>1, NatLessThanWellFounded, Zenon
<1>2. PICK R : IsWellFoundedOn(R, Nat) /\ \A x, y \in Nat : <<y, x>> \in R <=> y < x
  BY <1>1
<1>3. PICK x \in T : \A y \in T : ~ (<<y, x>> \in R)
  BY <1>2, WFMin
<1>4. \A m, n \in Nat : <<m, n>> \in R <=> m < n
  BY <1>2
<1>5. \A y \in T : ~ (y < x)
  BY <1>3, <1>4
<1> QED BY <1>5

LEMMA FirstFact ==
  ASSUME NEW T, T \subseteq Nat, T # {}
  PROVE  First(T) \in T /\ \A y \in T : First(T) <= y
  BY LeastNumber DEF First

\* m times n and k more, for numbers.
LEMMA Product ==
  ASSUME NEW m \in Nat, NEW n \in Nat
  PROVE  m * n \in Nat /\ (m + 1) * n = m * n + n
  BY SMTT(30)

LEMMA ProductOrder ==
  ASSUME NEW m \in Nat, NEW k \in Nat, NEW n \in Nat, m < k
  PROVE  m * n + n <= k * n
<1>1. PICK d \in Nat : k = m + 1 + d
  BY SMT
<1>2. k * n = (m + 1) * n + d * n
  BY <1>1, SMTT(30)
<1>3. d * n \in Nat
  BY Product
<1> QED BY <1>2, <1>3, Product

LEMMA DivideFact ==
  ASSUME NEW n \in Nat \ {0}, NEW x \in Nat
  PROVE  /\ x \div n \in Nat /\ x % n \in Nat /\ x % n < n
         /\ (x \div n) * n \in Nat
         /\ x = (x \div n) * n + (x % n)
  BY SMTT(30)


\* Two sectors in different clusters are different.
LEMMA SectorsDiffer ==
  ASSUME NEW c \in Cluster, NEW k \in Nat, NEW d \in Cluster, NEW j \in Nat,
         c + k \div SectorsPerCluster # d + j \div SectorsPerCluster
  PROVE  Lba(c) + k # Lba(d) + j
<1>1. PICK n \in Nat \ {0} : n = SectorsPerCluster
  BY Sizes
<1>2. PICK q \in Nat, r \in Nat : q = k \div n /\ k = q * n + r /\ r < n /\ q * n \in Nat
  BY DivideFact
<1>14. PICK u \in Nat, v \in Nat : u = j \div n /\ j = u * n + v /\ v < n /\ u * n \in Nat
  BY DivideFact
<1>3. PICK m \in Nat : m = c - 2
  BY ClusterFact
<1>4. PICK l \in Nat : l = d - 2
  BY ClusterFact
<1>5. PICK p \in Nat : p = m + q
  BY SMT
<1>15. PICK o \in Nat : o = l + u
  BY SMT
<1>6. p # o
  BY <1>1, <1>2, <1>14, <1>3, <1>4, <1>5, <1>15, ClusterFact
<1>7. p * n = m * n + q * n
  BY <1>5, SMTT(30)
<1>16. o * n = l * n + u * n
  BY <1>15, SMTT(30)
<1>8. m * n \in Nat /\ l * n \in Nat /\ p * n \in Nat /\ o * n \in Nat
  BY Product
<1>9. Lba(c) = m * n /\ Lba(d) = l * n
  BY <1>1, <1>3, <1>4, ClusterFact DEF Lba
<1>13. Lba(c) + k = p * n + r /\ Lba(d) + j = o * n + v
  BY <1>2, <1>14, <1>7, <1>16, <1>8, <1>9
<1>10. p < o => p * n + n <= o * n
  BY ProductOrder
<1>11. o < p => o * n + n <= p * n
  BY ProductOrder
<1>12. p < o \/ o < p
  BY <1>6
<1> QED BY <1>1, <1>2, <1>14, <1>8, <1>13, <1>10, <1>11, <1>12

LEMMA LbaFact == ASSUME NEW c \in Cluster PROVE Lba(c) \in Nat
<1>1. PICK n \in Nat : n = SectorsPerCluster
  BY Sizes
<1>2. PICK m \in Nat : m = c - 2
  BY ClusterFact
<1>3. m * n \in Nat
  BY Product
<1> QED BY <1>1, <1>2, <1>3, ClusterFact DEF Lba

-----------------------------------------------------------------------------
(* Chains.                                                                 *)

LEMMA ChainLeast ==
  ASSUME NEW F, NEW c, NEW S, S \subseteq Cluster,
         c \in Cluster => c \in S,
         \A x \in S : F[x] \in Cluster => F[x] \in S
  PROVE  ChainIn(F, c) \subseteq S
<1>1. {c} \cap Cluster \subseteq S
  OBVIOUS
<1> QED BY <1>1 DEF ChainIn

LEMMA ChainFact ==
  ASSUME NEW F, NEW c
  PROVE  /\ ChainIn(F, c) \subseteq Cluster
         /\ c \in Cluster => c \in ChainIn(F, c)
         /\ c \notin Cluster => ChainIn(F, c) = {}
         /\ \A x \in ChainIn(F, c) : F[x] \in Cluster => F[x] \in ChainIn(F, c)
<1>1. ChainIn(F, c) \subseteq Cluster
  BY DEF ChainIn
<1>2. c \in Cluster => c \in ChainIn(F, c)
  BY DEF ChainIn
<1>3. ASSUME c \notin Cluster PROVE ChainIn(F, c) = {}
  <2>1. PICK S : S = {}
    OBVIOUS
  <2>2. ChainIn(F, c) \subseteq S
    BY <1>3, <2>1, ChainLeast
  <2> QED BY <2>1, <2>2
<1>4. ASSUME NEW x \in ChainIn(F, c), F[x] \in Cluster PROVE F[x] \in ChainIn(F, c)
  BY <1>4 DEF ChainIn
<1> QED BY <1>1, <1>2, <1>3, <1>4

\* A table that agrees on a chain has the same chain.
LEMMA ChainSame ==
  ASSUME NEW F, NEW G, NEW c, \A x \in ChainIn(F, c) : G[x] = F[x]
  PROVE  ChainIn(G, c) = ChainIn(F, c)
<1>1. ChainIn(G, c) \subseteq ChainIn(F, c)
  <2> DEFINE S == ChainIn(F, c)
  <2>1. S \subseteq Cluster /\ (c \in Cluster => c \in S)
    BY ChainFact
  <2>2. \A x \in S : G[x] \in Cluster => G[x] \in S
    BY ChainFact
  <2> HIDE DEF S
  <2>3. ChainIn(G, c) \subseteq S
    BY <2>1, <2>2, ChainLeast
  <2> QED BY <2>3 DEF S
<1>2. ChainIn(F, c) \subseteq ChainIn(G, c)
  <2> DEFINE S == ChainIn(F, c) \cap ChainIn(G, c)
  <2>1. S \subseteq Cluster /\ (c \in Cluster => c \in S)
    BY ChainFact
  <2>2. \A x \in S : F[x] \in Cluster => F[x] \in S
    BY ChainFact
  <2> HIDE DEF S
  <2>3. ChainIn(F, c) \subseteq S
    BY <2>1, <2>2, ChainLeast
  <2> QED BY <2>3 DEF S
<1> QED BY <1>1, <1>2

LEMMA ChainEnds ==
  ASSUME NEW F, NEW c \in Cluster, F[c] \notin Cluster
  PROVE  ChainIn(F, c) = {c}
<1>1. PICK S : S = {c}
  OBVIOUS
<1>2. ChainIn(F, c) \subseteq S
  BY <1>1, ChainLeast
<1> QED BY <1>1, <1>2, ChainFact

\* The chain of the cluster behind.
LEMMA ChainRest ==
  ASSUME NEW F, NEW c \in Cluster, NEW d, d = F[c]
  PROVE  ChainIn(F, d) \subseteq ChainIn(F, c)
<1> DEFINE S == ChainIn(F, c)
<1>1. S \subseteq Cluster /\ (d \in Cluster => d \in S)
  BY ChainFact
<1>2. \A x \in S : F[x] \in Cluster => F[x] \in S
  BY ChainFact
<1> HIDE DEF S
<1>3. ChainIn(F, d) \subseteq S
  BY <1>1, <1>2, ChainLeast
<1> QED BY <1>3 DEF S

\* When the first cluster of a chain is taken off it and cleared, what is
\* left of the chain starts at the next.
LEMMA ChainAfter ==
  ASSUME NEW F, NEW G, NEW c \in Cluster, NEW d, d = F[c],
         \A x \in Cluster \ {c} : G[x] = F[x]
  PROVE  ChainIn(F, c) \subseteq {c} \cup ChainIn(G, d)
<1> DEFINE S == {c} \cup ChainIn(G, d)
<1>1. S \subseteq Cluster /\ c \in S
  BY ChainFact
<1>2. \A x \in S : F[x] \in Cluster => F[x] \in S
  BY ChainFact
<1> HIDE DEF S
<1>3. ChainIn(F, c) \subseteq S
  BY <1>1, <1>2, ChainLeast
<1> QED BY <1>3 DEF S

-----------------------------------------------------------------------------
(* The directory.                                                          *)

LEMMA OwnersAre ==
  ASSUME TypeOK, DirInv
  PROVE  /\ \A i \in Slot : dir[i] \in Entry
         /\ \A i \in Slot : i \in Owners <=> IsFile(dir[i])
         /\ \A i \in Owners :
              /\ i \in Slot /\ dir[i].cluster \in Cluster
              /\ dir[i].name \in Names /\ ~dir[i].dir /\ dir[i].size \in Nat
<1>1. \A i \in Slot : dir[i] \in Entry
  BY DEF TypeOK
<1>2. ASSUME NEW i \in Slot PROVE i \in Owners <=> IsFile(dir[i])
  <2>1. dir[i] = NoEntry \/ IsDirectory(dir[i]) \/ IsFile(dir[i])
    BY DEF DirInv
  <2>2. dir[i] = NoEntry \/ IsDirectory(dir[i]) => dir[i].cluster \notin Cluster
    BY ClusterFact DEF NoEntry, IsDirectory
  <2>3. ~ (IsFile(dir[i]) /\ dir[i].cluster \notin Cluster)
    BY DEF IsFile
  <2> QED BY <2>1, <2>2, <2>3 DEF Owners
<1>3. ASSUME NEW i \in Owners
      PROVE  /\ i \in Slot /\ dir[i].cluster \in Cluster
             /\ dir[i].name \in Names /\ ~dir[i].dir /\ dir[i].size \in Nat
  <2>1. i \in Slot
    BY DEF Owners
  <2>2. IsFile(dir[i]) /\ dir[i] \in Entry
    BY <1>1, <1>2, <2>1
  <2> QED BY <2>1, <2>2, Sizes DEF IsFile, Entry
<1> QED BY <1>1, <1>2, <1>3

LEMMA SlotsFact ==
  ASSUME NEW f, SlotsOf(f) # {}
  PROVE  /\ First(SlotsOf(f)) \in Slot
         /\ First(SlotsOf(f)) \in SlotsOf(f)
         /\ dir[First(SlotsOf(f))].name = f
<1>1. SlotsOf(f) \subseteq Slot /\ Slot \subseteq Nat
  BY Sizes DEF SlotsOf, Slot
<1>2. First(SlotsOf(f)) \in SlotsOf(f)
  BY <1>1, FirstFact
<1> QED BY <1>1, <1>2 DEF SlotsOf

\* A name that was never doubled has one entry at most.
LEMMA OneSlot ==
  ASSUME DirInv, NEW i \in Slot, dir[i].name \in Names \ doubled
  PROVE  /\ SlotsOf(dir[i].name) = {i} /\ First(SlotsOf(dir[i].name)) = i
<1>1. SlotsOf(dir[i].name) = {i}
  BY DEF DirInv, SlotsOf
<1>2. i \in Nat
  BY Sizes DEF Slot
<1>3. {i} \subseteq Nat /\ {i} # {}
  BY <1>2
<1>4. First({i}) \in {i}
  BY <1>3, FirstFact
<1> QED BY <1>1, <1>4

LEMMA FreeFact ==
  ASSUME NEW S, FreeSlots \cap S # {}
  PROVE  /\ First(FreeSlots \cap S) \in Slot
         /\ First(FreeSlots \cap S) \in S
         /\ dir[First(FreeSlots \cap S)] = NoEntry
<1>1. FreeSlots \cap S \subseteq Nat
  BY Sizes DEF FreeSlots, Slot
<1>2. First(FreeSlots \cap S) \in FreeSlots \cap S
  BY <1>1, FirstFact
<1> QED BY <1>2 DEF FreeSlots

LEMMA TextFact ==
  ASSUME NEW t \in Written, NEW n \in 0 .. MaxSectors + 1, NEW w, w = Text(t, n)
  PROVE  w \in Seq(Block) /\ Len(w) \in Nat /\ Len(w) <= MaxSectors
<1>1. PICK m \in Nat : m = Clamped(n) /\ m <= MaxSectors
  BY Sizes DEF Clamped
<1>2. \A k \in 1 .. m : <<t, k>> \in Block
  BY Sizes DEF Block
<1>3. w \in [1 .. m -> Block]
  BY <1>1, <1>2 DEF Text
<1>4. w \in Seq(Block) /\ Len(w) = m
  BY ONLY <1>3, m \in Nat
<1> QED BY <1>1, <1>4

-----------------------------------------------------------------------------
(* What holds whatever goes wrong.                                         *)

LEMMA IdleFact ==
  ASSUME Idle
  PROVE  /\ file' = NoFile /\ want' = NoFile /\ slot' = 0 /\ cluster' = 0 /\ done' = 0
         /\ table' \in [SectorZero -> {0, EndOfChain} \cup Cluster]
         /\ 0 \in 0 .. MaxSectors
  BY Sizes DEF Idle

\* What a write that begins is about.
LEMMA CreateFact ==
  ASSUME TypeOK, DirInv, NEW f \in Names, NEW t \in Written, NEW n \in 0 .. MaxSectors + 1,
         Create(f, t, n)
  PROVE  /\ slot' \in Slot /\ cluster' \in Cluster /\ fat[cluster'] = 0
         /\ NewFile'
<1>1. FreeClusters \subseteq Nat /\ FreeClusters # {}
  BY ClusterFact DEF Create, FreeClusters
<1>2. First(FreeClusters) \in FreeClusters
  BY <1>1, FirstFact
<1>3. cluster' \in Cluster /\ fat[cluster'] = 0
  BY <1>2 DEF Create, NewCluster, FreeClusters
<1>4. /\ dir' = dir /\ file' = f /\ slot' = First(EntriesFor(f)) /\ EntriesFor(f) # {}
      /\ SlotsOf(f) # {} => dir[First(SlotsOf(f))].cluster < 2
  BY DEF Create, disk
<1>5. SlotsOf(f)' = SlotsOf(f)
  BY <1>4 DEF SlotsOf
<1>6. CASE SlotsOf(f) = {}
  <2>1. EntriesFor(f) = FreeSlots \cap Slot
    BY <1>6 DEF EntriesFor, FreeSlots
  <2>2. slot' \in Slot /\ dir[slot'] = NoEntry
    BY <1>4, <2>1, FreeFact
  <2> QED BY <1>3, <1>4, <1>5, <1>6, <2>2 DEF NewFile, SlotsOf
<1>7. CASE SlotsOf(f) # {}
  <2>1. EntriesFor(f) = SlotsOf(f)
    BY <1>7 DEF EntriesFor
  <2>2. PICK s \in Slot : s = First(SlotsOf(f)) /\ dir[s].name = f
    BY <1>7, SlotsFact
  <2>3. slot' = s
    BY <1>4, <2>1, <2>2
  <2>4. dir[s] # NoEntry
    BY <2>2, Sizes DEF NoEntry
  <2>5. dir[s].cluster < 2
    BY <1>4, <1>7, <2>2
  <2>6. ~IsFile(dir[s])
    BY <2>5, ClusterFact DEF IsFile
  <2>7. IsDirectory(dir[s])
    BY <2>4, <2>6 DEF DirInv
  <2>8. dir'[slot'].name = file'
    BY <1>4, <2>2, <2>3
  <2>9. IsDirectory(dir'[slot'])
    BY <1>4, <2>3, <2>7
  <2>10. NewFile'
    BY <2>8, <2>9 DEF NewFile, IsDirectory
  <2> QED BY <1>3, <2>3, <2>10
<1> QED BY <1>6, <1>7

LEMMA OverwriteFact ==
  ASSUME TypeOK, DirInv, NEW f \in Names, NEW t \in Written, NEW n \in 0 .. MaxSectors + 1,
         Overwrite(f, t, n)
  PROVE  slot' \in Slot /\ cluster' \in Cluster /\ OldFile'
<1>1. /\ dir' = dir /\ file' = f /\ slot' = First(SlotsOf(f)) /\ SlotsOf(f) # {}
      /\ cluster' = dir[slot'].cluster /\ dir[First(SlotsOf(f))].cluster >= 2
  BY DEF Overwrite, disk
<1>2. slot' \in Slot /\ dir[slot'].name = f
  BY <1>1, SlotsFact
<1>3. PICK c \in {0} \cup Cluster : c = cluster' /\ c >= 2
  BY <1>1, <1>2 DEF TypeOK, Entry
<1> QED BY <1>1, <1>2, <1>3 DEF OldFile

LEMMA TypeInit == ASSUME Init PROVE TypeOK
<1>1. fat \in [Cluster -> {0, EndOfChain} \cup Cluster] /\ fat2 = fat
  BY FirstDiskAssumption DEF Init
<1>2. dir \in [Slot -> Entry] /\ data \in [Sector -> Block]
  BY FirstDiskAssumption DEF Init
<1>3. table \in [SectorZero -> {0, EndOfChain} \cup Cluster]
  BY DEF Init
<1>4. 0 \in 0 .. MaxSectors
  BY Sizes
<1> QED BY <1>1, <1>2, <1>3, <1>4 DEF Init, TypeOK, Contents

LEMMA TypeStep ==
  ASSUME BaseInv, [Next]_vars
  PROVE  TypeOK'
<1> USE DEF BaseInv
<1>1. CASE UNCHANGED vars
  BY <1>1 DEF TypeOK, vars, disk, call, history
<1>2. ASSUME NEW f \in Names, NEW t \in Written, NEW n \in 0 .. MaxSectors + 1,
             Overwrite(f, t, n) \/ Create(f, t, n)
      PROVE  TypeOK'
  <2>1. want' \in Contents
    BY <1>2, TextFact DEF Overwrite, Create, Contents
  <2>2. slot' \in Slot /\ cluster' \in Cluster
    BY <1>2, CreateFact, OverwriteFact
  <2>3. /\ file' \in Names /\ pc' \in {"data", "fat"}
        /\ UNCHANGED <<fat, fat2, dir, data, done, table, mishaps, doubled>>
    BY <1>2 DEF Overwrite, Create, disk, history
  <2> QED BY <2>1, <2>2, <2>3 DEF TypeOK
<1>3. ASSUME NEW f \in Names, Delete(f) PROVE TypeOK'
  <2>1. slot' \in Slot /\ cluster' \in {0, EndOfChain} \cup Cluster
    BY <1>3, SlotsFact DEF Delete, TypeOK, Entry
  <2>2. table' \in [SectorZero -> {0, EndOfChain} \cup Cluster]
    BY <1>3 DEF Delete, TypeOK, SectorZero
  <2> QED BY <1>3, <2>1, <2>2 DEF Delete, TypeOK, disk, history, Contents
<1>4. ASSUME NEW d \in DirNames, NEW parent \in Parents, CreateDir(d, parent) PROVE TypeOK'
  <2>1. [name |-> d, dir |-> TRUE, cluster |-> 0, size |-> 0] \in Entry
    BY Sizes DEF Entry
  <2>2. doubled' \subseteq Names
    BY <1>4, Sizes DEF CreateDir, TypeOK
  <2> QED BY <1>4, <2>1, <2>2 DEF CreateDir, TypeOK, call
<1>5. CASE MarkCluster
  BY <1>5 DEF MarkCluster, TypeOK, call, history
<1>6. CASE MirrorCluster
  BY <1>6 DEF MirrorCluster, Mirrored, TypeOK, call, history
<1>7. CASE WriteSector
  <2>1. /\ want \in Seq(Block) /\ Len(want) <= MaxSectors
        /\ done \in Nat /\ done < Len(want)
    BY <1>7, Sizes DEF WriteSector, CallInv, Writing, TypeOK
  <2>2. want[done + 1] \in Block /\ done + 1 \in 0 .. MaxSectors
    BY <2>1, Sizes
  <2>3. data' \in [Sector -> Block]
    BY <1>7, <2>2 DEF WriteSector, TypeOK
  <2>4. mishaps' \subseteq Mishaps
    BY <1>7 DEF WriteSector, TypeOK, Mishaps
  <2> QED BY <1>7, <2>2, <2>3, <2>4 DEF WriteSector, TypeOK
<1>8. CASE WriteEntry
  <2>1. /\ want \in Seq(Block) /\ cluster \in Cluster
        /\ file \in Names /\ slot \in Slot
    BY <1>8 DEF WriteEntry, CallInv, Writing
  <2>2. Len(want) \in Nat
    BY <2>1
  <2>3. [name |-> file, dir |-> FALSE, cluster |-> cluster, size |-> Len(want)] \in Entry
    BY <2>1, <2>2 DEF Entry
  <2> QED BY <1>8, <2>3, IdleFact DEF WriteEntry, TypeOK, Contents, history
<1>9. CASE Unlink
  <2>1. NoEntry \in Entry
    BY DEF Entry, NoEntry
  <2>2. dir' \in [Slot -> Entry]
    BY <1>9, <2>1 DEF Unlink, TypeOK
  <2>3. CASE UNCHANGED call /\ pc' = "walk"
    BY <1>9, <2>2, <2>3 DEF Unlink, TypeOK, call, history
  <2>4. CASE Idle /\ pc' = "idle"
    BY <1>9, <2>2, <2>4, IdleFact DEF Unlink, TypeOK, Contents, history
  <2> QED BY <1>9, <2>3, <2>4 DEF Unlink
<1>10. CASE FreeNext
  BY <1>10 DEF FreeNext, NextOf, TypeOK, disk, history
<1>14. CASE SkipNext
  <2>1. mishaps' \subseteq Mishaps
    BY <1>14 DEF SkipNext, TypeOK, Mishaps
  <2> QED BY <1>14, <2>1 DEF SkipNext, TypeOK, disk
<1>11. CASE FreeChain
  BY <1>11 DEF FreeChain, TypeOK, call, history
<1>12. CASE FreeMirror
  BY <1>12, IdleFact DEF FreeMirror, Mirrored, TypeOK, Contents, history
<1>13. CASE PowerLoss
  <2>1. mishaps' \subseteq Mishaps
    BY <1>13 DEF PowerLoss, TypeOK, Mishaps
  <2> QED BY <1>13, <2>1, IdleFact DEF PowerLoss, TypeOK, Contents, disk
<1> QED
  BY <1>1, <1>2, <1>3, <1>4, <1>5, <1>6, <1>7, <1>8, <1>9, <1>10, <1>11, <1>12, <1>13, <1>14
     DEF Next, Calls, Call


LEMMA BaseInit == ASSUME Init PROVE BaseInv
<1>1. TypeOK
  BY TypeInit
<1>2. dir = FirstDir /\ pc = "idle" /\ doubled = {}
  BY DEF Init
<1>3. ASSUME NEW i \in FirstOwners
      PROVE  i \in Slot /\ IsFile(dir[i])
  BY <1>2, <1>3, FirstDiskAssumption DEF FirstOwners, IsFile
<1>4. ASSUME NEW i \in Slot PROVE dir[i] = NoEntry \/ IsFile(dir[i])
  BY <1>2, <1>3 DEF FirstOwners
<1>5. ASSUME NEW i \in Slot, NEW j \in Slot,
             dir[i].name \in Names \ doubled, dir[j].name = dir[i].name
      PROVE  i = j
  <2>1. dir[i] # NoEntry /\ dir[j] # NoEntry
    BY <1>5, Sizes DEF NoEntry
  <2>2. i \in FirstOwners /\ j \in FirstOwners
    BY <1>2, <2>1 DEF FirstOwners
  <2> QED BY <1>2, <1>5, <2>2, FirstDiskAssumption
<1>6. DirInv
  BY <1>4, <1>5 DEF DirInv
<1>7. CallInv
  BY DEF Init, CallInv, Writing
<1> QED BY <1>1, <1>6, <1>7 DEF BaseInv

\* One entry changes: every entry is still well formed, and a name that is
\* not doubled still has one.
LEMMA EntryChanges ==
  ASSUME TypeOK, DirInv, NEW s \in Slot, NEW e,
         e = NoEntry \/ IsDirectory(e) \/ IsFile(e),
         dir' = [dir EXCEPT ![s] = e], doubled \subseteq doubled',
         e.name \in Names \ doubled' => \A i \in Slot \ {s} : dir[i].name # e.name
  PROVE  /\ DirInv' /\ dir'[s] = e
         /\ \A i \in Slot \ {s} : dir'[i] = dir[i]
<1>1. dir'[s] = e /\ \A i \in Slot \ {s} : dir'[i] = dir[i]
  BY DEF TypeOK
<1>2. ASSUME NEW i \in Slot
      PROVE  dir'[i] = NoEntry \/ IsDirectory(dir'[i]) \/ IsFile(dir'[i])
  BY <1>1 DEF DirInv
<1>3. ASSUME NEW i \in Slot, NEW j \in Slot,
             dir'[i].name \in Names \ doubled', dir'[j].name = dir'[i].name
      PROVE  i = j
  <2>1. CASE i = s \/ j = s
    BY <1>1, <1>3, <2>1
  <2>2. CASE i # s /\ j # s
    BY <1>1, <1>3, <2>2 DEF DirInv
  <2> QED BY <2>1, <2>2
<1>4. \A i \in Slot : dir'[i] = NoEntry \/ IsDirectory(dir[i])' \/ IsFile(dir[i])'
  BY <1>2 DEF IsDirectory, IsFile
<1> QED BY <1>1, <1>3, <1>4 DEF DirInv

\* What the entries look like that calls write.
LEMMA EntriesAre ==
  /\ NoEntry.name = NoFile /\ NoEntry.cluster \notin Cluster /\ NoEntry.name \notin Names
  /\ \A e : IsDirectory(e) => e.cluster \notin Cluster
<1>1. NoEntry.name \notin Names
  BY Sizes DEF NoEntry
<1> QED BY <1>1, ClusterFact DEF NoEntry, IsDirectory

\* The entry of a file that was written.
LEMMA WrittenEntry ==
  ASSUME BaseInv, WriteEntry
  PROVE  /\ DirInv' /\ slot \in Slot /\ file \in Names /\ cluster \in Cluster
         /\ want \in Seq(Block) /\ Len(want) <= MaxSectors /\ done = Len(want)
         /\ IsFile(dir'[slot])
         /\ dir'[slot].cluster = cluster /\ dir'[slot].size = Len(want)
         /\ dir'[slot].name = file /\ ~dir'[slot].dir
         /\ \A i \in Slot \ {slot} : dir'[i] = dir[i]
         /\ file \notin doubled => \A i \in Slot \ {slot} : dir[i].name # file
         /\ doubled' = doubled /\ mishaps' = mishaps
         /\ NewFile \/ OldFile
         /\ NewFile => slot \notin Owners
<1> DEFINE e == [name |-> file, dir |-> FALSE, cluster |-> cluster, size |-> Len(want)]
<1>1. /\ TypeOK /\ DirInv
      /\ file \in Names /\ slot \in Slot /\ cluster \in Cluster
      /\ want \in Seq(Block) /\ Len(want) <= MaxSectors /\ done = Len(want)
      /\ NewFile \/ OldFile
  BY DEF BaseInv, WriteEntry, CallInv, Writing
<1>2. dir' = [dir EXCEPT ![slot] = e] /\ doubled' = doubled /\ mishaps' = mishaps
  BY DEF WriteEntry, history
<1>3. /\ e.cluster = cluster /\ e.name = file /\ e.size = Len(want) /\ e.dir = FALSE
      /\ IsFile(e)
  BY <1>1 DEF IsFile
<1> HIDE DEF e
<1>4. ASSUME file \notin doubled, NEW i \in Slot \ {slot} PROVE dir[i].name # file
  BY <1>1, <1>4 DEF DirInv, NewFile, OldFile, SlotsOf
<1>5. DirInv' /\ dir'[slot] = e /\ \A i \in Slot \ {slot} : dir'[i] = dir[i]
  <2>1. e.name \in Names \ doubled' => \A i \in Slot \ {slot} : dir[i].name # e.name
    BY <1>2, <1>3, <1>4
  <2>2. doubled \subseteq doubled'
    BY <1>2
  <2> QED BY <1>1, <1>2, <1>3, <2>1, <2>2, EntryChanges
<1>6. NewFile => slot \notin Owners
  BY EntriesAre DEF NewFile, Owners
<1> QED BY <1>1, <1>2, <1>3, <1>4, <1>5, <1>6

\* The entry of a file that is deleted.
LEMMA UnlinkedEntry ==
  ASSUME BaseInv, Unlink
  PROVE  /\ DirInv' /\ slot \in Slot /\ file \in Names /\ want = NoFile
         /\ dir[slot].name = file /\ dir[slot].cluster = cluster
         /\ dir'[slot] = NoEntry
         /\ \A i \in Slot \ {slot} : dir'[i] = dir[i]
         /\ file \notin doubled => \A i \in Slot : dir'[i].name # file
         /\ doubled' = doubled /\ mishaps' = mishaps
<1>1. /\ TypeOK /\ DirInv
      /\ file \in Names /\ slot \in Slot /\ want = NoFile
      /\ dir[slot].name = file /\ dir[slot].cluster = cluster
  BY DEF BaseInv, Unlink, CallInv, OldFile
<1>2. dir' = [dir EXCEPT ![slot] = NoEntry] /\ doubled' = doubled /\ mishaps' = mishaps
  BY DEF Unlink, history
<1>3. DirInv' /\ dir'[slot] = NoEntry /\ \A i \in Slot \ {slot} : dir'[i] = dir[i]
  BY <1>1, <1>2, EntriesAre, EntryChanges
<1>4. ASSUME file \notin doubled, NEW i \in Slot PROVE dir'[i].name # file
  <2>1. \A j \in Slot \ {slot} : dir[j].name # file
    BY <1>1, <1>4 DEF DirInv
  <2> QED BY <1>1, <1>3, <2>1, EntriesAre
<1> QED BY <1>1, <1>2, <1>3, <1>4

\* The directory that is entered.
LEMMA DirectoryMade ==
  ASSUME BaseInv, NEW d \in DirNames, NEW parent \in Parents, CreateDir(d, parent),
         NEW s, s = First(FreeSlots \cap parent)
  PROVE  /\ DirInv' /\ s \in Slot /\ dir[s] = NoEntry
         /\ IsDirectory(dir'[s]) /\ dir'[s].name = d
         /\ \A i \in Slot \ {s} : dir'[i] = dir[i]
         /\ doubled' = IF SlotsOf(d) = {} THEN doubled ELSE doubled \cup {d}
<1> DEFINE e == [name |-> d, dir |-> TRUE, cluster |-> 0, size |-> 0]
<1>1. /\ TypeOK /\ DirInv /\ FreeSlots \cap parent # {}
      /\ dir' = [dir EXCEPT ![s] = e]
      /\ doubled' = IF SlotsOf(d) = {} THEN doubled ELSE doubled \cup {d}
  BY DEF BaseInv, CreateDir
<1>2. s \in Slot /\ dir[s] = NoEntry
  BY <1>1, FreeFact
<1>3. IsDirectory(e) /\ e.name = d
  BY DEF IsDirectory
<1> HIDE DEF e
<1>4. e.name \in Names \ doubled' => \A i \in Slot \ {s} : dir[i].name # e.name
  BY <1>1, <1>3 DEF SlotsOf
<1>5. doubled \subseteq doubled'
  BY <1>1
<1>6. DirInv' /\ dir'[s] = e /\ \A i \in Slot \ {s} : dir'[i] = dir[i]
  BY <1>1, <1>2, <1>3, <1>4, <1>5, EntryChanges
<1> QED BY <1>1, <1>2, <1>3, <1>6

\* The directory stays well formed and the running call knows what it is about.
LEMMA BaseStep == ASSUME BaseInv, [Next]_vars PROVE BaseInv'
<1>0. TypeOK' /\ TypeOK /\ DirInv /\ CallInv
  BY TypeStep DEF BaseInv
<1>a. ASSUME dir' = dir, doubled' = doubled PROVE DirInv' /\ \A f : SlotsOf(f)' = SlotsOf(f)
  BY <1>0, <1>a DEF DirInv, SlotsOf, IsDirectory, IsFile
<1>b. ASSUME pc' = "idle", Idle PROVE CallInv'
  BY <1>b, IdleFact DEF CallInv, Writing
<1>1. CASE UNCHANGED vars
  <2>1. UNCHANGED <<dir, pc, file, want, slot, cluster, done, doubled>>
    BY <1>1 DEF vars, disk, call, history
  <2>2. CallInv'
    BY <1>0, <2>1 DEF CallInv, Writing, NewFile, OldFile, SlotsOf, IsDirectory
  <2> QED BY <1>0, <1>a, <2>1, <2>2 DEF BaseInv
<1>2. ASSUME NEW f \in Names, NEW t \in Written, NEW n \in 0 .. MaxSectors + 1,
             Overwrite(f, t, n) \/ Create(f, t, n)
      PROVE  BaseInv'
  <2>1. /\ pc = "idle" /\ UNCHANGED <<dir, done, doubled>> /\ file' = f /\ want' = Text(t, n)
        /\ pc' \in {"data", "fat"}
    BY <1>2 DEF Overwrite, Create, disk, history
  <2>2. done' = 0 /\ file' \in Names
    BY <1>0, <2>1 DEF CallInv
  <2>3. want' \in Seq(Block) /\ Len(want') \in Nat /\ Len(want') <= MaxSectors
    BY <2>1, TextFact
  <2>4. CASE Overwrite(f, t, n)
    <3>1. pc' = "data" /\ slot' \in Slot /\ cluster' \in Cluster /\ OldFile'
      BY <1>0, <2>4, OverwriteFact DEF Overwrite
    <3> QED BY <1>0, <1>a, <2>1, <2>2, <2>3, <3>1 DEF BaseInv, CallInv, Writing
  <2>5. CASE Create(f, t, n)
    <3>1. pc' = "fat" /\ slot' \in Slot /\ cluster' \in Cluster /\ NewFile'
      BY <1>0, <2>5, CreateFact DEF Create
    <3> QED BY <1>0, <1>a, <2>1, <2>2, <2>3, <3>1 DEF BaseInv, CallInv, Writing
  <2> QED BY <1>2, <2>4, <2>5
<1>3. ASSUME NEW f \in Names, Delete(f) PROVE BaseInv'
  <2>1. /\ UNCHANGED <<dir, doubled>> /\ pc' = "unlink"
        /\ file' = f /\ want' = NoFile /\ slot' = First(SlotsOf(f)) /\ SlotsOf(f) # {}
        /\ cluster' = dir[slot'].cluster
    BY <1>3 DEF Delete, disk, history
  <2>2. slot' \in Slot /\ dir[slot'].name = f
    BY <2>1, SlotsFact
  <2>3. CallInv'
    BY <2>1, <2>2 DEF CallInv, Writing, OldFile
  <2> QED BY <1>0, <1>a, <2>1, <2>3 DEF BaseInv
<1>4. ASSUME NEW d \in DirNames, NEW parent \in Parents, CreateDir(d, parent) PROVE BaseInv'
  <2>1. DirInv'
    BY <1>4, DirectoryMade
  <2>2. CallInv'
    BY <1>0, <1>4 DEF CreateDir, CallInv, Writing, call
  <2> QED BY <1>0, <2>1, <2>2 DEF BaseInv
<1>5. CASE MarkCluster \/ MirrorCluster
  <2>1. /\ UNCHANGED <<dir, doubled>> /\ UNCHANGED call
        /\ pc \in {"fat", "fat2"} /\ pc' \in {"fat2", "data"}
    BY <1>5 DEF MarkCluster, MirrorCluster, history
  <2>2. NewFile' <=> NewFile
    BY <2>1 DEF NewFile, SlotsOf, IsDirectory, call
  <2>3. CallInv'
    BY <1>0, <2>1, <2>2 DEF CallInv, Writing, call
  <2> QED BY <1>0, <1>a, <2>1, <2>3 DEF BaseInv
<1>6. CASE WriteSector
  <2>1. /\ UNCHANGED <<dir, doubled, pc, file, want, slot, cluster>> /\ pc = "data"
        /\ done < Len(want) /\ done' = done + 1
    BY <1>6 DEF WriteSector
  <2>2. (NewFile' <=> NewFile) /\ (OldFile' <=> OldFile)
    BY <2>1 DEF NewFile, OldFile, SlotsOf, IsDirectory
  <2>3. want \in Seq(Block) /\ done \in Nat
    BY <1>0, <2>1, Sizes DEF CallInv, Writing, TypeOK
  <2>4. done' <= Len(want)
    BY <2>1, <2>3
  <2>5. CallInv'
    BY <1>0, <2>1, <2>2, <2>4 DEF CallInv, Writing
  <2> QED BY <1>0, <1>a, <2>1, <2>5 DEF BaseInv
<1>7. CASE WriteEntry
  <2>1. pc' = "idle" /\ Idle
    BY <1>7 DEF WriteEntry
  <2> QED BY <1>0, <1>b, <1>7, <2>1, WrittenEntry DEF BaseInv
<1>8. CASE Unlink
  <2>1. CASE pc' = "idle" /\ Idle
    BY <1>0, <1>b, <1>8, <2>1, UnlinkedEntry DEF BaseInv
  <2>2. CASE pc' = "walk" /\ UNCHANGED call
    <3>1. file' = file /\ want' = want
      BY <2>2 DEF call
    <3>2. file \in Names /\ want = NoFile /\ (file \in doubled' \/ SlotsOf(file)' = {})
      BY <1>8, <3>1, UnlinkedEntry DEF SlotsOf
    <3>3. CallInv'
      BY <2>2, <3>1, <3>2 DEF CallInv, Writing, SlotsOf
    <3> QED BY <1>0, <1>8, <3>3, UnlinkedEntry DEF BaseInv
  <2> QED BY <1>8, <2>1, <2>2 DEF Unlink
<1>9. CASE FreeNext \/ SkipNext \/ FreeChain
  <2>1. /\ UNCHANGED <<dir, doubled, file, want>>
        /\ pc = "walk" /\ pc' \in {"walk", "free2"}
    BY <1>9 DEF FreeNext, SkipNext, FreeChain, disk, call, history
  <2>2. CallInv'
    BY <1>0, <2>1 DEF CallInv, Writing, SlotsOf
  <2> QED BY <1>0, <1>a, <2>1, <2>2 DEF BaseInv
<1>10. CASE FreeMirror \/ PowerLoss
  <2>1. UNCHANGED <<dir, doubled>> /\ pc' = "idle" /\ Idle
    BY <1>10 DEF FreeMirror, PowerLoss, disk, history
  <2> QED BY <1>0, <1>a, <1>b, <2>1 DEF BaseInv
<1> QED
  BY <1>1, <1>2, <1>3, <1>4, <1>5, <1>6, <1>7, <1>8, <1>9, <1>10
     DEF Next, Calls, Call

-----------------------------------------------------------------------------
(* What a step does to files and chains.                                   *)

\* What has gone wrong stays so.
LEMMA MishapsStay == ASSUME [Next]_vars PROVE mishaps \subseteq mishaps'
<1>1. CASE UNCHANGED vars
  BY <1>1 DEF vars, history
<1>2. CASE Call
  BY <1>2 DEF Call, Overwrite, Create, Delete, CreateDir, history
<1>3. CASE \/ MarkCluster \/ MirrorCluster \/ WriteSector \/ WriteEntry \/ Unlink
           \/ FreeNext \/ SkipNext \/ FreeChain \/ FreeMirror \/ PowerLoss
  BY <1>3 DEF MarkCluster, MirrorCluster, WriteSector, WriteEntry, Unlink,
              FreeNext, SkipNext, FreeChain, FreeMirror, PowerLoss, history
<1> QED BY <1>1, <1>2, <1>3 DEF Next, Calls

LEMMA FatInit == ASSUME Init PROVE FatInv /\ DataInv /\ LeakInv
<1>1. BaseInv
  BY BaseInit
<1>2. fat = FirstFat /\ fat2 = FirstFat /\ dir = FirstDir /\ pc = "idle"
  BY DEF Init
<1>3. ASSUME NEW i \in Owners
      PROVE  i \in FirstOwners /\ Chain(dir[i].cluster) = FirstChain(i)
  BY <1>2, <1>3, ClusterFact DEF Owners, FirstOwners, Chain, FirstChain, NoEntry
<1>4. ASSUME NEW i \in FirstOwners PROVE i \in Owners
  BY <1>2, <1>4, FirstDiskAssumption DEF Owners, FirstOwners
<1>5. ChainsRight
  <2>1. \A i, j \in Owners : i # j => FirstChain(i) \cap FirstChain(j) = {}
    BY <1>3, FirstDiskAssumption
  <2>2. \A i \in Owners : \A c \in FirstChain(i) : FirstFat[c] # 0
    <3>1. \A c \in UNION {FirstChain(i) : i \in FirstOwners} : FirstFat[c] # 0
      <4>1. \A c \in {x \in Cluster : FirstFat[x] # 0} : FirstFat[c] # 0
        OBVIOUS
      <4> QED BY <4>1, FirstDiskAssumption
    <3> QED BY <1>3, <3>1
  <2> QED BY <1>2, <1>3, <2>1, <2>2 DEF ChainsRight
<1>6. WriteInv /\ DeleteInv
  BY DEF Init, WriteInv, DeleteInv
<1>7. DataInv
  <2>1. ASSUME NEW i \in Owners, NEW k \in 1 .. dir[i].size
        PROVE  Within(dir[i].cluster, k - 1)
    <3>1. dir[i].size \in Nat
      BY <1>1, OwnersAre DEF BaseInv
    <3>2. k - 1 \in 0 .. dir[i].size - 1
      BY <3>1
    <3> QED BY <1>2, <1>3, <3>2, FirstDiskAssumption DEF Within
  <2> QED BY <1>2, <2>1 DEF DataInv, Writing
<1>8. LeakInv
  <2>1. ASSUME NEW c \in Cluster, fat[c] # 0 PROVE ~Unowned(c)
    <3>1. c \in UNION {FirstChain(i) : i \in FirstOwners}
      BY <1>2, <2>1, FirstDiskAssumption
    <3>2. PICK i \in FirstOwners : c \in FirstChain(i)
      BY <3>1
    <3> QED BY <1>3, <1>4, <3>2 DEF Unowned
  <2> QED BY <1>2, <2>1 DEF LeakInv
<1> QED BY <1>5, <1>6, <1>7, <1>8 DEF FatInv

\* A call changes the FAT only where no file has a cluster.
LEMMA FatChanges ==
  ASSUME BaseInv, FatInv, [Next]_vars, NEW i \in Owners
  PROVE  /\ \A x \in Chain(dir[i].cluster) : fat'[x] = fat[x]
         /\ ChainIn(fat', dir[i].cluster) = ChainIn(fat, dir[i].cluster)
<1>1. ASSUME NEW x \in Chain(dir[i].cluster) PROVE fat'[x] = fat[x]
  <2>0. x \in Cluster /\ ~Unowned(x) /\ fat[x] # 0
    BY <1>1, ChainFact DEF Unowned, Chain, FatInv, ChainsRight
  <2>1. CASE MarkCluster
    <3>1. x # cluster /\ fat' = [fat EXCEPT ![cluster] = EndOfChain]
      BY <2>0, <2>1 DEF FatInv, WriteInv, MarkCluster
    <3> QED BY <2>0, <3>1 DEF BaseInv, TypeOK
  <2>2. CASE FreeChain
    <3>1. x \in SectorZero => table[x] = fat[x]
      BY <2>0, <2>2 DEF FatInv, DeleteInv, FreeChain
    <3> QED BY <2>0, <2>2, <3>1 DEF FreeChain
  <2>3. CASE fat' = fat
    BY <2>3
  <2>4. MarkCluster \/ FreeChain \/ fat' = fat
    BY DEF Next, Calls, Call, vars, disk, Overwrite, Create, Delete, CreateDir, MirrorCluster,
           WriteSector, WriteEntry, Unlink, FreeNext, SkipNext, FreeMirror, PowerLoss
  <2> QED BY <2>1, <2>2, <2>3, <2>4
<1>2. ChainIn(fat', dir[i].cluster) = ChainIn(fat, dir[i].cluster)
  BY <1>1, ChainSame DEF Chain
<1> QED BY <1>1, <1>2

\* The clusters that no file owns stay so while the directory does.
LEMMA ChainsKept ==
  ASSUME BaseInv, FatInv, [Next]_vars, dir' = dir
  PROVE  /\ ChainsRight' /\ Owners' = Owners
         /\ \A c : Unowned(c)' <=> Unowned(c)
<1>1. Owners' = Owners
  BY DEF Owners
<1>2. ASSUME NEW i \in Owners PROVE ChainIn(fat', dir[i].cluster) = ChainIn(fat, dir[i].cluster)
  BY <1>2, FatChanges
<1>3. ASSUME NEW i \in Owners, NEW c \in ChainIn(fat, dir[i].cluster) PROVE fat'[c] # 0
  BY <1>3, FatChanges DEF FatInv, ChainsRight, Chain
<1>4. ChainsRight'
  BY <1>1, <1>2, <1>3 DEF FatInv, ChainsRight, Chain
<1>5. ASSUME NEW c PROVE Unowned(c)' <=> Unowned(c)
  BY <1>1, <1>2 DEF Unowned, Chain
<1> QED BY <1>1, <1>4, <1>5

\* One entry becomes free or a directory: its chain is nobody's.
LEMMA EntryGone ==
  ASSUME ChainsRight, NEW s \in Slot, dir'[s].cluster \notin Cluster,
         \A i \in Slot \ {s} : dir'[i] = dir[i], fat' = fat
  PROVE  /\ ChainsRight' /\ Owners' = Owners \ {s}
         /\ \A i \in Owners' : i \in Owners /\ dir'[i] = dir[i]
         /\ \A c : Unowned(c) => Unowned(c)'
         /\ s \in Owners => \A c \in Chain(dir[s].cluster) : Unowned(c)'
         /\ s \notin Owners => \A c : Unowned(c)' => Unowned(c)
<1>3. Owners' = Owners \ {s}
  BY DEF Owners
<1>4. \A i \in Owners' : i \in Owners /\ dir'[i] = dir[i] /\ i # s
  BY <1>3 DEF Owners
<1>5. ChainsRight'
  BY <1>4 DEF ChainsRight, Chain
<1>7. \A c : Unowned(c) => Unowned(c)'
  BY <1>4 DEF Unowned, Chain
<1>8. ASSUME s \in Owners, NEW c \in Chain(dir[s].cluster) PROVE Unowned(c)'
  BY <1>4, <1>8 DEF Unowned, Chain, ChainsRight
<1>9. s \notin Owners => \A c : Unowned(c)' => Unowned(c)
  BY <1>3 DEF Unowned, Chain, Owners
<1> QED BY <1>3, <1>4, <1>5, <1>7, <1>8, <1>9

\* The entry of a file that was written gets its cluster.
LEMMA EntryWritten ==
  ASSUME BaseInv, FatInv, WriteEntry
  PROVE  /\ ChainsRight' /\ slot \in Owners'
         /\ \A i \in Owners' : i # slot => i \in Owners /\ i \in Slot /\ dir'[i] = dir[i]
         /\ \A c : Unowned(c)' => Unowned(c) /\ c # cluster
<1>1. /\ slot \in Slot /\ cluster \in Cluster /\ fat' = fat
      /\ \/ NewFile /\ fat[cluster] = EndOfChain /\ Unowned(cluster)
         \/ OldFile
      /\ ChainsRight /\ (NewFile => slot \notin Owners)
  BY WrittenEntry DEF FatInv, WriteEntry, WriteInv
<1>3. dir'[slot].cluster = cluster /\ \A i \in Slot \ {slot} : dir'[i] = dir[i]
  BY WrittenEntry
<1>6. slot \in Owners' /\ Owners' = Owners \cup {slot}
  BY <1>1, <1>3 DEF Owners
<1>7. \A i \in Owners' : i # slot => i \in Owners /\ i \in Slot /\ dir'[i] = dir[i]
  BY <1>3, <1>6 DEF Owners
<1>2. OldFile => slot \in Owners /\ dir[slot].cluster = cluster
  BY <1>1 DEF Owners, OldFile
<1>8. \A c \in Chain(cluster) : fat[c] # 0
  <2>1. CASE fat[cluster] = EndOfChain
    <3>1. Chain(cluster) = {cluster}
      BY <1>1, <2>1, ClusterFact, ChainEnds DEF Chain
    <3> QED BY <2>1, <3>1 DEF EndOfChain
  <2>2. CASE OldFile
    BY <1>1, <1>2, <2>2 DEF ChainsRight
  <2> QED BY <1>1, <2>1, <2>2
<1>9. ASSUME NEW i \in Owners, i # slot
      PROVE  Chain(dir[i].cluster) \cap Chain(cluster) = {}
  <2>1. CASE NewFile /\ fat[cluster] = EndOfChain /\ Unowned(cluster)
    <3>1. Chain(cluster) = {cluster}
      BY <1>1, <2>1, ClusterFact, ChainEnds DEF Chain
    <3> QED BY <1>9, <2>1, <3>1 DEF Unowned
  <2>2. CASE OldFile
    BY <1>1, <1>2, <1>9, <2>2 DEF ChainsRight
  <2> QED BY <1>1, <2>1, <2>2
<1>10. ChainsRight'
  <2>1. ASSUME NEW i \in Owners' PROVE \A c \in ChainIn(fat, dir'[i].cluster) : fat[c] # 0
    BY <1>1, <1>3, <1>7, <1>8, <2>1 DEF ChainsRight, Chain
  <2>2. ASSUME NEW i \in Owners', NEW j \in Owners', i # j
        PROVE  ChainIn(fat, dir'[i].cluster) \cap ChainIn(fat, dir'[j].cluster) = {}
    <3>1. CASE i = slot
      BY <1>3, <1>7, <1>9, <2>2, <3>1 DEF Chain
    <3>2. CASE j = slot
      BY <1>3, <1>7, <1>9, <2>2, <3>2 DEF Chain
    <3>3. CASE i # slot /\ j # slot
      BY <1>1, <1>7, <2>2, <3>3 DEF ChainsRight, Chain
    <3> QED BY <3>1, <3>2, <3>3
  <2> QED BY <1>1, <2>1, <2>2 DEF ChainsRight, Chain
<1>12. ASSUME NEW c, Unowned(c)' PROVE Unowned(c) /\ c # cluster
  <2>1. c \notin ChainIn(fat, cluster)
    BY <1>1, <1>3, <1>6, <1>12 DEF Unowned, Chain
  <2>2. c # cluster
    BY <1>1, <2>1, ChainFact
  <2>3. ASSUME NEW i \in Owners PROVE c \notin Chain(dir[i].cluster)
    <3>1. CASE i = slot
      BY <1>1, <1>2, <2>1, <2>3, <3>1 DEF Chain
    <3>2. CASE i # slot
      <4>1. i \in Owners' /\ dir'[i] = dir[i]
        BY <1>3, <1>6, <3>2, <2>3 DEF Owners
      <4> QED BY <1>1, <1>12, <4>1 DEF Unowned, Chain
    <3> QED BY <3>1, <3>2
  <2> QED BY <2>2, <2>3 DEF Unowned
<1> QED BY <1>6, <1>7, <1>10, <1>12

-----------------------------------------------------------------------------
(* The parts of the invariant are inductive.                               *)

LEMMA FatStep ==
  ASSUME BaseInv, FatInv, [Next]_vars, "stray" \notin mishaps'
  PROVE  FatInv'
<1>0. /\ TypeOK /\ DirInv /\ CallInv /\ ChainsRight /\ WriteInv /\ DeleteInv
      /\ TypeOK' /\ DirInv' /\ CallInv'
  BY BaseStep DEF BaseInv, FatInv
<1>a. ASSUME dir' = dir PROVE ChainsRight' /\ \A c : Unowned(c)' <=> Unowned(c)
  BY <1>a, ChainsKept
<1>b. ASSUME pc' = "idle" PROVE WriteInv' /\ DeleteInv'
  BY <1>b DEF WriteInv, DeleteInv
<1>1. CASE UNCHANGED vars
  <2>1. UNCHANGED <<fat, dir, pc, file, slot, cluster, table>>
    BY <1>1 DEF vars, disk, call
  <2>2. (NewFile' <=> NewFile) /\ (OldFile' <=> OldFile) /\ \A c : Chain(c)' = Chain(c)
    BY <2>1 DEF NewFile, OldFile, SlotsOf, IsDirectory, Chain
  <2>3. WriteInv' /\ DeleteInv'
    BY <1>0, <1>a, <2>1, <2>2 DEF WriteInv, DeleteInv
  <2> QED BY <1>a, <2>1, <2>3 DEF FatInv
<1>2. ASSUME NEW f \in Names, NEW t \in Written, NEW n \in 0 .. MaxSectors + 1,
             Overwrite(f, t, n) \/ Create(f, t, n)
      PROVE  FatInv'
  <2>1. UNCHANGED <<fat, dir>> /\ pc' \in {"data", "fat"}
    BY <1>2 DEF Overwrite, Create, disk
  <2>2. CASE Overwrite(f, t, n)
    <3>1. pc' = "data" /\ OldFile'
      BY <1>0, <2>2, OverwriteFact DEF Overwrite
    <3> QED BY <1>a, <2>1, <3>1 DEF FatInv, WriteInv, DeleteInv
  <2>3. CASE Create(f, t, n)
    <3>1. pc' = "fat" /\ fat[cluster'] = 0
      BY <1>0, <2>3, CreateFact DEF Create
    <3> QED BY <1>a, <2>1, <3>1 DEF FatInv, WriteInv, DeleteInv
  <2> QED BY <1>2, <2>2, <2>3
<1>3. ASSUME NEW f \in Names, Delete(f) PROVE FatInv'
  <2>1. /\ UNCHANGED <<fat, dir>> /\ pc' = "unlink"
        /\ table' = [c \in SectorZero |-> fat[c]]
    BY <1>3 DEF Delete, disk
  <2> QED BY <1>a, <2>1 DEF FatInv, WriteInv, DeleteInv
<1>4. ASSUME NEW d \in DirNames, NEW parent \in Parents, CreateDir(d, parent)
      PROVE  FatInv'
  <2>1. PICK s : s = First(FreeSlots \cap parent)
    OBVIOUS
  <2>2. /\ s \in Slot /\ dir'[s].cluster \notin Cluster
        /\ \A i \in Slot \ {s} : dir'[i] = dir[i]
    BY <1>4, <2>1, DirectoryMade, EntriesAre
  <2>3. pc' = "idle" /\ fat' = fat
    BY <1>4 DEF CreateDir
  <2> QED BY <1>0, <1>b, <2>2, <2>3, EntryGone DEF FatInv
<1>5. CASE MarkCluster
  <2>1. /\ pc = "fat" /\ pc' = "fat2" /\ dir' = dir /\ UNCHANGED call
        /\ fat' = [fat EXCEPT ![cluster] = EndOfChain]
        /\ fat \in [Cluster -> {0, EndOfChain} \cup Cluster]
    BY <1>0, <1>5 DEF MarkCluster, TypeOK
  <2>2. cluster \in Cluster /\ NewFile /\ fat[cluster] = 0
    BY <1>0, <2>1 DEF CallInv, Writing, WriteInv
  <2>3. Unowned(cluster)
    BY <1>0, <2>2 DEF Unowned, ChainsRight
  <2>4. cluster' = cluster
    BY <2>1 DEF call
  <2>5. Unowned(cluster)'
    <3>1. PICK c : c = cluster
      OBVIOUS
    <3>2. Unowned(c)'
      BY <1>a, <2>1, <2>3, <3>1
    <3> QED BY <2>4, <3>1, <3>2 DEF Unowned, Chain
  <2>6. fat'[cluster] = EndOfChain /\ NewFile'
    BY <2>1, <2>2 DEF NewFile, SlotsOf, IsDirectory, call
  <2>7. WriteInv' /\ DeleteInv'
    BY <2>1, <2>4, <2>5, <2>6 DEF WriteInv, DeleteInv
  <2> QED BY <1>a, <2>1, <2>7 DEF FatInv
<1>6. CASE MirrorCluster \/ WriteSector
  <2>1. /\ pc \in {"fat2", "data"} /\ pc' = "data"
        /\ UNCHANGED <<fat, dir, file, slot, cluster>>
    BY <1>6 DEF MirrorCluster, WriteSector, call
  <2>2. (NewFile' <=> NewFile) /\ (OldFile' <=> OldFile)
    BY <2>1 DEF NewFile, OldFile, SlotsOf, IsDirectory
  <2>3. Unowned(cluster)' <=> Unowned(cluster)
    <3>1. PICK c : c = cluster
      OBVIOUS
    <3>2. Unowned(c)' <=> Unowned(c)
      BY <1>a, <2>1
    <3> QED BY <2>1, <3>1, <3>2 DEF Unowned, Chain
  <2>4. WriteInv' /\ DeleteInv'
    BY <1>0, <2>1, <2>2, <2>3 DEF WriteInv, DeleteInv
  <2> QED BY <1>a, <2>1, <2>4 DEF FatInv
<1>7. CASE WriteEntry
  BY <1>b, <1>7, EntryWritten DEF FatInv, WriteEntry
<1>8. CASE Unlink
  <2>1. /\ slot \in Slot /\ dir[slot].cluster = cluster /\ dir'[slot] = NoEntry
        /\ \A i \in Slot \ {slot} : dir'[i] = dir[i]
    BY <1>8, UnlinkedEntry
  <2>2. fat' = fat /\ pc = "unlink" /\ NoEntry.cluster \notin Cluster
    BY <1>8, EntriesAre DEF Unlink
  <2>3. ChainsRight' /\ (slot \in Owners => \A c \in Chain(dir[slot].cluster) : Unowned(c)')
    BY <1>0, <2>1, <2>2, EntryGone
  <2>4. CASE pc' = "idle"
    BY <1>b, <2>3, <2>4 DEF FatInv
  <2>5. CASE pc' = "walk" /\ UNCHANGED call /\ cluster \in Cluster
    <3>1. slot \in Owners
      BY <2>1, <2>5 DEF Owners
    <3>2. UNCHANGED <<cluster, table>>
      BY <2>5 DEF call
    <3>3. \A c \in Chain(cluster)' : Unowned(c)'
      BY <2>1, <2>2, <2>3, <3>1, <3>2 DEF Chain
    <3>4. \A c \in SectorZero : table'[c] = fat'[c]
      BY <1>0, <2>2, <3>2 DEF DeleteInv
    <3>5. DeleteInv' /\ WriteInv'
      BY <2>5, <3>3, <3>4 DEF DeleteInv, WriteInv
    <3> QED BY <2>3, <3>5 DEF FatInv
  <2> QED BY <1>8, <2>4, <2>5 DEF Unlink
<1>9. CASE FreeNext
  <2>1. /\ pc = "walk" /\ pc' = "walk" /\ cluster \in SectorZero /\ cluster \in Cluster
        /\ UNCHANGED <<fat, dir>>
        /\ cluster' = table[cluster] /\ table' = [table EXCEPT ![cluster] = 0]
    BY <1>9 DEF FreeNext, NextOf, disk, SectorZero
  <2>2. /\ \A c \in Chain(cluster) : Unowned(c)
        /\ \A c \in SectorZero : table[c] = fat[c] \/ (table[c] = 0 /\ Unowned(c))
    BY <1>0, <2>1 DEF DeleteInv
  <2>3. Unowned(cluster)
    BY <2>1, <2>2, ChainFact DEF Chain
  <2>4. Chain(cluster)' \subseteq Chain(cluster)
    <3>1. CASE table[cluster] = 0
      BY <2>1, <3>1, ChainFact, ClusterFact DEF Chain
    <3>2. CASE table[cluster] = fat[cluster]
      BY <2>1, <3>2, ChainRest DEF Chain
    <3> QED BY <2>1, <2>2, <3>1, <3>2
  <2>5. \A c \in SectorZero : table'[c] = fat[c] \/ (table'[c] = 0 /\ Unowned(c))
    BY <1>0, <2>1, <2>2, <2>3 DEF TypeOK
  <2>6. \A c : Unowned(c)' <=> Unowned(c)
    BY <1>a, <2>1
  <2>7. DeleteInv' /\ WriteInv'
    BY <2>1, <2>2, <2>4, <2>5, <2>6 DEF DeleteInv, WriteInv
  <2> QED BY <1>a, <2>1, <2>7 DEF FatInv
<1>10. CASE SkipNext
  <2>1. /\ pc = "walk" /\ pc' = "walk" /\ UNCHANGED <<fat, dir, table>>
        /\ cluster' \notin SectorZero
    BY <1>10 DEF SkipNext, disk
  <2>2. \A c : Unowned(c)' <=> Unowned(c)
    BY <1>a, <2>1
  <2>3. DeleteInv' /\ WriteInv'
    BY <1>0, <2>1, <2>2 DEF DeleteInv, WriteInv
  <2> QED BY <1>a, <2>1, <2>3 DEF FatInv
<1>11. CASE FreeChain
  <2>1. pc' = "free2" /\ dir' = dir
    BY <1>11 DEF FreeChain
  <2> QED BY <1>a, <2>1 DEF FatInv, DeleteInv, WriteInv
<1>12. CASE FreeMirror \/ PowerLoss
  <2>1. pc' = "idle" /\ dir' = dir
    BY <1>12 DEF FreeMirror, PowerLoss, disk
  <2> QED BY <1>a, <1>b, <2>1 DEF FatInv
<1> QED
  BY <1>1, <1>2, <1>3, <1>4, <1>5, <1>6, <1>7, <1>8, <1>9, <1>10, <1>11, <1>12
     DEF Next, Calls, Call

\* The sectors of a chain.
LEMMA WithinFact ==
  ASSUME NEW c \in Cluster, NEW k \in Nat, Within(c, k)
  PROVE  Lba(c) + k \in Sector /\ c + k \div SectorsPerCluster \in Chain(c)
  BY DEF Within

\* A sector of the text that is written does not overwrite an earlier one.
LEMMA WriteStep ==
  ASSUME BaseInv, DataInv, WriteSector, "overrun" \notin mishaps'
  PROVE  /\ done \in Nat /\ done' = done + 1 /\ want \in Seq(Block) /\ cluster \in Cluster
         /\ Within(cluster, done) /\ done < Len(want)
         /\ \A k \in 1 .. done' : /\ Within(cluster, k - 1)
                                  /\ data'[Lba(cluster) + k - 1] = want[k]
<1>1. /\ done \in Nat /\ want \in Seq(Block) /\ cluster \in Cluster
      /\ \A k \in 1 .. done : /\ Within(cluster, k - 1)
                              /\ data[Lba(cluster) + k - 1] = want[k]
  BY Sizes DEF BaseInv, TypeOK, WriteSector, CallInv, DataInv, Writing
<1>2. /\ done < Len(want) /\ done' = done + 1 /\ Within(cluster, done)
      /\ data' = [s \in Sector |-> IF s = Lba(cluster) + done THEN want[done + 1] ELSE data[s]]
  BY DEF WriteSector, Target
<1>3. PICK l \in Nat : l = Lba(cluster)
  BY <1>1, LbaFact
<1>4. l + done \in Sector
  BY <1>1, <1>2, <1>3, WithinFact
<1>5. ASSUME NEW k \in 1 .. done + 1
      PROVE  Within(cluster, k - 1) /\ data'[l + k - 1] = want[k]
  <2>1. CASE k = done + 1
    <3>1. l + k - 1 = l + done /\ k - 1 = done
      BY <1>1, <1>3, <2>1
    <3> QED BY <1>2, <1>3, <1>4, <2>1, <3>1
  <2>2. CASE k # done + 1
    <3>1. k \in 1 .. done
      BY <1>1, <1>5, <2>2
    <3>2. PICK m \in Nat : m = k - 1 /\ m < done
      BY <1>1, <3>1
    <3>3. Within(cluster, m) /\ data[l + m] = want[k]
      <4>1. l + k - 1 = l + m
        BY <1>3, <3>1, <3>2
      <4> QED BY <1>1, <1>3, <3>1, <3>2, <4>1
    <3>4. l + m \in Sector /\ l + m # l + done
      BY <1>1, <1>3, <3>2, <3>3, WithinFact
    <3>5. data'[l + m] = data[l + m]
      BY <1>2, <1>3, <3>4
    <3>6. l + k - 1 = l + m
      BY <1>3, <3>1, <3>2
    <3> QED BY <3>2, <3>3, <3>5, <3>6
  <2> QED BY <2>1, <2>2
<1> QED BY <1>1, <1>2, <1>3, <1>5

LEMMA DataStep ==
  ASSUME BaseInv, FatInv, DataInv, [Next]_vars, ~Spoilt'
  PROVE  DataInv'
<1>0. /\ TypeOK /\ DirInv /\ CallInv
      /\ \A i \in Owners : \A k \in 1 .. dir[i].size : Within(dir[i].cluster, k - 1)
      /\ "overrun" \notin mishaps'
  BY DEF BaseInv, DataInv, Spoilt
<1>a. ASSUME NEW i \in Owners, NEW k \in 1 .. dir[i].size
      PROVE  /\ dir[i].cluster + (k - 1) \div SectorsPerCluster \in ChainIn(fat', dir[i].cluster)
             /\ Lba(dir[i].cluster) + (k - 1) \in Sector
  BY <1>0, FatChanges DEF Within, Chain
<1>b. ASSUME dir' = dir
      PROVE  \A i \in Owners' : \A k \in 1 .. dir'[i].size : Within(dir[i].cluster, k - 1)'
  <2>1. Owners' = Owners
    BY <1>b DEF Owners
  <2> QED BY <1>a, <1>b, <2>1 DEF Within, Chain
<1>c. ASSUME NEW s \in Slot, dir'[s].cluster \notin Cluster,
             \A i \in Slot \ {s} : dir'[i] = dir[i]
      PROVE  \A i \in Owners' : \A k \in 1 .. dir'[i].size : Within(dir[i].cluster, k - 1)'
  <2>1. \A i \in Owners' : i \in Owners /\ dir'[i] = dir[i]
    BY <1>c DEF Owners
  <2> QED BY <1>a, <2>1 DEF Within, Chain
<1>d. ASSUME pc' \notin {"fat", "fat2", "data"} \/ 1 .. done' = {}
      PROVE  Writing' => \A k \in 1 .. done' :
                /\ Within(cluster, k - 1)' /\ data'[Lba(cluster') + k - 1] = want'[k]
  BY <1>d DEF Writing
<1>1. CASE UNCHANGED vars
  <2>1. UNCHANGED <<fat, dir, data, pc, want, cluster, done>>
    BY <1>1 DEF vars, disk, call
  <2> QED BY <1>b, <2>1 DEF DataInv, Writing, Within, Chain
<1>2. CASE \/ \E f \in Names, t \in Written, n \in 0 .. MaxSectors + 1 :
                 Overwrite(f, t, n) \/ Create(f, t, n)
           \/ \E f \in Names : Delete(f)
  <2>1. UNCHANGED <<dir, done>> /\ pc = "idle"
    BY <1>2 DEF Overwrite, Create, Delete, disk
  <2>2. 1 .. done' = {}
    BY <1>0, <2>1 DEF CallInv
  <2> QED BY <1>b, <1>d, <2>1, <2>2 DEF DataInv
<1>3. ASSUME NEW d \in DirNames, NEW parent \in Parents, CreateDir(d, parent)
      PROVE  DataInv'
  <2>1. PICK s : s = First(FreeSlots \cap parent)
    OBVIOUS
  <2>2. /\ s \in Slot /\ dir'[s].cluster \notin Cluster
        /\ \A i \in Slot \ {s} : dir'[i] = dir[i]
    BY <1>3, <2>1, DirectoryMade, EntriesAre
  <2>3. pc' = "idle"
    BY <1>3 DEF CreateDir
  <2> QED BY <1>c, <1>d, <2>2, <2>3 DEF DataInv
<1>4. CASE MarkCluster \/ MirrorCluster
  <2>1. dir' = dir /\ pc \in {"fat", "fat2"} /\ done' = done
    BY <1>4 DEF MarkCluster, MirrorCluster, call
  <2>2. 1 .. done' = {}
    BY <1>0, <2>1 DEF CallInv, Writing
  <2> QED BY <1>b, <1>d, <2>1, <2>2 DEF DataInv
<1>5. CASE WriteSector
  <2>1. UNCHANGED <<fat, dir, want, cluster>>
    BY <1>5 DEF WriteSector
  <2>2. \A k \in 1 .. done' : /\ Within(cluster, k - 1)
                              /\ data'[Lba(cluster) + k - 1] = want[k]
    BY <1>0, <1>5, WriteStep
  <2> QED BY <1>b, <2>1, <2>2 DEF DataInv, Within, Chain
<1>6. CASE WriteEntry
  <2>1. /\ slot \in Slot /\ dir'[slot].cluster = cluster /\ dir'[slot].size = Len(want)
        /\ done = Len(want)
    BY <1>6, WrittenEntry
  <2>2. \A k \in 1 .. done : Within(cluster, k - 1)
    BY <1>6 DEF WriteEntry, DataInv, Writing
  <2>3. pc' = "idle" /\ fat' = fat
    BY <1>6 DEF WriteEntry
  <2>4. ASSUME NEW i \in Owners' PROVE \A k \in 1 .. dir'[i].size : Within(dir[i].cluster, k - 1)'
    <3>1. CASE i = slot
      BY <2>1, <2>2, <2>3, <3>1 DEF Within, Chain
    <3>2. CASE i # slot
      <4>1. i \in Owners /\ dir'[i] = dir[i]
        BY <1>6, <3>2, EntryWritten
      <4> QED BY <1>a, <4>1 DEF Within, Chain
    <3> QED BY <3>1, <3>2
  <2> QED BY <1>d, <2>3, <2>4 DEF DataInv
<1>7. CASE Unlink
  <2>1. /\ slot \in Slot /\ dir'[slot].cluster \notin Cluster
        /\ \A i \in Slot \ {slot} : dir'[i] = dir[i]
    BY <1>7, UnlinkedEntry, EntriesAre
  <2>2. pc' \in {"walk", "idle"}
    BY <1>7 DEF Unlink
  <2> QED BY <1>c, <1>d, <2>1, <2>2 DEF DataInv
<1>8. CASE FreeNext \/ SkipNext \/ FreeChain \/ FreeMirror \/ PowerLoss
  <2>1. dir' = dir /\ pc' \in {"walk", "free2", "idle"}
    BY <1>8 DEF FreeNext, SkipNext, FreeChain, FreeMirror, PowerLoss, disk
  <2> QED BY <1>b, <1>d, <2>1 DEF DataInv
<1> QED
  BY <1>1, <1>2, <1>3, <1>4, <1>5, <1>6, <1>7, <1>8 DEF Next, Calls, Call

-----------------------------------------------------------------------------
(* No cluster leaks while power does not fail in a call and the chains that *)
(* are deleted lie in FAT sector 0.                                        *)

LEMMA FreedFact ==
  ASSUME TypeOK
  PROVE  /\ \A c \in SectorZero : c \in Cluster /\ Freed[c] = table[c]
         /\ \A c \in Cluster \ SectorZero : Freed[c] = fat[c]
  BY DEF Freed, SectorZero

LEMMA LeakStep ==
  ASSUME BaseInv, FatInv, LeakInv, [Next]_vars
  PROVE  LeakInv'
<1> SUFFICES ASSUME mishaps' \subseteq {"overrun"} PROVE LeakInv'
  BY DEF LeakInv
<1>0. TypeOK' /\ TypeOK /\ DirInv /\ CallInv /\ ChainsRight /\ WriteInv /\ DeleteInv
  BY BaseStep DEF BaseInv, FatInv
<1>p. mishaps \subseteq {"overrun"} /\ ~PowerLoss /\ ~SkipNext
  BY MishapsStay DEF PowerLoss, SkipNext
<1>q. /\ \A c \in Cluster :
            (IF pc = "walk" THEN Freed[c] ELSE fat[c]) # 0 =>
               \/ ~Unowned(c)
               \/ pc \in {"fat2", "data"} /\ c = cluster
               \/ pc = "walk" /\ c \in ChainIn(Freed, cluster)
      /\ \A c \in Cluster :
            \/ fat2[c] = fat[c]
            \/ pc = "fat2" /\ c = cluster
            \/ pc = "free2" /\ c \in SectorZero
  BY <1>p DEF LeakInv
<1>a. ASSUME dir' = dir PROVE \A c : Unowned(c)' <=> Unowned(c)
  BY <1>a, ChainsKept
<1>1. CASE UNCHANGED vars
  <2>1. UNCHANGED <<fat, fat2, dir, pc, cluster, table>>
    BY <1>1 DEF vars, disk, call
  <2>2. Freed' = Freed
    BY <2>1 DEF Freed
  <2> QED BY <1>a, <1>q, <2>1, <2>2 DEF LeakInv
<1>2. CASE \/ \E f \in Names, t \in Written, n \in 0 .. MaxSectors + 1 :
                 Overwrite(f, t, n) \/ Create(f, t, n)
           \/ \E f \in Names : Delete(f)
  <2>1. /\ UNCHANGED <<fat, fat2, dir>> /\ pc = "idle" /\ pc' \in {"data", "fat", "unlink"}
    BY <1>2 DEF Overwrite, Create, Delete, disk
  <2> QED BY <1>a, <1>q, <2>1 DEF LeakInv
<1>3. ASSUME NEW d \in DirNames, NEW parent \in Parents, CreateDir(d, parent)
      PROVE  LeakInv'
  <2>1. PICK s : s = First(FreeSlots \cap parent)
    OBVIOUS
  <2>2. /\ s \in Slot /\ dir'[s].cluster \notin Cluster /\ s \notin Owners
        /\ \A i \in Slot \ {s} : dir'[i] = dir[i]
    BY <1>3, <2>1, DirectoryMade, EntriesAre DEF Owners
  <2>3. /\ pc = "idle" /\ pc' = "idle" /\ fat' = fat /\ fat2' = fat2
    BY <1>3 DEF CreateDir
  <2>4. \A c : Unowned(c)' => Unowned(c)
    BY <1>0, <2>2, <2>3, EntryGone
  <2> QED BY <1>q, <2>3, <2>4 DEF LeakInv
<1>4. CASE MarkCluster
  <2>1. /\ pc = "fat" /\ pc' = "fat2" /\ dir' = dir /\ fat2' = fat2 /\ cluster' = cluster
        /\ fat' = [fat EXCEPT ![cluster] = EndOfChain]
        /\ fat \in [Cluster -> {0, EndOfChain} \cup Cluster]
    BY <1>0, <1>4 DEF MarkCluster, TypeOK, call
  <2>3. \A c \in Cluster \ {cluster} : fat'[c] = fat[c]
    BY <2>1
  <2> QED BY <1>a, <1>q, <2>1, <2>3 DEF LeakInv
<1>5. CASE MirrorCluster
  <2>1. /\ pc = "fat2" /\ pc' = "data" /\ fat' = fat /\ dir' = dir /\ cluster' = cluster
        /\ \A c \in Cluster :
             fat2'[c] = IF FatSector(c) = FatSector(cluster) THEN fat[c] ELSE fat2[c]
    BY <1>5 DEF MirrorCluster, Mirrored, call
  <2> QED BY <1>a, <1>q, <2>1 DEF LeakInv
<1>6. CASE WriteSector
  <2>1. UNCHANGED <<fat, fat2, dir, pc, cluster>> /\ pc = "data"
    BY <1>6 DEF WriteSector
  <2> QED BY <1>a, <1>q, <2>1 DEF LeakInv
<1>7. CASE WriteEntry
  <2>1. /\ UNCHANGED <<fat, fat2>> /\ pc = "data" /\ pc' = "idle"
    BY <1>7 DEF WriteEntry
  <2>2. \A c : Unowned(c)' => Unowned(c) /\ c # cluster
    BY <1>7, EntryWritten
  <2> QED BY <1>q, <2>1, <2>2 DEF LeakInv
<1>8. CASE Unlink
  <2>1. /\ pc = "unlink" /\ fat' = fat /\ fat2' = fat2
        /\ \/ cluster \in Cluster /\ pc' = "walk" /\ UNCHANGED call
           \/ cluster \notin Cluster /\ pc' = "idle"
    BY <1>8 DEF Unlink
  <2>2. /\ slot \in Slot /\ dir[slot].cluster = cluster /\ dir'[slot].cluster \notin Cluster
        /\ \A i \in Slot \ {slot} : dir'[i] = dir[i]
        /\ \A c \in SectorZero : table[c] = fat[c]
    BY <1>0, <1>8, <2>1, UnlinkedEntry, EntriesAre DEF DeleteInv
  <2>3. CASE cluster \notin Cluster
    <3>1. slot \notin Owners
      BY <2>2, <2>3 DEF Owners
    <3>2. \A c : Unowned(c)' => Unowned(c)
      BY <1>0, <2>1, <2>2, <3>1, EntryGone
    <3> QED BY <1>q, <2>1, <2>3, <3>2 DEF LeakInv
  <2>4. CASE cluster \in Cluster
    <3>1. pc' = "walk" /\ cluster' = cluster /\ table' = table
      BY <2>1, <2>4 DEF call
    <3>2. \A c \in Cluster : Freed'[c] = fat[c]
      BY <2>1, <2>2, <3>1 DEF Freed
    <3>3. ChainIn(Freed', cluster) = ChainIn(fat, cluster)
      <4>1. \A x \in ChainIn(fat, cluster) : Freed'[x] = fat[x]
        BY <3>2, ChainFact
      <4> QED BY <4>1, ChainSame
    <3>4. ASSUME NEW c \in Cluster, fat[c] # 0
          PROVE  ~Unowned(c)' \/ c \in ChainIn(fat, cluster)
      <4>1. PICK i \in Owners : c \in Chain(dir[i].cluster)
        BY <1>q, <2>1, <3>4 DEF Unowned
      <4>2. CASE i = slot
        BY <2>2, <4>1, <4>2 DEF Chain
      <4>3. CASE i # slot
        <5>1. i \in Slot /\ dir'[i] = dir[i] /\ i \in Owners'
          BY <2>2, <4>1, <4>3 DEF Owners
        <5> QED BY <2>1, <4>1, <5>1 DEF Unowned, Chain
      <4> QED BY <4>2, <4>3
    <3> QED BY <1>q, <2>1, <3>1, <3>2, <3>3, <3>4 DEF LeakInv
  <2> QED BY <2>1, <2>3, <2>4
<1>9. CASE FreeNext
  <2>1. /\ pc = "walk" /\ pc' = "walk" /\ cluster \in Cluster /\ cluster \in SectorZero
        /\ UNCHANGED <<fat, fat2, dir>>
        /\ cluster' = table[cluster] /\ table' = [table EXCEPT ![cluster] = 0]
    BY <1>9 DEF FreeNext, NextOf, disk, SectorZero
  <2>4. /\ Freed[cluster] = cluster' /\ Freed'[cluster] = 0
        /\ \A c \in Cluster \ {cluster} : Freed'[c] = Freed[c]
    BY <1>0, <2>1 DEF Freed, TypeOK
  <2>5. ChainIn(Freed, cluster) \subseteq {cluster} \cup ChainIn(Freed', cluster')
    BY <2>1, <2>4, ChainAfter
  <2> QED BY <1>a, <1>q, <2>1, <2>4, <2>5 DEF LeakInv
<1>10. CASE FreeChain
  <2>1. /\ pc = "walk" /\ pc' = "free2" /\ dir' = dir /\ fat2' = fat2
        /\ fat' = Freed /\ cluster \notin Cluster
    BY <1>10 DEF FreeChain, Freed
  <2>4. ChainIn(Freed, cluster) = {}
    BY <2>1, ChainFact
  <2>5. \A c \in Cluster : c \notin SectorZero => fat'[c] = fat[c]
    BY <1>0, <2>1, FreedFact
  <2> QED BY <1>a, <1>q, <2>1, <2>4, <2>5 DEF LeakInv
<1>11. CASE FreeMirror
  <2>1. /\ pc = "free2" /\ pc' = "idle" /\ fat' = fat /\ dir' = dir
        /\ \A c \in Cluster : fat2'[c] = IF FatSector(c) = 0 THEN fat[c] ELSE fat2[c]
    BY <1>11 DEF FreeMirror, Mirrored
  <2> QED BY <1>a, <1>q, <2>1 DEF LeakInv, SectorZero
<1> QED
  BY <1>p, <1>1, <1>2, <1>3, <1>4, <1>5, <1>6, <1>7, <1>8, <1>9, <1>10, <1>11
     DEF Next, Calls, Call

\* What LeakInv says between two calls.
LEMMA LeakFact ==
  ASSUME FatInv, LeakInv, pc = "idle", mishaps \subseteq {"overrun"}, NEW F \in {fat, fat2}
  PROVE  {c \in Cluster : F[c] # 0} = UNION {Chain(dir[i].cluster) : i \in Owners}
<1>1. \A c \in Cluster : F[c] = fat[c] /\ (fat[c] # 0 => ~Unowned(c))
  BY DEF LeakInv
<1>2. ASSUME NEW i \in Owners, NEW c \in Chain(dir[i].cluster) PROVE c \in Cluster /\ fat[c] # 0
  BY <1>2, ChainFact DEF FatInv, ChainsRight, Chain
<1>3. ASSUME NEW c \in Cluster, F[c] # 0 PROVE \E i \in Owners : c \in Chain(dir[i].cluster)
  BY <1>1, <1>3 DEF Unowned
<1> QED BY <1>1, <1>2, <1>3

-----------------------------------------------------------------------------
(* Reading files back.                                                     *)

\* A file reads back as what its first entry says, if that is a file's.
LEMMA ReadFact ==
  ASSUME BaseInv, NEW f \in Names
  PROVE  \/ Read(f) = NoFile
         \/ \E i \in Owners :
              /\ i = First(SlotsOf(f)) /\ dir[i].name = f
              /\ Read(f) = [k \in 1 .. dir[i].size |-> data[Lba(dir[i].cluster) + k - 1]]
<1>1. CASE SlotsOf(f) = {}
  BY <1>1 DEF Read
<1>2. CASE SlotsOf(f) # {}
  <2>1. PICK i \in Slot : i = First(SlotsOf(f)) /\ dir[i].name = f
    BY <1>2, SlotsFact
  <2>2. CASE dir[i].dir
    BY <2>1, <2>2 DEF Read
  <2>3. CASE ~dir[i].dir
    <3>1. dir[i] # NoEntry
      BY <2>1, EntriesAre
    <3>2. i \in Owners
      BY <2>3, <3>1, OwnersAre DEF BaseInv, DirInv, IsDirectory
    <3> QED BY <1>2, <2>1, <2>3, <3>2 DEF Read
  <2> QED BY <2>2, <2>3
<1> QED BY <1>1, <1>2

\* The only entry of a name that was never doubled.
LEMMA ReadOwned ==
  ASSUME BaseInv, NEW i \in Owners, dir[i].name \notin doubled
  PROVE  Read(dir[i].name) =
            [k \in 1 .. dir[i].size |-> data[Lba(dir[i].cluster) + k - 1]]
<1>1. i \in Slot /\ dir[i].name \in Names /\ ~dir[i].dir
  BY OwnersAre DEF BaseInv
<1>2. SlotsOf(dir[i].name) # {} /\ First(SlotsOf(dir[i].name)) = i
  BY <1>1, OneSlot DEF BaseInv
<1> QED BY <1>1, <1>2 DEF Read

\* The sectors of a file are in the data area, and in clusters of its chain.
LEMMA FileSectors ==
  ASSUME BaseInv, DataInv, NEW i \in Owners, NEW k \in 1 .. dir[i].size
  PROVE  /\ dir[i].cluster \in Cluster /\ k - 1 \in Nat
         /\ dir[i].cluster + (k - 1) \div SectorsPerCluster \in Chain(dir[i].cluster)
         /\ Lba(dir[i].cluster) \in Nat
         /\ Lba(dir[i].cluster) + k - 1 \in Sector
<1>1. dir[i].cluster \in Cluster /\ dir[i].size \in Nat
  BY OwnersAre DEF BaseInv
<1>2. PICK m \in Nat : m = k - 1
  BY <1>1
<1>3. Within(dir[i].cluster, m)
  BY <1>2 DEF DataInv
<1>5. Lba(dir[i].cluster) + m \in Sector /\ Lba(dir[i].cluster) \in Nat
  BY <1>1, <1>2, <1>3, WithinFact, LbaFact
<1>6. Lba(dir[i].cluster) + k - 1 = Lba(dir[i].cluster) + m
  BY <1>2, <1>5
<1> QED BY <1>1, <1>2, <1>3, <1>5, <1>6, WithinFact

LEMMA ReadContents ==
  ASSUME BaseInv, DataInv, NEW f \in Names
  PROVE  Read(f) \in Contents
<1>1. CASE Read(f) = NoFile
  BY <1>1 DEF Contents
<1>2. ASSUME NEW i \in Owners,
             Read(f) = [k \in 1 .. dir[i].size |-> data[Lba(dir[i].cluster) + k - 1]]
      PROVE  Read(f) \in Contents
  <2>1. PICK n \in Nat : n = dir[i].size
    BY OwnersAre DEF BaseInv
  <2>2. data \in [Sector -> Block]
    BY DEF BaseInv, TypeOK
  <2>3. \A k \in 1 .. n : data[Lba(dir[i].cluster) + k - 1] \in Block
    BY <2>1, <2>2, FileSectors
  <2>4. [k \in 1 .. n |-> data[Lba(dir[i].cluster) + k - 1]] \in Seq(Block)
    BY <2>3
  <2> QED BY <1>2, <2>1, <2>4 DEF Contents
<1> QED BY <1>1, <1>2, ReadFact

\* A name whose entries and sectors stay reads back as before.
LEMMA ReadKept ==
  ASSUME BaseInv, NEW f \in Names, SlotsOf(f)' = SlotsOf(f),
         \A i \in SlotsOf(f) : dir'[i] = dir[i],
         \A i \in Owners : dir[i].name = f =>
            \A k \in 1 .. dir[i].size :
               data'[Lba(dir[i].cluster) + k - 1] = data[Lba(dir[i].cluster) + k - 1]
  PROVE  Read(f)' = Read(f)
<1>1. CASE SlotsOf(f) = {}
  BY <1>1 DEF Read
<1>2. CASE SlotsOf(f) # {}
  <2>1. PICK i \in Slot : i = First(SlotsOf(f)) /\ dir[i].name = f /\ i \in SlotsOf(f)
    BY <1>2, SlotsFact
  <2>2. First(SlotsOf(f))' = i /\ dir'[i] = dir[i]
    BY <2>1 DEF First
  <2>3. CASE dir[i].dir
    BY <1>2, <2>1, <2>2, <2>3 DEF Read
  <2>4. CASE ~dir[i].dir
    <3>1. dir[i] # NoEntry
      BY <2>1, EntriesAre
    <3>2. i \in Owners
      BY <2>4, <3>1, OwnersAre DEF BaseInv, DirInv, IsDirectory
    <3>3. Read(f) = [k \in 1 .. dir[i].size |-> data[Lba(dir[i].cluster) + k - 1]]
      BY <1>2, <2>1, <2>4 DEF Read
    <3>4. Read(f)' = [k \in 1 .. dir[i].size |-> data'[Lba(dir[i].cluster) + k - 1]]
      BY <1>2, <2>2, <2>4 DEF Read
    <3> QED BY <2>1, <3>2, <3>3, <3>4
  <2> QED BY <2>3, <2>4
<1> QED BY <1>1, <1>2

\* When one entry changes, the names it had and has are the only ones that
\* may read back as something else.
LEMMA OthersRead ==
  ASSUME BaseInv, NEW s \in Slot, NEW g \in Names, dir[s].name # g, dir'[s].name # g,
         \A i \in Slot \ {s} : dir'[i] = dir[i], data' = data
  PROVE  Read(g)' = Read(g)
<1>1. SlotsOf(g)' = SlotsOf(g) /\ \A i \in SlotsOf(g) : dir'[i] = dir[i]
  BY DEF SlotsOf
<1> QED BY <1>1, ReadKept

\* A sector that is written belongs to no other file.
LEMMA OthersSectorsKept ==
  ASSUME BaseInv, FatInv, DataInv, WriteSector, "overrun" \notin mishaps',
         NEW i \in Owners, dir[i].name # file, NEW k \in 1 .. dir[i].size
  PROVE  data'[Lba(dir[i].cluster) + k - 1] = data[Lba(dir[i].cluster) + k - 1]
<1>1. /\ cluster \in Cluster /\ done \in Nat /\ slot \in Slot
      /\ \/ NewFile /\ fat[cluster] = EndOfChain /\ Unowned(cluster)
         \/ OldFile
      /\ cluster + done \div SectorsPerCluster \in Chain(cluster)
  <2>1. cluster \in Cluster /\ done \in Nat /\ Within(cluster, done)
    BY WriteStep
  <2> QED BY <2>1, WithinFact DEF WriteSector, BaseInv, CallInv, Writing, FatInv, WriteInv
<1>7. data' = [s \in Sector |-> IF s = Lba(cluster) + done THEN want[done + 1] ELSE data[s]]
  BY DEF WriteSector, Target
<1>2. PICK c \in Cluster : c = dir[i].cluster /\ Lba(c) \in Nat
  BY FileSectors
<1>3. PICK m \in Nat : m = k - 1 /\ c + m \div SectorsPerCluster \in Chain(c)
  BY <1>2, FileSectors
<1>4. c + m \div SectorsPerCluster # cluster + done \div SectorsPerCluster
  <2>1. CASE fat[cluster] = EndOfChain /\ Unowned(cluster)
    <3>1. Chain(cluster) = {cluster}
      BY <1>1, <2>1, ClusterFact, ChainEnds DEF Chain
    <3> QED BY <1>1, <1>2, <1>3, <2>1, <3>1 DEF Unowned
  <2>2. CASE OldFile
    <3>1. slot \in Owners /\ slot # i /\ dir[slot].cluster = cluster
      BY <1>1, <2>2 DEF Owners, OldFile
    <3> QED BY <1>1, <1>2, <1>3, <3>1 DEF FatInv, ChainsRight
  <2> QED BY <1>1, <2>1, <2>2
<1>5. Lba(c) + m # Lba(cluster) + done
  BY <1>1, <1>4, SectorsDiffer
<1>6. PICK a \in Sector : a = Lba(c) + k - 1 /\ a = Lba(c) + m
  BY <1>2, <1>3, FileSectors
<1> QED BY <1>2, <1>5, <1>6, <1>7

-----------------------------------------------------------------------------
(* The engine implements FileStore.                                        *)

LEMMA StoreInit == ASSUME Init PROVE Store!Init
<1>1. \A f \in Names : Read(f) \in Contents
  BY BaseInit, FatInit, ReadContents
<1> QED BY <1>1 DEF Store!Init, Init, Spoilt

LEMMA StoreStep ==
  ASSUME BaseInv, BaseInv', FatInv, DataInv, [Next]_vars, ~Spoilt'
  PROVE  Store!Next \/ UNCHANGED Store!vars
<1>0. /\ TypeOK /\ DirInv /\ CallInv /\ DirInv' /\ CallInv'
      /\ "overrun" \notin mishaps'
  BY DEF BaseInv, Spoilt
<1>s. Spoilt' = Spoilt
  <2>1. ~Spoilt
    BY MishapsStay DEF Spoilt
  <2> QED BY <2>1 DEF Spoilt
<1>a. ASSUME dir' = dir, data' = data PROVE \A f : Read(f)' = Read(f)
  BY <1>a DEF Read, SlotsOf
<1>b. ASSUME \A f \in Names : Read(f)' = Read(f), file' = file, want' = want, doubled' = doubled
      PROVE  UNCHANGED Store!vars
  BY <1>b, <1>s DEF Store!vars
<1>c. pc # "idle" => file \in Names /\ file # NoFile
  BY <1>0, Sizes DEF CallInv, Writing, TypeOK
<1>d. ASSUME Store!Begin \/ Store!Work \/ Store!Return \/ Store!Hide \/ Store!PowerLoss
      PROVE  Store!Next
  BY <1>d DEF Store!Next
<1>1. CASE UNCHANGED vars
  BY <1>1, <1>a, <1>b DEF vars, disk, call, history
<1>2. ASSUME NEW f \in Names, pc = "idle", file' = f, want' \in Contents,
             UNCHANGED disk, UNCHANGED history
      PROVE  Store!Begin
  BY <1>0, <1>2, <1>a DEF Store!Begin, CallInv, disk, history
<1>3. ASSUME NEW f \in Names, NEW t \in Written, NEW n \in 0 .. MaxSectors + 1,
             Overwrite(f, t, n) \/ Create(f, t, n)
      PROVE  Store!Begin
  BY <1>2, <1>3, TextFact DEF Overwrite, Create, Contents
<1>4. ASSUME NEW f \in Names, Delete(f) PROVE Store!Begin
  BY <1>2, <1>4 DEF Delete, Contents
<1>5. ASSUME NEW d \in DirNames, NEW parent \in Parents, CreateDir(d, parent)
      PROVE  Store!Hide \/ UNCHANGED Store!vars
  <2>1. /\ pc = "idle" /\ data' = data /\ file' = file /\ want' = want
    BY <1>5 DEF CreateDir, call
  <2>2. PICK s \in Slot : /\ dir[s] = NoEntry /\ IsDirectory(dir'[s]) /\ dir'[s].name = d
                          /\ \A i \in Slot \ {s} : dir'[i] = dir[i]
                          /\ doubled' = IF SlotsOf(d) = {} THEN doubled ELSE doubled \cup {d}
    BY <1>5, DirectoryMade
  <2>3. ASSUME NEW g \in Names \ {d} PROVE Read(g)' = Read(g)
    BY <2>1, <2>2, EntriesAre, OthersRead
  <2>4. CASE SlotsOf(d) = {}
    <3>1. SlotsOf(d)' = {s}
      BY <2>2, <2>4 DEF SlotsOf
    <3>2. First({s}) \in {s}
      <4>1. {s} \subseteq Nat
        BY Sizes DEF Slot
      <4> QED BY <4>1, FirstFact
    <3>3. First(SlotsOf(d)') = s /\ First(SlotsOf(d))' = First(SlotsOf(d)')
      BY <3>1, <3>2 DEF First
    <3>4. Read(d)' = NoFile
      BY <2>2, <3>3 DEF Read, IsDirectory
    <3>5. Read(d) = NoFile
      BY <2>4 DEF Read
    <3> QED BY <1>b, <2>1, <2>2, <2>3, <2>4, <3>4, <3>5
  <2>5. CASE SlotsOf(d) # {}
    <3>1. file = NoFile /\ d \in Names
      BY <1>0, <2>1, Sizes DEF CallInv
    <3>2. doubled' = doubled \cup {d}
      BY <2>2, <2>5
    <3> QED BY <2>1, <2>3, <3>1, <3>2 DEF Store!Hide, Store!OthersKept
  <2> QED BY <2>4, <2>5
<1>6. CASE MarkCluster \/ MirrorCluster \/ FreeNext \/ SkipNext \/ FreeChain
  <2>1. UNCHANGED <<dir, data, file, want, doubled>>
    BY <1>6 DEF MarkCluster, MirrorCluster, FreeNext, SkipNext, FreeChain, call, disk, history
  <2> QED BY <1>a, <1>b, <2>1
<1>7. CASE WriteSector
  <2>1. UNCHANGED <<dir, file, want, doubled>> /\ pc = "data"
    BY <1>7 DEF WriteSector
  <2>2. ASSUME NEW g \in Names \ {file} PROVE Read(g)' = Read(g)
    <3>1. SlotsOf(g)' = SlotsOf(g)
      BY <2>1 DEF SlotsOf
    <3>2. \A i \in Owners : dir[i].name = g =>
            \A k \in 1 .. dir[i].size :
               data'[Lba(dir[i].cluster) + k - 1] = data[Lba(dir[i].cluster) + k - 1]
      BY <1>0, <1>7, <2>2, OthersSectorsKept
    <3> QED BY <2>1, <3>1, <3>2, ReadKept
  <2>3. Store!Work
    BY <1>c, <2>1, <2>2 DEF Store!Work, Store!OthersKept
  <2> QED BY <1>d, <2>3
<1>8. CASE WriteEntry
  <2>1. /\ data' = data /\ pc = "data" /\ file' = NoFile /\ want' = NoFile
        /\ done = Len(want)
    BY <1>8, IdleFact DEF WriteEntry
  <2>2. /\ slot \in Slot /\ want \in Seq(Block)
        /\ dir'[slot].cluster = cluster /\ dir'[slot].size = Len(want)
        /\ dir'[slot].name = file /\ ~dir'[slot].dir
        /\ \A i \in Slot \ {slot} : dir'[i] = dir[i]
        /\ file \notin doubled => \A i \in Slot \ {slot} : dir[i].name # file
        /\ doubled' = doubled /\ (NewFile \/ OldFile)
    BY <1>8, WrittenEntry
  <2>3. \A k \in 1 .. Len(want) : data[Lba(cluster) + k - 1] = want[k]
    BY <2>1 DEF DataInv, Writing
  <2>4. PICK f \in Names : f = file
    BY <1>c, <2>1
  <2>5. ASSUME f \notin doubled PROVE Read(f)' = want
    <3>1. SlotsOf(f)' = {slot}
      BY <2>2, <2>4, <2>5 DEF SlotsOf
    <3>2. First({slot}) \in {slot}
      <4>1. {slot} \subseteq Nat
        BY <2>2, Sizes DEF Slot
      <4> QED BY <4>1, FirstFact
    <3>3. First(SlotsOf(f)') = slot /\ First(SlotsOf(f))' = First(SlotsOf(f)')
      BY <3>1, <3>2 DEF First
    <3>4. Read(f)' = [k \in 1 .. Len(want) |-> data[Lba(cluster) + k - 1]]
      BY <2>1, <2>2, <3>1, <3>3 DEF Read
    <3>5. [k \in 1 .. Len(want) |-> data[Lba(cluster) + k - 1]] = [k \in 1 .. Len(want) |-> want[k]]
      BY <2>3
    <3> QED BY <2>2, <3>4, <3>5
  <2>6. ASSUME NEW g \in Names \ {file} PROVE Read(g)' = Read(g)
    <3>1. dir[slot].name # g
      BY <2>2, <2>6, EntriesAre DEF NewFile, OldFile
    <3> QED BY <2>1, <2>2, <2>6, <3>1, OthersRead
  <2>7. file \in doubled \/ [g \in Names |-> Read(g)'][file] = want
    BY <2>4, <2>5
  <2>8. Store!Return
    BY <1>c, <2>1, <2>2, <2>6, <2>7 DEF Store!Return, Store!OthersKept
  <2> QED BY <1>d, <2>8
<1>9. CASE Unlink
  <2>1. /\ slot \in Slot /\ file \in Names /\ want = NoFile
        /\ dir[slot].name = file /\ dir'[slot] = NoEntry
        /\ \A i \in Slot \ {slot} : dir'[i] = dir[i]
        /\ file \notin doubled => \A i \in Slot : dir'[i].name # file
        /\ doubled' = doubled
    BY <1>9, UnlinkedEntry
  <2>2. data' = data /\ pc = "unlink"
    BY <1>9 DEF Unlink
  <2>3. ASSUME NEW g \in Names \ {file} PROVE Read(g)' = Read(g)
    BY <2>1, <2>2, <2>3, EntriesAre, OthersRead
  <2>4. CASE UNCHANGED call
    <3>1. file' = file /\ want' = want
      BY <2>4 DEF call
    <3>2. Store!Work
      BY <1>c, <2>1, <2>2, <2>3, <3>1 DEF Store!Work, Store!OthersKept
    <3> QED BY <1>d, <3>2
  <2>5. CASE Idle
    <3>1. file' = NoFile /\ want' = NoFile
      BY <2>5, IdleFact
    <3>2. PICK g \in Names : g = file
      BY <2>1
    <3>3. g \notin doubled => Read(g)' = NoFile
      <4>1. g \notin doubled => SlotsOf(g)' = {}
        BY <2>1, <3>2 DEF SlotsOf
      <4> QED BY <4>1 DEF Read
    <3>4. file \in doubled \/ [f \in Names |-> Read(f)'][file] = want
      BY <2>1, <3>2, <3>3
    <3>5. Store!Return
      BY <1>c, <2>1, <2>2, <2>3, <3>1, <3>4 DEF Store!Return, Store!OthersKept
    <3> QED BY <1>d, <3>5
  <2> QED BY <1>9, <2>4, <2>5 DEF Unlink
<1>10. CASE FreeMirror
  <2>1. /\ pc = "free2" /\ dir' = dir /\ data' = data /\ file' = NoFile /\ want' = NoFile
        /\ doubled' = doubled
    BY <1>10, IdleFact DEF FreeMirror, history
  <2>2. file \in Names /\ want = NoFile /\ (file \in doubled \/ SlotsOf(file) = {})
    BY <1>0, <2>1 DEF CallInv
  <2>3. file \in doubled \/ Read(file) = NoFile
    BY <2>2 DEF Read
  <2>4. Store!Return
    BY <1>a, <1>c, <2>1, <2>2, <2>3 DEF Store!Return, Store!OthersKept
  <2> QED BY <1>d, <2>4
<1>11. CASE PowerLoss
  <2>1. /\ dir' = dir /\ data' = data /\ file' = NoFile /\ want' = NoFile
        /\ doubled' = doubled
    BY <1>11, IdleFact DEF PowerLoss, disk
  <2>2. Store!PowerLoss
    BY <1>a, <2>1 DEF Store!PowerLoss
  <2> QED BY <1>d, <2>2
<1> QED
  BY <1>1, <1>3, <1>4, <1>5, <1>6, <1>7, <1>8, <1>9, <1>10, <1>11, <1>d
     DEF Next, Calls, Call

-----------------------------------------------------------------------------
(* The invariants of the engine.                                           *)

LEMMA BaseAlways == Spec => []BaseInv
<1>1. Init => BaseInv
  BY BaseInit
<1>2. BaseInv /\ [Next]_vars => BaseInv'
  BY BaseStep
<1> QED BY <1>1, <1>2, PTL DEF Spec

LEMMA FatAlways == Spec => []("stray" \in mishaps \/ FatInv)
<1>1. Init => FatInv
  BY FatInit
<1>2. BaseInv /\ ("stray" \in mishaps \/ FatInv) /\ [Next]_vars
        => ("stray" \in mishaps \/ FatInv)'
  BY FatStep, MishapsStay
<1> QED BY <1>1, <1>2, BaseAlways, PTL DEF Spec

LEMMA SpoiltStays ==
  ASSUME [Next]_vars
  PROVE  /\ Spoilt => Spoilt'
         /\ "stray" \in mishaps => Spoilt /\ "stray" \in mishaps'
  BY MishapsStay DEF Spoilt

LEMMA DataAlways == Spec => [](Spoilt \/ DataInv)
<1>1. Init => DataInv
  BY FatInit
<1>2. BaseInv /\ ("stray" \in mishaps \/ FatInv) /\ (Spoilt \/ DataInv) /\ [Next]_vars
        => (Spoilt \/ DataInv)'
  BY DataStep, SpoiltStays
<1> QED BY <1>1, <1>2, BaseAlways, FatAlways, PTL DEF Spec

LEMMA LeakAlways == Spec => []("stray" \in mishaps \/ LeakInv)
<1>1. Init => LeakInv
  BY FatInit
<1>2. BaseInv /\ ("stray" \in mishaps \/ FatInv) /\ ("stray" \in mishaps \/ LeakInv) /\ [Next]_vars
        => ("stray" \in mishaps \/ LeakInv)'
  BY LeakStep, SpoiltStays
<1> QED BY <1>1, <1>2, BaseAlways, FatAlways, PTL DEF Spec

-----------------------------------------------------------------------------
(* The bytes of a text.                                                    *)

LEMMA Reads == Fds \in Nat /\ SectorSize \in Nat \ {0} /\ \A n \in Counts : n \in Nat
  BY ReadsAssumption

LEMMA BytesFact ==
  ASSUME NEW text \in Seq(Block), NEW n \in Nat, n = Len(text) * SectorSize
  PROVE  /\ Bytes(text) \in Seq(Block \X Nat) /\ Len(Bytes(text)) = n
         /\ \A j \in Nat : j < n =>
               /\ j \div SectorSize \in 0 .. Len(text) - 1
               /\ Bytes(text)[j + 1] = <<text[j \div SectorSize + 1], j % SectorSize>>
<1>1. PICK s \in Nat \ {0} : s = SectorSize
  BY Reads
<1>2. PICK l \in Nat : l = Len(text)
  OBVIOUS
<1>3. ASSUME NEW j \in Nat, j < n
      PROVE  j \div s \in 0 .. l - 1 /\ j % s \in Nat
  <2>1. PICK q \in Nat, r \in Nat : q = j \div s /\ r = j % s /\ j = q * s + r /\ q * s \in Nat
    BY DivideFact
  <2>2. l < q => l * s + s <= q * s
    BY ProductOrder
  <2>3. l # q
    BY <1>1, <1>2, <1>3, <2>1
  <2>4. q < l
    BY <1>1, <1>2, <1>3, <2>1, <2>2, <2>3
  <2> QED BY <2>1, <2>4
<1>4. \A k \in 1 .. n : /\ k - 1 \in Nat /\ k - 1 < n
                        /\ text[(k - 1) \div s + 1] \in Block /\ (k - 1) % s \in Nat
  <2>1. ASSUME NEW k \in 1 .. n
        PROVE  /\ k - 1 \in Nat /\ k - 1 < n
               /\ text[(k - 1) \div s + 1] \in Block /\ (k - 1) % s \in Nat
    <3>1. PICK j \in Nat : j = k - 1 /\ j < n
      BY <2>1
    <3>2. j \div s \in 0 .. l - 1 /\ j % s \in Nat
      BY <1>3, <3>1
    <3>3. PICK q \in 1 .. l : q = j \div s + 1
      BY <3>2
    <3> QED BY <1>2, <3>1, <3>2, <3>3
  <2> QED BY <2>1
<1>5. Bytes(text) = [k \in 1 .. n |-> <<text[(k - 1) \div s + 1], (k - 1) % s>>]
  BY <1>1 DEF Bytes
<1>6. Bytes(text) \in [1 .. n -> Block \X Nat]
  BY <1>4, <1>5
<1>7. ASSUME NEW j \in Nat, j < n
      PROVE  Bytes(text)[j + 1] = <<text[j \div s + 1], j % s>>
  <2>1. PICK k \in 1 .. n : k = j + 1 /\ k - 1 = j
    BY <1>7
  <2> QED BY <1>5, <2>1
<1>8. Bytes(text) \in Seq(Block \X Nat) /\ Len(Bytes(text)) = n
  BY ONLY <1>6, n \in Nat
<1>9. \A j \in Nat : j < n =>
        /\ j \div s \in 0 .. Len(text) - 1
        /\ Bytes(text)[j + 1] = <<text[j \div s + 1], j % s>>
  BY <1>2, <1>3, <1>7
<1> QED BY <1>1, <1>8, <1>9

\* A descriptor of a file with that text, size and offset of which n bytes
\* are read when count are asked for.
Reading(f, text, size, off, lba, count, n) ==
    /\ f.size = size /\ f.offset = off /\ f.lba = lba
    /\ off <= size /\ size = Len(text) * SectorSize /\ StoredAt(lba, text)
    /\ n = IF count <= size - off THEN count ELSE size - off

\* They are the next n bytes of the text.
ChunkRight(f, text, size, off, count, n) ==
    /\ Chunk(f, count) = SubSeq(Bytes(text), off + 1, off + n)
    /\ Chunk(f, count) \in Seq(Block \X Nat) /\ Len(Chunk(f, count)) = n
    /\ off + n <= size

LEMMA ChunkFact ==
  ASSUME NEW f, NEW text \in Seq(Block), NEW size \in Nat, NEW off \in Nat,
         NEW lba \in Int, NEW count \in Nat, NEW n \in Nat,
         Reading(f, text, size, off, lba, count, n)
  PROVE  ChunkRight(f, text, size, off, count, n)
<1> USE DEF Reading, StoredAt
<1> DEFINE B == Bytes(text)
<1>1. /\ B \in Seq(Block \X Nat) /\ Len(B) = size
      /\ \A j \in Nat : j < size =>
            /\ j \div SectorSize \in 0 .. Len(text) - 1
            /\ B[j + 1] = <<text[j \div SectorSize + 1], j % SectorSize>>
  BY BytesFact
<1> HIDE DEF B
<1>2. off + n <= size
  OBVIOUS
<1>3. ASSUME NEW k \in 1 .. n PROVE ByteAt(f, k - 1) = B[off + k]
  <2>1. PICK j \in Nat : j = off + (k - 1) /\ j < size /\ off + k = j + 1
    BY <1>2
  <2>2. PICK q \in 0 .. Len(text) - 1 : q = j \div SectorSize
    BY <1>1, <2>1
  <2>3. PICK m \in 1 .. Len(text) : m = q + 1 /\ lba + q = lba + m - 1
    BY <2>2
  <2>4. data[lba + q] = text[q + 1]
    BY <2>3
  <2>5. ByteAt(f, k - 1) = <<data[lba + q], j % SectorSize>>
    BY <2>1, <2>2 DEF ByteAt, SectorAt
  <2> QED BY <1>1, <2>1, <2>2, <2>4, <2>5
<1>4. \A i \in off + 1 .. off + n : B[i] \in Block \X Nat
  <2>1. \A i \in off + 1 .. off + n : i \in 1 .. Len(B)
    BY <1>1, <1>2
  <2> QED BY <1>1, <2>1
<1>5. PICK a \in Int : a = off + 1
  OBVIOUS
<1>6. PICK b \in Int : b = off + n
  OBVIOUS
<1>10. /\ b - a + 1 = n /\ (IF a <= b THEN b - a + 1 ELSE 0) = n
       /\ \A i \in Int : a + i - 1 = off + i
  BY ONLY <1>5, <1>6, off \in Nat, n \in Nat
<1>7. /\ SubSeq(B, a, b) \in Seq(Block \X Nat)
      /\ Len(SubSeq(B, a, b)) = n
      /\ \A i \in 1 .. n : SubSeq(B, a, b)[i] = B[off + i]
  <2>1. \A i \in a .. b : B[i] \in Block \X Nat
    BY <1>4, <1>5, <1>6
  <2>2. /\ SubSeq(B, a, b) \in Seq(Block \X Nat)
        /\ Len(SubSeq(B, a, b)) = IF a <= b THEN b - a + 1 ELSE 0
        /\ \A i \in 1 .. b - a + 1 : SubSeq(B, a, b)[i] = B[a + i - 1]
    BY <2>1, SubSeqProperties
  <2>3. ASSUME NEW i \in 1 .. n PROVE SubSeq(B, a, b)[i] = B[off + i]
    <3>1. a + i - 1 = off + i /\ i \in 1 .. b - a + 1
      BY <1>10
    <3> QED BY <2>2, <3>1
  <2> QED BY <1>10, <2>2, <2>3
<1>8. Chunk(f, count) = [k \in 1 .. n |-> ByteAt(f, k - 1)]
  BY DEF Chunk
<1>9. Chunk(f, count) = SubSeq(B, a, b)
  <2>1. PICK t \in Seq(Block \X Nat) : t = SubSeq(B, a, b) /\ Len(t) = n
    BY <1>7
  <2>2. t = [i \in 1 .. n |-> t[i]]
    <3>1. t \in [1 .. Len(t) -> Block \X Nat]
      BY ONLY t \in Seq(Block \X Nat), LenProperties
    <3>2. t \in [1 .. n -> Block \X Nat]
      BY <2>1, <3>1
    <3> QED BY ONLY <3>2
  <2>3. [i \in 1 .. n |-> t[i]] = [k \in 1 .. n |-> ByteAt(f, k - 1)]
    BY <1>3, <1>7, <2>1
  <2> QED BY <1>8, <2>1, <2>2, <2>3
<1> QED BY <1>2, <1>5, <1>6, <1>7, <1>9 DEF B, ChunkRight

-----------------------------------------------------------------------------
(* Descriptors.                                                            *)

\* The entry and the sectors of a file that no call works on stay.
LEMMA FileKept ==
  ASSUME BaseInv, FatInv, DataInv, [Next]_vars, "overrun" \notin mishaps',
         NEW i \in Owners, dir[i].name # file
  PROVE  /\ i \in Owners' /\ dir'[i] = dir[i]
         /\ \A k \in 1 .. dir[i].size :
               data'[Lba(dir[i].cluster) + k - 1] = data[Lba(dir[i].cluster) + k - 1]
<1> DEFINE Same == /\ i \in Owners' /\ dir'[i] = dir[i]
                   /\ \A k \in 1 .. dir[i].size :
                        data'[Lba(dir[i].cluster) + k - 1] = data[Lba(dir[i].cluster) + k - 1]
<1>0. i \in Slot /\ dir[i] # NoEntry
  BY EntriesAre DEF Owners
<1>1. CASE UNCHANGED <<dir, data>>
  BY <1>1 DEF Owners
<1>2. ASSUME NEW s \in Slot, s # i, data' = data, \A j \in Slot \ {s} : dir'[j] = dir[j]
      PROVE  Same
  BY <1>0, <1>2 DEF Owners
<1>3. CASE WriteSector
  <2>1. i \in Owners' /\ dir'[i] = dir[i]
    BY <1>3 DEF WriteSector, Owners
  <2> QED BY <1>3, <2>1, OthersSectorsKept
<1>4. CASE WriteEntry
  <2>1. /\ slot \in Slot /\ \A j \in Slot \ {slot} : dir'[j] = dir[j]
        /\ NewFile \/ OldFile
        /\ NewFile => slot \notin Owners
    BY <1>4, WrittenEntry
  <2>2. slot # i /\ data' = data
    BY <1>4, <2>1 DEF WriteEntry, OldFile
  <2> QED BY <1>2, <2>1, <2>2
<1>5. CASE Unlink
  <2>1. slot \in Slot /\ slot # i /\ \A j \in Slot \ {slot} : dir'[j] = dir[j]
    BY <1>5, UnlinkedEntry
  <2>2. data' = data
    BY <1>5 DEF Unlink
  <2> QED BY <1>2, <2>1, <2>2
<1>6. ASSUME NEW d \in DirNames, NEW parent \in Parents, CreateDir(d, parent)
      PROVE  Same
  <2>1. PICK s \in Slot : dir[s] = NoEntry /\ \A j \in Slot \ {s} : dir'[j] = dir[j]
    BY <1>6, DirectoryMade
  <2>2. s # i /\ data' = data
    BY <1>0, <1>6, <2>1 DEF CreateDir
  <2> QED BY <1>2, <2>1, <2>2
<1> HIDE DEF Same
<1>7. ASSUME ~WriteSector, ~WriteEntry, ~Unlink,
             \A d \in DirNames, parent \in Parents : ~CreateDir(d, parent)
      PROVE  UNCHANGED <<dir, data>>
  <2>1. CASE UNCHANGED vars
    BY <2>1 DEF vars, disk
  <2>2. CASE \/ \E f \in Names, t \in Written, n \in 0 .. MaxSectors + 1 :
                   Overwrite(f, t, n) \/ Create(f, t, n)
             \/ \E f \in Names : Delete(f)
    BY <2>2 DEF Overwrite, Create, Delete, disk
  <2>3. CASE \/ MarkCluster \/ MirrorCluster \/ FreeNext \/ SkipNext \/ FreeChain
             \/ FreeMirror \/ PowerLoss
    BY <2>3 DEF MarkCluster, MirrorCluster, FreeNext, SkipNext, FreeChain, FreeMirror,
                PowerLoss, disk
  <2> QED BY <1>7, <2>1, <2>2, <2>3 DEF Next, Calls, Call
<1>8. Same
  BY <1>1, <1>3, <1>4, <1>5, <1>6, <1>7 DEF Same
<1> QED BY <1>8 DEF Same

\* What a path leads to.
LEMMA ResolveFact ==
  ASSUME NEW path \in Paths, NEW e, e = Resolve(path), e # NoEntry
  PROVE  \E i \in Slot : e = dir[i] /\ dir[i].name \in Names
<1>1. ASSUME NEW name, NEW S, NEW x, x = Find(name, S), x # NoEntry
      PROVE  \E i \in Slot : x = dir[i] /\ dir[i].name = name
  <2>1. S \cap SlotsOf(name) \subseteq Nat /\ S \cap SlotsOf(name) # {}
    BY <1>1, Sizes DEF Find, SlotsOf, Slot
  <2>2. First(S \cap SlotsOf(name)) \in S \cap SlotsOf(name)
    BY <2>1, FirstFact
  <2> QED BY <1>1, <2>1, <2>2 DEF Find, SlotsOf
<1>2. CASE \E f \in Names : path = <<f>>
  <2>1. PICK f \in Names : path = <<f>>
    BY <1>2
  <2>2. e = Find(f, Slot)
    BY <2>1 DEF Resolve
  <2> QED BY <1>1, <2>1, <2>2
<1>3. CASE path \in Names \X Names
  <2>1. PICK g \in Names, f \in Names : path = <<g, f>>
    BY <1>3
  <2>2. e = Find(f, Shown(Find(g, Slot)))
    BY <2>1 DEF Resolve
  <2> QED BY <1>1, <2>1, <2>2
<1> QED BY <1>2, <1>3 DEF Paths

LEMMA OpenInitInv == ASSUME OpenInit PROVE OpenTypeOK /\ OpenInv
<1>1. fd_table = [fd \in Fd |-> Closed] /\ opened = [fd \in Fd |-> Unknown]
  BY DEF OpenInit
<1>2. Closed \in [open : BOOLEAN, size : Nat, lba : Int, offset : Nat]
      /\ Closed.offset <= Closed.size
  BY DEF Closed
<1>3. <<>> \in Seq(Block) /\ <<>> \in Seq(Block \X Nat)
  OBVIOUS
<1>4. Unknown \in [file : Names \cup {NoFile}, text : Seq(Block), got : Seq(Block \X Nat)]
  BY <1>3 DEF Unknown
<1> QED BY <1>1, <1>2, <1>4 DEF OpenTypeOK, OpenInv

\* The invariant for one descriptor.
Right(fd) ==
    opened[fd] # Unknown =>
        /\ opened[fd].file \in Names /\ opened[fd].file # file
        /\ Kept(opened[fd], fd_table[fd])
        /\ fd_table[fd].size = Len(opened[fd].text) * SectorSize
        /\ opened[fd].got = SubSeq(Bytes(opened[fd].text), 1, fd_table[fd].offset)

LEMMA OpenStep ==
  ASSUME BaseInv, DataInv, OpenTypeOK, OpenInv, NEW path \in Paths, Open(path)
  PROVE  OpenTypeOK' /\ OpenInv'
<1>0. /\ UNCHANGED <<fat, fat2, dir, data, file>> /\ pc = "idle" /\ file = NoFile
      /\ \A fd \in Fd : Right(fd)
  BY DEF Open, vars, disk, call, BaseInv, CallInv, OpenInv, Right
<1>1. PICK fd \in Fd : fd = First(FreeFds)
  <2>1. FreeFds \subseteq Fd /\ Fd \subseteq Nat /\ FreeFds # {}
    BY Reads DEF Open, FreeFds, Fd
  <2> QED BY <2>1, FirstFact
<1>2. PICK e : e = Resolve(path)
  OBVIOUS
<1>3. PICK i \in Slot : e = dir[i] /\ dir[i].name \in Names
  BY <1>2, ResolveFact DEF Open
<1>4. PICK text : text = [k \in 1 .. e.size |-> data[Lba(e.cluster) + k - 1]]
  OBVIOUS
<1>5. PICK f : f = [open |-> TRUE, size |-> e.size * SectorSize,
                    lba |-> Lba(e.cluster), offset |-> 0]
  OBVIOUS
<1>6. PICK h : h = [file |-> e.name, got |-> <<>>, text |-> text]
  OBVIOUS
<1>7. fd_table' = [fd_table EXCEPT ![fd] = f] /\ opened' = [opened EXCEPT ![fd] = h]
  BY <1>1, <1>2, <1>4, <1>5, <1>6 DEF Open
<1>8. e.size \in Nat /\ Lba(e.cluster) \in Int /\ (e.size > 0 => i \in Owners)
  <2>1. CASE i \in Owners
    BY <1>3, <2>1, OwnersAre, LbaFact DEF BaseInv
  <2>2. CASE i \notin Owners
    <3>1. dir[i] # NoEntry /\ ~IsFile(dir[i])
      BY <1>3, <2>2, Sizes, OwnersAre DEF BaseInv, NoEntry
    <3>2. e.size = 0 /\ e.cluster = 0
      BY <1>3, <3>1 DEF BaseInv, DirInv, IsDirectory
    <3> QED BY <3>2 DEF Lba, RootDir
  <2> QED BY <2>1, <2>2
<1>9. text \in Seq(Block) /\ Len(text) = e.size
  <2>1. ASSUME NEW k \in 1 .. e.size PROVE data[Lba(e.cluster) + k - 1] \in Block
    <3>1. i \in Owners
      BY <1>8, <2>1
    <3> QED BY <1>3, <2>1, <3>1, FileSectors DEF BaseInv, TypeOK
  <2>2. text \in [1 .. e.size -> Block]
    BY <1>4, <2>1
  <2>3. PICK m \in Nat : m = e.size
    BY <1>8
  <2>4. text \in [1 .. m -> Block]
    BY <2>2, <2>3
  <2>5. text \in Seq(Block) /\ Len(text) = m
    BY ONLY <2>4, m \in Nat
  <2> QED BY <2>3, <2>5
<1>10. PICK n \in Nat : n = e.size * SectorSize
  <2>1. PICK s \in Nat : s = SectorSize
    BY Reads
  <2>2. PICK m \in Nat : m = e.size
    BY <1>8
  <2> QED BY <2>1, <2>2, Product
<1>11. /\ f \in [open : BOOLEAN, size : Nat, lba : Int, offset : Nat] /\ f.offset <= f.size
       /\ f.offset = 0 /\ f.size = n /\ f.lba = Lba(e.cluster)
  BY <1>5, <1>8, <1>10
<1>12. <<>> \in Seq(Block \X Nat)
  OBVIOUS
<1>13. /\ h \in [file : Names \cup {NoFile}, text : Seq(Block), got : Seq(Block \X Nat)]
       /\ h.file = dir[i].name /\ h.text = text /\ h.got = <<>>
  BY <1>3, <1>6, <1>9, <1>12
<1>14. OpenTypeOK'
  BY <1>1, <1>7, <1>11, <1>13 DEF OpenTypeOK
<1>15. ASSUME NEW g \in Fd PROVE Right(g)'
  <2>1. CASE g # fd
    <3>1. opened'[g] = opened[g] /\ fd_table'[g] = fd_table[g]
      BY <1>7, <2>1 DEF OpenTypeOK
    <3>3. Kept(opened[g], fd_table[g]) => Kept(opened[g], fd_table[g])'
      BY <1>0, <3>1 DEF Kept, StoredAt, Owners
    <3> QED BY <1>0, <3>1, <3>3 DEF Right
  <2>2. CASE g = fd
    <3>1. opened'[g] = h /\ fd_table'[g] = f
      BY <1>7, <2>2 DEF OpenTypeOK
    <3>2. h.file \in Names /\ h.file # file'
      BY <1>0, <1>3, <1>13, Sizes
    <3>3. /\ Len(h.text) > 0 =>
               \E j \in Owners : /\ dir[j].name = h.file
                                 /\ Lba(dir[j].cluster) = f.lba
                                 /\ dir[j].size = Len(h.text)
          /\ \A k \in 1 .. Len(h.text) : data[f.lba + k - 1] = h.text[k]
      BY <1>3, <1>4, <1>8, <1>9, <1>11, <1>13
    <3>4. Kept(opened[g], fd_table[g])'
      BY <1>0, <3>1, <3>3 DEF Kept, StoredAt, Owners
    <3>5. f.size = Len(h.text) * SectorSize
      BY <1>9, <1>10, <1>11, <1>13
    <3>6. h.got = SubSeq(Bytes(h.text), 1, f.offset)
      BY <1>11, <1>13, SubSeqEmpty
    <3> QED BY <3>1, <3>2, <3>4, <3>5, <3>6 DEF Right
  <2> QED BY <2>1, <2>2
<1> QED BY <1>14, <1>15 DEF OpenInv, Right

LEMMA ReadStep ==
  ASSUME OpenTypeOK, OpenInv, NEW fd \in Fd, NEW count \in Counts, ReadOpen(fd, count)
  PROVE  OpenTypeOK' /\ OpenInv'
<1>0. /\ UNCHANGED <<fat, fat2, dir, data, file>>
      /\ \A g \in Fd : Right(g)
  BY DEF ReadOpen, vars, disk, call, OpenInv, Right
<1>1. PICK f : f = fd_table[fd]
  OBVIOUS
<1>2. /\ f \in [open : BOOLEAN, size : Nat, lba : Int, offset : Nat] /\ f.offset <= f.size
      /\ fd_table \in [Fd -> [open : BOOLEAN, size : Nat, lba : Int, offset : Nat]]
  BY <1>1 DEF OpenTypeOK
<1>3. PICK size \in Nat, off \in Nat, lba \in Int :
         size = f.size /\ off = f.offset /\ lba = f.lba /\ off <= size
  BY <1>2
<1>4. PICK c \in Nat : c = count
  BY Reads
<1>5. PICK n \in Nat : n = IF c <= size - off THEN c ELSE size - off
  BY <1>3
<1>6. off + n \in Nat /\ off + n <= size
  BY <1>3, <1>5
<1>7. PICK bytes : bytes = Chunk(f, c)
  OBVIOUS
<1>8. bytes = [k \in 1 .. n |-> ByteAt(f, k - 1)] /\ Len(bytes) = n
  <2>1. bytes = [k \in 1 .. n |-> ByteAt(f, k - 1)]
    BY <1>3, <1>5, <1>7 DEF Chunk
  <2> QED BY <2>1
<1>9. /\ fd_table' = [fd_table EXCEPT ![fd].offset = @ + n]
      /\ opened' = IF opened[fd] = Unknown THEN opened
                   ELSE [opened EXCEPT ![fd].got = @ \o bytes]
  BY <1>1, <1>4, <1>7, <1>8 DEF ReadOpen
<1>10. /\ fd_table'[fd] = [f EXCEPT !.offset = off + n]
       /\ \A g \in Fd \ {fd} : fd_table'[g] = fd_table[g]
       /\ fd_table' \in [Fd -> [open : BOOLEAN, size : Nat, lba : Int, offset : Nat]]
       /\ \A g \in Fd : fd_table'[g].offset <= fd_table'[g].size
  <2>1. fd_table' = [fd_table EXCEPT ![fd] = [f EXCEPT !.offset = off + n]]
    BY <1>1, <1>2, <1>3, <1>9
  <2>2. /\ [f EXCEPT !.offset = off + n] \in
             [open : BOOLEAN, size : Nat, lba : Int, offset : Nat]
        /\ [f EXCEPT !.offset = off + n].offset <= [f EXCEPT !.offset = off + n].size
    BY <1>2, <1>3, <1>6
  <2> QED BY <1>2, <2>1, <2>2 DEF OpenTypeOK
<1>11. ASSUME NEW g \in Fd, opened'[g] = opened[g], fd_table'[g] = fd_table[g]
       PROVE  Right(g)'
  <2>1. Kept(opened[g], fd_table[g]) => Kept(opened[g], fd_table[g])'
    BY <1>0, <1>11 DEF Kept, StoredAt, Owners
  <2> QED BY <1>0, <1>11, <2>1 DEF Right
<1>12. CASE opened[fd] = Unknown
  <2>1. opened' = opened
    BY <1>9, <1>12
  <2>2. Right(fd)'
    BY <1>12, <2>1 DEF Right
  <2>3. \A g \in Fd : Right(g)'
    BY <1>10, <1>11, <2>1, <2>2
  <2> QED BY <1>10, <2>1, <2>3 DEF OpenTypeOK, OpenInv, Right
<1>13. CASE opened[fd] # Unknown
  <2>1. PICK h : h = opened[fd]
    OBVIOUS
  <2>2. /\ h \in [file : Names \cup {NoFile}, text : Seq(Block), got : Seq(Block \X Nat)]
        /\ opened \in [Fd -> [file : Names \cup {NoFile}, text : Seq(Block),
                              got : Seq(Block \X Nat)]]
    BY <2>1 DEF OpenTypeOK
  <2>3. /\ h.file \in Names /\ h.file # file /\ Kept(h, f)
        /\ f.size = Len(h.text) * SectorSize
        /\ h.got = SubSeq(Bytes(h.text), 1, off)
    BY <1>0, <1>1, <1>3, <1>13, <2>1 DEF Right
  <2>4. PICK text \in Seq(Block) : text = h.text
    BY <2>2
  <2>5. /\ bytes = SubSeq(Bytes(text), off + 1, off + n)
        /\ bytes \in Seq(Block \X Nat)
    <3>1. Reading(f, text, size, off, lba, c, n)
      BY <1>3, <1>5, <2>3, <2>4 DEF Kept, Reading
    <3>2. ChunkRight(f, text, size, off, c, n)
      BY ONLY <3>1, ChunkFact, text \in Seq(Block), size \in Nat, off \in Nat,
              lba \in Int, c \in Nat, n \in Nat
    <3> QED BY <1>7, <3>2 DEF ChunkRight
  <2>6. Bytes(text) \in Seq(Block \X Nat) /\ Len(Bytes(text)) = size
    BY <1>3, <2>3, <2>4, BytesFact
  <2>7. h.got \o bytes = SubSeq(Bytes(text), 1, off + n)
    <3>1. PICK b \in Seq(Block \X Nat) : b = Bytes(text) /\ Len(b) = size
      BY <2>6
    <3>2. PICK m \in Nat : m = off + n
      BY <1>6
    <3>3. 1 \in 1 .. Len(b) + 1 /\ off \in 1 - 1 .. Len(b) /\ m \in off .. Len(b)
      BY <1>3, <1>5, <1>6, <3>1, <3>2
    <3>4. SubSeq(b, 1, off) \o SubSeq(b, off + 1, m) = SubSeq(b, 1, m)
      BY <3>3, ConcatAdjacentSubSeq
    <3> QED BY <2>3, <2>4, <2>5, <3>1, <3>2, <3>4
  <2>8. h.got \o bytes \in Seq(Block \X Nat)
    BY <2>2, <2>5
  <2>9. opened' = [opened EXCEPT ![fd] = [h EXCEPT !.got = h.got \o bytes]]
    BY <1>9, <1>13, <2>1, <2>2
  <2>10. PICK hh : hh = [h EXCEPT !.got = h.got \o bytes]
    OBVIOUS
  <2>11. /\ hh \in [file : Names \cup {NoFile}, text : Seq(Block), got : Seq(Block \X Nat)]
         /\ hh.file = h.file /\ hh.text = h.text /\ hh.got = h.got \o bytes
    BY <2>2, <2>8, <2>10
  <2>12. /\ opened'[fd] = hh /\ \A g \in Fd \ {fd} : opened'[g] = opened[g]
         /\ opened' \in [Fd -> [file : Names \cup {NoFile}, text : Seq(Block),
                                got : Seq(Block \X Nat)]]
    BY <2>2, <2>9, <2>10, <2>11
  <2>13. PICK ff : ff = fd_table'[fd]
    OBVIOUS
  <2>14. ff.size = f.size /\ ff.lba = f.lba /\ ff.offset = off + n
    BY <1>2, <1>10, <2>13
  <2>15. Right(fd)'
    <3>1. Kept(hh, ff)
      BY <2>3, <2>11, <2>14 DEF Kept
    <3>2. Kept(opened[fd], fd_table[fd])'
      BY <1>0, <2>12, <2>13, <3>1 DEF Kept, StoredAt, Owners
    <3> QED BY <1>0, <2>3, <2>4, <2>7, <2>11, <2>12, <2>13, <2>14, <3>2 DEF Right
  <2>16. \A g \in Fd : Right(g)'
    BY <1>10, <1>11, <2>12, <2>15
  <2> QED BY <1>10, <2>12, <2>16 DEF OpenTypeOK, OpenInv, Right
<1> QED BY <1>12, <1>13

LEMMA CloseStep ==
  ASSUME OpenTypeOK, OpenInv, NEW fd \in Fd, Close(fd)
  PROVE  OpenTypeOK' /\ OpenInv'
<1>0. /\ UNCHANGED <<fat, fat2, dir, data, file>>
      /\ fd_table' = [fd_table EXCEPT ![fd] = Closed]
      /\ opened' = [opened EXCEPT ![fd] = Unknown]
      /\ \A g \in Fd : Right(g)
  BY DEF Close, vars, disk, call, OpenInv, Right
<1>1. Closed \in [open : BOOLEAN, size : Nat, lba : Int, offset : Nat]
      /\ Closed.offset <= Closed.size
  BY DEF Closed
<1>2. <<>> \in Seq(Block) /\ <<>> \in Seq(Block \X Nat)
  OBVIOUS
<1>3. Unknown \in [file : Names \cup {NoFile}, text : Seq(Block), got : Seq(Block \X Nat)]
  BY <1>2 DEF Unknown
<1>4. OpenTypeOK'
  BY <1>0, <1>1, <1>3 DEF OpenTypeOK
<1>5. ASSUME NEW g \in Fd PROVE Right(g)'
  <2>1. CASE g = fd
    BY <1>0, <2>1 DEF Right, OpenTypeOK
  <2>2. CASE g # fd
    <3>1. opened'[g] = opened[g] /\ fd_table'[g] = fd_table[g]
      BY <1>0, <2>2 DEF OpenTypeOK
    <3>2. Kept(opened[g], fd_table[g]) => Kept(opened[g], fd_table[g])'
      BY <1>0, <3>1 DEF Kept, StoredAt, Owners
    <3> QED BY <1>0, <3>1, <3>2 DEF Right
  <2> QED BY <2>1, <2>2
<1> QED BY <1>4, <1>5 DEF OpenInv, Right

LEMMA EngineStep ==
  ASSUME BaseInv, FatInv, DataInv, OpenTypeOK, OpenInv, [Next]_vars,
         "overrun" \notin mishaps', fd_table' = fd_table,
         opened' = [fd \in Fd |-> IF opened[fd].file = file' THEN Unknown ELSE opened[fd]]
  PROVE  OpenTypeOK' /\ OpenInv'
<1>1. <<>> \in Seq(Block) /\ <<>> \in Seq(Block \X Nat)
  OBVIOUS
<1>2. Unknown \in [file : Names \cup {NoFile}, text : Seq(Block), got : Seq(Block \X Nat)]
  BY <1>1 DEF Unknown
<1>3. OpenTypeOK'
  BY <1>2 DEF OpenTypeOK
<1>4. ASSUME NEW fd \in Fd, opened'[fd] # Unknown PROVE Right(fd)'
  <2>1. opened'[fd] = opened[fd] /\ opened[fd] # Unknown /\ opened[fd].file # file'
    BY <1>4
  <2>2. Right(fd)
    BY DEF OpenInv, Right
  <2>3. PICK h : h = opened[fd]
    OBVIOUS
  <2>4. PICK f : f = fd_table[fd]
    OBVIOUS
  <2>5. /\ h.file \in Names /\ h.file # file /\ Kept(h, f)
        /\ f.lba \in Int /\ h.text \in Seq(Block)
    BY <2>1, <2>2, <2>3, <2>4 DEF Right, OpenTypeOK
  <2>6. /\ Len(h.text) > 0 =>
              \E i \in Owners' : /\ dir'[i].name = h.file
                                 /\ Lba(dir'[i].cluster) = f.lba
                                 /\ dir'[i].size = Len(h.text)
        /\ \A k \in 1 .. Len(h.text) : data'[f.lba + k - 1] = h.text[k]
    <3>1. CASE Len(h.text) > 0
      <4>1. PICK i \in Owners : /\ dir[i].name = h.file
                                /\ Lba(dir[i].cluster) = f.lba
                                /\ dir[i].size = Len(h.text)
        BY <2>5, <3>1 DEF Kept
      <4>2. /\ i \in Owners' /\ dir'[i] = dir[i]
            /\ \A k \in 1 .. dir[i].size :
                 data'[Lba(dir[i].cluster) + k - 1] = data[Lba(dir[i].cluster) + k - 1]
        BY <2>5, <4>1, FileKept
      <4>3. \A k \in 1 .. Len(h.text) : data[f.lba + k - 1] = h.text[k]
        BY <2>5 DEF Kept, StoredAt
      <4> QED BY <4>1, <4>2, <4>3
    <3>2. CASE ~ (Len(h.text) > 0)
      <4>1. Len(h.text) \in Nat
        BY <2>5
      <4> QED BY <3>2, <4>1
    <3> QED BY <3>1, <3>2
  <2>7. Kept(opened[fd], fd_table[fd])'
    BY <2>1, <2>3, <2>4, <2>6 DEF Kept, StoredAt
  <2> QED BY <2>1, <2>2, <2>7 DEF Right
<1>5. \A fd \in Fd : Right(fd)'
  BY <1>4 DEF Right
<1> QED BY <1>3, <1>5 DEF OpenInv, Right

LEMMA OpenNextIsNext == ASSUME [OpenNext]_openVars PROVE [Next]_vars
  BY DEF OpenNext, openVars, Open, ReadOpen, Close, DiskStep, Reboot, Next

LEMMA OpenNextInv ==
  ASSUME BaseInv, FatInv, DataInv, OpenTypeOK, OpenInv, [OpenNext]_openVars, ~Spoilt'
  PROVE  OpenTypeOK' /\ OpenInv'
<1>1. CASE UNCHANGED openVars
  <2>1. UNCHANGED <<fat, fat2, dir, data, file, vars, fd_table, opened>>
    BY <1>1 DEF openVars, vars, disk, call
  <2>2. OpenTypeOK'
    BY <2>1 DEF OpenTypeOK
  <2>3. OpenInv'
    BY <2>1 DEF OpenInv, Kept, StoredAt, Owners
  <2> QED BY <2>1, <2>2, <2>3
<1>2. ASSUME NEW path \in Paths, Open(path)
      PROVE  OpenTypeOK' /\ OpenInv'
  BY <1>2, OpenStep
<1>3. ASSUME NEW fd \in Fd, NEW count \in Counts, ReadOpen(fd, count)
      PROVE  OpenTypeOK' /\ OpenInv'
  BY <1>3, ReadStep
<1>4. ASSUME NEW fd \in Fd, Close(fd)
      PROVE  OpenTypeOK' /\ OpenInv'
  BY <1>4, CloseStep
<1>5. CASE DiskStep
  BY <1>5, EngineStep DEF DiskStep, Next, Spoilt
<1>6. CASE Reboot
  <2>1. fd_table' = [fd \in Fd |-> Closed] /\ opened' = [fd \in Fd |-> Unknown]
    BY <1>6 DEF Reboot
  <2>2. Closed \in [open : BOOLEAN, size : Nat, lba : Int, offset : Nat]
        /\ Closed.offset <= Closed.size
    BY DEF Closed
  <2>3. <<>> \in Seq(Block) /\ <<>> \in Seq(Block \X Nat)
    OBVIOUS
  <2>4. Unknown \in [file : Names \cup {NoFile}, text : Seq(Block), got : Seq(Block \X Nat)]
    BY <2>3 DEF Unknown
  <2> QED BY <1>6, <2>1, <2>2, <2>4 DEF OpenTypeOK, OpenInv, Reboot, Next
<1> QED BY <1>1, <1>2, <1>3, <1>4, <1>5, <1>6 DEF OpenNext

LEMMA OpenSpecRight ==
  ASSUME OpenTypeOK, OpenInv
  PROVE  OpenFilesReadBack
<1>1. ASSUME NEW fd \in Fd, opened[fd] # Unknown
      PROVE  /\ opened[fd].got = SubSeq(Bytes(opened[fd].text), 1, fd_table[fd].offset)
             /\ fd_table[fd].size = Len(Bytes(opened[fd].text))
             /\ Chunk(fd_table[fd], fd_table[fd].size) =
                    SubSeq(Bytes(opened[fd].text), fd_table[fd].offset + 1,
                           Len(Bytes(opened[fd].text)))
  <2>1. PICK f : f = fd_table[fd]
    OBVIOUS
  <2>2. PICK text \in Seq(Block) : text = opened[fd].text
    BY DEF OpenTypeOK
  <2>3. PICK size \in Nat, off \in Nat, lba \in Int :
          f.size = size /\ f.offset = off /\ f.lba = lba /\ off <= size
    BY <2>1 DEF OpenTypeOK
  <2>4. /\ size = Len(text) * SectorSize /\ StoredAt(lba, text)
        /\ opened[fd].got = SubSeq(Bytes(text), 1, off)
    BY <1>1, <2>1, <2>2, <2>3 DEF OpenInv, Kept
  <2>5. Len(Bytes(text)) = size
    BY <2>4, BytesFact
  <2>6. PICK n \in Nat : n = size - off
    BY <2>3
  <2>7. Reading(f, text, size, off, lba, size, n)
    BY <2>3, <2>4, <2>6 DEF Reading
  <2>8. ChunkRight(f, text, size, off, size, n)
    BY ONLY <2>7, ChunkFact, text \in Seq(Block), size \in Nat, off \in Nat,
            lba \in Int, n \in Nat
  <2>9. off + n = size
    BY <2>3, <2>6
  <2> QED BY <2>1, <2>2, <2>3, <2>4, <2>5, <2>8, <2>9 DEF ChunkRight
<1> QED BY <1>1 DEF OpenFilesReadBack

-----------------------------------------------------------------------------
(* Theorems.                                                               *)

\* A descriptor never disturbs the disk: with open, read and close around
\* them the calls of disk.c do what they do without.
THEOREM DescriptorsLeaveDisk == OpenSpec => Spec
<1>1. OpenInit => Init
  BY DEF OpenInit
<1>2. [OpenNext]_openVars => [Next]_vars
  BY OpenNextIsNext
<1> QED BY <1>1, <1>2, PTL DEF OpenSpec, Spec

LEMMA OpenAlways == OpenSpec => [](Spoilt \/ (OpenTypeOK /\ OpenInv))
<1>1. OpenInit => OpenTypeOK /\ OpenInv
  BY OpenInitInv
<1>2. BaseInv /\ ("stray" \in mishaps \/ FatInv) /\ (Spoilt \/ DataInv)
      /\ (Spoilt \/ (OpenTypeOK /\ OpenInv)) /\ [OpenNext]_openVars
        => (Spoilt \/ (OpenTypeOK /\ OpenInv))'
  <2> SUFFICES ASSUME BaseInv, "stray" \in mishaps \/ FatInv, Spoilt \/ DataInv,
                      Spoilt \/ (OpenTypeOK /\ OpenInv), [OpenNext]_openVars, ~Spoilt'
               PROVE  OpenTypeOK' /\ OpenInv'
    OBVIOUS
  <2>1. [Next]_vars
    BY OpenNextIsNext
  <2>2. ~Spoilt /\ "stray" \notin mishaps
    BY <2>1, SpoiltStays
  <2> QED BY <2>2, OpenNextInv
<1> QED BY <1>1, <1>2, DescriptorsLeaveDisk, BaseAlways, FatAlways, DataAlways, PTL DEF OpenSpec

\* Whatever goes wrong - power fails in a call, the disk is full, a text is
\* too long, a delete runs off FAT sector 0 -, FATs, directory, data area and
\* the running call keep their shape.
THEOREM DiskTypeCorrect == Spec => []TypeOK
<1>1. BaseInv => TypeOK
  BY DEF BaseInv
<1> QED BY BaseAlways, <1>1, PTL

\* The clusters of every file are allocated and its own, wherever power fails
\* in ardaos_write_file or ardaos_delete_file, on a full disk and after texts
\* that are too long, until a delete goes on from what it read off the stack.
THEOREM ClustersGivenOnce == Spec => []ChainsAllocated
<1>1. "stray" \in mishaps \/ FatInv => ChainsAllocated
  BY DEF FatInv, ChainsRight, ChainsAllocated
<1> QED BY FatAlways, <1>1, PTL

\* While power does not fail in a call and no delete comes to a cluster that
\* FAT sector 0 does not describe, no cluster of either FAT is lost.
THEOREM DeletesGiveAllBack == Spec => []NothingLeaks
<1>1. ("stray" \in mishaps \/ FatInv) /\ ("stray" \in mishaps \/ LeakInv) => NothingLeaks
  BY LeakFact DEF NothingLeaks, AllOwned
<1> QED BY FatAlways, LeakAlways, <1>1, PTL

\* Writing and deleting work on one file at a time and on no other, and leave
\* in it what they were asked to, unless power fails or a directory has its
\* name, until a delete goes astray or a write leaves its file's chain.
THEOREM CallsImplementStore == Spec => ImplementsStore
<1>1. Init => Store!Init
  BY StoreInit
<1>2. BaseInv /\ BaseInv' /\ ("stray" \in mishaps \/ FatInv) /\ (Spoilt \/ DataInv) /\ [Next]_vars
        => [Store!Next]_Store!vars
  <2> SUFFICES ASSUME BaseInv, BaseInv', "stray" \in mishaps \/ FatInv, Spoilt \/ DataInv,
                      [Next]_vars
               PROVE  Store!Next \/ UNCHANGED Store!vars
    OBVIOUS
  <2>1. CASE Spoilt'
    BY <2>1 DEF Store!Next
  <2>2. CASE ~Spoilt'
    <3>1. ~Spoilt /\ "stray" \notin mishaps
      BY <2>2, SpoiltStays
    <3> QED BY <2>2, <3>1, StoreStep
  <2> QED BY <2>1, <2>2
<1> QED BY BaseAlways, FatAlways, DataAlways, <1>1, <1>2, PTL DEF Spec, ImplementsStore, Store!Spec

\* What vfs_read returns is the file as it was when vfs_open found it, as
\* long as no call works on that file, no delete goes astray and no write
\* leaves its file's chain.
THEOREM ReadsSeeOpenedFile == OpenSpec => []OpenFilesReadBack
<1>1. Spoilt \/ (OpenTypeOK /\ OpenInv) => OpenFilesReadBack
  BY OpenSpecRight DEF OpenFilesReadBack
<1> QED BY OpenAlways, <1>1, PTL
=============================================================================
