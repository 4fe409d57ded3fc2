-------------------------- MODULE UserMemoryProofs --------------------------
(***************************************************************************)
(* Proofs about the memory of programs, for all sizes, programs and        *)
(* placements: images and heaps are isolated, backed and kept, and the     *)
(* reaper gives back what it should.                                       *)
(*                                                                         *)
(* The invariant MemInv says in which table and frame every page of a      *)
(* program is: its heap is on frames of alloc_user_page that nobody else   *)
(* has, and has the pages below the break as long as the program did not   *)
(* stray; its image has those of one block of the kernel heap, whose       *)
(* address is kept in the word before the image; the library those of the  *)
(* one copy.  A table is in one entry of one directory, which is what      *)
(* keeps a mapping made for one program from another's pages.  MemInv      *)
(* holds until a heap spills out of its region; BaseInv, the types, holds  *)
(* whatever programs do.                                                   *)
(***************************************************************************)
EXTENDS UserMemory, SequenceTheorems, TLAPS

Dirs == 0..MaxDirs
UserRegions == {HeapRegion, ImageRegion, LibcRegion}

\* The programs that got a directory of their own, and those whose image was
\* allocated.
Own == {p \in Live : tasks[p].cr3 # KernelDir}
Placed == {p \in Live : tasks[p].app_base \in RegionWords(KernelHeapRegion)}

Frame(p, v) == Translate(mmu, tasks[p].cr3, v)

\* A set of directories and tables; a table that maps a program's pages is in
\* one entry of one directory.
MmuType(m) ==
  /\ m = [directory |-> m.directory, table |-> m.table,
          dma_memory_pointer |-> m.dma_memory_pointer]
  /\ m.directory \in [Dirs -> [Regions -> DOMAIN m.table \cup {NoTable}]]
  /\ m.table \in [DOMAIN m.table -> [0..RegionPages - 1 -> Nat \cup {NoFrame}]]
  /\ m.dma_memory_pointer \in Nat
  /\ \A t \in DOMAIN m.table : t \in Nat /\ 0 < t /\ t < m.dma_memory_pointer
  /\ 0 < m.dma_memory_pointer

TablesOwned(m) ==
  \A d, e \in Dirs : \A r, s \in UserRegions :
    m.directory[d][r] # NoTable /\ m.directory[d][r] = m.directory[e][s]
      => d = e /\ r = s

\* Directories are handed out once; the kernel's own stays clean until none
\* is left.
DirsInv ==
  /\ next_task_id \in 0..MaxDirs
  /\ next_task_id < MaxDirs => \A r \in UserRegions : mmu.directory[KernelDir][r] = NoTable
  /\ \A p \in Live : tasks[p].cr3 = KernelDir => next_task_id = MaxDirs
  /\ \A p \in Own : tasks[p].cr3 \in 1..next_task_id
  /\ \A p, q \in Own : tasks[p].cr3 = tasks[q].cr3 => p = q

HeapPages(p) == FirstPage(HeapRegion) + 1..PagesUp(tasks[p].v_heap_end) - 1

\* A heap has the pages below the break, if that never went astray; each page is
\* on a frame of its own.
HeapMaps ==
  /\ user_phys_memory \in Nat /\ user_phys_memory >= FirstPage(ImageRegion)
  /\ \A p \in Own : \A v \in RegionOf(HeapRegion) :
       \/ Frame(p, v) = NoFrame
       \/ Frame(p, v) \in FirstPage(ImageRegion)..user_phys_memory - 1
  /\ \A p \in Own \ strayed : \A v \in RegionOf(HeapRegion) :
       Frame(p, v) # NoFrame <=> v \in HeapPages(p)
  /\ \A p, q \in Own : \A u, v \in RegionOf(HeapRegion) :
       Frame(p, u) # NoFrame /\ Frame(p, u) = Frame(q, v) => p = q /\ u = v

\* What is mapped over a region: count pages from frame base on.
Mapped(p, region, count, base) ==
  \A v \in RegionOf(region) :
    Frame(p, v) = IF v < FirstPage(region) + count THEN base + (v - FirstPage(region))
                  ELSE NoFrame

ImageMaps ==
  \A p \in Own : Mapped(p, ImageRegion, PagesUp(MemSize[tasks[p].file]),
                        Page(tasks[p].app_base))

LibcMaps ==
  \A p \in Own : \/ Mapped(p, LibcRegion, 0, 0)
                 \/ Mapped(p, LibcRegion, PagesUp(LibcSize), 0)
                 \/ /\ shared_libc.phys # 0
                    /\ Mapped(p, LibcRegion, PagesUp(LibcSize), Page(shared_libc.phys))

\* The kernel heap's blocks.
BlocksInv ==
  /\ held \subseteq [at : Nat, size : {Room}]
  /\ \A b \in held : Extent(b) \subseteq RegionWords(KernelHeapRegion)
  /\ \A a, b \in held : a # b => Extent(a) \cap Extent(b) = {}
  /\ \A b \in held : \A k \in 1..HeaderWords : ram[b.at - k] = <<"header", Room>>
  /\ \A b \in held : \/ \E p \in Placed : tasks[p].app_base = AppMemory(b.at)
                     \/ shared_libc.phys # 0 /\ shared_libc.phys = PagesUp(b.at) * PageSize

\* Block b holds p's image behind the pointer to b.
ImageIn(p, b) ==
  /\ tasks[p].app_base = AppMemory(b.at)
  /\ ram[tasks[p].app_base - 1] = <<"raw", b.at>>
  /\ \A k \in 0..ImageSize - 1 : ram[tasks[p].app_base + k] = Image(tasks[p].file)[k]

ImagesInv ==
  /\ \A p \in Live : p \in Placed \/ tasks[p].app_base = PageSize
  /\ \A p \in Placed : \E b \in held : ImageIn(p, b)
  /\ \A p, q \in Placed : tasks[p].app_base = tasks[q].app_base => p = q
  /\ ram[PageSize - 1][2] \in 0..ImageSize

LibcIn(b) ==
  /\ shared_libc.phys = PagesUp(b.at) * PageSize
  /\ \A k \in 0..LibcSize - 1 : ram[shared_libc.phys + k] = Libc[k]
  /\ \A p \in Placed : tasks[p].app_base # AppMemory(b.at)

LibcInv ==
  /\ shared_libc \in [phys : Nat, size : {0, LibcSize}]
  /\ shared_libc.phys # 0 =>
       shared_libc.size = LibcSize /\ \E b \in held : LibcIn(b)

Program == [file : Files \cup {{}}, cr3 : Dirs, app_base : Nat,
            v_heap_end : Nat, alive : BOOLEAN,
            blocks : Seq(Block)]

HeapEnd == FirstWord(KernelHeapRegion)

\* The blocks of a heap follow one another below the break, which is in the
\* heap's region.
InOrder(blocks, end) ==
  /\ end \in BreakStart..HeapEnd
  /\ \A i \in DOMAIN blocks : /\ BreakStart <= blocks[i].at - UserHeader
                              /\ blocks[i].at + blocks[i].size <= end
  /\ \A i, j \in DOMAIN blocks :
       i < j => blocks[i].at + blocks[i].size <= blocks[j].at - UserHeader

TasksInv ==
  /\ tasks \in Seq(Program) /\ Len(tasks) <= MaxTasks
  /\ strayed \subseteq DOMAIN tasks
  /\ \A p \in Live : /\ tasks[p].file \in Files
                     /\ p \in strayed \/ InOrder(tasks[p].blocks, tasks[p].v_heap_end)

RamInv ==
  ram = [w \in (0..PageSize + ImageSize - 1) \cup RegionWords(KernelHeapRegion) |-> ram[w]]

MemInv ==
  /\ MmuType(mmu) /\ TablesOwned(mmu)
  /\ DirsInv /\ HeapMaps /\ ImageMaps /\ LibcMaps
  /\ BlocksInv /\ ImagesInv /\ LibcInv /\ TasksInv /\ RamInv

-----------------------------------------------------------------------------
(* Pages.                                                                  *)

LEMMA ProductStep ==
  ASSUME NEW n \in Nat, NEW a \in Nat, NEW b \in Nat, a < b
  PROVE  a * n \in Nat /\ a * n + n <= b * n
<1>1. PICK c \in Nat : b = a + 1 + c
  <2>1. b - a - 1 \in Nat /\ b = a + 1 + (b - a - 1)
    OBVIOUS
  <2> QED BY <2>1
<1>2. c * n \in Nat /\ a * n \in Nat
  BY SMTT(30)
<1>3. b * n = a * n + n + c * n
  BY <1>1, SMTT(30)
<1> QED BY <1>2, <1>3

LEMMA DivideFact ==
  ASSUME NEW n \in Nat \ {0}, NEW x \in Nat
  PROVE  /\ x \div n \in Nat
         /\ (x \div n) * n <= x /\ x < (x \div n) * n + n
         /\ x % n = x - (x \div n) * n
         /\ (x \div n) * n \in Nat
  BY SMTT(30)

LEMMA DivideUnique ==
  ASSUME NEW n \in Nat \ {0}, NEW x \in Nat, NEW k \in Nat, k * n <= x, x < k * n + n
  PROVE  x \div n = k /\ x % n = x - k * n
<1>1. PICK q \in Nat : q = x \div n /\ q * n <= x /\ x < q * n + n /\ x % n = x - q * n
  BY DivideFact
<1>2. q = k
  <2>1. CASE q < k
    <3>1. q * n + n <= k * n
      BY <2>1, ProductStep
    <3> QED BY <1>1, <3>1
  <2>2. CASE k < q
    <3>1. k * n + n <= q * n
      BY <2>2, ProductStep
    <3> QED BY <1>1, <3>1
  <2> QED BY <2>1, <2>2
<1> QED BY <1>1, <1>2

\* Regions lie one behind the other.
LEMMA RegionFact ==
  ASSUME NEW r \in Regions
  PROVE  /\ FirstPage(r) \in Nat /\ FirstPage(r + 1) = FirstPage(r) + RegionPages
         /\ \A v \in RegionOf(r) : /\ v \in Nat
                                   /\ v \div RegionPages = r
                                   /\ v % RegionPages = v - FirstPage(r)
                                   /\ v - FirstPage(r) \in 0..RegionPages - 1
<1>1. RegionPages \in Nat \ {0} /\ r \in Nat
  BY SizesAssumption DEF Regions, KernelRegion, LibcRegion
<1>2. PICK base \in Nat : base = r * RegionPages
  BY <1>1, SMTT(30)
<1>3. (r + 1) * RegionPages = base + RegionPages
  BY <1>1, <1>2, SMTT(30)
<1>4. ASSUME NEW v \in RegionOf(r)
      PROVE  /\ v \in Nat /\ v - base \in 0..RegionPages - 1
             /\ v \div RegionPages = r
             /\ v % RegionPages = v - base
  <2>1. v \in Nat /\ r * RegionPages <= v /\ v < r * RegionPages + RegionPages
    BY <1>1, <1>2, <1>3, <1>4 DEF RegionOf, FirstPage
  <2>2. v \div RegionPages = r /\ v % RegionPages = v - r * RegionPages
    BY <1>1, <2>1, DivideUnique
  <2> QED BY <1>1, <1>2, <2>1, <2>2
<1> QED BY <1>2, <1>3, <1>4 DEF FirstPage

\* Two regions share no page.
LEMMA RegionsApart ==
  ASSUME NEW r \in Regions, NEW s \in Regions, r # s, NEW v \in RegionOf(r)
  PROVE  v \notin RegionOf(s)
<1>1. v \div RegionPages = r
  BY RegionFact
<1>2. v \in RegionOf(s) => v \div RegionPages = s
  BY RegionFact
<1> QED BY <1>1, <1>2

LEMMA TranslateFact ==
  ASSUME NEW m, MmuType(m), NEW d \in Dirs, NEW r \in Regions, NEW v \in RegionOf(r)
  PROVE  /\ Translate(m, d, v) = IF m.directory[d][r] = NoTable THEN NoFrame
                                 ELSE m.table[m.directory[d][r]][v - FirstPage(r)]
         /\ Translate(m, d, v) \in Nat \cup {NoFrame}
         /\ m.directory[d][r] \in DOMAIN m.table \cup {NoTable}
<1>1. /\ v \div RegionPages = r /\ v % RegionPages = v - FirstPage(r)
      /\ v - FirstPage(r) \in 0..RegionPages - 1
  BY RegionFact
<1>2. m.directory[d][r] \in DOMAIN m.table \cup {NoTable}
  BY DEF MmuType
<1>3. Translate(m, d, v) = IF m.directory[d][r] = NoTable THEN NoFrame
                           ELSE m.table[m.directory[d][r]][v - FirstPage(r)]
  BY <1>1 DEF Translate
<1>4. m.directory[d][r] # NoTable =>
        m.table[m.directory[d][r]][v - FirstPage(r)] \in Nat \cup {NoFrame}
  BY <1>1, <1>2 DEF MmuType
<1> QED BY <1>2, <1>3, <1>4

UserRegionsFact == UserRegions \subseteq Regions

LEMMA UserRegionsAre == UserRegionsFact
  BY DEF UserRegionsFact, UserRegions, Regions, HeapRegion, ImageRegion, LibcRegion, KernelRegion

\* m leads from every page of a program to the frame that n leads it to, but
\* for the pages and the directory that changed are told otherwise.
SameBut(m, n, d, changed) ==
  \A e \in Dirs : \A s \in UserRegions : \A v \in RegionOf(s) :
    e # d \/ v \notin changed => Translate(n, e, v) = Translate(m, e, v)

LEMMA WithTableType ==
  ASSUME NEW m, MmuType(m), NEW d \in Dirs, NEW r \in Regions
  PROVE  /\ MmuType(WithTable(m, d, r))
         /\ WithTable(m, d, r).directory[d][r] # NoTable
<1>1. CASE m.directory[d][r] # NoTable
  BY <1>1 DEF WithTable
<1>2. CASE m.directory[d][r] = NoTable
  <2>1. PICK pt \in Nat : pt = m.dma_memory_pointer /\ 0 < pt /\ pt # NoTable
    BY DEF MmuType, NoTable
  <2>2. PICK dom : dom = DOMAIN m.table \cup {pt}
    OBVIOUS
  <2>3. PICK n : n = WithTable(m, d, r)
    OBVIOUS
  <2>4. /\ n.directory = [m.directory EXCEPT ![d][r] = pt]
        /\ n.table = [t \in dom |-> IF t = pt THEN [i \in 0..RegionPages - 1 |-> NoFrame]
                                    ELSE m.table[t]]
        /\ n.dma_memory_pointer = pt + 1
        /\ n = [directory |-> n.directory, table |-> n.table,
                dma_memory_pointer |-> n.dma_memory_pointer]
    BY <1>2, <2>1, <2>2, <2>3 DEF WithTable
  <2>5. /\ n.directory[d][r] = pt
        /\ n.directory \in [Dirs -> [Regions -> dom \cup {NoTable}]]
        /\ DOMAIN n.table = dom
    BY <2>2, <2>4 DEF MmuType
  <2>6. n.table \in [dom -> [0..RegionPages - 1 -> Nat \cup {NoFrame}]]
    BY <2>2, <2>4 DEF MmuType
  <2>7. \A t \in dom : t \in Nat /\ 0 < t /\ t < pt + 1
    BY <2>1, <2>2 DEF MmuType
  <2> QED BY <2>1, <2>3, <2>4, <2>5, <2>6, <2>7 DEF MmuType
<1> QED BY <1>1, <1>2

LEMMA WithTableFact ==
  ASSUME NEW m, MmuType(m), TablesOwned(m), NEW d \in Dirs, NEW r \in UserRegions
  PROVE  /\ MmuType(WithTable(m, d, r)) /\ TablesOwned(WithTable(m, d, r))
         /\ WithTable(m, d, r).directory[d][r] # NoTable
         /\ SameBut(m, WithTable(m, d, r), d, {})
         /\ \A e \in Dirs : e # d => WithTable(m, d, r).directory[e] = m.directory[e]
<1>0. r \in Regions
  BY UserRegionsAre DEF UserRegionsFact
<1>1. CASE m.directory[d][r] # NoTable
  BY <1>1 DEF WithTable, SameBut
<1>2. CASE m.directory[d][r] = NoTable
  <2>1. PICK pt \in Nat : pt = m.dma_memory_pointer /\ 0 < pt /\ pt \notin DOMAIN m.table
                          /\ pt # NoTable
    BY DEF MmuType, NoTable
  <2>2. PICK dom : dom = DOMAIN m.table \cup {pt}
    OBVIOUS
  <2>3. PICK n : n = WithTable(m, d, r)
    OBVIOUS
  <2>4. /\ n.directory = [m.directory EXCEPT ![d][r] = pt]
        /\ n.table = [t \in dom |-> IF t = pt THEN [i \in 0..RegionPages - 1 |-> NoFrame]
                                    ELSE m.table[t]]
        /\ n.dma_memory_pointer = pt + 1
        /\ n = [directory |-> n.directory, table |-> n.table,
                dma_memory_pointer |-> n.dma_memory_pointer]
    BY <1>2, <2>1, <2>2, <2>3 DEF WithTable
  <2>5. m.directory \in [Dirs -> [Regions -> DOMAIN m.table \cup {NoTable}]]
    BY DEF MmuType
  <2>6. /\ n.directory[d][r] = pt
        /\ \A e \in Dirs : e # d => n.directory[e] = m.directory[e]
        /\ \A s \in Regions : s # r => n.directory[d][s] = m.directory[d][s]
        /\ n.directory \in [Dirs -> [Regions -> dom \cup {NoTable}]]
        /\ DOMAIN n.table = dom
    BY <1>0, <2>2, <2>4, <2>5
  <2>7. MmuType(n)
    BY <1>0, <2>3, WithTableType
  <2>8. \A e \in Dirs : \A s \in Regions :
          n.directory[e][s] = IF e = d /\ s = r THEN pt ELSE m.directory[e][s]
    BY <2>6
  <2>9. \A e \in Dirs : \A s \in Regions : m.directory[e][s] # pt
    BY <2>1, <2>5
  <2>10. TablesOwned(n)
    BY <2>8, <2>9, UserRegionsAre DEF TablesOwned, UserRegionsFact
  <2>11. ASSUME NEW e \in Dirs, NEW s \in UserRegions, NEW v \in RegionOf(s)
         PROVE  Translate(n, e, v) = Translate(m, e, v)
    <3>0. s \in Regions
      BY UserRegionsAre DEF UserRegionsFact
    <3>1. /\ Translate(m, e, v) = IF m.directory[e][s] = NoTable THEN NoFrame
                                  ELSE m.table[m.directory[e][s]][v - FirstPage(s)]
          /\ m.directory[e][s] \in DOMAIN m.table \cup {NoTable}
      BY <3>0, TranslateFact
    <3>2. Translate(n, e, v) = IF n.directory[e][s] = NoTable THEN NoFrame
                               ELSE n.table[n.directory[e][s]][v - FirstPage(s)]
      BY <2>7, <3>0, TranslateFact
    <3>3. v - FirstPage(s) \in 0..RegionPages - 1
      BY <3>0, RegionFact
    <3>4. CASE e = d /\ s = r
      <4>1. Translate(m, e, v) = NoFrame
        BY <1>2, <3>1, <3>4
      <4>2. n.table[pt] = [i \in 0..RegionPages - 1 |-> NoFrame]
        BY <2>2, <2>4
      <4>3. Translate(n, e, v) = n.table[pt][v - FirstPage(s)]
        BY <2>1, <2>8, <3>0, <3>2, <3>4
      <4> QED BY <3>3, <4>1, <4>2, <4>3
    <3>5. CASE ~(e = d /\ s = r)
      <4>1. n.directory[e][s] = m.directory[e][s]
        BY <2>8, <3>0, <3>5
      <4>2. \A t \in DOMAIN m.table : n.table[t] = m.table[t]
        BY <2>1, <2>2, <2>4
      <4> QED BY <3>1, <3>2, <4>1, <4>2
    <3> QED BY <3>4, <3>5
  <2> QED BY <2>1, <2>3, <2>6, <2>7, <2>10, <2>11 DEF SameBut
<1> QED BY <1>1, <1>2

LEMMA MapPagesType ==
  ASSUME NEW m, MmuType(m), NEW d \in Dirs, NEW r \in Regions,
         NEW first \in Nat, NEW count \in Nat, NEW frame \in Nat,
         count # 0 => first \in RegionOf(r)
  PROVE  MmuType(MapPages(m, d, first, count, frame))
<1>1. CASE count = 0
  BY <1>1 DEF MapPages
<1>2. CASE count # 0
  <2>1. PICK base \in Nat : base = FirstPage(r)
    BY RegionFact
  <2>2. first \div RegionPages = r
    BY <1>2, RegionFact
  <2>3. PICK n : n = WithTable(m, d, r)
    OBVIOUS
  <2>4. MmuType(n) /\ n.directory[d][r] # NoTable
    BY <2>3, WithTableType
  <2>5. PICK t \in DOMAIN n.table : t = n.directory[d][r]
    BY <2>4 DEF MmuType
  <2>6. PICK row : row = [i \in 0..RegionPages - 1 |->
                            IF base + i \in first..first + count - 1
                            THEN frame + base + i - first
                            ELSE n.table[t][i]]
    OBVIOUS
  <2>7. PICK o : o = MapPages(m, d, first, count, frame)
    OBVIOUS
  <2>8. o = [n EXCEPT !.table[t] = row]
    BY <1>2, <2>1, <2>2, <2>3, <2>5, <2>6, <2>7 DEF MapPages
  <2>9. /\ n = [directory |-> n.directory, table |-> n.table,
                dma_memory_pointer |-> n.dma_memory_pointer]
        /\ n.table \in [DOMAIN n.table -> [0..RegionPages - 1 -> Nat \cup {NoFrame}]]
    BY <2>4 DEF MmuType
  <2>10. /\ o.directory = n.directory /\ o.dma_memory_pointer = n.dma_memory_pointer
         /\ o.table = [n.table EXCEPT ![t] = row]
         /\ o = [directory |-> o.directory, table |-> o.table,
                 dma_memory_pointer |-> o.dma_memory_pointer]
    BY <2>8, <2>9
  <2>11. row \in [0..RegionPages - 1 -> Nat \cup {NoFrame}]
    <3>1. ASSUME NEW i \in 0..RegionPages - 1
          PROVE  row[i] \in Nat \cup {NoFrame}
      <4>1. CASE base + i \in first..first + count - 1
        <5>1. row[i] = frame + base + i - first
          BY <2>6, <4>1
        <5> QED BY <4>1, <5>1
      <4>2. CASE base + i \notin first..first + count - 1
        <5>1. row[i] = n.table[t][i]
          BY <2>6, <4>2
        <5> QED BY <2>9, <5>1
      <4> QED BY <4>1, <4>2
    <3>2. DOMAIN row = 0..RegionPages - 1 /\ row = [i \in 0..RegionPages - 1 |-> row[i]]
      BY <2>6
    <3> QED BY <3>1, <3>2
  <2>12. o.table \in [DOMAIN o.table -> [0..RegionPages - 1 -> Nat \cup {NoFrame}]]
         /\ DOMAIN o.table = DOMAIN n.table
    BY <2>9, <2>10, <2>11
  <2> QED BY <2>4, <2>7, <2>10, <2>12 DEF MmuType
<1> QED BY <1>1, <1>2

\* map_vaddr_to_paddr changes what it is asked to and nothing else.
LEMMA MapPagesFact ==
  ASSUME NEW m, MmuType(m), TablesOwned(m), NEW d \in Dirs, NEW r \in UserRegions,
         NEW first \in Nat, NEW count \in Nat, NEW frame \in Nat,
         count # 0 => first >= FirstPage(r) /\ first + count <= FirstPage(r + 1)
  PROVE  /\ MmuType(MapPages(m, d, first, count, frame))
         /\ TablesOwned(MapPages(m, d, first, count, frame))
         /\ SameBut(m, MapPages(m, d, first, count, frame), d, first..first + count - 1)
         /\ \A v \in first..first + count - 1 :
              Translate(MapPages(m, d, first, count, frame), d, v) = frame + (v - first)
         /\ \A e \in Dirs :
              e # d => MapPages(m, d, first, count, frame).directory[e] = m.directory[e]
<1>0. r \in Regions
  BY UserRegionsAre DEF UserRegionsFact
<1>1. CASE count = 0
  <2>1. MapPages(m, d, first, count, frame) = m
    BY <1>1 DEF MapPages
  <2>2. first..first + count - 1 = {}
    BY <1>1
  <2> QED BY <2>1, <2>2 DEF SameBut
<1>2. CASE count # 0
  <2>1. PICK base \in Nat : base = FirstPage(r) /\ FirstPage(r + 1) = base + RegionPages
    BY <1>0, RegionFact
  <2>2. RegionPages \in Nat \ {0}
    BY SizesAssumption
  <2>3. \A v \in first..first + count - 1 : v \in RegionOf(r)
    BY <1>2, <2>1, <2>2 DEF RegionOf
  <2>4. first \div RegionPages = r
    <3>1. first \in RegionOf(r)
      BY <1>2, <2>3
    <3> QED BY <1>0, <3>1, RegionFact
  <2>5. PICK n : n = WithTable(m, d, r)
    OBVIOUS
  <2>6. /\ MmuType(n) /\ TablesOwned(n) /\ n.directory[d][r] # NoTable
        /\ SameBut(m, n, d, {})
        /\ \A e \in Dirs : e # d => n.directory[e] = m.directory[e]
    BY <2>5, WithTableFact
  <2>7. PICK t \in DOMAIN n.table : t = n.directory[d][r]
    BY <1>0, <2>6 DEF MmuType
  <2>8. PICK row : row = [i \in 0..RegionPages - 1 |->
                            IF base + i \in first..first + count - 1
                            THEN frame + base + i - first
                            ELSE n.table[t][i]]
    OBVIOUS
  <2>9. PICK o : o = MapPages(m, d, first, count, frame)
    OBVIOUS
  <2>10. o = [n EXCEPT !.table[t] = row]
    BY <1>2, <2>1, <2>4, <2>5, <2>7, <2>8, <2>9 DEF MapPages
  <2>11. /\ n = [directory |-> n.directory, table |-> n.table,
                 dma_memory_pointer |-> n.dma_memory_pointer]
         /\ n.table \in [DOMAIN n.table -> [0..RegionPages - 1 -> Nat \cup {NoFrame}]]
    BY <2>6 DEF MmuType
  <2>12. /\ o.directory = n.directory /\ o.dma_memory_pointer = n.dma_memory_pointer
         /\ o.table = [n.table EXCEPT ![t] = row]
         /\ o = [directory |-> o.directory, table |-> o.table,
                 dma_memory_pointer |-> o.dma_memory_pointer]
    BY <2>10, <2>11
  <2>15. MmuType(o)
    <3>1. first \in RegionOf(r)
      BY <1>2, <2>3
    <3> QED BY <1>0, <2>9, <3>1, MapPagesType
  <2>16. TablesOwned(o)
    BY <2>6, <2>12 DEF TablesOwned
  <2>17. ASSUME NEW e \in Dirs, NEW s \in UserRegions, NEW v \in RegionOf(s)
         PROVE  Translate(o, e, v) = IF e = d /\ v \in first..first + count - 1
                                     THEN frame + (v - first)
                                     ELSE Translate(n, e, v)
    <3>0. s \in Regions
      BY UserRegionsAre DEF UserRegionsFact
    <3>1. /\ Translate(n, e, v) = IF n.directory[e][s] = NoTable THEN NoFrame
                                  ELSE n.table[n.directory[e][s]][v - FirstPage(s)]
          /\ n.directory[e][s] \in DOMAIN n.table \cup {NoTable}
      BY <2>6, <3>0, TranslateFact
    <3>2. Translate(o, e, v) = IF n.directory[e][s] = NoTable THEN NoFrame
                               ELSE o.table[n.directory[e][s]][v - FirstPage(s)]
      BY <2>12, <2>15, <3>0, TranslateFact
    <3>3. CASE e = d /\ s = r
      <4>1. PICK i \in 0..RegionPages - 1 : i = v - base /\ base + i = v
        BY <2>1, <3>0, <3>3, RegionFact
      <4>2. o.table[t] = row
        BY <2>11, <2>12
      <4>3. Translate(o, e, v) = row[i] /\ Translate(n, e, v) = n.table[t][i]
        BY <2>1, <2>6, <2>7, <3>1, <3>2, <3>3, <4>1, <4>2
      <4>4. row[i] = IF v \in first..first + count - 1 THEN frame + base + i - first
                     ELSE n.table[t][i]
        BY <2>8, <4>1
      <4>5. frame + base + i - first = frame + (v - first)
        BY <4>1
      <4> QED BY <3>3, <4>3, <4>4, <4>5
    <3>4. CASE ~(e = d /\ s = r)
      <4>1. n.directory[e][s] # NoTable => n.directory[e][s] # t
        BY <2>6, <2>7, <3>4 DEF TablesOwned
      <4>2. n.directory[e][s] # NoTable =>
              o.table[n.directory[e][s]] = n.table[n.directory[e][s]]
        BY <2>11, <2>12, <3>1, <4>1
      <4>3. Translate(o, e, v) = Translate(n, e, v)
        BY <3>1, <3>2, <4>2
      <4>4. e = d => v \notin first..first + count - 1
        BY <2>3, <3>0, <3>4, <1>0, RegionsApart
      <4> QED BY <4>3, <4>4
    <3> QED BY <3>3, <3>4
  <2>18. SameBut(m, o, d, first..first + count - 1)
    BY <2>6, <2>17 DEF SameBut
  <2>19. \A v \in first..first + count - 1 : Translate(o, d, v) = frame + (v - first)
    BY <2>3, <2>17
  <2> QED BY <2>6, <2>9, <2>12, <2>15, <2>16, <2>18, <2>19
<1> QED BY <1>1, <1>2

-----------------------------------------------------------------------------
(* Words and the pages they are in.                                        *)

LEMMA Sizes ==
  /\ PageSize \in Nat \ {0} /\ RegionPages \in Nat \ {0} /\ RegionPages >= 2
  /\ HeaderWords \in Nat \ {0} /\ ImageSize \in Nat \ {0} /\ UserHeader \in Nat \ {0}
  /\ MaxDirs \in Nat \ {0} /\ LibcSize \in 0..ImageSize
  /\ \A size \in Requests : size \in Nat
  /\ \A f \in Files : /\ MemSize[f] \in 0..ImageSize /\ FileSize[f] \in 0..MemSize[f]
  BY SizesAssumption, LinkedAssumption

LEMMA PageFact ==
  ASSUME NEW w \in Nat
  PROVE  /\ Page(w) \in Nat /\ Page(w) * PageSize \in Nat
         /\ Page(w) * PageSize <= w /\ w < Page(w) * PageSize + PageSize
         /\ w % PageSize = w - Page(w) * PageSize
<1>1. PICK n \in Nat \ {0} : n = PageSize
  BY Sizes
<1>2. /\ w \div n \in Nat /\ (w \div n) * n \in Nat
      /\ (w \div n) * n <= w /\ w < (w \div n) * n + n /\ w % n = w - (w \div n) * n
  BY DivideFact
<1> QED BY <1>1, <1>2 DEF Page

LEMMA PagesUpFact ==
  ASSUME NEW w \in Nat
  PROVE  /\ PagesUp(w) \in Nat /\ PagesUp(w) * PageSize \in Nat
         /\ w <= PagesUp(w) * PageSize /\ PagesUp(w) * PageSize < w + PageSize
<1>1. PICK n \in Nat \ {0} : n = PageSize
  BY Sizes
<1>2. PICK x \in Nat : x = w + n - 1
  BY <1>1
<1>3. /\ x \div n \in Nat /\ (x \div n) * n \in Nat
      /\ (x \div n) * n <= x /\ x < (x \div n) * n + n
  BY DivideFact
<1>4. PagesUp(w) = x \div n
  BY <1>1, <1>2 DEF PagesUp
<1>5. PICK p \in Nat : p = (x \div n) * n /\ p = PagesUp(w) * PageSize
  BY <1>1, <1>3, <1>4
<1> QED BY <1>1, <1>2, <1>3, <1>4, <1>5

\* Which page, of a word between two page boundaries.
LEMMA PageBounds ==
  ASSUME NEW w \in Nat, NEW n \in Nat
  PROVE  /\ n * PageSize <= w => n <= Page(w)
         /\ w < n * PageSize => Page(w) < n
         /\ w <= n * PageSize => PagesUp(w) <= n
         /\ n * PageSize <= w => n <= PagesUp(w)
         /\ n * PageSize < w => n < PagesUp(w)
<1>0. PageSize \in Nat \ {0}
  BY Sizes
<1>1. PICK k \in Nat : k = n * PageSize
  BY <1>0, SMTT(30)
<1>2. PICK p \in Nat : p = Page(w)
  BY PageFact
<1>3. PICK a \in Nat : a = p * PageSize /\ a <= w /\ w < a + PageSize
  BY <1>2, PageFact
<1>4. PICK u \in Nat : u = PagesUp(w)
  BY PagesUpFact
<1>5. PICK b \in Nat : b = u * PageSize /\ w <= b /\ b < w + PageSize
  BY <1>4, PagesUpFact
<1>6. p < n => a + PageSize <= k
  BY <1>0, <1>1, <1>3, ProductStep
<1>7. n < p => k + PageSize <= a
  BY <1>0, <1>1, <1>3, ProductStep
<1>8. u < n => b + PageSize <= k
  BY <1>0, <1>1, <1>5, ProductStep
<1>9. n < u => k + PageSize <= b
  BY <1>0, <1>1, <1>5, ProductStep
<1>10. n = p => k = a
  BY <1>1, <1>3
<1>11. n = u => k = b
  BY <1>1, <1>5
<1>12. /\ k <= w => n <= p
       /\ w < k => p < n
       /\ w <= k => u <= n
       /\ k <= w => n <= u
       /\ k < w => n < u
  BY <1>0, <1>3, <1>5, <1>6, <1>7, <1>8, <1>9, <1>10, <1>11
<1> QED BY <1>1, <1>2, <1>4, <1>12

\* A word below another is in a page that the other's break has.
LEMMA PagesOrdered ==
  ASSUME NEW w \in Nat, NEW x \in Nat
  PROVE  /\ w <= x => PagesUp(w) <= PagesUp(x) /\ Page(w) <= Page(x)
         /\ w < x => Page(w) < PagesUp(x)
<1>1. PICK u \in Nat : u = PagesUp(x) /\ x <= u * PageSize /\ u * PageSize \in Nat
  BY PagesUpFact
<1>2. PICK p \in Nat : p = Page(w) /\ p * PageSize <= w /\ p * PageSize \in Nat
  BY PageFact
<1>3. w <= x => PagesUp(w) <= u
  <2>1. w <= x => w <= u * PageSize
    BY <1>1
  <2> QED BY <2>1, PageBounds
<1>4. w < x => p < u
  <2>1. w < x => w < u * PageSize
    BY <1>1
  <2> QED BY <1>2, <2>1, PageBounds
<1>5. w <= x => p <= Page(x)
  <2>1. w <= x => p * PageSize <= x
    BY <1>2
  <2> QED BY <2>1, PageBounds
<1> QED BY <1>1, <1>2, <1>3, <1>4, <1>5

\* A page boundary.
LEMMA BoundaryFact ==
  ASSUME NEW n \in Nat
  PROVE  /\ n * PageSize \in Nat
         /\ Page(n * PageSize) = n /\ PagesUp(n * PageSize) = n
<1>0. PageSize \in Nat \ {0}
  BY Sizes
<1>1. PICK k \in Nat : k = n * PageSize
  BY <1>0, SMTT(30)
<1>2. (n + 1) * PageSize = k + PageSize
  BY <1>0, <1>1, SMTT(30)
<1>3. n <= Page(k) /\ PagesUp(k) <= n /\ n <= PagesUp(k)
  BY <1>1, PageBounds
<1>4. Page(k) < n + 1
  <2>1. n + 1 \in Nat /\ k < (n + 1) * PageSize
    BY <1>0, <1>2
  <2> QED BY <2>1, PageBounds
<1>5. Page(k) \in Nat /\ PagesUp(k) \in Nat
  BY PageFact, PagesUpFact
<1>6. Page(k) = n /\ PagesUp(k) = n
  BY <1>3, <1>4, <1>5
<1> QED BY <1>1, <1>6

LEMMA AppMemoryFact ==
  ASSUME NEW raw \in Nat
  PROVE  /\ AppMemory(raw) \in Nat
         /\ raw < AppMemory(raw) /\ AppMemory(raw) <= raw + PageSize
         /\ Page(AppMemory(raw)) * PageSize = AppMemory(raw)
         /\ Page(AppMemory(raw)) \in Nat
<1>0. PageSize \in Nat \ {0}
  BY Sizes
<1>1. PICK x \in Nat : x = raw + PageSize
  BY <1>0
<1>2. PICK p \in Nat : p = Page(x)
  BY PageFact
<1>3. PICK k \in Nat : k = p * PageSize /\ k <= x /\ x < k + PageSize
  BY <1>2, PageFact
<1>4. AppMemory(raw) = k
  BY <1>1, <1>2, <1>3 DEF AppMemory, Page
<1>5. Page(k) = p
  BY <1>3, BoundaryFact
<1> QED BY <1>0, <1>1, <1>3, <1>4, <1>5

\* The regions' numbers.
LEMMA RegionNumbers ==
  /\ KernelHeapRegion = 2 /\ HeapRegion = 1 /\ ImageRegion = 4 /\ LibcRegion = 5
  /\ \A r \in 0..6 : FirstPage(r) \in Nat /\ FirstPage(r) = r * RegionPages
  /\ FirstPage(0) = 0 /\ FirstPage(1) = RegionPages /\ FirstPage(2) = 2 * RegionPages
  /\ FirstPage(3) = 3 * RegionPages
  /\ FirstPage(4) = 4 * RegionPages /\ FirstPage(5) = 5 * RegionPages
  /\ FirstPage(6) = 6 * RegionPages
<1>1. RegionPages \in Nat
  BY Sizes
<1>2. \A r \in 0..6 : r * RegionPages \in Nat
  BY <1>1, SMTT(30)
<1> QED BY <1>1, <1>2
    DEF FirstPage, KernelHeapRegion, HeapRegion, ImageRegion, LibcRegion

\* Breaks stay in the heap's region, and images and the library in theirs.
LEMMA BreakFact ==
  /\ BreakStart \in Nat /\ PagesUp(BreakStart) = FirstPage(HeapRegion) + 1
  /\ HeapEnd \in Nat /\ BreakStart <= HeapEnd
  /\ \A end \in BreakStart..HeapEnd :
       /\ end \in Nat
       /\ PagesUp(end) \in FirstPage(HeapRegion) + 1..FirstPage(KernelHeapRegion)
<1>1. RegionPages \in Nat \ {0} /\ PageSize \in Nat \ {0} /\ RegionPages >= 2
  BY Sizes
<1>2. PICK a \in Nat : a = RegionPages + 1
  BY <1>1
<1>3. PICK k \in Nat : k = 2 * RegionPages /\ a < k
  BY <1>1, <1>2
<1>4. BreakStart = a * PageSize /\ HeapEnd = k * PageSize
  BY <1>2, <1>3, RegionNumbers DEF BreakStart, HeapEnd, FirstWord
<1>5. BreakStart \in Nat /\ HeapEnd \in Nat /\ PagesUp(BreakStart) = a
  BY <1>4, BoundaryFact
<1>6. BreakStart <= HeapEnd
  <2>1. a * PageSize + PageSize <= k * PageSize
    BY <1>1, <1>3, ProductStep
  <2> QED BY <1>1, <1>4, <1>5, <2>1
<1>7. ASSUME NEW end \in BreakStart..HeapEnd PROVE end \in Nat /\ PagesUp(end) \in a..k
  <2>1. end \in Nat /\ a * PageSize <= end /\ end <= k * PageSize
    BY <1>4, <1>5
  <2>2. a <= PagesUp(end) /\ PagesUp(end) <= k /\ PagesUp(end) \in Nat
    BY <2>1, PageBounds, PagesUpFact
  <2> QED BY <2>1, <2>2
<1> QED BY <1>2, <1>3, <1>5, <1>6, <1>7, RegionNumbers

LEMMA ImagePagesFact ==
  ASSUME NEW size \in 0..ImageSize
  PROVE  PagesUp(size) \in 0..RegionPages
<1>1. RegionPages \in Nat \ {0} /\ PageSize \in Nat \ {0} /\ ImageSize \in Nat
  BY Sizes
<1>2. size \in Nat /\ size <= RegionPages * PageSize
  <2>1. RegionPages * PageSize \in Nat
    BY <1>1, BoundaryFact
  <2> QED BY <1>1, <2>1, SizesAssumption
<1> QED BY <1>1, <1>2, PageBounds, PagesUpFact

-----------------------------------------------------------------------------
(* The first state.                                                        *)

LEMMA InitMmu == Init => MmuType(mmu) /\ TablesOwned(mmu)
<1> SUFFICES ASSUME Init PROVE MmuType(mmu) /\ TablesOwned(mmu)
  OBVIOUS
<1>1. /\ mmu.directory = [d \in 0..MaxDirs |->
                             IF d = KernelDir THEN page_directory
                             ELSE [r \in Regions |-> NoTable]]
      /\ mmu.table = KernelTables
      /\ mmu.dma_memory_pointer = FirstPage(DmaRegion)
      /\ mmu = [directory |-> mmu.directory, table |-> mmu.table,
                dma_memory_pointer |-> mmu.dma_memory_pointer]
  BY DEF Init
<1>2. PICK dom : dom = {KernelTable(r) : r \in KernelRegions}
  OBVIOUS
<1>3. dom = {1, 3, 4}
  BY <1>2 DEF KernelTable, KernelRegions, KernelRegion, KernelHeapRegion, DmaRegion
<1>4. DOMAIN mmu.table = dom
  BY <1>1, <1>2 DEF KernelTables
<1>5. mmu.table \in [dom -> [0..RegionPages - 1 -> Nat \cup {NoFrame}]]
  <2>1. \A t \in dom : t - 1 \in 0..6 /\ FirstPage(t - 1) \in Nat
    BY <1>3, RegionNumbers
  <2>2. \A t \in dom : [i \in 0..RegionPages - 1 |-> FirstPage(t - 1) + i]
                         \in [0..RegionPages - 1 -> Nat \cup {NoFrame}]
    BY <2>1, Sizes
  <2> QED BY <1>1, <1>2, <2>2 DEF KernelTables
<1>6. mmu.dma_memory_pointer \in Nat /\ mmu.dma_memory_pointer >= 6
  BY <1>1, RegionNumbers, Sizes DEF DmaRegion
<1>7. \A t \in dom : t \in Nat /\ 0 < t /\ t < mmu.dma_memory_pointer
  BY <1>3, <1>6
<1>8. page_directory \in [Regions -> dom \cup {NoTable}]
  BY <1>2 DEF page_directory
<1>9. mmu.directory \in [Dirs -> [Regions -> dom \cup {NoTable}]]
  BY <1>1, <1>8 DEF Dirs
<1>10. MmuType(mmu)
  BY <1>1, <1>4, <1>5, <1>6, <1>7, <1>9 DEF MmuType
<1>11. ASSUME NEW d \in Dirs, NEW r \in UserRegions PROVE mmu.directory[d][r] = NoTable
  <2>1. r \in Regions /\ r \notin KernelRegions
    BY DEF UserRegions, Regions, KernelRegions, KernelRegion, KernelHeapRegion, DmaRegion,
           HeapRegion, ImageRegion, LibcRegion
  <2> QED BY <1>1, <2>1 DEF Dirs, page_directory
<1> QED BY <1>10, <1>11 DEF TablesOwned

LEMMA InitMem == Init => MemInv
<1> SUFFICES ASSUME Init PROVE MemInv
  OBVIOUS
<1>1. tasks = << >> /\ DOMAIN tasks = {} /\ Live = {} /\ Own = {} /\ Placed = {}
  BY DEF Init, Live, Own, Placed
<1>2. MmuType(mmu) /\ TablesOwned(mmu)
  BY InitMmu
<1>3. DirsInv
  <2>1. \A r \in UserRegions : r \in Regions /\ r \notin KernelRegions
    BY DEF UserRegions, Regions, KernelRegions, KernelRegion, KernelHeapRegion, DmaRegion,
           HeapRegion, ImageRegion, LibcRegion
  <2>2. \A r \in UserRegions : mmu.directory[KernelDir][r] = NoTable
    BY <2>1, Sizes DEF Init, page_directory, KernelDir
  <2> QED BY <1>1, <2>2, Sizes DEF Init, DirsInv
<1>4. HeapMaps /\ ImageMaps /\ LibcMaps
  <2>1. user_phys_memory \in Nat /\ user_phys_memory >= FirstPage(ImageRegion)
    BY RegionNumbers, Sizes DEF Init
  <2> QED BY <1>1, <2>1 DEF HeapMaps, ImageMaps, LibcMaps
<1>5. BlocksInv
  BY DEF Init, BlocksInv
<1>6. PageSize - 1 \in 0..PageSize + ImageSize - 1
  BY Sizes
<1>7. ram[PageSize - 1][2] \in 0..ImageSize
  BY <1>6, Sizes DEF Init, zero
<1>8. ImagesInv
  BY <1>1, <1>7 DEF ImagesInv
<1>9. LibcInv
  BY DEF Init, LibcInv
<1>10. TasksInv
  BY <1>1, Sizes, SizesAssumption DEF TasksInv, Init
<1>11. RamInv
  BY DEF Init, RamInv
<1> QED BY <1>2, <1>3, <1>4, <1>5, <1>8, <1>9, <1>10, <1>11 DEF MemInv

-----------------------------------------------------------------------------
(* malloc and free inside the heap a program has.                          *)

\* The step changes at most the programs' breaks and blocks.
SameTasks ==
  /\ DOMAIN tasks' = DOMAIN tasks
  /\ \A p \in DOMAIN tasks : /\ tasks'[p].file = tasks[p].file
                             /\ tasks'[p].cr3 = tasks[p].cr3
                             /\ tasks'[p].app_base = tasks[p].app_base
                             /\ tasks'[p].alive = tasks[p].alive

LEMMA SameTasksFact ==
  ASSUME SameTasks
  PROVE  Live' = Live /\ Own' = Own /\ Placed' = Placed
<1>1. Live' = Live
  BY DEF SameTasks, Live
<1>2. \A p \in Live : p \in DOMAIN tasks
  BY DEF Live
<1> QED BY <1>1, <1>2 DEF SameTasks, Own, Placed

\* Neither the kernel heap nor what is in it is touched.
LEMMA HeapKept ==
  ASSUME MemInv, SameTasks, UNCHANGED <<shared_libc, held, ram>>
  PROVE  BlocksInv' /\ ImagesInv' /\ LibcInv' /\ RamInv'
<1>1. Live' = Live /\ Own' = Own /\ Placed' = Placed
  BY SameTasksFact
<1>2. \A p \in Live : p \in DOMAIN tasks
  BY DEF Live
<1>3. \A p \in Placed : p \in Live
  BY DEF Placed
<1>4. \A p \in Live : tasks'[p].app_base = tasks[p].app_base /\ tasks'[p].file = tasks[p].file
  BY <1>2 DEF SameTasks
<1>5. BlocksInv'
  BY <1>1, <1>3, <1>4 DEF MemInv, BlocksInv
<1>6. ImagesInv'
  <2>1. \A p \in Placed : \A b \in held : ImageIn(p, b) => ImageIn(p, b)'
    BY <1>3, <1>4 DEF ImageIn
  <2> QED BY <1>1, <1>3, <1>4, <2>1 DEF MemInv, ImagesInv
<1>7. LibcInv'
  <2>1. \A b \in held : LibcIn(b) => LibcIn(b)'
    BY <1>1, <1>3, <1>4 DEF LibcIn
  <2> QED BY <2>1 DEF MemInv, LibcInv
<1>8. RamInv'
  BY DEF MemInv, RamInv
<1> QED BY <1>5, <1>6, <1>7, <1>8

\* A task with other blocks.
LEMMA BlocksChange ==
  ASSUME MemInv, NEW p \in Live, NEW blocks \in Seq(Block),
         NEW end \in Nat, p \in strayed' \/ InOrder(blocks, end),
         strayed \subseteq strayed', strayed' \subseteq strayed \cup {p},
         tasks' \in Seq(Program), Len(tasks') = Len(tasks),
         tasks'[p] = [tasks[p] EXCEPT !.blocks = blocks, !.v_heap_end = end],
         \A q \in DOMAIN tasks : q # p => tasks'[q] = tasks[q]
  PROVE  TasksInv' /\ SameTasks
<1>1. tasks \in Seq(Program) /\ p \in DOMAIN tasks
  BY DEF MemInv, TasksInv, Live
<1>2. DOMAIN tasks = 1..Len(tasks) /\ DOMAIN tasks' = DOMAIN tasks
  BY <1>1, LenProperties
<1>3. tasks[p] \in Program
  BY <1>1, <1>2, ElementOfSeq
<1>4. /\ tasks'[p].blocks = blocks /\ tasks'[p].v_heap_end = end
      /\ tasks'[p].file = tasks[p].file /\ tasks'[p].cr3 = tasks[p].cr3
      /\ tasks'[p].app_base = tasks[p].app_base /\ tasks'[p].alive = tasks[p].alive
  BY <1>3 DEF Program
<1>5. SameTasks
  BY <1>2, <1>4 DEF SameTasks
<1>6. \A q \in Live : /\ tasks[q].file \in Files
                      /\ q \in strayed \/ InOrder(tasks[q].blocks, tasks[q].v_heap_end)
  BY DEF MemInv, TasksInv
<1>7. \A q \in Live' : /\ tasks'[q].file \in Files
                       /\ q \in strayed' \/ InOrder(tasks'[q].blocks, tasks'[q].v_heap_end)
  <2> SUFFICES ASSUME NEW q \in Live
               PROVE  /\ tasks'[q].file \in Files
                      /\ q \in strayed' \/ InOrder(tasks'[q].blocks, tasks'[q].v_heap_end)
    BY <1>5, SameTasksFact
  <2>1. q \in DOMAIN tasks
    BY DEF Live
  <2> QED BY <1>4, <1>6, <2>1
<1>8. strayed' \subseteq DOMAIN tasks'
  BY <1>1, <1>2 DEF MemInv, TasksInv
<1>9. TasksInv'
  BY <1>7, <1>8 DEF MemInv, TasksInv
<1> QED BY <1>5, <1>9

\* A block is taken into use, or given back.
LEMMA FlagStep ==
  ASSUME MemInv, NEW p \in Live, NEW i \in DOMAIN tasks[p].blocks, NEW free \in BOOLEAN,
         tasks' = [tasks EXCEPT ![p].blocks[i].is_free = free],
         UNCHANGED <<mmu, user_phys_memory, next_task_id, shared_libc, held, ram, strayed>>
  PROVE  MemInv' /\ SameTasks
<1>1. tasks \in Seq(Program) /\ p \in DOMAIN tasks
  BY DEF MemInv, TasksInv, Live
<1>2. DOMAIN tasks = 1..Len(tasks) /\ p \in 1..Len(tasks)
  BY <1>1, LenProperties
<1>3. PICK t \in Program : t = tasks[p]
  BY <1>1, <1>2, ElementOfSeq
<1>4. PICK old \in Seq(Block) : old = t.blocks
  BY DEF Program
<1>5. i \in 1..Len(old) /\ DOMAIN old = 1..Len(old)
  BY <1>3, <1>4, LenProperties
<1>6. PICK b \in Block : b = old[i]
  BY <1>5, ElementOfSeq
<1>7. PICK c : c = [b EXCEPT !.is_free = free]
  OBVIOUS
<1>8. c \in Block /\ c.at = b.at /\ c.size = b.size
  BY <1>7 DEF Block
<1>9. PICK new : new = [old EXCEPT ![i] = c]
  OBVIOUS
<1>10. /\ new \in Seq(Block) /\ Len(new) = Len(old)
       /\ \A j \in 1..Len(old) : new[j] = IF j = i THEN c ELSE old[j]
  BY <1>5, <1>8, <1>9, ExceptSeq
<1>11. DOMAIN new = DOMAIN old
       /\ \A j \in DOMAIN old : new[j].at = old[j].at /\ new[j].size = old[j].size
  BY <1>5, <1>6, <1>8, <1>10, LenProperties
<1>12. PICK u : u = [t EXCEPT !.blocks = new]
  OBVIOUS
<1>13. u \in Program /\ t.v_heap_end \in Nat
       /\ u = [t EXCEPT !.blocks = new, !.v_heap_end = t.v_heap_end]
  BY <1>10, <1>12 DEF Program
<1>14. tasks' = [tasks EXCEPT ![p] = u]
  BY <1>3, <1>4, <1>6, <1>7, <1>9, <1>12
<1>15. /\ tasks' \in Seq(Program) /\ Len(tasks') = Len(tasks)
       /\ \A q \in 1..Len(tasks) : tasks'[q] = IF q = p THEN u ELSE tasks[q]
  <2>1. tasks \in Seq(Program) /\ p \in 1..Len(tasks) /\ u \in Program
    BY <1>1, <1>2, <1>13
  <2>2. PICK s : s = [tasks EXCEPT ![p] = u]
    OBVIOUS
  <2>3. /\ s \in Seq(Program) /\ Len(s) = Len(tasks)
        /\ \A q \in 1..Len(tasks) : s[q] = IF q = p THEN u ELSE tasks[q]
    BY ONLY <2>1, <2>2, ExceptSeq
  <2>4. tasks' = s
    BY ONLY <1>14, <2>2
  <2> QED BY ONLY <2>3, <2>4
<1>16. p \in strayed' \/ InOrder(new, t.v_heap_end)
  <2>1. p \in strayed \/ InOrder(old, t.v_heap_end)
    BY <1>3, <1>4 DEF MemInv, TasksInv
  <2> QED BY <1>11, <2>1 DEF InOrder
<1>17. TasksInv' /\ SameTasks
  BY <1>2, <1>3, <1>10, <1>13, <1>15, <1>16, BlocksChange
<1>18. \A q \in Live : /\ tasks'[q].cr3 = tasks[q].cr3
                       /\ tasks'[q].v_heap_end = tasks[q].v_heap_end
                       /\ tasks'[q].file = tasks[q].file
                       /\ tasks'[q].app_base = tasks[q].app_base
  <2>1. u.v_heap_end = t.v_heap_end
    BY <1>12
  <2> QED BY <1>2, <1>3, <1>15, <1>17, <2>1 DEF SameTasks, Live
<1>19. Live' = Live /\ Own' = Own /\ Placed' = Placed /\ Own \subseteq Live
  BY <1>17, SameTasksFact DEF Own
<1>20. DirsInv'
  BY <1>18, <1>19 DEF MemInv, DirsInv
<1>21. \A q \in Live : \A v : Frame(q, v)' = Frame(q, v) /\ (HeapPages(q))' = HeapPages(q)
  BY <1>18 DEF Frame, HeapPages
<1>22. HeapMaps'
  BY <1>19, <1>21 DEF MemInv, HeapMaps
<1>23. ImageMaps' /\ LibcMaps'
  BY <1>18, <1>19, <1>21 DEF MemInv, ImageMaps, LibcMaps, Mapped
<1>24. MmuType(mmu)' /\ TablesOwned(mmu)'
  BY DEF MemInv
<1> QED BY <1>17, <1>20, <1>22, <1>23, <1>24, HeapKept DEF MemInv

-----------------------------------------------------------------------------
(* A heap grows.                                                           *)

LEMMA NoTaskType == NoTask \in Program
<1>1. BreakStart \in Nat /\ KernelDir \in Dirs
  BY BreakFact, Sizes DEF KernelDir, Dirs
<1>2. << >> \in Seq(Block)
  BY EmptySeq
<1> QED BY <1>1, <1>2 DEF NoTask, Program

LEMMA NewTaskType ==
  ASSUME NEW f \in Files, NEW app \in Nat, NewDir \in Dirs
  PROVE  NewTask(f, app) \in Program
<1>1. BreakStart \in Nat
  BY BreakFact
<1>2. << >> \in Seq(Block)
  BY EmptySeq
<1> QED BY <1>1, <1>2 DEF NewTask, Program

\* A task in the sequence is replaced.
LEMMA TaskReplaced ==
  ASSUME tasks \in Seq(Program), NEW p \in DOMAIN tasks, NEW u \in Program,
         tasks' = [tasks EXCEPT ![p] = u]
  PROVE  /\ tasks' \in Seq(Program) /\ Len(tasks') = Len(tasks)
         /\ DOMAIN tasks' = DOMAIN tasks
         /\ tasks'[p] = u /\ \A q \in DOMAIN tasks : q # p => tasks'[q] = tasks[q]
<1>1. tasks \in Seq(Program) /\ DOMAIN tasks = 1..Len(tasks) /\ p \in 1..Len(tasks)
  BY LenProperties
<1>2. PICK s : s = [tasks EXCEPT ![p] = u]
  OBVIOUS
<1>3. /\ s \in Seq(Program) /\ Len(s) = Len(tasks)
      /\ \A q \in 1..Len(tasks) : s[q] = IF q = p THEN u ELSE tasks[q]
  BY ONLY <1>1, <1>2, u \in Program, ExceptSeq
<1>4. tasks' = s
  BY <1>2
<1>5. DOMAIN s = 1..Len(tasks)
  BY <1>3, LenProperties
<1> QED BY ONLY <1>1, <1>3, <1>4, <1>5

LEMMA SpaceFact == Space \in Nat \ {0} /\ HeapEnd < Space
<1>1. RegionPages \in Nat \ {0} /\ PageSize \in Nat \ {0}
  BY Sizes
<1>2. PICK k, n \in Nat : k = 2 * RegionPages /\ n = 6 * RegionPages /\ k < n
  BY <1>1
<1>3. HeapEnd = k * PageSize /\ Space = n * PageSize
  BY <1>2, RegionNumbers DEF HeapEnd, Space, FirstWord
<1>4. k * PageSize \in Nat /\ n * PageSize \in Nat
  BY <1>2, BoundaryFact
<1>5. k * PageSize + PageSize <= n * PageSize
  BY <1>1, <1>2, ProductStep
<1> QED BY <1>1, <1>3, <1>4, <1>5

\* A growth inside the heap's region, or none, maps pages of that region only.
LEMMA SpanFact ==
  ASSUME NEW m, NEW d, NEW first \in Nat, NEW end \in Nat, NEW frame \in Nat,
         \/ first = end
         \/ /\ FirstPage(HeapRegion) <= first /\ first <= end
            /\ end <= FirstPage(KernelHeapRegion)
  PROVE  MapSpan(m, d, first, end, frame) = MapPages(m, d, first, end - first, frame)
<1>1. PICK k \in Nat \ {0} : k = RegionPages
  BY Sizes
<1>2. /\ FirstPage(0) = 0 /\ FirstPage(1) = k /\ FirstPage(2) = 2 * k
      /\ FirstPage(3) = 3 * k /\ FirstPage(4) = 4 * k /\ FirstPage(5) = 5 * k
      /\ FirstPage(6) = 6 * k /\ HeapRegion = 1 /\ KernelHeapRegion = 2
  BY <1>1, RegionNumbers
<1>3. \A x \in Nat : /\ Cut(x, 0) \in Int /\ Cut(x, 1) \in Int /\ Cut(x, 2) \in Int
                     /\ Cut(x, 3) \in Int /\ Cut(x, 4) \in Int /\ Cut(x, 5) \in Int
  BY <1>1, <1>2 DEF Cut
<1>4. \A n, a, f : MapPages(n, d, a, 0, f) = n
  BY DEF MapPages
<1>5. CASE first = end
  <2>1. /\ Cut(end, 0) - Cut(first, 0) = 0 /\ Cut(end, 1) - Cut(first, 1) = 0
        /\ Cut(end, 2) - Cut(first, 2) = 0 /\ Cut(end, 3) - Cut(first, 3) = 0
        /\ Cut(end, 4) - Cut(first, 4) = 0 /\ Cut(end, 5) - Cut(first, 5) = 0
        /\ end - first = 0
    BY <1>3, <1>5
  <2> QED BY <1>4, <2>1 DEF MapSpan
<1>6. CASE FirstPage(HeapRegion) <= first /\ first <= end /\ end <= FirstPage(KernelHeapRegion)
  <2>1. k <= first /\ first <= end /\ end <= 2 * k
    BY <1>2, <1>6
  <2>2. /\ Cut(end, 0) - Cut(first, 0) = 0
        /\ Cut(end, 2) - Cut(first, 2) = 0 /\ Cut(end, 3) - Cut(first, 3) = 0
        /\ Cut(end, 4) - Cut(first, 4) = 0 /\ Cut(end, 5) - Cut(first, 5) = 0
    BY <1>1, <1>2, <2>1 DEF Cut
  <2>3. Cut(first, 1) = first /\ Cut(end, 1) = end /\ frame + first - first = frame
    BY <1>1, <1>2, <2>1 DEF Cut
  <2> QED BY <1>4, <2>2, <2>3 DEF MapSpan
<1> QED BY <1>5, <1>6

\* Below the top of memory rounding up does not wrap.
LEMMA NoWrap ==
  ASSUME NEW n \in Nat
  PROVE  /\ n % Pages \in Nat
         /\ n <= FirstPage(KernelHeapRegion) => n % Pages = n
<1>1. PICK k \in Nat \ {0} : k = RegionPages
  BY Sizes
<1>2. Pages = 6 * k /\ FirstPage(KernelHeapRegion) = 2 * k
  BY <1>1, RegionNumbers DEF Pages
<1>3. PICK t \in Nat \ {0} : t = 6 * k
  BY <1>1
<1>4. n % t \in Nat /\ (n < t => n % t = n)
  BY <1>3
<1> QED BY <1>1, <1>2, <1>3, <1>4

\* The pages behind the old break, up to the new one, get frames that nobody
\* was given.
LEMMA GrowFact ==
  ASSUME MemInv, NEW p \in Live, NEW new_break \in Nat, Sbrk(p, new_break), ~spilled'
  PROVE  \E start, stop \in FirstPage(HeapRegion)..FirstPage(KernelHeapRegion) :
           /\ start <= stop
           /\ p \notin strayed => start = PagesUp(tasks[p].v_heap_end)
           /\ p \notin strayed /\ tasks[p].v_heap_end <= new_break /\ new_break <= HeapEnd
                => stop = PagesUp(new_break)
           /\ user_phys_memory' = user_phys_memory + (stop - start)
           /\ MmuType(mmu') /\ TablesOwned(mmu')
           /\ SameBut(mmu, mmu', tasks[p].cr3, start..stop - 1)
           /\ \A v \in start..stop - 1 :
                Translate(mmu', tasks[p].cr3, v) = user_phys_memory + (v - start)
           /\ \A d \in Dirs : d # tasks[p].cr3 => mmu'.directory[d] = mmu.directory[d]
<1>1. tasks \in Seq(Program) /\ p \in DOMAIN tasks
  BY DEF MemInv, TasksInv, Live
<1>2. tasks[p] \in Program
  BY <1>1, LenProperties, ElementOfSeq
<1>3. PICK end \in Nat : end = tasks[p].v_heap_end
  BY <1>2 DEF Program
<1>4. PICK d \in Dirs : d = tasks[p].cr3
  BY <1>2 DEF Program
<1>5. PICK frame \in Nat : frame = user_phys_memory
  BY DEF MemInv, HeapMaps
<1>6. PICK low, high \in Nat : /\ low = FirstPage(HeapRegion) /\ high = FirstPage(KernelHeapRegion)
                               /\ high = FirstPage(HeapRegion + 1) /\ low < high
  BY RegionNumbers, Sizes
<1>7. p \notin strayed => end \in BreakStart..HeapEnd
  BY <1>3 DEF MemInv, TasksInv, InOrder
<1>8. p \notin strayed => PagesUp(end) \in low..high
  <2>1. p \notin strayed => PagesUp(end) \in low + 1..high
    BY <1>6, <1>7, BreakFact
  <2> QED BY <1>6, <2>1
<1>9. PICK a \in Nat : a = PagesUp(end) % Pages
  BY PagesUpFact, NoWrap
<1>10. PICK b \in Nat : b = PagesUp(new_break) % Pages
  BY PagesUpFact, NoWrap
<1>11. p \notin strayed => a = PagesUp(end) /\ a \in low..high
  BY <1>6, <1>8, <1>9, NoWrap, PagesUpFact
<1>12. p \notin strayed /\ end <= new_break /\ new_break <= HeapEnd
         => b = PagesUp(new_break) /\ b \in low..high /\ a <= b
  <2> SUFFICES ASSUME p \notin strayed, end <= new_break, new_break <= HeapEnd
               PROVE  b = PagesUp(new_break) /\ b \in low..high /\ a <= b
    OBVIOUS
  <2>1. new_break \in BreakStart..HeapEnd
    BY <1>7, BreakFact
  <2>2. PagesUp(new_break) \in low + 1..high
    BY <1>6, <2>1, BreakFact
  <2>3. PagesUp(end) <= PagesUp(new_break)
    BY PagesOrdered
  <2>4. b = PagesUp(new_break)
    BY <1>6, <1>10, <2>2, NoWrap
  <2> QED BY <1>6, <1>11, <2>2, <2>3, <2>4
<1>13. PICK m : m = mmu
  OBVIOUS
<1>14. PICK start, stop \in low..high :
         /\ start <= stop
         /\ p \notin strayed => start = PagesUp(end)
         /\ p \notin strayed /\ end <= new_break /\ new_break <= HeapEnd
              => stop = PagesUp(new_break)
         /\ mmu' = MapPages(m, d, start, stop - start, frame)
         /\ user_phys_memory' = frame + (stop - start)
  <2>1. ASSUME NEW x \in Nat PROVE MapPages(m, d, x, x - x, frame) = m
    <3>1. x - x = 0
      OBVIOUS
    <3> QED BY <3>1 DEF MapPages
  <2>2. CASE new_break > end /\ a < b
    <3>1. PICK count \in Nat : count = b - a /\ a + count = b /\ count > 0
      BY <2>2
    <3>2. SbrkFrom(p, a, b)
      BY <1>3, <1>9, <1>10, <2>2 DEF Sbrk
    <3>3. /\ mmu' = MapSpan(m, d, a, a + count, frame)
          /\ user_phys_memory' = frame + count
          /\ spilled' = (spilled \/ ~(a..a + count - 1 \subseteq RegionOf(HeapRegion)))
      BY <1>4, <1>5, <1>13, <2>2, <3>1, <3>2 DEF SbrkFrom
    <3>4. a..b - 1 \subseteq low..high - 1
      <4>1. a..a + count - 1 \subseteq RegionOf(HeapRegion)
        BY <3>3
      <4>2. RegionOf(HeapRegion) = low..high - 1
        BY <1>6 DEF RegionOf
      <4> QED BY <3>1, <4>1, <4>2
    <3>5. a \in low..high /\ b \in low..high
      <4>1. a \in a..b - 1 /\ b - 1 \in a..b - 1
        BY <2>2
      <4>2. a \in low..high - 1 /\ b - 1 \in low..high - 1
        BY <3>4, <4>1
      <4> QED BY <1>6, <4>2
    <3>6. mmu' = MapPages(m, d, a, b - a, frame)
      <4>1. MapSpan(m, d, a, b, frame) = MapPages(m, d, a, b - a, frame)
        BY <1>6, <2>2, <3>5, SpanFact
      <4> QED BY <3>1, <3>3, <4>1
    <3> QED BY <1>11, <1>12, <2>2, <3>1, <3>3, <3>5, <3>6
  <2>3. CASE ~(new_break > end /\ a < b)
    <3>1. mmu' = m /\ user_phys_memory' = frame
      <4>1. CASE new_break > end
        <5>1. SbrkFrom(p, a, b) /\ ~(a < b)
          BY <1>3, <1>9, <1>10, <2>3, <4>1 DEF Sbrk
        <5>2. mmu' = MapSpan(m, d, a, a + 0, frame) /\ user_phys_memory' = frame + 0
          BY <1>4, <1>5, <1>13, <5>1 DEF SbrkFrom
        <5>3. MapSpan(m, d, a, a, frame) = MapPages(m, d, a, a - a, frame)
          BY SpanFact
        <5> QED BY <2>1, <5>2, <5>3
      <4>2. CASE ~(new_break > end)
        BY <1>3, <1>5, <1>13, <4>2 DEF Sbrk
      <4> QED BY <4>1, <4>2
    <3>2. CASE p \notin strayed
      <4>1. end <= new_break /\ new_break <= HeapEnd => PagesUp(end) = PagesUp(new_break)
        <5>1. CASE new_break = end
          BY <5>1
        <5>2. CASE new_break > end
          BY <1>11, <1>12, <2>3, <3>2, <5>2
        <5> QED BY <5>1, <5>2
      <4>2. a \in Nat /\ a - a = 0 /\ frame + (a - a) = frame
        OBVIOUS
      <4> QED BY <1>11, <2>1, <3>1, <3>2, <4>1, <4>2
    <3>3. CASE p \in strayed
      <4>1. low \in low..high /\ low - low = 0 /\ frame + (low - low) = frame
        BY <1>6
      <4> QED BY <2>1, <3>1, <3>3, <4>1
    <3> QED BY <3>2, <3>3
  <2> QED BY <2>2, <2>3
<1>15. PICK count \in Nat : /\ count = stop - start /\ start + count = stop
                            /\ start \in Nat /\ stop \in Nat
                            /\ start >= low /\ start + count <= high
  BY <1>6, <1>14
<1>16. HeapRegion \in UserRegions /\ MmuType(m) /\ TablesOwned(m)
  BY <1>13 DEF UserRegions, MemInv
<1>17. PICK n : n = MapPages(m, d, start, count, frame)
  OBVIOUS
<1>18. /\ MmuType(n) /\ TablesOwned(n)
       /\ SameBut(m, n, d, start..start + count - 1)
       /\ \A v \in start..start + count - 1 : Translate(n, d, v) = frame + (v - start)
       /\ \A e \in Dirs : e # d => n.directory[e] = m.directory[e]
  <2>1. count # 0 => /\ start >= FirstPage(HeapRegion)
                     /\ start + count <= FirstPage(HeapRegion + 1)
    BY <1>6, <1>15
  <2> QED BY <1>15, <1>16, <1>17, <2>1, MapPagesFact
<1>19. mmu' = n
  BY <1>14, <1>15, <1>17
<1>20. start..start + count - 1 = start..stop - 1
  BY <1>15
<1>21. /\ MmuType(mmu') /\ TablesOwned(mmu')
       /\ SameBut(mmu, mmu', tasks[p].cr3, start..stop - 1)
       /\ \A v \in start..stop - 1 :
             Translate(mmu', tasks[p].cr3, v) = user_phys_memory + (v - start)
       /\ \A e \in Dirs : e # tasks[p].cr3 => mmu'.directory[e] = mmu.directory[e]
  BY <1>4, <1>5, <1>13, <1>18, <1>19, <1>20
<1> QED BY <1>3, <1>5, <1>6, <1>14, <1>21

\* What a program with a directory of its own has mapped stays mapped; in the
\* heap, as long as the program did not stray.
Kept ==
  \A q \in Own : \A r \in UserRegions : \A v \in RegionOf(r) :
    /\ r = HeapRegion => q \notin strayed
    /\ Frame(q, v) # NoFrame
    => Translate(mmu', tasks[q].cr3, v) = Frame(q, v)

\* sys_sbrk keeps the invariant, whatever the increment, unless it spills.
LEMMA SbrkStep ==
  ASSUME MemInv, NEW p \in Live, NEW new_break \in Nat, Sbrk(p, new_break), ~spilled',
         TasksInv', SameTasks, tasks'[p].v_heap_end = new_break,
         \A q \in DOMAIN tasks : q # p => tasks'[q] = tasks[q],
         strayed \subseteq strayed', strayed' \subseteq strayed \cup {p},
         p \notin strayed' => tasks[p].v_heap_end <= new_break /\ new_break <= HeapEnd,
         UNCHANGED <<next_task_id, shared_libc, held, ram>>
  PROVE  MemInv' /\ Kept
<1>3. BlocksInv' /\ ImagesInv' /\ LibcInv' /\ RamInv'
  BY HeapKept
<1>4. /\ Live' = Live /\ Own' = Own /\ Placed' = Placed /\ Own \subseteq Live
      /\ p \in DOMAIN tasks /\ Live \subseteq DOMAIN tasks
  BY SameTasksFact DEF Own, Live
<1>5. \A q \in Live : /\ tasks'[q].cr3 = tasks[q].cr3 /\ tasks'[q].file = tasks[q].file
                      /\ tasks'[q].app_base = tasks[q].app_base
                      /\ tasks[q].cr3 \in Dirs
  <2>1. \A q \in DOMAIN tasks : tasks[q] \in Program
    BY LenProperties, ElementOfSeq DEF MemInv, TasksInv
  <2> QED BY <1>4, <2>1 DEF SameTasks, Program
<1>6. PICK start, stop \in FirstPage(HeapRegion)..FirstPage(KernelHeapRegion) :
        /\ start <= stop
        /\ p \notin strayed => start = PagesUp(tasks[p].v_heap_end)
        /\ p \notin strayed /\ tasks[p].v_heap_end <= new_break /\ new_break <= HeapEnd
             => stop = PagesUp(new_break)
        /\ user_phys_memory' = user_phys_memory + (stop - start)
        /\ MmuType(mmu') /\ TablesOwned(mmu')
        /\ SameBut(mmu, mmu', tasks[p].cr3, start..stop - 1)
        /\ \A v \in start..stop - 1 :
             Translate(mmu', tasks[p].cr3, v) = user_phys_memory + (v - start)
        /\ \A d \in Dirs : d # tasks[p].cr3 => mmu'.directory[d] = mmu.directory[d]
  BY GrowFact
<1>7. PICK base \in Nat : base = FirstPage(HeapRegion) /\ FirstPage(KernelHeapRegion) \in Nat
                          /\ FirstPage(HeapRegion + 1) = FirstPage(KernelHeapRegion)
  BY RegionNumbers
<1>8. RegionOf(HeapRegion) = base..FirstPage(KernelHeapRegion) - 1
      /\ start..stop - 1 \subseteq RegionOf(HeapRegion)
  BY <1>7 DEF RegionOf
<1>9. PICK frames \in Nat : frames = user_phys_memory /\ frames >= FirstPage(ImageRegion)
  BY DEF MemInv, HeapMaps
<1>10. FirstPage(ImageRegion) \in Nat
  BY RegionNumbers
<1>11. DirsInv'
  <2>1. DirsInv
    BY DEF MemInv
  <2>2. next_task_id < MaxDirs => mmu'.directory[KernelDir] = mmu.directory[KernelDir]
    <3>1. KernelDir \in Dirs /\ MaxDirs \in Nat
      BY Sizes DEF KernelDir, Dirs
    <3> QED BY <1>6, <2>1, <3>1 DEF DirsInv
  <2> QED BY <1>4, <1>5, <2>1, <2>2 DEF DirsInv
<1>12. ASSUME NEW q \in Own, NEW r \in UserRegions, NEW v \in RegionOf(r)
       PROVE  /\ Frame(q, v)' = Translate(mmu', tasks[q].cr3, v)
              /\ Frame(q, v)' = IF q = p /\ v \in start..stop - 1
                                THEN frames + (v - start) ELSE Frame(q, v)
  <2>1. Frame(q, v)' = Translate(mmu', tasks[q].cr3, v)
    BY <1>4, <1>5 DEF Frame
  <2>2. tasks[q].cr3 = tasks[p].cr3 => q = p
    <3>1. tasks[q].cr3 = tasks[p].cr3 => p \in Own
      BY <1>4 DEF Own
    <3> QED BY <3>1 DEF MemInv, DirsInv
  <2>3. CASE q = p /\ v \in start..stop - 1
    BY <1>6, <1>9, <2>1, <2>3
  <2>4. CASE ~(q = p /\ v \in start..stop - 1)
    BY <1>4, <1>5, <1>6, <2>1, <2>2, <2>4 DEF SameBut, Frame
  <2> QED BY <2>1, <2>3, <2>4
<1>13. HeapRegion \in UserRegions /\ ImageRegion \in UserRegions /\ LibcRegion \in UserRegions
  BY DEF UserRegions
<1>14. ASSUME NEW q \in Own
       PROVE  /\ q # p => (HeapPages(q))' = HeapPages(q)
              /\ q = p /\ q \notin strayed => HeapPages(q) = base + 1..start - 1
              /\ q = p /\ q \notin strayed' => (HeapPages(q))' = base + 1..stop - 1
  <2>1. q # p => (HeapPages(q))' = HeapPages(q)
    BY <1>4 DEF HeapPages
  <2>2. q = p /\ q \notin strayed => HeapPages(q) = base + 1..start - 1
    BY <1>6, <1>7 DEF HeapPages
  <2>3. q = p /\ q \notin strayed' => (HeapPages(q))' = base + 1..stop - 1
    BY <1>6, <1>7 DEF HeapPages
  <2> QED BY <2>1, <2>2, <2>3
<1>15. ASSUME NEW q \in Own, NEW v \in RegionOf(HeapRegion)
       PROVE  /\ Frame(q, v) = NoFrame \/ Frame(q, v) \in FirstPage(ImageRegion)..frames - 1
              /\ q \notin strayed => (Frame(q, v) # NoFrame <=> v \in HeapPages(q))
  BY <1>9 DEF MemInv, HeapMaps
<1>21. user_phys_memory' = frames + (stop - start) /\ stop - start \in Nat
  BY <1>6, <1>7, <1>9
<1>22. ASSUME NEW q \in Own, NEW v \in RegionOf(HeapRegion), q = p, v \in start..stop - 1
       PROVE  /\ Frame(q, v)' \in FirstPage(ImageRegion)..user_phys_memory' - 1
              /\ Frame(q, v)' # NoFrame
  <2>1. Frame(q, v)' = frames + (v - start)
    BY <1>12, <1>13, <1>22
  <2>2. frames + (v - start) \in FirstPage(ImageRegion)..user_phys_memory' - 1
    BY <1>7, <1>9, <1>10, <1>21, <1>22
  <2>3. frames + (v - start) # NoFrame
    BY <1>7, <1>9, <1>22 DEF NoFrame
  <2> QED BY <2>1, <2>2, <2>3
<1>23. ASSUME NEW q \in Own, NEW v \in RegionOf(HeapRegion)
       PROVE  \/ Frame(q, v)' = NoFrame
              \/ Frame(q, v)' \in FirstPage(ImageRegion)..user_phys_memory' - 1
  <2>1. CASE q = p /\ v \in start..stop - 1
    BY <1>22, <2>1
  <2>2. CASE ~(q = p /\ v \in start..stop - 1)
    <3>1. Frame(q, v)' = Frame(q, v)
      BY <1>12, <1>13, <2>2
    <3>2. Frame(q, v) \in FirstPage(ImageRegion)..frames - 1
            => Frame(q, v) \in FirstPage(ImageRegion)..user_phys_memory' - 1
      BY <1>9, <1>10, <1>21
    <3> QED BY <1>15, <3>1, <3>2
  <2> QED BY <2>1, <2>2
<1>24. ASSUME NEW q \in Own, q \notin strayed', NEW v \in RegionOf(HeapRegion)
       PROVE  Frame(q, v)' # NoFrame <=> v \in (HeapPages(q))'
  <2>0. q \notin strayed
    BY <1>24
  <2>1. CASE q = p /\ v \in start..stop - 1
    <3>1. start = PagesUp(tasks[p].v_heap_end) /\ start > base
      <4>1. tasks[p].v_heap_end \in BreakStart..HeapEnd
        BY <2>0, <2>1 DEF MemInv, TasksInv, InOrder
      <4>2. PagesUp(tasks[p].v_heap_end) \in base + 1..FirstPage(KernelHeapRegion)
        BY <1>7, <4>1, BreakFact
      <4> QED BY <1>6, <1>7, <2>0, <2>1, <4>2
    <3>2. v \in base + 1..stop - 1
      BY <1>7, <2>1, <3>1
    <3> QED BY <1>14, <1>22, <1>24, <2>1, <3>2
  <2>2. CASE ~(q = p /\ v \in start..stop - 1)
    <3>1. Frame(q, v)' = Frame(q, v)
      BY <1>12, <1>13, <2>2
    <3>2. v \in (HeapPages(q))' <=> v \in HeapPages(q)
      <4>1. CASE q # p
        BY <1>14, <4>1
      <4>2. CASE q = p
        <5>1. v \in Int /\ start \in Int /\ stop \in Int /\ start <= stop
          BY <1>6, <1>7, <1>8
        <5>2. ~(start <= v /\ v <= stop - 1)
          BY <2>2, <4>2, <5>1
        <5>3. v \in base + 1..stop - 1 <=> v \in base + 1..start - 1
          BY ONLY <5>1, <5>2, base \in Nat
        <5> QED BY <1>14, <1>24, <2>0, <4>2, <5>3
      <4> QED BY <4>1, <4>2
    <3> QED BY <1>15, <2>0, <3>1, <3>2
  <2> QED BY <2>1, <2>2
<1>16. HeapMaps'
  <2>3. ASSUME NEW q \in Own, NEW s \in Own, NEW u \in RegionOf(HeapRegion),
               NEW v \in RegionOf(HeapRegion),
               Frame(q, u)' # NoFrame, Frame(q, u)' = Frame(s, v)'
        PROVE  q = s /\ u = v
    <3>1. /\ Frame(q, u)' = IF q = p /\ u \in start..stop - 1
                            THEN frames + (u - start) ELSE Frame(q, u)
          /\ Frame(s, v)' = IF s = p /\ v \in start..stop - 1
                            THEN frames + (v - start) ELSE Frame(s, v)
      BY <1>12, <1>13
    <3>2. /\ Frame(q, u) # NoFrame => Frame(q, u) \in Nat /\ Frame(q, u) < frames
          /\ Frame(s, v) # NoFrame => Frame(s, v) \in Nat /\ Frame(s, v) < frames
      <4>1. \A x \in FirstPage(ImageRegion)..frames - 1 : x \in Nat /\ x < frames
        BY <1>9, <1>10
      <4> QED BY <1>15, <4>1
    <3>3. CASE q = p /\ u \in start..stop - 1 /\ s = p /\ v \in start..stop - 1
      <4>1. frames + (u - start) = frames + (v - start)
        BY <2>3, <3>1, <3>3
      <4>2. u \in Int /\ v \in Int /\ start \in Int
        BY <1>7, <3>3
      <4> QED BY <3>3, <4>1, <4>2
    <3>4. CASE q = p /\ u \in start..stop - 1 /\ ~(s = p /\ v \in start..stop - 1)
      <4>1. Frame(s, v) = frames + (u - start) /\ Frame(s, v) # NoFrame
        BY <2>3, <3>1, <3>4
      <4> QED BY <1>7, <1>9, <3>2, <3>4, <4>1
    <3>5. CASE ~(q = p /\ u \in start..stop - 1) /\ s = p /\ v \in start..stop - 1
      <4>1. Frame(q, u) = frames + (v - start) /\ Frame(q, u) # NoFrame
        BY <2>3, <3>1, <3>5
      <4> QED BY <1>7, <1>9, <3>2, <3>5, <4>1
    <3>6. CASE ~(q = p /\ u \in start..stop - 1) /\ ~(s = p /\ v \in start..stop - 1)
      <4>1. Frame(q, u) # NoFrame /\ Frame(q, u) = Frame(s, v)
        BY <2>3, <3>1, <3>6
      <4>2. \A a, b \in Own : \A x, y \in RegionOf(HeapRegion) :
              Frame(a, x) # NoFrame /\ Frame(a, x) = Frame(b, y) => a = b /\ x = y
        BY DEF MemInv, HeapMaps
      <4> QED BY ONLY <4>1, <4>2, q \in Own, s \in Own, u \in RegionOf(HeapRegion),
                      v \in RegionOf(HeapRegion)
    <3> QED BY <3>3, <3>4, <3>5, <3>6
  <2>4. user_phys_memory' \in Nat /\ user_phys_memory' >= FirstPage(ImageRegion)
    BY <1>9, <1>10, <1>21
  <2> QED BY <1>4, <1>23, <1>24, <2>3, <2>4 DEF HeapMaps
<1>17. ASSUME NEW q \in Own, NEW r \in {ImageRegion, LibcRegion}, NEW v \in RegionOf(r)
       PROVE  Frame(q, v)' = Frame(q, v)
  <2>1. v \notin RegionOf(HeapRegion)
    <3>1. r \in Regions /\ HeapRegion \in Regions /\ r # HeapRegion
      BY DEF Regions, HeapRegion, ImageRegion, LibcRegion, KernelRegion
    <3> QED BY <3>1, RegionsApart
  <2> QED BY <1>8, <1>12, <1>13, <2>1
<1>18. ImageMaps'
  <2>1. ASSUME NEW q \in Own
        PROVE  Mapped(q, ImageRegion, PagesUp(MemSize[tasks[q].file]),
                      Page(tasks[q].app_base))'
    BY <1>4, <1>5, <1>17 DEF MemInv, ImageMaps, Mapped
  <2> QED BY <1>4, <2>1 DEF ImageMaps
<1>19. LibcMaps'
  <2>1. ASSUME NEW q \in Own, NEW count, NEW at, Mapped(q, LibcRegion, count, at)
        PROVE  Mapped(q, LibcRegion, count, at)'
    BY <1>17, <2>1 DEF Mapped
  <2>2. \A q \in Own : \A count, at :
          Mapped(q, LibcRegion, count, at) => Mapped(q, LibcRegion, count, at)'
    BY <2>1
  <2> QED BY <1>4, <2>2 DEF MemInv, LibcMaps
<1>20. Kept
  <2> SUFFICES ASSUME NEW q \in Own, NEW r \in UserRegions, NEW v \in RegionOf(r),
                      r = HeapRegion => q \notin strayed, Frame(q, v) # NoFrame
               PROVE  Translate(mmu', tasks[q].cr3, v) = Frame(q, v)
    BY DEF Kept
  <2>1. CASE q = p /\ v \in start..stop - 1
    <3>1. v \in RegionOf(HeapRegion) /\ r = HeapRegion
      <4>1. v \in RegionOf(HeapRegion)
        BY <1>8, <2>1
      <4>2. r \in Regions /\ HeapRegion \in Regions
        BY <1>13, UserRegionsAre DEF UserRegionsFact
      <4> QED BY <4>1, <4>2, RegionsApart
    <3>2. v \notin HeapPages(q)
      BY <1>7, <1>14, <2>1, <3>1
    <3> QED BY <1>15, <3>1, <3>2
  <2>2. CASE ~(q = p /\ v \in start..stop - 1)
    BY <1>12, <2>2
  <2> QED BY <2>1, <2>2
<1> QED BY <1>3, <1>6, <1>11, <1>16, <1>18, <1>19, <1>20 DEF MemInv

\* A block follows the last behind the new break.
LEMMA BlockAppended ==
  ASSUME MemInv, NEW p \in Live, NEW size \in Requests, ExtendHeap(p, size)
  PROVE  /\ TasksInv' /\ SameTasks
         /\ \A q \in DOMAIN tasks : q # p => tasks'[q] = tasks[q]
         /\ strayed \subseteq strayed' /\ strayed' \subseteq strayed \cup {p}
         /\ \E new_break \in Nat :
              /\ Sbrk(p, new_break) /\ tasks'[p].v_heap_end = new_break
              /\ p \notin strayed' => tasks[p].v_heap_end <= new_break /\ new_break <= HeapEnd
<1>1. tasks \in Seq(Program) /\ p \in DOMAIN tasks /\ TasksInv
  BY DEF MemInv, TasksInv, Live
<1>2. DOMAIN tasks = 1..Len(tasks) /\ p \in 1..Len(tasks)
  BY <1>1, LenProperties
<1>3. PICK t \in Program : t = tasks[p]
  BY <1>1, <1>2, ElementOfSeq
<1>4. PICK old \in Seq(Block) : old = t.blocks
  BY DEF Program
<1>5. PICK end \in Nat : end = t.v_heap_end
  BY DEF Program
<1>6. BreakStart \in Nat /\ HeapEnd \in Nat /\ UserHeader \in Nat /\ size \in Nat
  BY Sizes, BreakFact
<1>7. PICK word \in Nat : word = end + UserHeader + size
  BY <1>6
<1>18. Space \in Nat \ {0} /\ HeapEnd < Space
  BY SpaceFact
<1>19. PICK new_end \in Nat : new_end = word % Space /\ (word <= HeapEnd => new_end = word)
  BY <1>6, <1>18
<1>20. /\ Sbrk(p, new_end)
       /\ tasks' = [tasks EXCEPT
            ![p].v_heap_end = new_end,
            ![p].blocks = Append(@, [at |-> end + UserHeader, size |-> size, is_free |-> FALSE])]
       /\ strayed' = IF word < end \/ word > HeapEnd THEN strayed \cup {p} ELSE strayed
  BY <1>3, <1>5, <1>7, <1>19 DEF ExtendHeap, Astray, HeapEnd
<1>8. PICK b \in Block : b = [at |-> end + UserHeader, size |-> size, is_free |-> FALSE]
  <2>1. PICK at \in Nat : at = end + UserHeader
    BY <1>6
  <2>2. [at |-> at, size |-> size, is_free |-> FALSE] \in Block
    BY <1>6, <2>1 DEF Block
  <2> QED BY <2>1, <2>2
<1>9. PICK new : new = Append(old, b)
  OBVIOUS
<1>10. /\ new \in Seq(Block) /\ Len(new) = Len(old) + 1 /\ Len(old) \in Nat
       /\ \A i \in 1..Len(old) : new[i] = old[i]
       /\ new[Len(old) + 1] = b
       /\ DOMAIN new = 1..Len(new) /\ DOMAIN old = 1..Len(old)
  BY <1>9, AppendProperties, LenProperties
<1>11. PICK u : u = [t EXCEPT !.blocks = new, !.v_heap_end = new_end]
  OBVIOUS
<1>12. u \in Program /\ u.v_heap_end = new_end
  BY <1>10, <1>11 DEF Program
<1>13. tasks' = [tasks EXCEPT ![p] = u]
  <2>1. tasks' = [tasks EXCEPT ![p].v_heap_end = new_end, ![p].blocks = Append(@, b)]
    BY <1>8, <1>20
  <2> QED BY <1>1, <1>3, <1>4, <1>9, <1>11, <2>1 DEF Program
<1>14. /\ tasks' \in Seq(Program) /\ Len(tasks') = Len(tasks)
       /\ tasks'[p] = u /\ \A q \in DOMAIN tasks : q # p => tasks'[q] = tasks[q]
  BY <1>1, <1>12, <1>13, TaskReplaced
<1>15. p \in strayed' \/ InOrder(new, new_end)
  <2> SUFFICES ASSUME p \notin strayed' PROVE InOrder(new, new_end)
    OBVIOUS
  <2>0. /\ p \notin strayed /\ end <= new_end /\ new_end <= HeapEnd
        /\ new_end = end + UserHeader + size
    BY <1>6, <1>7, <1>19, <1>20
  <2>1. InOrder(old, end)
    BY <1>3, <1>4, <1>5, <2>0 DEF MemInv, TasksInv
  <2>2. \A i \in DOMAIN old : /\ old[i].at \in Nat /\ old[i].size \in Nat
                              /\ BreakStart <= old[i].at - UserHeader
                              /\ old[i].at + old[i].size <= end
    <3>1. \A i \in DOMAIN old : old[i] \in Block
      BY <1>10, ElementOfSeq
    <3> QED BY <2>1, <3>1 DEF InOrder, Block
  <2>3. b.at = end + UserHeader /\ b.size = size
    BY <1>8
  <2>4. \A i \in DOMAIN new : \/ i \in DOMAIN old /\ new[i] = old[i]
                              \/ i = Len(old) + 1 /\ new[i] = b
    BY <1>10
  <2>7. BreakStart <= end /\ new_end \in BreakStart..HeapEnd
    BY <1>6, <2>0, <2>1 DEF InOrder
  <2>5. \A i \in DOMAIN new : /\ BreakStart <= new[i].at - UserHeader
                              /\ new[i].at + new[i].size <= new_end
    <3> SUFFICES ASSUME NEW i \in DOMAIN new
                 PROVE  /\ BreakStart <= new[i].at - UserHeader
                        /\ new[i].at + new[i].size <= new_end
      OBVIOUS
    <3>1. CASE i \in DOMAIN old /\ new[i] = old[i]
      <4>1. /\ old[i].at \in Nat /\ old[i].size \in Nat
            /\ BreakStart <= old[i].at - UserHeader
            /\ old[i].at + old[i].size <= end
        BY <2>2, <3>1
      <4> QED BY <2>0, <3>1, <4>1
    <3>2. CASE new[i] = b
      BY <1>6, <2>0, <2>3, <2>7, <3>2
    <3> QED BY <2>4, <3>1, <3>2
  <2>6. \A i, j \in DOMAIN new :
          i < j => new[i].at + new[i].size <= new[j].at - UserHeader
    <3> SUFFICES ASSUME NEW i \in DOMAIN new, NEW j \in DOMAIN new, i < j
                 PROVE  new[i].at + new[i].size <= new[j].at - UserHeader
      OBVIOUS
    <3>1. i \in DOMAIN old /\ new[i] = old[i]
      BY <1>10
    <3>2. CASE j \in DOMAIN old /\ new[j] = old[j]
      BY <2>1, <3>1, <3>2 DEF InOrder
    <3>3. CASE new[j] = b
      <4>1. old[i].at + old[i].size <= end /\ b.at - UserHeader = end
        BY <1>6, <2>2, <2>3, <3>1
      <4> QED BY <3>1, <3>3, <4>1
    <3> QED BY <2>4, <3>2, <3>3
  <2> QED BY <2>5, <2>6, <2>7 DEF InOrder
<1>16. u = [t EXCEPT !.blocks = new, !.v_heap_end = new_end]
  BY <1>11
<1>21. strayed \subseteq strayed' /\ strayed' \subseteq strayed \cup {p}
  BY <1>20
<1>17. TasksInv' /\ SameTasks
  BY <1>3, <1>10, <1>14, <1>15, <1>16, <1>21, BlocksChange
<1>22. p \notin strayed' => tasks[p].v_heap_end <= new_end /\ new_end <= HeapEnd
  BY <1>3, <1>5, <1>6, <1>7, <1>19, <1>20
<1> QED BY <1>12, <1>14, <1>17, <1>20, <1>21, <1>22

LEMMA ExtendStep ==
  ASSUME MemInv, NEW p \in Live, NEW size \in Requests, ExtendHeap(p, size), ~spilled'
  PROVE  MemInv' /\ Kept
<1>1. UNCHANGED <<next_task_id, shared_libc, held, ram>>
  BY DEF ExtendHeap
<1>2. PICK new_break \in Nat :
        /\ Sbrk(p, new_break) /\ tasks'[p].v_heap_end = new_break
        /\ p \notin strayed' => tasks[p].v_heap_end <= new_break /\ new_break <= HeapEnd
  BY BlockAppended
<1>3. /\ TasksInv' /\ SameTasks
      /\ \A q \in DOMAIN tasks : q # p => tasks'[q] = tasks[q]
      /\ strayed \subseteq strayed' /\ strayed' \subseteq strayed \cup {p}
  BY BlockAppended
<1> QED BY <1>1, <1>2, <1>3, SbrkStep

\* A program moves its break itself.
LEMMA MoveStep ==
  ASSUME MemInv, NEW p \in Live, NEW new_break \in Breaks, MoveBreak(p, new_break), ~spilled'
  PROVE  MemInv' /\ Kept
<1>1. tasks \in Seq(Program) /\ p \in DOMAIN tasks /\ TasksInv
  BY DEF MemInv, TasksInv, Live
<1>2. new_break \in Nat /\ HeapEnd \in Nat /\ BreakStart \in Nat
  BY BreakFact, SizesAssumption
<1>3. PICK t \in Program : t = tasks[p]
  BY <1>1, LenProperties, ElementOfSeq
<1>4. PICK u : u = [t EXCEPT !.v_heap_end = new_break]
  OBVIOUS
<1>5. u \in Program /\ u.v_heap_end = new_break /\ t.blocks \in Seq(Block) /\ t.v_heap_end \in Nat
  BY <1>2, <1>4 DEF Program
<1>6. /\ tasks' = [tasks EXCEPT ![p] = u]
      /\ strayed' = IF new_break < t.v_heap_end \/ new_break > HeapEnd
                    THEN strayed \cup {p} ELSE strayed
      /\ Sbrk(p, new_break)
      /\ UNCHANGED <<next_task_id, shared_libc, held, ram>>
  BY <1>3, <1>4 DEF MoveBreak, Astray, HeapEnd
<1>7. /\ tasks' \in Seq(Program) /\ Len(tasks') = Len(tasks)
      /\ tasks'[p] = u /\ \A q \in DOMAIN tasks : q # p => tasks'[q] = tasks[q]
  BY <1>1, <1>5, <1>6, TaskReplaced
<1>8. strayed \subseteq strayed' /\ strayed' \subseteq strayed \cup {p}
  BY <1>6
<1>9. p \notin strayed' => /\ p \notin strayed /\ t.v_heap_end <= new_break
                           /\ new_break <= HeapEnd
  BY <1>2, <1>5, <1>6
<1>10. p \in strayed' \/ InOrder(t.blocks, new_break)
  <2> SUFFICES ASSUME p \notin strayed' PROVE InOrder(t.blocks, new_break)
    OBVIOUS
  <2>1. InOrder(t.blocks, t.v_heap_end)
    BY <1>3, <1>9 DEF MemInv, TasksInv
  <2>2. \A i \in DOMAIN t.blocks : t.blocks[i].at \in Nat /\ t.blocks[i].size \in Nat
    <3>1. \A i \in DOMAIN t.blocks : t.blocks[i] \in Block
      BY <1>5, LenProperties, ElementOfSeq
    <3> QED BY <3>1 DEF Block
  <2> QED BY <1>2, <1>5, <1>9, <2>1, <2>2 DEF InOrder
<1>11. PICK blocks \in Seq(Block) :
         blocks = t.blocks /\ u = [t EXCEPT !.blocks = blocks, !.v_heap_end = new_break]
  BY <1>3, <1>4, <1>5 DEF Program
<1>12. TasksInv' /\ SameTasks
  BY <1>2, <1>3, <1>7, <1>8, <1>10, <1>11, BlocksChange
<1> QED BY <1>2, <1>3, <1>5, <1>6, <1>7, <1>8, <1>9, <1>12, SbrkStep

-----------------------------------------------------------------------------
(* The words of a block of the kernel heap.                                *)

AnyBlock == [at : Nat, size : {Room}]

LEMMA RoomFact == Room \in Nat /\ Room = ImageSize + PageSize
  BY Sizes DEF Room

LEMMA BlockWords ==
  ASSUME NEW b \in AnyBlock
  PROVE  /\ b.at \in Nat /\ b.size = Room
         /\ AppMemory(b.at) \in Nat /\ PagesUp(b.at) * PageSize \in Nat
         /\ \A k \in 1..HeaderWords : b.at - k \in Extent(b)
         /\ AppMemory(b.at) - 1 \in b.at..b.at + b.size - 1
         /\ \A k \in 0..ImageSize - 1 : AppMemory(b.at) + k \in b.at..b.at + b.size - 1
         /\ \A k \in 0..ImageSize - 1 : PagesUp(b.at) * PageSize + k \in b.at..b.at + b.size - 1
         /\ \A w \in b.at..b.at + b.size - 1 : w \in Extent(b)
<1>1. PICK at \in Nat : at = b.at /\ b.size = Room
  BY DEF AnyBlock
<1>2. PICK app \in Nat : app = AppMemory(at) /\ at < app /\ app <= at + PageSize
  BY AppMemoryFact
<1>3. PICK up \in Nat : up = PagesUp(at) * PageSize /\ at <= up /\ up < at + PageSize
  BY PagesUpFact
<1>4. PageSize \in Nat /\ ImageSize \in Nat /\ HeaderWords \in Nat
  BY Sizes
<1> QED BY <1>1, <1>2, <1>3, <1>4, RoomFact DEF Extent

\* The kernel heap lies behind low memory.
LEMMA HeapIsHigh ==
  ASSUME NEW w \in RegionWords(KernelHeapRegion)
  PROVE  w \in Nat /\ w >= PageSize + ImageSize
<1>1. RegionPages \in Nat /\ RegionPages >= 2 /\ PageSize \in Nat \ {0} /\ ImageSize \in Nat
  BY Sizes
<1>2. PICK k \in Nat : k = RegionPages * PageSize
  BY <1>1, BoundaryFact
<1>3. (2 * RegionPages) * PageSize = k + k
  BY <1>1, <1>2, SMTT(30)
<1>4. k >= PageSize + PageSize
  <2>1. RegionPages = 2 \/ 2 < RegionPages
    BY <1>1
  <2>2. 2 * PageSize = PageSize + PageSize
    BY <1>1
  <2>3. 2 < RegionPages => 2 * PageSize + PageSize <= RegionPages * PageSize
    BY <1>1, ProductStep
  <2> QED BY <1>1, <1>2, <2>1, <2>2, <2>3
<1>5. ImageSize <= k
  BY <1>2, SizesAssumption
<1>6. FirstPage(KernelHeapRegion) * PageSize = k + k
  BY <1>3, RegionNumbers
<1>7. FirstPage(KernelHeapRegion + 1) * PageSize \in Nat
  <2>1. FirstPage(KernelHeapRegion + 1) \in Nat
    BY RegionNumbers
  <2> QED BY <2>1, BoundaryFact
<1>8. w \in k + k..FirstPage(KernelHeapRegion + 1) * PageSize - 1
  BY <1>6 DEF RegionWords, FirstWord
<1> QED BY <1>1, <1>4, <1>5, <1>7, <1>8

LEMMA HeldFact ==
  ASSUME MemInv
  PROVE  /\ held \subseteq AnyBlock
         /\ \A b \in held : \A w \in Extent(b) :
              w \in RegionWords(KernelHeapRegion) /\ w \in DOMAIN ram
         /\ \A a, b \in held : a.at = b.at => a = b
         /\ \A a, b \in held : AppMemory(a.at) = AppMemory(b.at) => a = b
         /\ PageSize - 1 \in DOMAIN ram
         /\ \A b \in held : b.at > ImageSize
<1>1. held \subseteq AnyBlock /\ \A b \in held : Extent(b) \subseteq RegionWords(KernelHeapRegion)
  BY DEF MemInv, BlocksInv, AnyBlock
<1>2. DOMAIN ram = (0..PageSize + ImageSize - 1) \cup RegionWords(KernelHeapRegion)
  BY DEF MemInv, RamInv
<1>3. \A a, b \in held : a.at = b.at => a = b
  BY <1>1 DEF AnyBlock
<1>4. \A a, b \in held : AppMemory(a.at) = AppMemory(b.at) => a = b
  <2>1. \A b \in held : AppMemory(b.at) \in Extent(b)
    <3> SUFFICES ASSUME NEW b \in held PROVE AppMemory(b.at) \in Extent(b)
      OBVIOUS
    <3>1. 0 \in 0..ImageSize - 1 /\ AppMemory(b.at) \in Nat
      BY <1>1, BlockWords, Sizes
    <3>2. AppMemory(b.at) + 0 \in Extent(b)
      BY <1>1, <3>1, BlockWords
    <3> QED BY <3>1, <3>2
  <2> QED BY <2>1 DEF MemInv, BlocksInv
<1>5. PageSize - 1 \in DOMAIN ram
  BY <1>2, Sizes
<1>6. ASSUME NEW b \in held PROVE b.at > ImageSize
  <2>1. 1 \in 1..HeaderWords /\ b.at - 1 \in Extent(b) /\ b.at \in Nat
    BY <1>1, BlockWords, Sizes
  <2>2. b.at - 1 >= PageSize + ImageSize
    BY <1>1, <2>1, HeapIsHigh
  <2> QED BY <2>1, <2>2, Sizes
<1> QED BY <1>1, <1>2, <1>3, <1>4, <1>5, <1>6

\* Block b and program p are as they were.
SameBlock(b) == \A w \in Extent(b) : ram'[w] = ram[w]
SameProgram(p) == /\ tasks'[p].file = tasks[p].file
                  /\ tasks'[p].app_base = tasks[p].app_base

LEMMA BlockKept ==
  ASSUME MemInv, NEW b \in held, SameBlock(b)
  PROVE  /\ \A k \in 1..HeaderWords : ram'[b.at - k] = <<"header", Room>>
         /\ \A p \in Placed : SameProgram(p) /\ ImageIn(p, b) => ImageIn(p, b)'
         /\ shared_libc' = shared_libc /\ LibcIn(b) =>
              \A k \in 0..LibcSize - 1 : ram'[shared_libc'.phys + k] = Libc[k]
<1>1. b \in AnyBlock
  BY HeldFact
<1>2. \A k \in 1..HeaderWords : ram[b.at - k] = <<"header", Room>> /\ b.at - k \in Extent(b)
  BY <1>1, BlockWords DEF MemInv, BlocksInv
<1>3. ASSUME NEW p \in Placed, SameProgram(p), ImageIn(p, b) PROVE ImageIn(p, b)'
  <2>1. PICK app \in Nat : app = AppMemory(b.at) /\ app = tasks[p].app_base
                           /\ app = tasks'[p].app_base
    BY <1>1, <1>3, BlockWords DEF ImageIn, SameProgram
  <2>2. app - 1 \in Extent(b) /\ \A k \in 0..ImageSize - 1 : app + k \in Extent(b)
    BY <1>1, <2>1, BlockWords
  <2> QED BY <1>3, <2>1, <2>2 DEF ImageIn, SameProgram, SameBlock, Image
<1>4. ASSUME LibcIn(b), NEW k \in 0..LibcSize - 1
      PROVE  ram'[shared_libc.phys + k] = Libc[k]
  <2>1. k \in 0..ImageSize - 1
    BY Sizes
  <2>2. shared_libc.phys + k \in Extent(b)
    BY <1>1, <1>4, <2>1, BlockWords DEF LibcIn
  <2> QED BY <1>4, <2>2 DEF LibcIn, SameBlock
<1> QED BY <1>2, <1>3, <1>4 DEF SameBlock

-----------------------------------------------------------------------------
(* The end of a program.                                                   *)

\* The pointer kept in front of an image is the one malloc returned.
LEMMA FreedFact ==
  ASSUME MemInv, NEW p \in Live
  PROVE  /\ p \in Placed => \E b \in held :
              /\ ImageIn(p, b)
              /\ {a \in held : a.at = ram[tasks[p].app_base - 1][2]} = {b}
         /\ p \notin Placed => {a \in held : a.at = ram[tasks[p].app_base - 1][2]} = {}
<1>1. ASSUME p \in Placed
      PROVE  \E b \in held : /\ ImageIn(p, b)
                             /\ {a \in held : a.at = ram[tasks[p].app_base - 1][2]} = {b}
  <2>1. PICK b \in held : ImageIn(p, b)
    BY <1>1 DEF MemInv, ImagesInv
  <2>2. ram[tasks[p].app_base - 1][2] = b.at
    BY <2>1 DEF ImageIn
  <2> QED BY <2>1, <2>2, HeldFact
<1>2. ASSUME p \notin Placed
      PROVE  {a \in held : a.at = ram[tasks[p].app_base - 1][2]} = {}
  <2>1. tasks[p].app_base = PageSize /\ ram[PageSize - 1][2] \in 0..ImageSize
    BY <1>2 DEF MemInv, ImagesInv
  <2>2. \A a \in held : a.at \in Nat /\ a.at > ImageSize
    BY HeldFact DEF AnyBlock
  <2> QED BY <2>1, <2>2, Sizes
<1> QED BY <1>1, <1>2

LEMMA KillStep ==
  ASSUME MemInv, NEW p \in Live, Kill(p)
  PROVE  MemInv' /\ Kept
<1>1. PICK freed : freed = {a \in held : a.at = ram[tasks[p].app_base - 1][2]}
  OBVIOUS
<1>2. /\ held' = held \ freed /\ ram' = Forgotten(ram, freed)
      /\ tasks' = [tasks EXCEPT ![p] = NoTask]
      /\ strayed' = strayed \ {p}
      /\ UNCHANGED <<mmu, user_phys_memory, next_task_id, shared_libc>>
  BY <1>1 DEF Kill, FreeImage
<1>3. /\ p \in Placed => \E b \in held : ImageIn(p, b) /\ freed = {b}
      /\ p \notin Placed => freed = {}
      /\ freed \subseteq held
  BY <1>1, FreedFact
<1>4. p \in DOMAIN tasks /\ tasks \in Seq(Program) /\ Live \subseteq DOMAIN tasks
      /\ Own \subseteq Live /\ Placed \subseteq Live
  BY DEF MemInv, TasksInv, Live, Own, Placed
<1>5. NoTask \in Program /\ NoTask.alive = FALSE
  BY NoTaskType DEF NoTask
<1>6. /\ tasks' \in Seq(Program) /\ Len(tasks') = Len(tasks)
      /\ DOMAIN tasks' = DOMAIN tasks
      /\ tasks'[p] = NoTask /\ \A q \in DOMAIN tasks : q # p => tasks'[q] = tasks[q]
  BY <1>2, <1>4, <1>5, TaskReplaced
<1>7. Live' = Live \ {p}
  BY <1>5, <1>6 DEF Live
<1>8. Own' = Own \ {p} /\ Placed' = Placed \ {p}
  BY <1>4, <1>6, <1>7 DEF Own, Placed
<1>9. \A q \in Live' : tasks'[q] = tasks[q]
  BY <1>4, <1>6, <1>7
<1>10. TasksInv'
  BY <1>2, <1>6, <1>7, <1>9 DEF MemInv, TasksInv
<1>11. DirsInv'
  BY <1>2, <1>4, <1>7, <1>8, <1>9 DEF MemInv, DirsInv
<1>12. \A q \in Own' : q \in Own /\ q \in Live'
                       /\ (HeapPages(q))' = HeapPages(q)
                       /\ \A v : Frame(q, v)' = Frame(q, v)
  BY <1>2, <1>4, <1>7, <1>8, <1>9 DEF HeapPages, Frame
<1>13. HeapMaps'
  <2>1. p \notin Own'
    BY <1>8
  <2>2. \A q \in Own' : q \in Own /\ (q \notin strayed' => q \notin strayed)
    BY <1>2, <1>12, <2>1
  <2>3. \A q \in Own' : \A v \in RegionOf(HeapRegion) :
          \/ Frame(q, v)' = NoFrame
          \/ Frame(q, v)' \in FirstPage(ImageRegion)..user_phys_memory' - 1
    BY <1>2, <1>12, <2>2 DEF MemInv, HeapMaps
  <2>4. \A q \in Own' \ strayed' : \A v \in RegionOf(HeapRegion) :
          Frame(q, v)' # NoFrame <=> v \in (HeapPages(q))'
    BY <1>12, <2>2 DEF MemInv, HeapMaps
  <2>5. \A q, s \in Own' : \A u, v \in RegionOf(HeapRegion) :
          Frame(q, u)' # NoFrame /\ Frame(q, u)' = Frame(s, v)' => q = s /\ u = v
    BY <1>12, <2>2 DEF MemInv, HeapMaps
  <2> QED BY <1>2, <2>3, <2>4, <2>5 DEF MemInv, HeapMaps
<1>14. ImageMaps' /\ LibcMaps'
  BY <1>2, <1>9, <1>12 DEF MemInv, ImageMaps, LibcMaps, Mapped
<1>15. DOMAIN ram' = DOMAIN ram
       /\ \A w \in DOMAIN ram : (\A b \in freed : w \notin Extent(b)) => ram'[w] = ram[w]
  BY <1>2 DEF Forgotten
<1>16. RamInv'
  BY <1>2 DEF MemInv, RamInv, Forgotten
<1>17. \A b \in held' : b \in held /\ SameBlock(b)
  <2> SUFFICES ASSUME NEW b \in held' PROVE b \in held /\ SameBlock(b)
    OBVIOUS
  <2>1. b \in held /\ \A a \in freed : a \in held /\ a # b
    BY <1>2, <1>3
  <2>2. \A a \in freed : Extent(a) \cap Extent(b) = {}
    BY <2>1 DEF MemInv, BlocksInv
  <2>3. \A w \in Extent(b) : w \in DOMAIN ram
    BY <2>1, HeldFact
  <2> QED BY <1>15, <2>1, <2>2, <2>3 DEF SameBlock
<1>18. \A q \in Placed' : \E b \in held' : ImageIn(q, b)'
  <2> SUFFICES ASSUME NEW q \in Placed' PROVE \E b \in held' : ImageIn(q, b)'
    OBVIOUS
  <2>1. q \in Placed /\ q # p
    BY <1>8
  <2>2. PICK b \in held : ImageIn(q, b)
    BY <2>1 DEF MemInv, ImagesInv
  <2>3. b \notin freed
    <3>1. CASE p \in Placed
      <4>1. PICK a \in held : ImageIn(p, a) /\ freed = {a}
        BY <1>3, <3>1
      <4>2. a = b => tasks[p].app_base = tasks[q].app_base
        BY <2>2, <4>1 DEF ImageIn
      <4> QED BY <2>1, <3>1, <4>1, <4>2 DEF MemInv, ImagesInv
    <3>2. CASE p \notin Placed
      BY <1>3, <3>2
    <3> QED BY <3>1, <3>2
  <2>4. b \in held' /\ SameBlock(b) /\ SameProgram(q)
    BY <1>2, <1>4, <1>6, <1>17, <2>1, <2>3 DEF SameProgram
  <2> QED BY <2>1, <2>2, <2>4, BlockKept
<1>19. \A q \in Placed' : q \in Placed /\ tasks'[q].app_base = tasks[q].app_base
  BY <1>4, <1>6, <1>8
<1>20. ImagesInv'
  <2>1. \A q \in Live' : q \in Placed' \/ tasks'[q].app_base = PageSize
    BY <1>7, <1>8, <1>9 DEF MemInv, ImagesInv
  <2>2. ram'[PageSize - 1] = ram[PageSize - 1]
    <3>1. \A b \in freed : PageSize - 1 \notin Extent(b)
      BY <1>3, HeldFact, HeapIsHigh, Sizes
    <3> QED BY <1>15, <3>1, HeldFact
  <2> QED BY <1>18, <1>19, <2>1, <2>2 DEF MemInv, ImagesInv
<1>21. LibcInv'
  <2>1. CASE shared_libc.phys = 0
    BY <1>2, <2>1 DEF MemInv, LibcInv
  <2>2. CASE shared_libc.phys # 0
    <3>1. PICK b \in held : LibcIn(b) /\ shared_libc.size = LibcSize
      BY <2>2 DEF MemInv, LibcInv
    <3>2. b \in held'
      <4>1. CASE p \in Placed
        BY <1>2, <1>3, <3>1, <4>1 DEF ImageIn, LibcIn
      <4>2. CASE p \notin Placed
        BY <1>2, <1>3, <4>2
      <4> QED BY <4>1, <4>2
    <3>3. \A k \in 0..LibcSize - 1 : ram'[shared_libc'.phys + k] = Libc[k]
      BY <1>2, <1>17, <3>1, <3>2, BlockKept
    <3>4. LibcIn(b)'
      BY <1>2, <1>19, <3>1, <3>3 DEF LibcIn, Libc
    <3> QED BY <1>2, <3>1, <3>2, <3>4 DEF MemInv, LibcInv
  <2> QED BY <2>1, <2>2
<1>22. BlocksInv'
  <2>1. \A b \in held' : b \in held
    BY <1>17
  <2>2. \A b \in held' : \A k \in 1..HeaderWords : ram'[b.at - k] = <<"header", Room>>
    BY <1>17, BlockKept
  <2>3. ASSUME NEW b \in held'
        PROVE  \/ \E q \in Placed' : tasks'[q].app_base = AppMemory(b.at)
               \/ shared_libc'.phys # 0 /\ shared_libc'.phys = PagesUp(b.at) * PageSize
    <3>1. CASE \E q \in Placed : tasks[q].app_base = AppMemory(b.at)
      <4>1. PICK q \in Placed : tasks[q].app_base = AppMemory(b.at)
        BY <3>1
      <4>2. q # p
        <5>1. SUFFICES ASSUME q = p PROVE FALSE
          OBVIOUS
        <5>2. PICK a \in held : ImageIn(p, a) /\ freed = {a}
          BY <1>3, <5>1
        <5>3. AppMemory(a.at) = AppMemory(b.at)
          BY <4>1, <5>1, <5>2 DEF ImageIn
        <5>4. a = b
          BY <2>1, <5>2, <5>3, HeldFact
        <5> QED BY <1>2, <5>2, <5>4
      <4>3. q \in Placed'
        BY <1>8, <4>2
      <4> QED BY <1>19, <4>1, <4>3
    <3>2. CASE shared_libc.phys # 0 /\ shared_libc.phys = PagesUp(b.at) * PageSize
      BY <1>2, <3>2
    <3> QED BY <2>1, <3>1, <3>2 DEF MemInv, BlocksInv
  <2>4. /\ held' \subseteq [at : Nat, size : {Room}]
        /\ \A b \in held' : Extent(b) \subseteq RegionWords(KernelHeapRegion)
        /\ \A a, b \in held' : a # b => Extent(a) \cap Extent(b) = {}
    BY <2>1 DEF MemInv, BlocksInv
  <2> QED BY <2>2, <2>3, <2>4 DEF BlocksInv
<1>23. MmuType(mmu') /\ TablesOwned(mmu')
  BY <1>2 DEF MemInv
<1>24. Kept
  BY <1>2 DEF Kept, Frame
<1> QED BY <1>10, <1>11, <1>13, <1>14, <1>16, <1>20, <1>21, <1>22, <1>23, <1>24 DEF MemInv

-----------------------------------------------------------------------------
(* What the start of a program does to the kernel heap.                    *)

NewBlock(raw) == [at |-> raw, size |-> Room]

\* A result of malloc is a place that was free, or 0.
LEMMA MallocFact ==
  ASSUME NEW blocks, NEW raw \in MallocResults(blocks), raw # 0
  PROVE  /\ raw \in Nat /\ NewBlock(raw) \in AnyBlock
         /\ Extent(NewBlock(raw)) \subseteq RegionWords(KernelHeapRegion)
         /\ \A b \in blocks : Extent(NewBlock(raw)) \cap Extent(b) = {}
<1>1. raw \in Places(blocks)
  BY DEF MallocResults
<1>2. raw \in HeapSpots /\ raw \in Nat
  BY <1>1, SizesAssumption DEF Places
<1>3. NewBlock(raw) \in AnyBlock
  BY <1>2 DEF NewBlock, AnyBlock
<1> QED BY <1>1, <1>2, <1>3 DEF Places, NewBlock

LEMMA MallocResult ==
  ASSUME NEW blocks, NEW raw \in MallocResults(blocks)
  PROVE  raw \in Nat
<1>1. raw = 0 \/ raw # 0
  OBVIOUS
<1> QED BY <1>1, MallocFact

LEMMA Between ==
  ASSUME NEW at \in Int, NEW n \in Nat, NEW w \in Int
  PROVE  w - at \in 0..n - 1 <=> w \in at..at + n - 1
  OBVIOUS

\* The words of a new block's header.
LEMMA HeaderFact ==
  ASSUME NEW m, NEW raw \in Nat
  PROVE  /\ DOMAIN WriteHeader(m, raw) = DOMAIN m
         /\ \A w \in DOMAIN m : w \in Int =>
              WriteHeader(m, raw)[w] =
                IF raw # 0 /\ w \in raw - HeaderWords..raw - 1
                THEN <<"header", Room>> ELSE m[w]
<1>1. CASE raw = 0
  BY <1>1 DEF WriteHeader
<1>2. CASE raw # 0
  <2>1. PICK n \in Nat : n = HeaderWords
    BY Sizes
  <2>2. PICK at \in Int : at = raw - n /\ at + n - 1 = raw - 1
    BY <2>1
  <2>0. PICK data : data = BlockHeader
    OBVIOUS
  <2>3. DOMAIN data = 0..n - 1 /\ \A k \in 0..n - 1 : data[k] = <<"header", Room>>
    BY <2>0, <2>1 DEF BlockHeader
  <2>4. WriteHeader(m, raw) = Write(m, at, data)
    BY <1>2, <2>0, <2>1, <2>2 DEF WriteHeader
  <2>5. /\ DOMAIN Write(m, at, data) = DOMAIN m
        /\ \A w \in DOMAIN m : w \in Int =>
             Write(m, at, data)[w] = IF w \in at..at + n - 1 THEN data[w - at] ELSE m[w]
    BY <2>3, Between DEF Write
  <2>6. \A w \in at..at + n - 1 : w - at \in 0..n - 1
    OBVIOUS
  <2> QED BY <1>2, <2>1, <2>2, <2>3, <2>4, <2>5, <2>6
<1> QED BY <1>1, <1>2

\* load_elf_segments and the word in front of the image.
LEMMA LoadImageFact ==
  ASSUME NEW m, NEW raw \in Nat, NEW f \in Files, NEW app \in Nat, app = AppMemory(raw),
         NEW dom, dom = DOMAIN m, \A w \in dom : w \in Nat,
         NEW r, r = LoadImage(m, raw, f)
  PROVE  /\ DOMAIN r = dom
         /\ \A w \in dom :
              r[w] =
                IF w \in app..app + ImageSize - 1 THEN Image(f)[w - app]
                ELSE IF w = app - 1 THEN <<"raw", raw>>
                ELSE IF raw # 0 /\ w \in raw - HeaderWords..raw - 1 THEN <<"header", Room>>
                ELSE m[w]
<1>1. PICK n \in Nat : n = ImageSize
  BY Sizes
<1>2. PICK h : h = WriteHeader(m, raw)
  OBVIOUS
<1>3. /\ DOMAIN h = DOMAIN m
      /\ \A w \in DOMAIN m : h[w] = IF raw # 0 /\ w \in raw - HeaderWords..raw - 1
                                    THEN <<"header", Room>> ELSE m[w]
  BY <1>2, HeaderFact
<1>0. PICK one \in Nat : one = 1
  OBVIOUS
<1>4. PICK word : word = [k \in {0} |-> <<"raw", raw>>]
  OBVIOUS
<1>12. DOMAIN word = 0..one - 1 /\ word[0] = <<"raw", raw>>
  <2>1. 0..one - 1 = {0}
    BY <1>0
  <2> QED BY <1>4, <2>1
<1>5. PICK at \in Int : at = app - 1
  OBVIOUS
<1>6. PICK s : s = Write(h, at, word)
  OBVIOUS
<1>7. /\ DOMAIN s = DOMAIN h
      /\ \A w \in DOMAIN h : w \in Int =>
           s[w] = IF w \in at..at + one - 1 THEN word[w - at] ELSE h[w]
  BY <1>6, <1>12, Between DEF Write
<1>8. \A w \in DOMAIN m : s[w] = IF w = app - 1 THEN <<"raw", raw>> ELSE h[w]
  <2>1. \A w \in Int : w \in at..at + one - 1 <=> w = app - 1
    BY <1>0, <1>5
  <2>2. \A w \in Int : w = app - 1 => w - at = 0
    BY <1>5
  <2>3. \A w \in DOMAIN m : w \in DOMAIN h /\ w \in Int
    BY <1>3
  <2>4. \A w \in DOMAIN m : w # app - 1 => s[w] = h[w]
    BY ONLY <1>7, <2>1, <2>3
  <2>5. \A w \in DOMAIN m : w = app - 1 => s[w] = <<"raw", raw>>
    BY ONLY <1>7, <1>12, <2>1, <2>2, <2>3
  <2> QED BY ONLY <2>4, <2>5
<1>13. PICK data : data = Image(f)
  OBVIOUS
<1>9. DOMAIN data = 0..n - 1
  BY <1>1, <1>13 DEF Image
<1>10. LoadImage(m, raw, f) = Write(s, app, data)
  BY <1>2, <1>4, <1>5, <1>6, <1>13 DEF LoadImage
<1>11. /\ DOMAIN Write(s, app, data) = DOMAIN s
       /\ \A w \in DOMAIN s : w \in Int =>
            Write(s, app, data)[w] = IF w \in app..app + n - 1 THEN data[w - app] ELSE s[w]
  BY <1>9, Between DEF Write
<1> QED BY <1>1, <1>3, <1>7, <1>8, <1>10, <1>11, <1>13

\* The library is read behind the block's beginning.
LEMMA LoadLibcFact ==
  ASSUME NEW m, NEW f, NEW lib \in Nat, \A w \in DOMAIN m : w \in Nat,
         NEW up \in Nat, up = PagesUp(lib) * PageSize
  PROVE  /\ DOMAIN LoadLibc(m, f, lib) = DOMAIN m
         /\ ~LibcMissing(f) => LoadLibc(m, f, lib) = m
         /\ LibcMissing(f) => \A w \in DOMAIN m :
              LoadLibc(m, f, lib)[w] =
                IF w \in up..up + LibcSize - 1 THEN Libc[w - up]
                ELSE IF lib # 0 /\ w \in lib - HeaderWords..lib - 1 THEN <<"header", Room>>
                ELSE m[w]
<1>1. CASE ~LibcMissing(f)
  BY <1>1 DEF LoadLibc
<1>2. CASE LibcMissing(f)
  <2>1. PICK n \in Nat : n = LibcSize
    BY Sizes
  <2>2. PICK h : h = WriteHeader(m, lib)
    OBVIOUS
  <2>3. /\ DOMAIN h = DOMAIN m
        /\ \A w \in DOMAIN m : h[w] = IF lib # 0 /\ w \in lib - HeaderWords..lib - 1
                                      THEN <<"header", Room>> ELSE m[w]
    BY <2>2, HeaderFact
  <2>0. PICK data : data = Libc
    OBVIOUS
  <2>4. LoadLibc(m, f, lib) = Write(h, up, data)
    BY <1>2, <2>0, <2>2 DEF LoadLibc
  <2>5. DOMAIN data = 0..n - 1
    BY <2>0, <2>1 DEF Libc
  <2>6. /\ DOMAIN Write(h, up, data) = DOMAIN h
        /\ \A w \in DOMAIN h : w \in Int =>
             Write(h, up, data)[w] = IF w \in up..up + n - 1 THEN data[w - up] ELSE h[w]
    BY <2>5, Between DEF Write
  <2> QED BY <1>2, <2>0, <2>1, <2>3, <2>4, <2>6
<1> QED BY <1>1, <1>2

\* The first pages are known when malloc fails.
LEMMA NoBlockFact == AppMemory(0) = PageSize /\ PagesUp(0) * PageSize = 0
<1>1. PageSize \in Nat \ {0}
  BY Sizes
<1>2. 1 * PageSize = PageSize /\ 0 * PageSize = 0
  BY <1>1
<1>3. Page(PageSize) = 1
  BY <1>2, BoundaryFact
<1>4. PagesUp(0) = 0
  BY <1>2, BoundaryFact
<1> QED BY <1>1, <1>2, <1>3, <1>4 DEF AppMemory, Page

\* Where the start of a program writes, and what.
ExecResult(f, raw, lib) ==
  /\ \A b \in held : b \in held' /\ SameBlock(b)
  /\ \A b \in held' : \/ b \in held
                      \/ raw # 0 /\ b = NewBlock(raw)
                      \/ LibcMissing(f) /\ lib # 0 /\ b = NewBlock(lib)
  /\ held' \subseteq [at : Nat, size : {Room}]
  /\ \A b \in held' : Extent(b) \subseteq RegionWords(KernelHeapRegion)
  /\ \A a, b \in held' : a # b => Extent(a) \cap Extent(b) = {}
  /\ \A b \in held' : \A k \in 1..HeaderWords : ram'[b.at - k] = <<"header", Room>>
  /\ raw # 0 =>
       /\ NewBlock(raw) \in held'
       /\ ram'[AppMemory(raw) - 1] = <<"raw", raw>>
       /\ \A k \in 0..ImageSize - 1 : ram'[AppMemory(raw) + k] = Image(f)[k]
       /\ \A b \in held : AppMemory(b.at) # AppMemory(raw)
       /\ lib # 0 => AppMemory(lib) # AppMemory(raw)
  /\ LibcMissing(f) /\ lib # 0 =>
       /\ NewBlock(lib) \in held'
       /\ \A k \in 0..LibcSize - 1 : ram'[PagesUp(lib) * PageSize + k] = Libc[k]
       /\ \A b \in held : AppMemory(b.at) # AppMemory(lib)
  /\ ram'[PageSize - 1][2] \in 0..ImageSize
  /\ RamInv'

LEMMA BlocksApart ==
  ASSUME NEW a \in AnyBlock, NEW b \in AnyBlock, Extent(a) \cap Extent(b) = {}
  PROVE  AppMemory(a.at) # AppMemory(b.at)
<1>1. 0 \in 0..ImageSize - 1
  BY Sizes
<1>2. /\ AppMemory(a.at) \in Nat /\ AppMemory(a.at) + 0 \in Extent(a)
      /\ AppMemory(b.at) \in Nat /\ AppMemory(b.at) + 0 \in Extent(b)
  BY <1>1, BlockWords
<1> QED BY <1>2

LEMMA ExecHeap ==
  ASSUME MemInv, NEW f \in Files, NEW raw \in MallocResults(held),
         NEW lib \in IF LibcMissing(f) THEN MallocResults(Taken(held, raw)) ELSE {0},
         held' = Taken(Taken(held, raw), lib),
         ram' = LoadLibc(LoadImage(ram, raw, f), f, lib)
  PROVE  ExecResult(f, raw, lib)
<1>1. PICK dom : dom = DOMAIN ram
  OBVIOUS
<1>2. dom = (0..PageSize + ImageSize - 1) \cup RegionWords(KernelHeapRegion)
  BY <1>1 DEF MemInv, RamInv
<1>3. \A w \in dom : w \in Nat
  BY <1>2, HeapIsHigh, Sizes
<1>4. raw \in Nat /\ lib \in Nat
  BY MallocResult
<1>5. PICK app \in Nat : app = AppMemory(raw) /\ (raw = 0 => app = PageSize)
  BY <1>4, AppMemoryFact, NoBlockFact
<1>6. PICK up \in Nat : up = PagesUp(lib) * PageSize /\ (lib = 0 => up = 0)
  BY <1>4, PagesUpFact, NoBlockFact
<1>7. lib # 0 => LibcMissing(f) /\ lib \in MallocResults(Taken(held, raw))
  BY DEF LibcMissing
<1>8. ASSUME raw # 0
      PROVE  /\ NewBlock(raw) \in AnyBlock /\ NewBlock(raw).at = raw
             /\ NewBlock(raw) \in Taken(held, raw)
             /\ Extent(NewBlock(raw)) \subseteq RegionWords(KernelHeapRegion)
             /\ \A b \in held : Extent(NewBlock(raw)) \cap Extent(b) = {}
             /\ \A w \in app - 1..app + ImageSize - 1 : w \in Extent(NewBlock(raw))
             /\ \A w \in raw - HeaderWords..raw - 1 : w \in Extent(NewBlock(raw))
  <2>1. /\ NewBlock(raw) \in AnyBlock
        /\ Extent(NewBlock(raw)) \subseteq RegionWords(KernelHeapRegion)
        /\ \A b \in held : Extent(NewBlock(raw)) \cap Extent(b) = {}
    BY <1>8, MallocFact
  <2>2. PICK b \in AnyBlock : b = NewBlock(raw) /\ b.at = raw
    BY <2>1 DEF NewBlock
  <2>3. PICK n \in Nat : n = ImageSize
    BY Sizes
  <2>4. app - 1 \in Extent(b) /\ \A k \in 0..n - 1 : app + k \in Extent(b)
    BY <1>5, <2>2, <2>3, BlockWords
  <2>5. \A w \in app - 1..app + n - 1 : w \in Extent(b)
    <3>1. ASSUME NEW w \in app - 1..app + n - 1, w # app - 1 PROVE w \in Extent(b)
      <4>1. w - app \in 0..n - 1 /\ app + (w - app) = w
        BY <3>1
      <4> QED BY <2>4, <4>1
    <3> QED BY <2>4, <3>1
  <2>6. PICK h \in Nat : h = HeaderWords
    BY Sizes
  <2>7. \A k \in 1..h : raw - k \in Extent(b)
    BY <2>2, <2>6, BlockWords
  <2>8. \A w \in raw - h..raw - 1 : w \in Extent(b)
    <3> SUFFICES ASSUME NEW w \in raw - h..raw - 1 PROVE w \in Extent(b)
      OBVIOUS
    <3>1. raw - w \in 1..h /\ raw - (raw - w) = w
      BY <1>4
    <3> QED BY <2>7, <3>1
  <2>9. NewBlock(raw) \in Taken(held, raw)
    BY <1>8 DEF Taken, NewBlock
  <2> QED BY <2>1, <2>2, <2>3, <2>5, <2>6, <2>8, <2>9
<1>9. ASSUME lib # 0
      PROVE  /\ NewBlock(lib) \in AnyBlock /\ NewBlock(lib).at = lib
             /\ Extent(NewBlock(lib)) \subseteq RegionWords(KernelHeapRegion)
             /\ \A b \in Taken(held, raw) : Extent(NewBlock(lib)) \cap Extent(b) = {}
             /\ \A k \in 0..LibcSize - 1 : up + k \in Extent(NewBlock(lib))
             /\ \A w \in up..up + LibcSize - 1 : w \in Extent(NewBlock(lib))
             /\ \A w \in lib - HeaderWords..lib - 1 : w \in Extent(NewBlock(lib))
  <2>1. /\ NewBlock(lib) \in AnyBlock
        /\ Extent(NewBlock(lib)) \subseteq RegionWords(KernelHeapRegion)
        /\ \A b \in Taken(held, raw) : Extent(NewBlock(lib)) \cap Extent(b) = {}
    BY <1>7, <1>9, MallocFact
  <2>2. PICK b \in AnyBlock : b = NewBlock(lib) /\ b.at = lib
    BY <2>1 DEF NewBlock
  <2>3. PICK n \in Nat : n = LibcSize /\ \A k \in 0..n - 1 : k \in 0..ImageSize - 1
    BY Sizes
  <2>4. \A k \in 0..n - 1 : up + k \in Extent(b)
    BY <1>6, <2>2, <2>3, BlockWords
  <2>5. \A w \in up..up + n - 1 : w \in Extent(b)
    <3> SUFFICES ASSUME NEW w \in up..up + n - 1 PROVE w \in Extent(b)
      OBVIOUS
    <3>1. w - up \in 0..n - 1 /\ up + (w - up) = w
      OBVIOUS
    <3> QED BY <2>4, <3>1
  <2>6. PICK h \in Nat : h = HeaderWords
    BY Sizes
  <2>7. \A k \in 1..h : lib - k \in Extent(b)
    BY <2>2, <2>6, BlockWords
  <2>8. \A w \in lib - h..lib - 1 : w \in Extent(b)
    <3> SUFFICES ASSUME NEW w \in lib - h..lib - 1 PROVE w \in Extent(b)
      OBVIOUS
    <3>1. lib - w \in 1..h /\ lib - (lib - w) = w
      BY <1>4
    <3> QED BY <2>7, <3>1
  <2> QED BY <2>1, <2>2, <2>3, <2>4, <2>5, <2>6, <2>8
<1>10. PICK r1 : r1 = LoadImage(ram, raw, f)
  OBVIOUS
<1>11. /\ DOMAIN r1 = dom
       /\ \A w \in dom :
            r1[w] = IF w \in app..app + ImageSize - 1 THEN Image(f)[w - app]
                    ELSE IF w = app - 1 THEN <<"raw", raw>>
                    ELSE IF raw # 0 /\ w \in raw - HeaderWords..raw - 1 THEN <<"header", Room>>
                    ELSE ram[w]
  <2>1. PICK m : m = ram
    OBVIOUS
  <2>2. /\ raw \in Nat /\ f \in Files /\ app \in Nat /\ app = AppMemory(raw)
        /\ dom = DOMAIN m /\ \A w \in dom : w \in Nat
        /\ r1 = LoadImage(m, raw, f)
    BY <1>1, <1>3, <1>4, <1>5, <1>10, <2>1
  <2> QED BY ONLY <2>1, <2>2, LoadImageFact
<1>12. /\ DOMAIN ram' = dom
       /\ ~LibcMissing(f) => ram' = r1
       /\ LibcMissing(f) => \A w \in dom :
            ram'[w] = IF w \in up..up + LibcSize - 1 THEN Libc[w - up]
                      ELSE IF lib # 0 /\ w \in lib - HeaderWords..lib - 1 THEN <<"header", Room>>
                      ELSE r1[w]
  BY <1>3, <1>4, <1>6, <1>10, <1>11, LoadLibcFact
\* Outside low memory and the new blocks nothing changes.
<1>13. \A w \in RegionWords(KernelHeapRegion) : w \in dom /\ w \in Nat /\ w >= PageSize + ImageSize
  BY <1>2, HeapIsHigh
<1>14. ASSUME NEW w \in RegionWords(KernelHeapRegion), raw # 0 => w \notin Extent(NewBlock(raw))
       PROVE  r1[w] = ram[w]
  <2>1. w \notin app - 1..app + ImageSize - 1
    <3>1. CASE raw = 0
      BY <1>5, <1>13, <3>1, Sizes
    <3>2. CASE raw # 0
      BY <1>8, <1>14, <3>2
    <3> QED BY <3>1, <3>2
  <2>2. w \notin app..app + ImageSize - 1 /\ w # app - 1
    BY <1>5, <2>1, Sizes
  <2>3. raw # 0 => w \notin raw - HeaderWords..raw - 1
    BY <1>8, <1>14
  <2> QED BY <1>11, <1>13, <2>2, <2>3
<1>15. ASSUME NEW w \in RegionWords(KernelHeapRegion), lib # 0 => w \notin Extent(NewBlock(lib))
       PROVE  ram'[w] = r1[w]
  <2>1. w \notin up..up + LibcSize - 1
    <3>1. CASE lib = 0
      BY <1>6, <1>13, <3>1, Sizes
    <3>2. CASE lib # 0
      BY <1>9, <1>15, <3>2
    <3> QED BY <3>1, <3>2
  <2>2. lib # 0 => w \notin lib - HeaderWords..lib - 1
    BY <1>9, <1>15
  <2> QED BY <1>12, <1>13, <2>1, <2>2
<1>16. /\ held \subseteq AnyBlock
       /\ \A b \in held : \A w \in Extent(b) : w \in RegionWords(KernelHeapRegion)
  BY HeldFact
<1>17. \A b \in held : b \in Taken(held, raw) /\ b \in held'
  BY DEF Taken
<1>18. \A b \in held : SameBlock(b)
  <2> SUFFICES ASSUME NEW b \in held, NEW w \in Extent(b) PROVE ram'[w] = ram[w]
    BY DEF SameBlock
  <2>1. raw # 0 => w \notin Extent(NewBlock(raw))
    BY <1>8
  <2>2. lib # 0 => w \notin Extent(NewBlock(lib))
    BY <1>9, <1>17
  <2> QED BY <1>14, <1>15, <1>16, <2>1, <2>2
<1>19. \A b \in held' : \/ b \in held
                        \/ raw # 0 /\ b = NewBlock(raw)
                        \/ LibcMissing(f) /\ lib # 0 /\ b = NewBlock(lib)
  BY <1>7 DEF Taken, NewBlock
<1>20. held' \subseteq AnyBlock
       /\ \A b \in held' : Extent(b) \subseteq RegionWords(KernelHeapRegion)
  BY <1>8, <1>9, <1>16, <1>19
<1>21. \A a, b \in held' : a # b => Extent(a) \cap Extent(b) = {}
  <2>1. \A a, b \in held : a # b => Extent(a) \cap Extent(b) = {}
    BY DEF MemInv, BlocksInv
  <2> QED BY <1>8, <1>9, <1>17, <1>19, <2>1
<1>22. /\ raw # 0 => NewBlock(raw) \in held'
       /\ lib # 0 => NewBlock(lib) \in held'
  BY DEF Taken, NewBlock
<1>23. ASSUME raw # 0, NEW w \in Extent(NewBlock(raw))
       PROVE  ram'[w] = r1[w] /\ w \in dom /\ w \in Nat
  <2>1. lib # 0 => w \notin Extent(NewBlock(lib))
    BY <1>8, <1>9, <1>23
  <2>2. w \in RegionWords(KernelHeapRegion)
    BY <1>8, <1>23
  <2> QED BY <1>13, <1>15, <2>1, <2>2
<1>24. ASSUME raw # 0, NEW k \in 1..HeaderWords
       PROVE  ram'[raw - k] = <<"header", Room>>
  <2>1. raw - k \in raw - HeaderWords..raw - 1 /\ ~(raw - k \in app - 1..app + ImageSize - 1)
    BY <1>4, <1>5, AppMemoryFact, Sizes
  <2>2. raw - k \notin app..app + ImageSize - 1 /\ raw - k # app - 1
    BY <1>5, <2>1, Sizes
  <2>3. raw - k \in Extent(NewBlock(raw))
    BY <1>8, <1>24, <2>1
  <2> QED BY <1>11, <1>23, <1>24, <2>1, <2>2, <2>3
<1>25. ASSUME raw # 0
       PROVE  /\ ram'[app - 1] = <<"raw", raw>>
              /\ \A k \in 0..ImageSize - 1 : ram'[app + k] = Image(f)[k]
  <2>1. PICK n \in Nat \ {0} : n = ImageSize
    BY Sizes
  <2>2. app - 1 \in app - 1..app + n - 1 /\ app - 1 \notin app..app + n - 1
    OBVIOUS
  <2>3. ram'[app - 1] = <<"raw", raw>>
    BY <1>8, <1>11, <1>23, <1>25, <2>1, <2>2
  <2>4. ASSUME NEW k \in 0..n - 1 PROVE ram'[app + k] = Image(f)[k]
    <3>1. app + k \in app - 1..app + n - 1 /\ app + k \in app..app + n - 1 /\ app + k - app = k
      OBVIOUS
    <3> QED BY <1>8, <1>11, <1>23, <1>25, <2>1, <3>1
  <2> QED BY <2>1, <2>3, <2>4
<1>26. ASSUME lib # 0, NEW w \in Extent(NewBlock(lib))
       PROVE  w \in dom /\ w \in Nat
  BY <1>9, <1>13, <1>26
<1>27. ASSUME lib # 0, NEW k \in 1..HeaderWords
       PROVE  ram'[lib - k] = <<"header", Room>>
  <2>1. lib <= up
    BY <1>4, <1>6, PagesUpFact
  <2>2. lib - k \in lib - HeaderWords..lib - 1 /\ lib - k \notin up..up + LibcSize - 1
    BY <1>4, <2>1, Sizes
  <2>3. lib - k \in dom
    BY <1>9, <1>26, <1>27, <2>2
  <2> QED BY <1>7, <1>12, <1>27, <2>2, <2>3
<1>28. ASSUME lib # 0, NEW k \in 0..LibcSize - 1
       PROVE  ram'[up + k] = Libc[k]
  <2>1. PICK n \in Nat : n = LibcSize
    BY Sizes
  <2>2. up + k \in up..up + n - 1 /\ up + k - up = k
    BY <2>1
  <2>3. up + k \in dom
    BY <1>9, <1>26, <1>28
  <2> QED BY <1>7, <1>12, <1>28, <2>1, <2>2, <2>3
<1>29. \A b \in held' : \A k \in 1..HeaderWords : ram'[b.at - k] = <<"header", Room>>
  <2>1. \A b \in held : \A k \in 1..HeaderWords : ram'[b.at - k] = <<"header", Room>>
    BY <1>18, BlockKept
  <2>2. raw # 0 => NewBlock(raw).at = raw
    BY <1>8
  <2>3. lib # 0 => NewBlock(lib).at = lib
    BY <1>9
  <2> QED BY <1>19, <1>24, <1>27, <2>1, <2>2, <2>3
<1>30. ram'[PageSize - 1][2] \in 0..ImageSize
  <2>1. PICK w \in dom : w = PageSize - 1 /\ w \in Nat /\ w < PageSize
    BY <1>2, Sizes
  <2>2. w \notin RegionWords(KernelHeapRegion)
    BY <1>13, <2>1, Sizes
  <2>3. r1[w][2] \in 0..ImageSize
    <3>1. CASE raw = 0
      <4>1. w \notin app..app + ImageSize - 1 /\ w = app - 1
        BY <1>5, <2>1, <3>1, Sizes
      <4>2. r1[w] = <<"raw", raw>>
        BY <1>11, <4>1
      <4> QED BY <3>1, <4>2, Sizes
    <3>2. CASE raw # 0
      <4>1. w \notin app - 1..app + ImageSize - 1 /\ w \notin raw - HeaderWords..raw - 1
        BY <1>8, <2>2, <3>2
      <4>2. w \notin app..app + ImageSize - 1 /\ w # app - 1
        BY <1>5, <4>1, Sizes
      <4>3. r1[w] = ram[w]
        BY <1>11, <4>1, <4>2
      <4> QED BY <2>1, <4>3 DEF MemInv, ImagesInv
    <3> QED BY <3>1, <3>2
  <2>4. CASE ram'[w] = r1[w]
    BY <2>1, <2>3, <2>4
  <2>5. CASE LibcMissing(f) /\ w \in up..up + LibcSize - 1
    <3>1. lib = 0
      BY <1>9, <2>2, <2>5
    <3>2. ram'[w] = Libc[w] /\ w \in 0..LibcSize - 1
      <4>1. up = 0 /\ w - up = w
        BY <1>6, <2>1, <3>1
      <4> QED BY <1>12, <2>5, <4>1, Sizes
    <3>3. Libc[w] = <<"libc", w>>
      BY <3>2 DEF Libc
    <3> QED BY <2>1, <3>2, <3>3, Sizes
  <2>6. CASE LibcMissing(f) /\ lib # 0 /\ w \in lib - HeaderWords..lib - 1
    BY <1>9, <2>2, <2>6
  <2> QED BY <1>12, <2>1, <2>4, <2>5, <2>6
<1>31. RamInv'
  <2>1. ram' = [w \in dom |-> ram'[w]]
    <3>1. ram' = [w \in DOMAIN ram' |-> ram'[w]]
      <4>1. CASE ~LibcMissing(f)
        BY <1>12, <1>10, <4>1 DEF LoadImage, Write
      <4>2. CASE LibcMissing(f)
        BY <4>2 DEF LoadLibc, Write
      <4> QED BY <4>1, <4>2
    <3> QED BY <1>12, <3>1
  <2> QED BY <1>2, <2>1 DEF RamInv
<1>32. /\ raw # 0 => /\ \A b \in held : AppMemory(b.at) # AppMemory(raw)
                     /\ lib # 0 => AppMemory(lib) # AppMemory(raw)
       /\ lib # 0 => \A b \in held : AppMemory(b.at) # AppMemory(lib)
  BY <1>8, <1>9, <1>16, <1>17, BlocksApart
<1> QED BY <1>5, <1>6, <1>17, <1>18, <1>19, <1>20, <1>21, <1>22, <1>25, <1>28, <1>29, <1>30,
           <1>31, <1>32 DEF ExecResult, AnyBlock

-----------------------------------------------------------------------------
(* What the start of a program does to the directories.                    *)

\* A directory copied has the types of the one it is copied from.
LEMMA ClonedType ==
  ASSUME MmuType(mmu), next_task_id \in 0..MaxDirs
  PROVE  NewDir \in Dirs /\ MmuType(Cloned(mmu))
<1>1. PICK n \in Dirs : n = NewDir /\ KernelDir \in Dirs
  BY Sizes DEF NewDir, Dirs, KernelDir
<1>2. CASE n = KernelDir
  BY <1>1, <1>2 DEF Cloned
<1>3. CASE n # KernelDir
  <2>1. PICK k : k = Cloned(mmu)
    OBVIOUS
  <2>2. k = [mmu EXCEPT !.directory[n] = mmu.directory[KernelDir]]
    BY <1>1, <1>3, <2>1 DEF Cloned
  <2>3. /\ mmu.directory \in [Dirs -> [Regions -> DOMAIN mmu.table \cup {NoTable}]]
        /\ mmu = [directory |-> mmu.directory, table |-> mmu.table,
                  dma_memory_pointer |-> mmu.dma_memory_pointer]
    BY DEF MmuType
  <2>4. /\ k.directory = [mmu.directory EXCEPT ![n] = mmu.directory[KernelDir]]
        /\ k.table = mmu.table /\ k.dma_memory_pointer = mmu.dma_memory_pointer
        /\ k = [directory |-> k.directory, table |-> k.table,
                dma_memory_pointer |-> k.dma_memory_pointer]
    BY <2>2, <2>3
  <2>5. k.directory \in [Dirs -> [Regions -> DOMAIN mmu.table \cup {NoTable}]]
    BY <1>1, <2>3, <2>4
  <2> QED BY <1>1, <2>1, <2>4, <2>5 DEF MmuType
<1> QED BY <1>2, <1>3

\* A directory that is handed out maps nothing yet.
LEMMA ClonedFact ==
  ASSUME MemInv
  PROVE  /\ NewDir \in Dirs
         /\ MmuType(Cloned(mmu)) /\ TablesOwned(Cloned(mmu))
         /\ \A e \in Dirs : e # NewDir => Cloned(mmu).directory[e] = mmu.directory[e]
         /\ \A e \in Dirs : e # NewDir =>
              \A s \in UserRegions : \A v \in RegionOf(s) :
                Translate(Cloned(mmu), e, v) = Translate(mmu, e, v)
         /\ NewDir # KernelDir =>
              \A s \in UserRegions : \A v \in RegionOf(s) :
                Translate(Cloned(mmu), NewDir, v) = NoFrame
<1>0. MmuType(mmu) /\ TablesOwned(mmu) /\ DirsInv
  BY DEF MemInv
<1>1. PICK n \in Dirs : n = NewDir /\ KernelDir \in Dirs
  BY <1>0, Sizes DEF DirsInv, NewDir, Dirs, KernelDir
<1>2. CASE n = KernelDir
  BY <1>0, <1>1, <1>2 DEF Cloned
<1>3. CASE n # KernelDir
  <2>1. \A r \in UserRegions : mmu.directory[KernelDir][r] = NoTable
    BY <1>0, <1>1, <1>3, Sizes DEF DirsInv, NewDir
  <2>2. PICK k : k = Cloned(mmu)
    OBVIOUS
  <2>3. k = [mmu EXCEPT !.directory[n] = mmu.directory[KernelDir]]
    BY <1>1, <1>3, <2>2 DEF Cloned
  <2>4. /\ mmu.directory \in [Dirs -> [Regions -> DOMAIN mmu.table \cup {NoTable}]]
        /\ mmu = [directory |-> mmu.directory, table |-> mmu.table,
                  dma_memory_pointer |-> mmu.dma_memory_pointer]
    BY <1>0 DEF MmuType
  <2>5. /\ k.directory = [mmu.directory EXCEPT ![n] = mmu.directory[KernelDir]]
        /\ k.table = mmu.table /\ k.dma_memory_pointer = mmu.dma_memory_pointer
        /\ k = [directory |-> k.directory, table |-> k.table,
                dma_memory_pointer |-> k.dma_memory_pointer]
    BY <2>3, <2>4
  <2>6. \A e \in Dirs : k.directory[e] = IF e = n THEN mmu.directory[KernelDir]
                                         ELSE mmu.directory[e]
    BY <2>4, <2>5
  <2>8. MmuType(k)
    BY <1>0, <2>2, ClonedType DEF DirsInv
  <2>9. TablesOwned(k)
    BY <1>0, <2>1, <2>6 DEF TablesOwned
  <2>10. \A e \in Dirs : e # n =>
           \A s \in UserRegions : \A v \in RegionOf(s) :
             Translate(k, e, v) = Translate(mmu, e, v)
    BY <2>5, <2>6 DEF Translate
  <2>11. ASSUME NEW s \in UserRegions, NEW v \in RegionOf(s)
         PROVE  Translate(k, n, v) = NoFrame
    <3>1. s \in Regions
      BY UserRegionsAre DEF UserRegionsFact
    <3>2. k.directory[n][s] = NoTable
      BY <1>1, <2>1, <2>6
    <3> QED BY <1>1, <2>8, <3>1, <3>2, TranslateFact
  <2> QED BY <1>1, <2>2, <2>6, <2>8, <2>9, <2>10, <2>11
<1> QED BY <1>2, <1>3

\* Where count pages mapped from a region's first page on lead.
LEMMA RegionMapped ==
  ASSUME NEW m, MmuType(m), TablesOwned(m), NEW d \in Dirs, NEW r \in UserRegions,
         NEW count \in 0..RegionPages, NEW frame \in Nat, NEW o,
         o = MapPages(m, d, FirstPage(r), count, frame)
  PROVE  /\ MmuType(o) /\ TablesOwned(o)
         /\ \A e \in Dirs : e # d => o.directory[e] = m.directory[e]
         /\ \A e \in Dirs : e # d => \A s \in UserRegions : \A v \in RegionOf(s) :
              Translate(o, e, v) = Translate(m, e, v)
         /\ \A s \in UserRegions : s # r => \A v \in RegionOf(s) :
              Translate(o, d, v) = Translate(m, d, v)
         /\ \A v \in RegionOf(r) :
              Translate(o, d, v) = IF v < FirstPage(r) + count THEN frame + (v - FirstPage(r))
                                   ELSE Translate(m, d, v)
<1>0. r \in Regions
  BY UserRegionsAre DEF UserRegionsFact
<1>1. PICK first \in Nat : first = FirstPage(r) /\ FirstPage(r + 1) = first + RegionPages
  BY <1>0, RegionFact
<1>2. count \in Nat /\ first + count <= FirstPage(r + 1) /\ RegionPages \in Nat
  BY <1>1, Sizes
<1>3. o = MapPages(m, d, first, count, frame)
  BY <1>1
<1>4. /\ MmuType(o) /\ TablesOwned(o)
      /\ SameBut(m, o, d, first..first + count - 1)
      /\ \A v \in first..first + count - 1 : Translate(o, d, v) = frame + (v - first)
      /\ \A e \in Dirs : e # d => o.directory[e] = m.directory[e]
  <2>1. PICK pages \in Nat : pages = count
    BY <1>2
  <2>2. /\ MmuType(m) /\ TablesOwned(m) /\ d \in Dirs /\ r \in UserRegions
        /\ first \in Nat /\ pages \in Nat /\ frame \in Nat
        /\ pages # 0 => first >= FirstPage(r) /\ first + pages <= FirstPage(r + 1)
        /\ o = MapPages(m, d, first, pages, frame)
    BY <1>1, <1>2, <1>3, <2>1
  <2>3. /\ MmuType(o) /\ TablesOwned(o)
        /\ SameBut(m, o, d, first..first + pages - 1)
        /\ \A v \in first..first + pages - 1 : Translate(o, d, v) = frame + (v - first)
        /\ \A e \in Dirs : e # d => o.directory[e] = m.directory[e]
    BY ONLY <2>2, MapPagesFact
  <2> QED BY ONLY <2>1, <2>3
<1>5. \A v \in first..first + count - 1 : v \in RegionOf(r)
  BY <1>1, <1>2 DEF RegionOf
<1>6. ASSUME NEW s \in UserRegions, s # r, NEW v \in RegionOf(s)
      PROVE  Translate(o, d, v) = Translate(m, d, v)
  <2>1. v \notin first..first + count - 1
    <3>1. s \in Regions
      BY UserRegionsAre DEF UserRegionsFact
    <3> QED BY <1>0, <1>5, <1>6, <3>1, RegionsApart
  <2> QED BY <1>4, <2>1 DEF SameBut
<1>7. ASSUME NEW v \in RegionOf(r)
      PROVE  Translate(o, d, v) = IF v < first + count THEN frame + (v - first)
                                  ELSE Translate(m, d, v)
  <2>1. v \in Nat /\ first <= v
    BY <1>1, <1>2, <1>7 DEF RegionOf
  <2>2. v \in first..first + count - 1 <=> v < first + count
    BY <1>2, <2>1
  <2> QED BY <1>4, <2>2 DEF SameBut
<1> QED BY <1>1, <1>4, <1>6, <1>7 DEF SameBut

\* Where the pages of a program lead once it is started.
LEMMA ExecMmu ==
  ASSUME MemInv, NEW f \in Files, NEW app \in Nat, NEW libc, libc.phys \in Nat,
         f \in NeedsLibc => libc.size = LibcSize,
         NEW m, m = MapProgram(Cloned(mmu), NewDir, f, app, libc)
  PROVE  /\ MmuType(m) /\ TablesOwned(m)
         /\ \A e \in Dirs : e # NewDir => m.directory[e] = mmu.directory[e]
         /\ \A e \in Dirs : e # NewDir => \A s \in UserRegions : \A v \in RegionOf(s) :
              Translate(m, e, v) = Translate(mmu, e, v)
         /\ NewDir # KernelDir =>
              /\ \A v \in RegionOf(HeapRegion) : Translate(m, NewDir, v) = NoFrame
              /\ \A v \in RegionOf(ImageRegion) :
                   Translate(m, NewDir, v) =
                     IF v < FirstPage(ImageRegion) + PagesUp(MemSize[f])
                     THEN Page(app) + (v - FirstPage(ImageRegion)) ELSE NoFrame
              /\ \A v \in RegionOf(LibcRegion) :
                   Translate(m, NewDir, v) =
                     IF f \in NeedsLibc /\ v < FirstPage(LibcRegion) + PagesUp(LibcSize)
                     THEN Page(libc.phys) + (v - FirstPage(LibcRegion)) ELSE NoFrame
<1>1. PICK c : c = Cloned(mmu)
  OBVIOUS
<1>2. PICK d \in Dirs : d = NewDir
  BY ClonedFact
<1>3. /\ MmuType(c) /\ TablesOwned(c)
      /\ \A e \in Dirs : e # d => c.directory[e] = mmu.directory[e]
      /\ \A e \in Dirs : e # d => \A s \in UserRegions : \A v \in RegionOf(s) :
           Translate(c, e, v) = Translate(mmu, e, v)
      /\ d # KernelDir => \A s \in UserRegions : \A v \in RegionOf(s) :
           Translate(c, d, v) = NoFrame
  BY <1>1, <1>2, ClonedFact
<1>4. /\ HeapRegion \in UserRegions /\ ImageRegion \in UserRegions /\ LibcRegion \in UserRegions
      /\ HeapRegion # ImageRegion /\ HeapRegion # LibcRegion /\ ImageRegion # LibcRegion
  BY DEF UserRegions, HeapRegion, ImageRegion, LibcRegion
<1>5. PICK count \in 0..RegionPages : count = PagesUp(MemSize[f])
  BY ImagePagesFact, Sizes
<1>6. PICK base \in Nat : base = Page(app)
  BY PageFact
<1>7. PICK image : image = MapPages(c, d, FirstPage(ImageRegion), count, base)
  OBVIOUS
<1>8. /\ MmuType(image) /\ TablesOwned(image)
      /\ \A e \in Dirs : e # d => image.directory[e] = c.directory[e]
      /\ \A e \in Dirs : e # d => \A s \in UserRegions : \A v \in RegionOf(s) :
           Translate(image, e, v) = Translate(c, e, v)
      /\ \A s \in UserRegions : s # ImageRegion => \A v \in RegionOf(s) :
           Translate(image, d, v) = Translate(c, d, v)
      /\ \A v \in RegionOf(ImageRegion) :
           Translate(image, d, v) = IF v < FirstPage(ImageRegion) + count
                                    THEN base + (v - FirstPage(ImageRegion))
                                    ELSE Translate(c, d, v)
  BY <1>3, <1>4, <1>7, RegionMapped
<1>9. CASE f \notin NeedsLibc
  <2>1. m = image
    BY <1>1, <1>2, <1>5, <1>6, <1>7, <1>9 DEF MapProgram
  <2> QED BY <1>2, <1>3, <1>4, <1>5, <1>6, <1>8, <1>9, <2>1
<1>10. CASE f \in NeedsLibc
  <2>1. PICK pages \in 0..RegionPages : pages = PagesUp(LibcSize)
    BY ImagePagesFact, Sizes
  <2>2. PICK frame \in Nat : frame = Page(libc.phys)
    BY PageFact
  <2>3. m = MapPages(image, d, FirstPage(LibcRegion), pages, frame)
    BY <1>1, <1>2, <1>5, <1>6, <1>7, <1>10, <2>1, <2>2 DEF MapProgram
  <2>4. /\ MmuType(m) /\ TablesOwned(m)
        /\ \A e \in Dirs : e # d => m.directory[e] = image.directory[e]
        /\ \A e \in Dirs : e # d => \A s \in UserRegions : \A v \in RegionOf(s) :
             Translate(m, e, v) = Translate(image, e, v)
        /\ \A s \in UserRegions : s # LibcRegion => \A v \in RegionOf(s) :
             Translate(m, d, v) = Translate(image, d, v)
        /\ \A v \in RegionOf(LibcRegion) :
             Translate(m, d, v) = IF v < FirstPage(LibcRegion) + pages
                                  THEN frame + (v - FirstPage(LibcRegion))
                                  ELSE Translate(image, d, v)
    <3>1. MmuType(image) /\ TablesOwned(image) /\ LibcRegion \in UserRegions
      BY <1>4, <1>8
    <3> QED BY ONLY <2>3, <3>1, RegionMapped
  <2> QED BY <1>2, <1>3, <1>4, <1>5, <1>6, <1>8, <1>10, <2>1, <2>2, <2>4
<1> QED BY <1>9, <1>10

\* A program follows those launched before it.
LEMMA TaskAdded ==
  ASSUME MemInv, NEW f \in Files, NEW app \in Nat, Len(tasks) < MaxTasks,
         tasks' = Append(tasks, NewTask(f, app)), strayed' = strayed,
         NEW n, n = Len(tasks) + 1
  PROVE  /\ TasksInv'
         /\ n \notin DOMAIN tasks /\ tasks'[n] = NewTask(f, app)
         /\ \A q \in DOMAIN tasks : tasks'[q] = tasks[q]
         /\ Live' = Live \cup {n}
         /\ Own' = IF NewDir = KernelDir THEN Own ELSE Own \cup {n}
         /\ Placed' = IF app \in RegionWords(KernelHeapRegion) THEN Placed \cup {n} ELSE Placed
<1>1. tasks \in Seq(Program) /\ TasksInv
  BY DEF MemInv, TasksInv
<1>2. PICK u : u = NewTask(f, app)
  OBVIOUS
<1>3. /\ u.file = f /\ u.cr3 = NewDir /\ u.app_base = app /\ u.alive = TRUE
      /\ u.v_heap_end = BreakStart /\ u.blocks = << >>
  BY <1>2 DEF NewTask
<1>4. u \in Program
  BY <1>2, ClonedFact, NewTaskType
<1>5. /\ tasks' \in Seq(Program) /\ Len(tasks') = Len(tasks) + 1
      /\ tasks'[Len(tasks) + 1] = u
      /\ \A i \in 1..Len(tasks) : tasks'[i] = tasks[i]
  BY <1>1, <1>2, <1>4, AppendProperties
<1>6. DOMAIN tasks = 1..Len(tasks) /\ DOMAIN tasks' = 1..Len(tasks) + 1 /\ Len(tasks) \in Nat
  BY <1>1, <1>5, LenProperties
<1>7. n \notin DOMAIN tasks /\ DOMAIN tasks' = DOMAIN tasks \cup {n}
  BY <1>6
<1>8. tasks'[n] = u /\ \A q \in DOMAIN tasks : tasks'[q] = tasks[q]
  BY <1>5, <1>6
<1>9. Live' = Live \cup {n}
  BY <1>3, <1>7, <1>8 DEF Live
<1>10. Live \subseteq DOMAIN tasks
  BY DEF Live
<1>11. Own' = IF NewDir = KernelDir THEN Own ELSE Own \cup {n}
  BY <1>3, <1>7, <1>8, <1>9, <1>10 DEF Own
<1>12. Placed' = IF app \in RegionWords(KernelHeapRegion) THEN Placed \cup {n} ELSE Placed
  BY <1>3, <1>7, <1>8, <1>9, <1>10 DEF Placed
<1>13. \A q \in Live' : /\ tasks'[q].file \in Files
                        /\ q \in strayed \/ InOrder(tasks'[q].blocks, tasks'[q].v_heap_end)
  <2>1. InOrder(<< >>, BreakStart)
    BY BreakFact DEF InOrder
  <2> QED BY <1>1, <1>3, <1>8, <1>9, <1>10, <2>1 DEF TasksInv
<1>14. Len(tasks') <= MaxTasks
  BY <1>5, <1>6, SizesAssumption
<1>15. strayed' \subseteq DOMAIN tasks'
  BY <1>1, <1>7 DEF TasksInv
<1>16. TasksInv'
  BY <1>5, <1>13, <1>14, <1>15 DEF TasksInv
<1> QED BY <1>2, <1>7, <1>8, <1>9, <1>11, <1>12, <1>16

\* api_exec_app keeps the invariant, and what others have mapped.
LEMMA ExecStep ==
  ASSUME MemInv, NEW f \in Files, Exec(f)
  PROVE  MemInv' /\ Kept /\ \A q \in Own : tasks'[q].cr3 = tasks[q].cr3
<1>0. PICK raw \in MallocResults(held) :
        \E lib \in IF LibcMissing(f) THEN MallocResults(Taken(held, raw)) ELSE {0} :
          /\ held' = Taken(Taken(held, raw), lib)
          /\ ram' = LoadLibc(LoadImage(ram, raw, f), f, lib)
          /\ shared_libc' = LibcAfter(f, lib)
          /\ mmu' = MapProgram(Cloned(mmu), NewDir, f, AppMemory(raw), LibcAfter(f, lib))
          /\ tasks' = Append(tasks, NewTask(f, AppMemory(raw)))
  BY DEF Exec
<1>1. PICK lib \in IF LibcMissing(f) THEN MallocResults(Taken(held, raw)) ELSE {0} :
        /\ held' = Taken(Taken(held, raw), lib)
        /\ ram' = LoadLibc(LoadImage(ram, raw, f), f, lib)
        /\ shared_libc' = LibcAfter(f, lib)
        /\ mmu' = MapProgram(Cloned(mmu), NewDir, f, AppMemory(raw), LibcAfter(f, lib))
        /\ tasks' = Append(tasks, NewTask(f, AppMemory(raw)))
  BY <1>0
<1>2. /\ Len(tasks) < MaxTasks
      /\ next_task_id' = IF NewDir = KernelDir THEN next_task_id ELSE next_task_id + 1
      /\ user_phys_memory' = user_phys_memory /\ strayed' = strayed
  BY DEF Exec
<1>3. ExecResult(f, raw, lib)
  BY <1>1, ExecHeap
<1>4. raw \in Nat /\ lib \in Nat
  BY <1>1, MallocResult
<1>5. PICK app \in Nat : app = AppMemory(raw) /\ (raw = 0 => app = PageSize)
  BY <1>4, AppMemoryFact, NoBlockFact
<1>6. PICK up \in Nat : /\ up = PagesUp(lib) * PageSize
                        /\ lib = 0 => up = 0
                        /\ lib # 0 => up # 0
  BY <1>4, PagesUpFact, NoBlockFact
\* The library, as it was or as it is read now.
<1>7. /\ shared_libc \in [phys : Nat, size : {0, LibcSize}]
      /\ shared_libc.phys # 0 => shared_libc.size = LibcSize
  BY DEF MemInv, LibcInv
<1>8. /\ LibcMissing(f) => shared_libc' = [phys |-> up, size |-> LibcSize]
      /\ ~LibcMissing(f) => shared_libc' = shared_libc
      /\ shared_libc.phys # 0 => ~LibcMissing(f)
  BY <1>1, <1>6 DEF LibcAfter, LibcMissing
<1>9. /\ shared_libc' \in [phys : Nat, size : {0, LibcSize}]
      /\ shared_libc'.phys # 0 => shared_libc'.size = LibcSize
      /\ f \in NeedsLibc => shared_libc'.size = LibcSize
      /\ shared_libc'.phys \in Nat
  BY <1>7, <1>8 DEF LibcMissing
\* The directories.
<1>10. PICK libc : libc = LibcAfter(f, lib) /\ libc = shared_libc'
  BY <1>1
<1>11. mmu' = MapProgram(Cloned(mmu), NewDir, f, app, libc)
  BY <1>1, <1>5, <1>10
<1>12. PICK d \in Dirs : d = NewDir
  BY ClonedFact
<1>13. /\ MmuType(mmu') /\ TablesOwned(mmu')
       /\ \A e \in Dirs : e # d => mmu'.directory[e] = mmu.directory[e]
       /\ \A e \in Dirs : e # d => \A s \in UserRegions : \A v \in RegionOf(s) :
            Translate(mmu', e, v) = Translate(mmu, e, v)
       /\ d # KernelDir =>
            /\ \A v \in RegionOf(HeapRegion) : Translate(mmu', d, v) = NoFrame
            /\ \A v \in RegionOf(ImageRegion) :
                 Translate(mmu', d, v) =
                   IF v < FirstPage(ImageRegion) + PagesUp(MemSize[f])
                   THEN Page(app) + (v - FirstPage(ImageRegion)) ELSE NoFrame
            /\ \A v \in RegionOf(LibcRegion) :
                 Translate(mmu', d, v) =
                   IF f \in NeedsLibc /\ v < FirstPage(LibcRegion) + PagesUp(LibcSize)
                   THEN Page(libc.phys) + (v - FirstPage(LibcRegion)) ELSE NoFrame
  BY <1>9, <1>10, <1>11, <1>12, ExecMmu
\* The programs.
<1>14. PICK n : n = Len(tasks) + 1
  OBVIOUS
<1>15. /\ TasksInv'
       /\ n \notin DOMAIN tasks /\ tasks'[n] = NewTask(f, app)
       /\ \A q \in DOMAIN tasks : tasks'[q] = tasks[q]
       /\ Live' = Live \cup {n}
       /\ Own' = IF d = KernelDir THEN Own ELSE Own \cup {n}
       /\ Placed' = IF app \in RegionWords(KernelHeapRegion) THEN Placed \cup {n} ELSE Placed
  BY <1>1, <1>2, <1>5, <1>12, <1>14, TaskAdded
<1>16. /\ tasks'[n].file = f /\ tasks'[n].cr3 = d /\ tasks'[n].app_base = app
       /\ tasks'[n].alive = TRUE /\ tasks'[n].v_heap_end = BreakStart
  BY <1>12, <1>15 DEF NewTask
<1>17. /\ Own \subseteq Live /\ Placed \subseteq Live /\ Live \subseteq DOMAIN tasks
       /\ n \notin Live /\ n \notin Own /\ n \notin Placed
  BY <1>15 DEF Own, Placed, Live
<1>18. \A q \in Live : tasks'[q] = tasks[q]
  BY <1>15, <1>17
<1>19. app \in RegionWords(KernelHeapRegion) <=> raw # 0
  <2>1. CASE raw = 0
    <3>1. app < PageSize + ImageSize
      BY <1>5, <2>1, Sizes
    <3> QED BY <2>1, <3>1, HeapIsHigh, Sizes
  <2>2. CASE raw # 0
    <3>1. PICK b \in AnyBlock : /\ b = NewBlock(raw) /\ b.at = raw
                                /\ Extent(b) \subseteq RegionWords(KernelHeapRegion)
      BY <1>1, <2>2, MallocFact DEF NewBlock
    <3>2. 0 \in 0..ImageSize - 1
      BY Sizes
    <3>3. app + 0 \in Extent(b)
      BY <1>5, <3>1, <3>2, BlockWords
    <3> QED BY <2>2, <3>1, <3>3
  <2> QED BY <2>1, <2>2
<1>20. Placed' = IF raw # 0 THEN Placed \cup {n} ELSE Placed
  BY <1>15, <1>19
<1>21. DirsInv
  BY DEF MemInv
<1>22. /\ d # KernelDir => next_task_id < MaxDirs /\ d = next_task_id + 1
       /\ d = KernelDir => next_task_id = MaxDirs
       /\ next_task_id \in 0..MaxDirs /\ MaxDirs \in Nat
  BY <1>12, <1>21, Sizes DEF DirsInv, NewDir, KernelDir
<1>23. \A q \in Own : tasks[q].cr3 \in Dirs /\ tasks[q].cr3 # d
  BY <1>21, <1>22, Sizes DEF DirsInv, Dirs, KernelDir, Own
<1>24. DirsInv'
  <2>1. next_task_id' \in 0..MaxDirs /\ next_task_id' >= next_task_id
    BY <1>2, <1>12, <1>22
  <2>2. next_task_id' < MaxDirs => \A r \in UserRegions : mmu'.directory[KernelDir][r] = NoTable
    <3> SUFFICES ASSUME next_task_id' < MaxDirs
                 PROVE  \A r \in UserRegions : mmu'.directory[KernelDir][r] = NoTable
      OBVIOUS
    <3>1. d # KernelDir /\ next_task_id < MaxDirs
      BY <1>2, <1>12, <1>22
    <3>2. KernelDir \in Dirs
      BY Sizes DEF Dirs, KernelDir
    <3> QED BY <1>13, <1>21, <3>1, <3>2 DEF DirsInv
  <2>3. \A q \in Live' : tasks'[q].cr3 = KernelDir => next_task_id' = MaxDirs
    <3>1. \A q \in Live : tasks[q].cr3 = KernelDir => next_task_id' = MaxDirs
      BY <1>21, <2>1, <1>22 DEF DirsInv
    <3>2. d = KernelDir => next_task_id' = MaxDirs
      BY <1>2, <1>12, <1>22
    <3> QED BY <1>15, <1>16, <1>18, <3>1, <3>2
  <2>4. \A q \in Own : tasks'[q].cr3 = tasks[q].cr3
    BY <1>17, <1>18
  <2>5. \A q \in Own' : tasks'[q].cr3 \in 1..next_task_id'
    <3>1. \A q \in Own : tasks[q].cr3 \in 1..next_task_id'
      BY <1>21, <1>22, <2>1 DEF DirsInv
    <3>2. d # KernelDir => d \in 1..next_task_id'
      BY <1>2, <1>12, <1>22
    <3> QED BY <1>15, <1>16, <2>4, <3>1, <3>2
  <2>6. \A p, q \in Own' : tasks'[p].cr3 = tasks'[q].cr3 => p = q
    <3>1. \A p, q \in Own : tasks[p].cr3 = tasks[q].cr3 => p = q
      BY <1>21 DEF DirsInv
    <3> QED BY <1>15, <1>16, <1>23, <2>4, <3>1
  <2> QED BY <2>1, <2>2, <2>3, <2>5, <2>6 DEF DirsInv
<1>25. PICK old : old = Own
  OBVIOUS
<1>26. ASSUME NEW q \in Own, NEW r \in UserRegions, NEW v \in RegionOf(r)
       PROVE  /\ Translate(mmu', tasks[q].cr3, v) = Frame(q, v)
              /\ Frame(q, v)' = Frame(q, v)
  BY <1>13, <1>17, <1>18, <1>23 DEF Frame
<1>27. \A v : Frame(n, v)' = Translate(mmu', d, v)
  BY <1>16 DEF Frame
<1>28. HeapRegion \in UserRegions /\ ImageRegion \in UserRegions /\ LibcRegion \in UserRegions
  BY DEF UserRegions
<1>29. Kept
  BY <1>26 DEF Kept
<1>30. \A q \in Own' : q \in Own \/ (d # KernelDir /\ q = n)
  BY <1>15
<1>31. HeapMaps'
  <2>1. user_phys_memory \in Nat /\ user_phys_memory >= FirstPage(ImageRegion)
    BY DEF MemInv, HeapMaps
  <2>2. ASSUME NEW q \in Own', NEW v \in RegionOf(HeapRegion)
        PROVE  \/ Frame(q, v)' = NoFrame
               \/ Frame(q, v)' \in FirstPage(ImageRegion)..user_phys_memory' - 1
    <3>1. CASE q \in Own
      BY <1>2, <1>26, <1>28, <3>1 DEF MemInv, HeapMaps
    <3>2. CASE d # KernelDir /\ q = n
      BY <1>13, <1>27, <3>2
    <3> QED BY <1>30, <3>1, <3>2
  <2>4. ASSUME NEW q \in Own' \ strayed', NEW v \in RegionOf(HeapRegion)
        PROVE  Frame(q, v)' # NoFrame <=> v \in (HeapPages(q))'
    <3>1. CASE q \in Own
      <4>1. (HeapPages(q))' = HeapPages(q)
        BY <1>17, <1>18, <3>1 DEF HeapPages
      <4>2. q \in Own \ strayed
        BY <1>2, <2>4, <3>1
      <4> QED BY <1>2, <1>26, <1>28, <4>1, <4>2 DEF MemInv, HeapMaps
    <3>2. CASE d # KernelDir /\ q = n
      <4>1. (HeapPages(n))' = {}
        <5>1. FirstPage(HeapRegion) \in Nat
          BY RegionNumbers
        <5> QED BY <1>16, <5>1, BreakFact DEF HeapPages
      <4> QED BY <1>13, <1>27, <3>2, <4>1
    <3> QED BY <1>30, <3>1, <3>2
  <2>3. ASSUME NEW p \in Own', NEW q \in Own', NEW u \in RegionOf(HeapRegion),
               NEW v \in RegionOf(HeapRegion),
               Frame(p, u)' # NoFrame, Frame(p, u)' = Frame(q, v)'
        PROVE  p = q /\ u = v
    <3>1. p \in Own /\ q \in Own
      BY <1>13, <1>27, <1>30, <2>3
    <3>2. Frame(p, u) # NoFrame /\ Frame(p, u) = Frame(q, v)
      BY <1>26, <1>28, <2>3, <3>1
    <3> QED BY <3>1, <3>2 DEF MemInv, HeapMaps
  <2> QED BY <1>2, <2>1, <2>2, <2>3, <2>4 DEF HeapMaps
<1>32. ImageMaps'
  <2> SUFFICES ASSUME NEW q \in Own'
               PROVE  Mapped(q, ImageRegion, PagesUp(MemSize[tasks[q].file]),
                             Page(tasks[q].app_base))'
    BY DEF ImageMaps
  <2>1. CASE q \in Own
    BY <1>17, <1>18, <1>26, <1>28, <2>1 DEF MemInv, ImageMaps, Mapped
  <2>2. CASE d # KernelDir /\ q = n
    BY <1>13, <1>16, <1>27, <2>2 DEF Mapped
  <2> QED BY <1>30, <2>1, <2>2
<1>33. LibcMaps'
  <2> SUFFICES ASSUME NEW q \in Own'
               PROVE  \/ Mapped(q, LibcRegion, 0, 0)'
                      \/ Mapped(q, LibcRegion, PagesUp(LibcSize), 0)'
                      \/ /\ shared_libc'.phys # 0
                         /\ Mapped(q, LibcRegion, PagesUp(LibcSize), Page(shared_libc.phys))'
    BY DEF LibcMaps
  <2>1. CASE q \in Own
    <3>1. ASSUME NEW count, NEW at, Mapped(q, LibcRegion, count, at)
          PROVE  Mapped(q, LibcRegion, count, at)'
      BY <1>26, <1>28, <2>1, <3>1 DEF Mapped
    <3>2. \A count, at : Mapped(q, LibcRegion, count, at) => Mapped(q, LibcRegion, count, at)'
      BY <3>1
    <3> QED BY <1>8, <2>1, <3>2 DEF MemInv, LibcMaps
  <2>2. CASE d # KernelDir /\ q = n
    <3>1. CASE f \notin NeedsLibc
      <4>1. ASSUME NEW v \in RegionOf(LibcRegion)
            PROVE  Frame(n, v)' = NoFrame /\ ~(v < FirstPage(LibcRegion) + 0)
        <5>1. Frame(n, v)' = NoFrame
          BY <1>13, <1>27, <2>2, <3>1
        <5>2. FirstPage(LibcRegion) \in Nat /\ FirstPage(LibcRegion + 1) \in Nat
          BY RegionNumbers
        <5> QED BY <5>1, <5>2 DEF RegionOf
      <4> QED BY <2>2, <4>1 DEF Mapped
    <3>2. CASE f \in NeedsLibc
      <4>1. \A v \in RegionOf(LibcRegion) :
              Frame(n, v)' = IF v < FirstPage(LibcRegion) + PagesUp(LibcSize)
                             THEN Page(shared_libc'.phys) + (v - FirstPage(LibcRegion))
                             ELSE NoFrame
        BY <1>10, <1>13, <1>27, <2>2, <3>2
      <4>2. Page(0) = 0
        <5>1. 0 * PageSize = 0
          BY Sizes
        <5> QED BY <5>1, BoundaryFact
      <4>3. CASE shared_libc'.phys # 0
        BY <2>2, <4>1, <4>3 DEF Mapped
      <4>4. CASE shared_libc'.phys = 0
        BY <2>2, <4>1, <4>2, <4>4 DEF Mapped
      <4> QED BY <4>3, <4>4
    <3> QED BY <3>1, <3>2
  <2> QED BY <1>30, <2>1, <2>2
\* What is in the kernel heap.
<1>34. /\ \A b \in held : b \in held' /\ SameBlock(b)
       /\ \A b \in held' : \/ b \in held
                           \/ raw # 0 /\ b = NewBlock(raw)
                           \/ LibcMissing(f) /\ lib # 0 /\ b = NewBlock(lib)
  BY <1>3 DEF ExecResult
<1>35. NewBlock(raw).at = raw /\ NewBlock(lib).at = lib
  BY DEF NewBlock
<1>36. BlocksInv'
  <2>1. ASSUME NEW b \in held'
        PROVE  \/ \E q \in Placed' : tasks'[q].app_base = AppMemory(b.at)
               \/ shared_libc'.phys # 0 /\ shared_libc'.phys = PagesUp(b.at) * PageSize
    <3>1. CASE b \in held
      <4>1. \/ \E q \in Placed : tasks[q].app_base = AppMemory(b.at)
            \/ shared_libc.phys # 0 /\ shared_libc.phys = PagesUp(b.at) * PageSize
        BY <3>1 DEF MemInv, BlocksInv
      <4> QED BY <1>8, <1>17, <1>18, <1>20, <4>1
    <3>2. CASE raw # 0 /\ b = NewBlock(raw)
      BY <1>5, <1>16, <1>20, <1>35, <3>2
    <3>3. CASE LibcMissing(f) /\ lib # 0 /\ b = NewBlock(lib)
      BY <1>6, <1>8, <1>35, <3>3
    <3> QED BY <1>34, <3>1, <3>2, <3>3
  <2> QED BY <1>3, <2>1 DEF ExecResult, BlocksInv
<1>37. \A q \in Placed : /\ q \in Placed' /\ SameProgram(q)
                         /\ \E b \in held : ImageIn(q, b) /\ ImageIn(q, b)'
  <2> SUFFICES ASSUME NEW q \in Placed
               PROVE  /\ q \in Placed' /\ SameProgram(q)
                      /\ \E b \in held : ImageIn(q, b) /\ ImageIn(q, b)'
    OBVIOUS
  <2>1. q \in Placed' /\ SameProgram(q)
    BY <1>17, <1>18, <1>20 DEF SameProgram
  <2>2. PICK b \in held : ImageIn(q, b)
    BY DEF MemInv, ImagesInv
  <2>3. ImageIn(q, b)'
    BY <1>34, <2>1, <2>2, BlockKept
  <2> QED BY <2>1, <2>2, <2>3
<1>38. ImagesInv'
  <2>1. \A q \in Live' : q \in Placed' \/ tasks'[q].app_base = PageSize
    <3>1. \A q \in Live : q \in Placed \/ tasks[q].app_base = PageSize
      BY DEF MemInv, ImagesInv
    <3> QED BY <1>5, <1>15, <1>16, <1>18, <1>20, <3>1
  <2>2. raw # 0 => NewBlock(raw) \in held' /\ ImageIn(n, NewBlock(raw))'
    BY <1>3, <1>5, <1>16, <1>35 DEF ExecResult, ImageIn, Image
  <2>3. \A q \in Placed' : \E b \in held' : ImageIn(q, b)'
    BY <1>20, <1>34, <1>37, <2>2
  <2>4. \A q \in Placed : raw # 0 => tasks[q].app_base # app
    BY <1>3, <1>5, <1>37 DEF ExecResult, ImageIn
  <2>5. \A p, q \in Placed' : tasks'[p].app_base = tasks'[q].app_base => p = q
    <3>1. \A p, q \in Placed : tasks[p].app_base = tasks[q].app_base => p = q
      BY DEF MemInv, ImagesInv
    <3> QED BY <1>16, <1>17, <1>18, <1>20, <2>4, <3>1
  <2>6. ram'[PageSize - 1][2] \in 0..ImageSize
    BY <1>3 DEF ExecResult
  <2> QED BY <2>1, <2>3, <2>5, <2>6 DEF ImagesInv
<1>39. ASSUME shared_libc'.phys # 0
       PROVE  \E b \in held' : LibcIn(b)'
  <2>1. CASE ~LibcMissing(f)
    <3>1. shared_libc' = shared_libc
      BY <1>8, <2>1
    <3>2. PICK b \in held : LibcIn(b)
      BY <1>39, <3>1 DEF MemInv, LibcInv
    <3>3. \A k \in 0..LibcSize - 1 : ram'[shared_libc'.phys + k] = Libc[k]
      BY <1>34, <3>1, <3>2, BlockKept
    <3>4. \A q \in Placed' : tasks'[q].app_base # AppMemory(b.at)
      <4>1. \A q \in Placed : tasks[q].app_base # AppMemory(b.at)
        BY <3>2 DEF LibcIn
      <4>2. raw # 0 => app # AppMemory(b.at)
        BY <1>3, <1>5 DEF ExecResult
      <4> QED BY <1>16, <1>17, <1>18, <1>20, <4>1, <4>2
    <3>5. LibcIn(b)'
      BY <3>1, <3>2, <3>3, <3>4 DEF LibcIn, Libc
    <3> QED BY <1>34, <3>5
  <2>2. CASE LibcMissing(f)
    <3>1. shared_libc'.phys = up /\ lib # 0
      BY <1>6, <1>8, <1>39, <2>2
    <3>2. /\ NewBlock(lib) \in held'
          /\ \A k \in 0..LibcSize - 1 : ram'[up + k] = Libc[k]
          /\ \A b \in held : AppMemory(b.at) # AppMemory(lib)
          /\ raw # 0 => AppMemory(lib) # AppMemory(raw)
      BY <1>3, <1>6, <2>2, <3>1 DEF ExecResult
    <3>3. \A q \in Placed' : tasks'[q].app_base # AppMemory(lib)
      <4>1. \A q \in Placed : tasks[q].app_base # AppMemory(lib)
        BY <1>37, <3>2 DEF ImageIn
      <4> QED BY <1>5, <1>16, <1>17, <1>18, <1>20, <3>2, <4>1
    <3>4. LibcIn(NewBlock(lib))'
      BY <1>6, <1>35, <3>1, <3>2, <3>3 DEF LibcIn, Libc
    <3> QED BY <3>2, <3>4
  <2> QED BY <2>1, <2>2
<1>40. LibcInv'
  BY <1>9, <1>39 DEF LibcInv
<1>41. RamInv'
  BY <1>3 DEF ExecResult
<1> QED BY <1>13, <1>15, <1>17, <1>18, <1>24, <1>29, <1>31, <1>32, <1>33, <1>36, <1>38, <1>40,
           <1>41 DEF MemInv

-----------------------------------------------------------------------------
(* The steps together.                                                     *)

LEMMA StepMem ==
  ASSUME MemInv, [Next]_vars, ~spilled'
  PROVE  MemInv' /\ Kept
<1>1. CASE UNCHANGED vars
  <2>1. UNCHANGED <<mmu, next_task_id, user_phys_memory, shared_libc, held, ram, tasks, strayed>>
    BY <1>1 DEF vars
  <2>2. Live' = Live /\ Own' = Own /\ Placed' = Placed
    BY <2>1 DEF Live, Own, Placed
  <2>3. DirsInv' /\ HeapMaps' /\ ImageMaps' /\ LibcMaps'
    BY <2>1, <2>2 DEF MemInv, DirsInv, HeapMaps, HeapPages, ImageMaps, LibcMaps, Mapped, Frame
  <2>4. BlocksInv' /\ ImagesInv' /\ LibcInv'
    BY <2>1, <2>2 DEF MemInv, BlocksInv, ImagesInv, ImageIn, LibcInv, LibcIn
  <2>5. TasksInv' /\ RamInv' /\ MmuType(mmu') /\ TablesOwned(mmu')
    BY <2>1, <2>2 DEF MemInv, TasksInv, RamInv
  <2>6. Kept
    BY <2>1 DEF Kept, Frame
  <2> QED BY <2>3, <2>4, <2>5, <2>6 DEF MemInv
<1>2. ASSUME NEW f \in Files, Exec(f) PROVE MemInv' /\ Kept
  BY <1>2, ExecStep
<1>3. ASSUME NEW p \in Live, NEW size \in Requests, ReuseBlock(p, size) PROVE MemInv' /\ Kept
  <2>1. PICK i \in Usable(p, size) :
          /\ tasks' = [tasks EXCEPT ![p].blocks[i].is_free = FALSE]
          /\ UNCHANGED <<mmu, user_phys_memory, next_task_id, shared_libc, held, ram, strayed>>
    BY <1>3 DEF ReuseBlock
  <2>2. i \in DOMAIN tasks[p].blocks /\ FALSE \in BOOLEAN
    BY DEF Usable
  <2>3. MemInv'
    BY <2>1, <2>2, FlagStep
  <2> QED BY <2>1, <2>3 DEF Kept, Frame
<1>4. ASSUME NEW p \in Live, NEW size \in Requests, ExtendHeap(p, size) PROVE MemInv' /\ Kept
  BY <1>4, ExtendStep
<1>7. ASSUME NEW p \in Live, NEW new_break \in Breaks, MoveBreak(p, new_break)
      PROVE  MemInv' /\ Kept
  BY <1>7, MoveStep
<1>5. ASSUME NEW p \in Live, Free(p) PROVE MemInv' /\ Kept
  <2>1. PICK i \in DOMAIN tasks[p].blocks :
          /\ tasks' = [tasks EXCEPT ![p].blocks[i].is_free = TRUE]
          /\ UNCHANGED <<mmu, user_phys_memory, next_task_id, shared_libc, held, ram, strayed>>
    BY <1>5 DEF Free
  <2>2. TRUE \in BOOLEAN
    OBVIOUS
  <2>3. MemInv'
    BY <2>1, <2>2, FlagStep
  <2> QED BY <2>1, <2>3 DEF Kept, Frame
<1>6. ASSUME NEW p \in Live, Kill(p) PROVE MemInv' /\ Kept
  BY <1>6, KillStep
<1> QED BY <1>1, <1>2, <1>3, <1>4, <1>5, <1>6, <1>7 DEF Next

\* What went wrong stays wrong.
LEMMA SpillStays ==
  ASSUME spilled, [Next]_vars
  PROVE  spilled'
<1>1. CASE UNCHANGED vars
  BY <1>1 DEF vars
<1>2. ASSUME NEW p, NEW new_break, Sbrk(p, new_break) PROVE spilled'
  BY <1>2 DEF Sbrk, SbrkFrom
<1>3. ASSUME NEW f \in Files, Exec(f) PROVE spilled'
  BY <1>3 DEF Exec
<1>4. ASSUME NEW p \in Live, NEW size \in Requests, ReuseBlock(p, size) PROVE spilled'
  BY <1>4 DEF ReuseBlock
<1>5. ASSUME NEW p \in Live, NEW size \in Requests, ExtendHeap(p, size) PROVE spilled'
  BY <1>2, <1>5 DEF ExtendHeap
<1>6. ASSUME NEW p \in Live, NEW new_break \in Breaks, MoveBreak(p, new_break) PROVE spilled'
  BY <1>2, <1>6 DEF MoveBreak
<1>7. ASSUME NEW p \in Live, Free(p) PROVE spilled'
  BY <1>7 DEF Free
<1>8. ASSUME NEW p \in Live, Kill(p) PROVE spilled'
  BY <1>8 DEF Kill, FreeImage
<1> QED BY <1>1, <1>3, <1>4, <1>5, <1>6, <1>7, <1>8 DEF Next

LEMMA MemInvariant == Spec => [](spilled \/ MemInv)
<1>1. (spilled \/ MemInv) /\ [Next]_vars => (spilled \/ MemInv)'
  BY StepMem, SpillStays
<1> QED BY <1>1, InitMem, PTL DEF Spec

-----------------------------------------------------------------------------
(* The types, which hold whatever programs do with their breaks.           *)

BaseInv ==
  /\ MmuType(mmu) /\ next_task_id \in 0..MaxDirs /\ user_phys_memory \in Nat
  /\ shared_libc \in [phys : Nat, size : {0, LibcSize}]
  /\ held \subseteq AnyBlock
  /\ tasks \in Seq(Program) /\ Len(tasks) <= MaxTasks
  /\ strayed \subseteq DOMAIN tasks /\ spilled \in BOOLEAN

LEMMA BaseTyped == BaseInv => TypeOK
<1> SUFFICES ASSUME BaseInv PROVE TypeOK
  OBVIOUS
<1>1. ASSUME NEW p \in DOMAIN tasks
      PROVE  /\ tasks[p].cr3 \in 0..MaxDirs /\ tasks[p].v_heap_end \in Nat
             /\ tasks[p].blocks \in Seq(Block)
  <2>1. tasks[p] \in Program
    BY LenProperties, ElementOfSeq DEF BaseInv
  <2> QED BY <2>1 DEF Program, Dirs
<1>2. /\ mmu.directory \in [0..MaxDirs -> [Regions -> DOMAIN mmu.table \cup {NoTable}]]
      /\ \A t \in DOMAIN mmu.table :
           mmu.table[t] \in [0..RegionPages - 1 -> Nat \cup {NoFrame}]
      /\ mmu.dma_memory_pointer \in Nat
      /\ \A t \in DOMAIN mmu.table : t < mmu.dma_memory_pointer
  BY DEF BaseInv, MmuType, Dirs
<1> QED BY <1>1, <1>2 DEF BaseInv, TypeOK, AnyBlock

\* A part of what MapSpan maps lies in one region.
LEMMA SpanPart ==
  ASSUME NEW m, MmuType(m), NEW d \in Dirs, NEW r \in Regions, NEW first \in Nat,
         NEW end \in Nat, first <= end, NEW frame \in Nat
  PROVE  MmuType(MapPages(m, d, Cut(first, r), Cut(end, r) - Cut(first, r),
                          frame + Cut(first, r) - first))
<1>1. PICK low \in Nat, high \in Nat :
        low = FirstPage(r) /\ high = FirstPage(r + 1) /\ low < high
  BY RegionFact, Sizes
<1>2. PICK a \in Nat, b \in Nat :
        /\ a = Cut(first, r) /\ b = Cut(end, r) /\ a <= b
        /\ a = b \/ (low <= a /\ a < high /\ first <= a)
  BY <1>1 DEF Cut
<1>3. PICK count \in Nat : count = b - a
  BY <1>2
<1>4. PICK at \in Int : at = frame + a - first
  BY <1>2
<1>5. CASE count = 0
  BY <1>2, <1>3, <1>5 DEF MapPages
<1>6. CASE count # 0
  <2>1. at \in Nat /\ a \in RegionOf(r)
    BY <1>1, <1>2, <1>3, <1>4, <1>6 DEF RegionOf
  <2>2. MmuType(MapPages(m, d, a, count, at))
    BY <2>1, MapPagesType
  <2> QED BY <1>2, <1>3, <1>4, <2>2
<1> QED BY <1>5, <1>6

LEMMA SpanType ==
  ASSUME NEW m, MmuType(m), NEW d \in Dirs, NEW first \in Nat, NEW end \in Nat,
         first <= end, NEW frame \in Nat
  PROVE  MmuType(MapSpan(m, d, first, end, frame))
<1> DEFINE Part(n, r) == MapPages(n, d, Cut(first, r), Cut(end, r) - Cut(first, r),
                                  frame + Cut(first, r) - first)
<1>1. \A r \in Regions : \A n : MmuType(n) => MmuType(Part(n, r))
  BY SpanPart
<1>2. /\ 0 \in Regions /\ 1 \in Regions /\ 2 \in Regions
      /\ 3 \in Regions /\ 4 \in Regions /\ 5 \in Regions
  BY DEF Regions, KernelRegion, LibcRegion
<1>3. MapSpan(m, d, first, end, frame) = Part(Part(Part(Part(Part(Part(m, 0), 1), 2), 3), 4), 5)
  BY DEF MapSpan
<1> HIDE DEF Part
<1> QED BY <1>1, <1>2, <1>3

LEMMA ProgramType ==
  ASSUME NEW m, MmuType(m), NEW d \in Dirs, NEW f \in Files, NEW app \in Nat,
         NEW libc \in [phys : Nat, size : {0, LibcSize}]
  PROVE  MmuType(MapProgram(m, d, f, app, libc))
<1>1. \A r \in {ImageRegion, LibcRegion} :
        r \in Regions /\ FirstPage(r) \in Nat /\ FirstPage(r) \in RegionOf(r)
  <2>1. \A r \in {ImageRegion, LibcRegion} : r \in Regions
    BY DEF Regions, KernelRegion, ImageRegion, LibcRegion
  <2>2. ASSUME NEW r \in Regions PROVE FirstPage(r) \in Nat /\ FirstPage(r) \in RegionOf(r)
    <3>1. PICK low \in Nat : low = FirstPage(r) /\ FirstPage(r + 1) = low + RegionPages
      BY RegionFact
    <3>2. PICK n \in Nat \ {0} : n = RegionPages
      BY Sizes
    <3>3. RegionOf(r) = low..low + n - 1
      BY <3>1, <3>2 DEF RegionOf
    <3> QED BY <3>1, <3>2, <3>3
  <2> QED BY <2>1, <2>2
<1>2. PICK count \in Nat : count = PagesUp(MemSize[f])
  <2>1. PICK size \in Nat : size = MemSize[f]
    BY Sizes
  <2> QED BY <2>1, PagesUpFact
<1>3. PICK pages \in Nat : pages = PagesUp(libc.size)
  BY Sizes, PagesUpFact
<1>4. PICK at \in Nat, phys \in Nat : at = Page(app) /\ phys = Page(libc.phys)
  BY PageFact
<1>5. PICK image : image = MapPages(m, d, FirstPage(ImageRegion), count, at)
  OBVIOUS
<1>6. MmuType(image)
  BY <1>1, <1>5, MapPagesType
<1>7. MmuType(MapPages(image, d, FirstPage(LibcRegion), pages, phys))
  BY <1>1, <1>6, MapPagesType
<1> QED BY <1>2, <1>3, <1>4, <1>5, <1>6, <1>7 DEF MapProgram

\* sys_sbrk keeps the types, wherever the break goes.
LEMMA SbrkType ==
  ASSUME BaseInv, NEW p \in DOMAIN tasks, NEW new_break \in Nat, Sbrk(p, new_break)
  PROVE  MmuType(mmu') /\ user_phys_memory' \in Nat /\ spilled' \in BOOLEAN
<1>1. tasks[p] \in Program
  BY LenProperties, ElementOfSeq DEF BaseInv
<1>2. PICK d \in Dirs : d = tasks[p].cr3
  BY <1>1 DEF Program
<1>3. tasks[p].v_heap_end \in Nat
  BY <1>1 DEF Program
<1>4. PICK a \in Nat : a = PagesUp(tasks[p].v_heap_end) % Pages
  BY <1>3, PagesUpFact, NoWrap
<1>5. PICK b \in Nat : b = PagesUp(new_break) % Pages
  BY PagesUpFact, NoWrap
<1>6. PICK frame \in Nat : frame = user_phys_memory
  BY DEF BaseInv
<1>7. CASE new_break > tasks[p].v_heap_end
  <2>1. SbrkFrom(p, a, b)
    BY <1>4, <1>5, <1>7 DEF Sbrk
  <2>2. PICK count \in Nat : count = IF a < b THEN b - a ELSE 0
    OBVIOUS
  <2>3. /\ mmu' = MapSpan(mmu, d, a, a + count, frame)
        /\ user_phys_memory' = frame + count /\ spilled' \in BOOLEAN
    BY <1>2, <1>6, <2>1, <2>2 DEF SbrkFrom, BaseInv
  <2>4. PICK end \in Nat : end = a + count /\ a <= end
    OBVIOUS
  <2>5. MmuType(MapSpan(mmu, d, a, end, frame))
    BY <2>4, SpanType DEF BaseInv
  <2> QED BY <2>3, <2>4, <2>5
<1>8. CASE ~(new_break > tasks[p].v_heap_end)
  BY <1>8 DEF Sbrk, BaseInv
<1> QED BY <1>7, <1>8

\* A task with other blocks or another break.
LEMMA BlocksType ==
  ASSUME tasks \in Seq(Program), NEW p \in DOMAIN tasks, NEW blocks \in Seq(Block),
         NEW end \in Nat,
         tasks' = [tasks EXCEPT ![p] =
                     [tasks[p] EXCEPT !.blocks = blocks, !.v_heap_end = end]]
  PROVE  /\ tasks' \in Seq(Program) /\ Len(tasks') = Len(tasks)
         /\ DOMAIN tasks' = DOMAIN tasks
<1>1. PICK u : u = [tasks[p] EXCEPT !.blocks = blocks, !.v_heap_end = end]
  OBVIOUS
<1>2. tasks[p] \in Program
  BY LenProperties, ElementOfSeq
<1>3. u \in Program
  BY <1>1, <1>2 DEF Program
<1> QED BY <1>1, <1>3, TaskReplaced

\* Of a program: its blocks and its break.
LEMMA ProgramFact ==
  ASSUME tasks \in Seq(Program), NEW p \in DOMAIN tasks
  PROVE  /\ tasks[p] \in Program
         /\ tasks[p].blocks \in Seq(Block) /\ tasks[p].v_heap_end \in Nat
<1>1. tasks[p] \in Program
  BY LenProperties, ElementOfSeq
<1> QED BY <1>1 DEF Program

LEMMA FlagType ==
  ASSUME tasks \in Seq(Program), NEW p \in DOMAIN tasks, NEW i \in DOMAIN tasks[p].blocks,
         NEW free \in BOOLEAN, tasks' = [tasks EXCEPT ![p].blocks[i].is_free = free]
  PROVE  /\ tasks' \in Seq(Program) /\ Len(tasks') = Len(tasks)
         /\ DOMAIN tasks' = DOMAIN tasks
<1>1. PICK old \in Seq(Block), end \in Nat :
        old = tasks[p].blocks /\ end = tasks[p].v_heap_end
  BY ProgramFact
<1>2. i \in 1..Len(old) /\ old[i] \in Block
  BY <1>1, LenProperties, ElementOfSeq
<1>3. PICK c : c = [old[i] EXCEPT !.is_free = free]
  OBVIOUS
<1>4. c \in Block
  BY <1>2, <1>3 DEF Block
<1>5. PICK new : new = [old EXCEPT ![i] = c]
  OBVIOUS
<1>6. new \in Seq(Block)
  BY <1>2, <1>4, <1>5, ExceptSeq
<1>7. tasks' = [tasks EXCEPT ![p] = [tasks[p] EXCEPT !.blocks = new]]
  BY <1>1, <1>3, <1>5
<1>8. [tasks[p] EXCEPT !.blocks = new] = [tasks[p] EXCEPT !.blocks = new, !.v_heap_end = end]
  BY <1>1, ProgramFact DEF Program
<1>9. tasks' = [tasks EXCEPT ![p] =
                 [tasks[p] EXCEPT !.blocks = new, !.v_heap_end = end]]
  BY <1>7, <1>8
<1>10. end \in Nat
  BY <1>1
<1> QED BY ONLY tasks \in Seq(Program), p \in DOMAIN tasks, <1>6, <1>9, <1>10, BlocksType

LEMMA ExtendType ==
  ASSUME BaseInv, NEW p \in Live, NEW size \in Requests, ExtendHeap(p, size)
  PROVE  BaseInv'
<1>1. tasks \in Seq(Program) /\ p \in DOMAIN tasks
  BY DEF BaseInv, Live
<1>2. PICK old \in Seq(Block), end \in Nat :
        old = tasks[p].blocks /\ end = tasks[p].v_heap_end
  BY <1>1, ProgramFact
<1>3. PICK at \in Nat : at = end + UserHeader /\ size \in Nat
  BY Sizes
<1>4. PICK b : b = [at |-> at, size |-> size, is_free |-> FALSE]
  OBVIOUS
<1>5. b \in Block
  BY <1>3, <1>4 DEF Block
<1>6. PICK new : new = Append(old, b)
  OBVIOUS
<1>7. new \in Seq(Block)
  BY <1>5, <1>6, AppendProperties
<1>8. PICK new_break \in Nat : new_break = (end + UserHeader + size) % Space
  <2>1. PICK word \in Nat : word = end + UserHeader + size
    BY <1>3
  <2>2. PICK space \in Nat \ {0} : space = Space
    BY SpaceFact
  <2>3. word % space \in Nat
    OBVIOUS
  <2> QED BY <2>1, <2>2, <2>3
<1>9. /\ Sbrk(p, new_break)
      /\ tasks' = [tasks EXCEPT ![p].v_heap_end = new_break, ![p].blocks = Append(@, b)]
      /\ strayed' \subseteq strayed \cup {p}
      /\ UNCHANGED <<next_task_id, shared_libc, held>>
  BY <1>2, <1>3, <1>4, <1>8 DEF ExtendHeap
<1>10. tasks' = [tasks EXCEPT ![p] =
                  [tasks[p] EXCEPT !.blocks = new, !.v_heap_end = new_break]]
  <2>1. tasks[p] \in Program
    BY <1>1, ProgramFact
  <2> QED BY <1>1, <1>2, <1>6, <1>9, <2>1 DEF Program
<1>11. /\ tasks' \in Seq(Program) /\ Len(tasks') = Len(tasks)
       /\ DOMAIN tasks' = DOMAIN tasks
  BY <1>1, <1>7, <1>10, BlocksType
<1>12. MmuType(mmu') /\ user_phys_memory' \in Nat /\ spilled' \in BOOLEAN
  BY <1>1, <1>9, SbrkType
<1> QED BY <1>1, <1>9, <1>11, <1>12 DEF BaseInv

LEMMA MoveType ==
  ASSUME BaseInv, NEW p \in Live, NEW new_break \in Breaks, MoveBreak(p, new_break)
  PROVE  BaseInv'
<1>1. tasks \in Seq(Program) /\ p \in DOMAIN tasks
  BY DEF BaseInv, Live
<1>2. PICK old \in Seq(Block) : old = tasks[p].blocks
  BY <1>1, ProgramFact
<1>3. new_break \in Nat
  BY SizesAssumption
<1>4. [tasks[p] EXCEPT !.v_heap_end = new_break]
        = [tasks[p] EXCEPT !.blocks = old, !.v_heap_end = new_break]
  BY <1>1, <1>2, ProgramFact DEF Program
<1>5. /\ Sbrk(p, new_break)
      /\ tasks' = [tasks EXCEPT ![p] = [tasks[p] EXCEPT !.v_heap_end = new_break]]
      /\ strayed' \subseteq strayed \cup {p}
      /\ UNCHANGED <<next_task_id, shared_libc, held>>
  BY DEF MoveBreak
<1>6. /\ tasks' \in Seq(Program) /\ Len(tasks') = Len(tasks)
      /\ DOMAIN tasks' = DOMAIN tasks
  BY <1>1, <1>3, <1>4, <1>5, BlocksType
<1>7. MmuType(mmu') /\ user_phys_memory' \in Nat /\ spilled' \in BOOLEAN
  BY <1>1, <1>3, <1>5, SbrkType
<1> QED BY <1>1, <1>5, <1>6, <1>7 DEF BaseInv

LEMMA ExecType ==
  ASSUME BaseInv, NEW f \in Files, Exec(f)
  PROVE  BaseInv'
<1>1. PICK raw \in MallocResults(held) :
        \E lib \in IF LibcMissing(f) THEN MallocResults(Taken(held, raw)) ELSE {0} :
          /\ held' = Taken(Taken(held, raw), lib)
          /\ shared_libc' = LibcAfter(f, lib)
          /\ mmu' = MapProgram(Cloned(mmu), NewDir, f, AppMemory(raw), LibcAfter(f, lib))
          /\ tasks' = Append(tasks, NewTask(f, AppMemory(raw)))
  BY DEF Exec
<1>2. PICK lib \in IF LibcMissing(f) THEN MallocResults(Taken(held, raw)) ELSE {0} :
        /\ held' = Taken(Taken(held, raw), lib)
        /\ shared_libc' = LibcAfter(f, lib)
        /\ mmu' = MapProgram(Cloned(mmu), NewDir, f, AppMemory(raw), LibcAfter(f, lib))
        /\ tasks' = Append(tasks, NewTask(f, AppMemory(raw)))
  BY <1>1
<1>3. /\ Len(tasks) < MaxTasks
      /\ next_task_id' = IF NewDir = KernelDir THEN next_task_id ELSE next_task_id + 1
      /\ UNCHANGED <<user_phys_memory, strayed, spilled>>
  BY DEF Exec
<1>4. raw \in Nat /\ lib \in Nat
  BY <1>2, MallocResult
<1>5. held' \subseteq AnyBlock
  <2>1. \A blocks, r : r \in Nat /\ blocks \subseteq AnyBlock => Taken(blocks, r) \subseteq AnyBlock
    BY DEF Taken, AnyBlock
  <2> QED BY <1>2, <1>4, <2>1 DEF BaseInv
<1>6. PICK libc \in [phys : Nat, size : {0, LibcSize}] : libc = LibcAfter(f, lib)
  <2>1. PICK up \in Nat : up = PagesUp(lib) * PageSize
    BY <1>4, PagesUpFact
  <2>2. [phys |-> up, size |-> LibcSize] \in [phys : Nat, size : {0, LibcSize}]
    OBVIOUS
  <2> QED BY <2>1, <2>2 DEF LibcAfter, BaseInv
<1>7. NewDir \in Dirs /\ MmuType(Cloned(mmu))
  BY ClonedType DEF BaseInv
<1>8. PICK app \in Nat : app = AppMemory(raw)
  BY <1>4, AppMemoryFact
<1>9. MmuType(mmu')
  <2>1. PICK d \in Dirs : d = NewDir
    BY <1>7
  <2>2. PICK m : m = Cloned(mmu)
    OBVIOUS
  <2>3. MmuType(MapProgram(m, d, f, app, libc))
    BY <1>7, <2>1, <2>2, ProgramType
  <2> QED BY <1>2, <1>6, <1>8, <2>1, <2>2, <2>3
<1>10. PICK u \in Program : u = NewTask(f, app)
  BY <1>7, NewTaskType
<1>11. tasks \in Seq(Program) /\ strayed \subseteq DOMAIN tasks
  BY DEF BaseInv
<1>12. tasks' \in Seq(Program) /\ Len(tasks') = Len(tasks) + 1
  BY <1>2, <1>8, <1>10, <1>11, AppendProperties
<1>13. DOMAIN tasks \subseteq DOMAIN tasks' /\ Len(tasks') <= MaxTasks
  <2>1. DOMAIN tasks = 1..Len(tasks) /\ DOMAIN tasks' = 1..Len(tasks') /\ Len(tasks) \in Nat
    BY <1>11, <1>12, LenProperties
  <2> QED BY <1>3, <1>12, <2>1, SizesAssumption
<1>14. next_task_id' \in 0..MaxDirs
  BY <1>3, Sizes DEF NewDir, KernelDir, BaseInv
<1> QED BY <1>2, <1>3, <1>5, <1>6, <1>9, <1>11, <1>12, <1>13, <1>14 DEF BaseInv

LEMMA BaseStep ==
  ASSUME BaseInv, [Next]_vars
  PROVE  BaseInv'
<1>1. CASE UNCHANGED vars
  BY <1>1 DEF vars, BaseInv
<1>2. ASSUME NEW f \in Files, Exec(f) PROVE BaseInv'
  BY <1>2, ExecType
<1>3. ASSUME NEW p \in Live, NEW size \in Requests, ReuseBlock(p, size) PROVE BaseInv'
  <2>1. PICK i \in Usable(p, size) :
          /\ tasks' = [tasks EXCEPT ![p].blocks[i].is_free = FALSE]
          /\ UNCHANGED <<mmu, user_phys_memory, next_task_id, shared_libc, held, strayed, spilled>>
    BY <1>3 DEF ReuseBlock
  <2>2. i \in DOMAIN tasks[p].blocks /\ p \in DOMAIN tasks /\ FALSE \in BOOLEAN
    BY DEF Usable, Live
  <2>3. /\ tasks' \in Seq(Program) /\ Len(tasks') = Len(tasks)
        /\ DOMAIN tasks' = DOMAIN tasks
    BY <2>1, <2>2, FlagType DEF BaseInv
  <2> QED BY <2>1, <2>3 DEF BaseInv
<1>4. ASSUME NEW p \in Live, NEW size \in Requests, ExtendHeap(p, size) PROVE BaseInv'
  BY <1>4, ExtendType
<1>5. ASSUME NEW p \in Live, NEW new_break \in Breaks, MoveBreak(p, new_break) PROVE BaseInv'
  BY <1>5, MoveType
<1>6. ASSUME NEW p \in Live, Free(p) PROVE BaseInv'
  <2>1. PICK i \in DOMAIN tasks[p].blocks :
          /\ tasks' = [tasks EXCEPT ![p].blocks[i].is_free = TRUE]
          /\ UNCHANGED <<mmu, user_phys_memory, next_task_id, shared_libc, held, strayed, spilled>>
    BY <1>6 DEF Free
  <2>2. p \in DOMAIN tasks /\ TRUE \in BOOLEAN
    BY DEF Live
  <2>3. /\ tasks' \in Seq(Program) /\ Len(tasks') = Len(tasks)
        /\ DOMAIN tasks' = DOMAIN tasks
    BY <2>1, <2>2, FlagType DEF BaseInv
  <2> QED BY <2>1, <2>3 DEF BaseInv
<1>7. ASSUME NEW p \in Live, Kill(p) PROVE BaseInv'
  <2>1. /\ held' \subseteq held /\ tasks' = [tasks EXCEPT ![p] = NoTask]
        /\ strayed' = strayed \ {p}
        /\ UNCHANGED <<mmu, user_phys_memory, next_task_id, shared_libc, spilled>>
    BY <1>7 DEF Kill, FreeImage
  <2>2. /\ tasks' \in Seq(Program) /\ Len(tasks') = Len(tasks)
        /\ DOMAIN tasks' = DOMAIN tasks
    BY <2>1, NoTaskType, TaskReplaced DEF BaseInv, Live
  <2> QED BY <2>1, <2>2 DEF BaseInv
<1> QED BY <1>1, <1>2, <1>3, <1>4, <1>5, <1>6, <1>7 DEF Next

LEMMA BaseInvariant == Spec => []BaseInv
<1>1. Init => BaseInv
  <2> SUFFICES ASSUME Init PROVE BaseInv
    OBVIOUS
  <2>1. /\ MmuType(mmu) /\ next_task_id \in 0..MaxDirs /\ user_phys_memory \in Nat
        /\ shared_libc \in [phys : Nat, size : {0, LibcSize}]
        /\ tasks \in Seq(Program) /\ Len(tasks) <= MaxTasks
    BY InitMem DEF MemInv, DirsInv, HeapMaps, LibcInv, TasksInv
  <2> QED BY <2>1 DEF Init, BaseInv
<1>2. BaseInv /\ [Next]_vars => BaseInv'
  BY BaseStep
<1> QED BY <1>1, <1>2, PTL DEF Spec

-----------------------------------------------------------------------------
(* What the invariant says of the programs.                                *)

LEMMA SettledFact == \A p \in Settled : p \in Own /\ p \in Placed /\ p \in Live
  BY DEF Settled, Own, Placed

\* A page whose first word is in a region's words is a page of the region.
LEMMA WordsPages ==
  ASSUME NEW x \in Nat, NEW r \in 0..5, x * PageSize \in RegionWords(r)
  PROVE  x \in RegionOf(r)
<1>1. PICK a, b \in Nat : a = FirstPage(r) /\ b = FirstPage(r + 1)
  BY RegionNumbers
<1>2. PICK w \in Nat : w = x * PageSize /\ Page(w) = x
  BY BoundaryFact
<1>3. a * PageSize \in Nat /\ b * PageSize \in Nat
  BY BoundaryFact
<1>4. a * PageSize <= w /\ w < b * PageSize
  BY <1>1, <1>2, <1>3 DEF RegionWords, FirstWord
<1>5. a <= x /\ x < b
  BY <1>2, <1>4, PageBounds
<1> QED BY <1>1, <1>5 DEF RegionOf

\* The frames of an image lie in the block that holds it.
LEMMA ImageFrame ==
  ASSUME MemInv, NEW p \in Settled, NEW b \in held, ImageIn(p, b),
         NEW v \in RegionOf(ImageRegion), Frame(p, v) # NoFrame
  PROVE  /\ Frame(p, v) \in RegionOf(KernelHeapRegion)
         /\ Frame(p, v) * PageSize \in Extent(b)
<1>1. p \in Own /\ p \in Live /\ b \in AnyBlock
  BY SettledFact, HeldFact
<1>2. PICK first \in Nat : first = FirstPage(ImageRegion)
  BY RegionNumbers
<1>3. PICK f \in Files : f = tasks[p].file
  BY <1>1 DEF MemInv, TasksInv
<1>4. PICK size \in Nat : size = MemSize[f] /\ size <= ImageSize
  BY Sizes
<1>5. PICK count \in Nat : count = PagesUp(size)
  BY PagesUpFact
<1>6. PICK app \in Nat : app = tasks[p].app_base /\ app = AppMemory(b.at)
  BY <1>1, BlockWords DEF ImageIn
<1>7. PICK base \in Nat : base = Page(app) /\ base * PageSize = app
  <2>1. b.at \in Nat
    BY <1>1, BlockWords
  <2> QED BY <1>6, <2>1, AppMemoryFact
<1>8. Frame(p, v) = IF v < first + count THEN base + (v - first) ELSE NoFrame
  BY <1>1, <1>2, <1>3, <1>4, <1>5, <1>6, <1>7 DEF MemInv, ImageMaps, Mapped
<1>9. v < first + count /\ Frame(p, v) = base + (v - first)
  BY <1>8
<1>10. PICK i \in Nat : i = v - first /\ i < count
  <2>1. FirstPage(ImageRegion + 1) \in Nat
    BY RegionNumbers
  <2>2. v \in Int /\ first <= v
    BY <1>2, <2>1 DEF RegionOf
  <2> QED BY <1>2, <1>5, <1>9, <2>2
<1>11. PICK k \in Nat : k = i * PageSize
  BY BoundaryFact
<1>12. k < size
  <2>1. ~(size <= k)
    BY <1>5, <1>10, <1>11, PageBounds
  <2> QED BY <2>1
<1>13. k \in 0..ImageSize - 1
  BY <1>4, <1>12, Sizes
<1>14. app + k \in Extent(b)
  BY <1>1, <1>6, <1>13, BlockWords
<1>15. PICK x \in Nat : x = base + i /\ x * PageSize = app + k
  <2>1. PageSize \in Nat
    BY Sizes
  <2>2. (base + i) * PageSize = base * PageSize + i * PageSize
    BY <2>1, SMTT(30)
  <2> QED BY <1>7, <1>11, <2>2
<1>16. Frame(p, v) = x
  BY <1>9, <1>10, <1>15
<1>17. x * PageSize \in RegionWords(KernelHeapRegion)
  BY <1>14, <1>15, HeldFact
<1>18. x \in RegionOf(KernelHeapRegion)
  BY <1>17, WordsPages DEF KernelHeapRegion
<1> QED BY <1>14, <1>15, <1>16, <1>18

LEMMA FramesApart ==
  ASSUME MemInv, NEW p \in Settled, NEW q \in Settled, p # q
  PROVE  Frames(p) \cap Frames(q) = {}
<1> SUFFICES ASSUME NEW x, x \in Frames(p), x \in Frames(q) PROVE FALSE
  OBVIOUS
<1>1. PICK u \in RegionOf(HeapRegion) \cup RegionOf(ImageRegion) : x = Frame(p, u)
  BY DEF Frames, Frame
<1>2. PICK v \in RegionOf(HeapRegion) \cup RegionOf(ImageRegion) : x = Frame(q, v)
  BY DEF Frames, Frame
<1>3. x # NoFrame
  BY DEF Frames
<1>4. /\ p \in Own /\ p \in Placed /\ p \in Live
      /\ q \in Own /\ q \in Placed /\ q \in Live
  BY SettledFact
<1>5. PICK a \in held : ImageIn(p, a)
  BY <1>4 DEF MemInv, ImagesInv
<1>6. PICK b \in held : ImageIn(q, b)
  BY <1>4 DEF MemInv, ImagesInv
<1>7. /\ u \in RegionOf(ImageRegion) => /\ x \in RegionOf(KernelHeapRegion)
                                        /\ x * PageSize \in Extent(a)
      /\ v \in RegionOf(ImageRegion) => /\ x \in RegionOf(KernelHeapRegion)
                                        /\ x * PageSize \in Extent(b)
  BY <1>1, <1>2, <1>3, <1>5, <1>6, ImageFrame
<1>8. /\ u \in RegionOf(HeapRegion) => x \in FirstPage(ImageRegion)..user_phys_memory - 1
      /\ v \in RegionOf(HeapRegion) => x \in FirstPage(ImageRegion)..user_phys_memory - 1
  <2>1. \A o \in Own : \A y \in RegionOf(HeapRegion) :
          Frame(o, y) # NoFrame => Frame(o, y) \in FirstPage(ImageRegion)..user_phys_memory - 1
    BY DEF MemInv, HeapMaps
  <2> QED BY <1>1, <1>2, <1>3, <1>4, <2>1
<1>9. \A y \in RegionOf(KernelHeapRegion) : y \notin FirstPage(ImageRegion)..user_phys_memory - 1
  <2>1. user_phys_memory \in Nat
    BY DEF MemInv, HeapMaps
  <2>2. FirstPage(KernelHeapRegion + 1) <= FirstPage(ImageRegion)
        /\ FirstPage(KernelHeapRegion + 1) \in Nat /\ FirstPage(KernelHeapRegion) \in Nat
        /\ FirstPage(ImageRegion) \in Nat
    BY RegionNumbers, Sizes
  <2> QED BY <2>1, <2>2 DEF RegionOf
<1>10. CASE u \in RegionOf(ImageRegion) /\ v \in RegionOf(ImageRegion)
  <2>1. a # b
    BY <1>4, <1>5, <1>6 DEF ImageIn, MemInv, ImagesInv
  <2>2. Extent(a) \cap Extent(b) = {}
    BY <2>1 DEF MemInv, BlocksInv
  <2> QED BY <1>7, <1>10, <2>2
<1>11. CASE u \in RegionOf(HeapRegion) /\ v \in RegionOf(HeapRegion)
  <2>1. \A s, t \in Own : \A w, y \in RegionOf(HeapRegion) :
          Frame(s, w) # NoFrame /\ Frame(s, w) = Frame(t, y) => s = t /\ w = y
    BY DEF MemInv, HeapMaps
  <2>2. Frame(p, u) # NoFrame /\ Frame(p, u) = Frame(q, v)
    BY <1>1, <1>2, <1>3
  <2>3. p = q
    BY ONLY <1>4, <1>11, <2>1, <2>2
  <2> QED BY <2>3
<1> QED BY <1>7, <1>8, <1>9, <1>10, <1>11

\* The words of a libc block, and the pages of all of p's.
Words(p, i) ==
  tasks[p].blocks[i].at - UserHeader..tasks[p].blocks[i].at + tasks[p].blocks[i].size - 1
HeldPages(p) == {Page(w) : w \in UNION {Words(p, i) : i \in DOMAIN tasks[p].blocks}}

LEMMA BlocksBacked ==
  ASSUME MemInv, NEW p \in Settled \ strayed, NEW blocks, blocks = tasks[p].blocks,
         NEW pages, pages = HeldPages(p)
  PROVE  /\ \A v \in pages : Frame(p, v) \in FirstPage(ImageRegion)..user_phys_memory - 1
         /\ \A u, v \in pages : u # v => Frame(p, u) # Frame(p, v)
         /\ \A i, j \in DOMAIN blocks : i # j => Words(p, i) \cap Words(p, j) = {}
<1>1. p \in Own /\ p \in Live
  BY SettledFact
<1>2. tasks[p] \in Program
  <2>1. tasks \in Seq(Program) /\ p \in DOMAIN tasks
    BY <1>1 DEF MemInv, TasksInv, Live
  <2> QED BY <2>1, LenProperties, ElementOfSeq
<1>3. PICK end \in Nat : end = tasks[p].v_heap_end
  BY <1>2 DEF Program
<1>4. blocks \in Seq(Block)
  BY <1>2 DEF Program
<1>5. DOMAIN blocks = 1..Len(blocks) /\ Len(blocks) \in Nat
  BY <1>4, LenProperties
<1>6. \A i \in DOMAIN blocks : blocks[i].at \in Nat /\ blocks[i].size \in Nat
  <2>1. \A i \in DOMAIN blocks : blocks[i] \in Block
    BY <1>4, <1>5, ElementOfSeq
  <2> QED BY <2>1 DEF Block
<1>7. InOrder(blocks, end)
  BY <1>1, <1>3 DEF MemInv, TasksInv
<1>8. UserHeader \in Nat /\ BreakStart \in Nat /\ end \in BreakStart..HeapEnd
  BY <1>7, Sizes, BreakFact DEF InOrder
<1>9. ASSUME NEW v \in pages PROVE v \in HeapPages(p) /\ v \in RegionOf(HeapRegion)
  <2>1. PICK i \in DOMAIN blocks : \E w \in Words(p, i) : v = Page(w)
    BY DEF HeldPages
  <2>2. PICK w \in Words(p, i) : v = Page(w)
    BY <2>1
  <2>3. BreakStart <= blocks[i].at - UserHeader /\ blocks[i].at + blocks[i].size <= end
    BY <1>7 DEF InOrder
  <2>4. w \in blocks[i].at - UserHeader..blocks[i].at + blocks[i].size - 1
    BY DEF Words
  <2>5. w \in Nat /\ BreakStart <= w /\ w < end
    BY <1>6, <1>8, <2>3, <2>4
  <2>6. PICK n \in Nat : n = FirstPage(HeapRegion) + 1 /\ n * PageSize = BreakStart
    BY RegionNumbers DEF BreakStart
  <2>7. n <= Page(w)
    BY <2>5, <2>6, PageBounds
  <2>8. Page(w) < PagesUp(end) /\ Page(w) \in Nat
    BY <1>8, <2>5, PagesOrdered, PageFact
  <2>9. /\ PagesUp(end) \in FirstPage(HeapRegion) + 1..FirstPage(KernelHeapRegion)
        /\ FirstPage(HeapRegion) \in Nat /\ FirstPage(KernelHeapRegion) \in Nat
        /\ FirstPage(HeapRegion + 1) = FirstPage(KernelHeapRegion)
    BY <1>8, BreakFact, RegionNumbers
  <2>10. v \in HeapPages(p)
    BY <1>3, <2>2, <2>6, <2>7, <2>8, <2>9 DEF HeapPages
  <2>11. v \in RegionOf(HeapRegion)
    BY <2>2, <2>6, <2>7, <2>8, <2>9 DEF RegionOf
  <2> QED BY <2>10, <2>11
<1>11. \A v \in pages : Frame(p, v) # NoFrame
  BY <1>1, <1>9 DEF MemInv, HeapMaps
<1>10. \A v \in pages : Frame(p, v) \in FirstPage(ImageRegion)..user_phys_memory - 1
  BY <1>1, <1>9, <1>11 DEF MemInv, HeapMaps
<1>12. \A u, v \in pages : u # v => Frame(p, u) # Frame(p, v)
  BY <1>1, <1>9, <1>11 DEF MemInv, HeapMaps
<1>13. ASSUME NEW i \in DOMAIN blocks, NEW j \in DOMAIN blocks, i < j
       PROVE  Words(p, i) \cap Words(p, j) = {}
  <2>1. blocks[i].at + blocks[i].size <= blocks[j].at - UserHeader
    BY <1>7, <1>13 DEF InOrder
  <2>2. PICK a, size \in Nat : a = blocks[i].at /\ size = blocks[i].size
    BY <1>6
  <2>3. PICK b, length \in Nat : b = blocks[j].at /\ length = blocks[j].size
    BY <1>6
  <2>4. PICK h \in Nat : h = UserHeader
    BY <1>8
  <2>5. a + size <= b - h
    BY <2>1, <2>2, <2>3, <2>4
  <2>6. Words(p, i) = a - h..a + size - 1 /\ Words(p, j) = b - h..b + length - 1
    BY <2>2, <2>3, <2>4 DEF Words
  <2> QED BY <2>5, <2>6
<1>14. \A i, j \in DOMAIN blocks : i # j => i < j \/ j < i
  BY <1>5
<1>15. \A i, j \in DOMAIN blocks : i # j => Words(p, i) \cap Words(p, j) = {}
  BY <1>13, <1>14
<1> QED BY <1>10, <1>12, <1>15

LEMMA BlocksHaveOwners == MemInv => ImagesReturned
<1> SUFFICES ASSUME MemInv, ~spilled PROVE ImagesReturned
  BY DEF ImagesReturned
<1>1. held \subseteq AnyBlock /\ 0 \in 0..ImageSize - 1
  BY HeldFact, Sizes
<1>2. \A b \in held : \A k \in 1..HeaderWords : ram[b.at - k] = <<"header", Room>>
  BY DEF MemInv, BlocksInv
<1>3. ASSUME NEW b \in held
      PROVE  \/ \E p \in Live : tasks[p].app_base \in Extent(b)
             \/ shared_libc.phys \in Extent(b)
  <2>1. PICK app \in Nat, up \in Nat : app = AppMemory(b.at) /\ up = PagesUp(b.at) * PageSize
    BY <1>1, BlockWords
  <2>2. app + 0 \in Extent(b) /\ up + 0 \in Extent(b)
    BY <1>1, <2>1, BlockWords
  <2>3. app \in Extent(b) /\ up \in Extent(b)
    BY <2>2
  <2> QED BY <2>1, <2>3 DEF MemInv, BlocksInv, Placed
<1>4. ASSUME NEW p \in Settled
      PROVE  \E b \in held : tasks[p].app_base - 1..tasks[p].app_base + ImageSize - 1
                               \subseteq b.at..b.at + b.size - 1
  <2>1. PICK b \in held : ImageIn(p, b)
    BY SettledFact DEF MemInv, ImagesInv
  <2>2. PICK app \in Nat : app = AppMemory(b.at) /\ app = tasks[p].app_base
    BY <1>1, <2>1, BlockWords DEF ImageIn
  <2>3. PICK n \in Nat : n = ImageSize
    BY Sizes
  <2>4. /\ app - 1 \in b.at..b.at + b.size - 1
        /\ \A k \in 0..n - 1 : app + k \in b.at..b.at + b.size - 1
    BY <1>1, <2>2, <2>3, BlockWords
  <2>5. ASSUME NEW w \in app - 1..app + n - 1 PROVE w \in b.at..b.at + b.size - 1
    <3>1. CASE w = app - 1
      BY <2>4, <3>1
    <3>2. CASE w # app - 1
      <4>1. w - app \in 0..n - 1 /\ app + (w - app) = w
        BY <3>2
      <4> QED BY <2>4, <4>1
    <3> QED BY <3>1, <3>2
  <2> QED BY <2>2, <2>3, <2>5
<1> QED BY <1>2, <1>3, <1>4 DEF ImagesReturned

\* The words of a region from its first page on.
LEMMA RegionWord ==
  ASSUME NEW r \in {ImageRegion, LibcRegion}, NEW k \in 0..ImageSize - 1
  PROVE  /\ Page(FirstPage(r) * PageSize + k) = FirstPage(r) + Page(k)
         /\ (FirstPage(r) * PageSize + k) % PageSize = k % PageSize
         /\ FirstPage(r) + Page(k) \in RegionOf(r)
<1>1. PICK n \in Nat \ {0} : n = PageSize
  BY Sizes
<1>2. PICK first \in Nat : /\ first = FirstPage(r)
                           /\ FirstPage(r + 1) = first + RegionPages
  <2>1. r \in Regions
    BY DEF Regions, KernelRegion, ImageRegion, LibcRegion
  <2> QED BY <2>1, RegionFact
<1>3. k \in Nat /\ k < ImageSize /\ ImageSize \in Nat /\ RegionPages \in Nat
  BY Sizes
<1>4. PICK q \in Nat : q = Page(k) /\ q * n <= k /\ k < q * n + n /\ k % n = k - q * n
                       /\ q * n \in Nat
  BY <1>1, <1>3, PageFact
<1>5. PICK x \in Nat : x = first * n /\ x + k \in Nat
  BY <1>1, <1>3, SMTT(30)
<1>6. (first + q) * n = x + q * n
  BY <1>1, <1>4, <1>5, SMTT(30)
<1>7. (x + k) \div n = first + q /\ (x + k) % n = x + k - (first + q) * n
  <2>1. PICK w, y \in Nat : w = x + k /\ y = first + q
    BY <1>3, <1>5
  <2>2. y * n <= w /\ w < y * n + n
    BY <1>3, <1>4, <1>5, <1>6, <2>1
  <2>3. w \div n = y /\ w % n = w - y * n
    BY <2>2, DivideUnique
  <2> QED BY <2>1, <2>3
<1>8. q < RegionPages
  <2>1. RegionPages * PageSize \in Nat /\ ImageSize <= RegionPages * PageSize
    BY <1>3, BoundaryFact, SizesAssumption
  <2>2. k < RegionPages * PageSize
    BY <1>3, <2>1
  <2> QED BY <1>3, <1>4, <2>2, PageBounds
<1>9. first + q \in RegionOf(r)
  BY <1>2, <1>3, <1>8 DEF RegionOf
<1>10. x + k - (first + q) * n = k - q * n
  BY <1>3, <1>4, <1>5, <1>6
<1> QED BY <1>1, <1>2, <1>4, <1>5, <1>7, <1>9, <1>10 DEF Page

\* Where a region is mapped to frames in a row, its words are those behind
\* the first frame.
LEMMA WordSeen ==
  ASSUME MemInv, NEW p \in Own, NEW r \in {ImageRegion, LibcRegion},
         NEW size \in 0..ImageSize, NEW at \in Nat,
         Page(at) * PageSize = at,
         Mapped(p, r, PagesUp(size), Page(at)), NEW k \in 0..size - 1, NEW x,
         ram[at + k] = x
  PROVE  Sees(p, FirstPage(r) * PageSize + k, x)
<1>1. PICK n \in Nat \ {0} : n = PageSize
  BY Sizes
<1>2. PICK first \in Nat : first = FirstPage(r)
  BY RegionNumbers DEF ImageRegion, LibcRegion
<1>3. k \in Nat /\ k < size /\ size \in Nat /\ k \in 0..ImageSize - 1
  BY Sizes
<1>4. PICK q \in Nat : q = Page(k) /\ q * n <= k /\ q * n \in Nat /\ k % n = k - q * n
  BY <1>1, <1>3, PageFact
<1>5. PICK base \in Nat : base = Page(at) /\ base * n = at
  BY <1>1, PageFact
<1>6. PICK v : v = first + q
  OBVIOUS
<1>7. /\ Page(FirstPage(r) * PageSize + k) = v
      /\ (FirstPage(r) * PageSize + k) % PageSize = k % n
      /\ v \in RegionOf(r)
  BY <1>1, <1>2, <1>3, <1>4, <1>6, RegionWord
<1>8. PICK count \in Nat : count = PagesUp(size) /\ q < count
  BY <1>3, <1>4, PagesUpFact, PagesOrdered
<1>9. Frame(p, v) = base + (v - first)
  <2>1. v < first + count
    BY <1>6, <1>8
  <2> QED BY <1>2, <1>5, <1>7, <1>8, <2>1 DEF Mapped
<1>10. Frame(p, v) = base + q
  BY <1>6, <1>9
<1>11. (base + q) * n = at + q * n
  BY <1>1, <1>4, <1>5, SMTT(30)
<1>12. (base + q) * PageSize + (k % n) = at + k
  BY <1>1, <1>3, <1>4, <1>11
<1>13. Translate(mmu, tasks[p].cr3, Page(FirstPage(r) * PageSize + k)) = base + q
  BY <1>7, <1>10 DEF Frame
<1>14. base + q # NoFrame
  BY DEF NoFrame
<1> QED BY <1>7, <1>12, <1>13, <1>14 DEF Sees

LEMMA ProgramsSeen == MemInv => ImageIntact
<1> SUFFICES ASSUME MemInv, NEW p \in Settled PROVE SeesImage(p) /\ SeesLibrary(p)
  BY DEF ImageIntact
<1>1. p \in Own /\ p \in Placed /\ p \in Live
  BY SettledFact
<1>2. SeesImage(p)
  <2>1. PICK f \in Files : f = tasks[p].file
    BY <1>1 DEF MemInv, TasksInv
  <2>2. PICK size \in 0..ImageSize : size = MemSize[f]
    BY Sizes
  <2>3. PICK b \in held : ImageIn(p, b)
    BY <1>1 DEF MemInv, ImagesInv
  <2>4. PICK app \in Nat : app = tasks[p].app_base /\ Page(app) * PageSize = app
    <3>1. b \in AnyBlock /\ b.at \in Nat
      BY HeldFact, BlockWords
    <3> QED BY <2>3, <3>1, AppMemoryFact DEF ImageIn
  <2>5. Mapped(p, ImageRegion, PagesUp(size), Page(app))
    BY <1>1, <2>1, <2>2, <2>4 DEF MemInv, ImageMaps
  <2>6. \A k \in 0..size - 1 : ram[app + k] = Image(f)[k]
    <3>1. \A k \in 0..size - 1 : k \in 0..ImageSize - 1
      BY Sizes
    <3> QED BY <2>1, <2>3, <2>4, <3>1 DEF ImageIn
  <2>7. ASSUME NEW k \in 0..size - 1
        PROVE  Sees(p, FirstPage(ImageRegion) * PageSize + k, Image(f)[k])
    BY <1>1, <2>4, <2>5, <2>6, WordSeen
  <2> QED BY <2>1, <2>2, <2>7 DEF SeesImage
<1>3. SeesLibrary(p)
  <2>1. PICK frame : frame = Translate(mmu, tasks[p].cr3, FirstPage(LibcRegion))
    OBVIOUS
  <2>2. PICK first \in Nat : first = FirstPage(LibcRegion) /\ first \in RegionOf(LibcRegion)
    BY RegionNumbers, Sizes DEF RegionOf
  <2>3. frame = Frame(p, first)
    BY <2>1, <2>2 DEF Frame
  <2> SUFFICES ASSUME frame \in RegionOf(KernelHeapRegion)
               PROVE  /\ frame = Page(shared_libc.phys)
                      /\ \A k \in 0..LibcSize - 1 :
                           Sees(p, FirstPage(LibcRegion) * PageSize + k, Libc[k])
    BY <2>1 DEF SeesLibrary
  <2>4. frame \in Nat /\ frame > 0 /\ frame # NoFrame
    <3>1. FirstPage(KernelHeapRegion) \in Nat \ {0} /\ FirstPage(KernelHeapRegion + 1) \in Nat
      BY RegionNumbers, Sizes
    <3> QED BY <3>1 DEF RegionOf, NoFrame
  <2>5. \A count, at : Mapped(p, LibcRegion, count, at) =>
          frame = IF first < first + count THEN at + (first - first) ELSE NoFrame
    BY <2>2, <2>3 DEF Mapped
  <2>6. /\ shared_libc.phys # 0
        /\ Mapped(p, LibcRegion, PagesUp(LibcSize), Page(shared_libc.phys))
    <3>1. ~Mapped(p, LibcRegion, 0, 0)
      BY <2>4, <2>5
    <3>2. ~Mapped(p, LibcRegion, PagesUp(LibcSize), 0)
      BY <2>4, <2>5
    <3> QED BY <1>1, <3>1, <3>2 DEF MemInv, LibcMaps
  <2>7. PICK b \in held : LibcIn(b)
    BY <2>6 DEF MemInv, LibcInv
  <2>8. PICK phys \in Nat : /\ phys = shared_libc.phys
                            /\ Page(phys) * PageSize = phys /\ Page(phys) \in Nat
    <3>1. b \in AnyBlock /\ b.at \in Nat
      BY HeldFact, BlockWords
    <3>2. PICK up \in Nat : up = PagesUp(b.at)
      BY <3>1, PagesUpFact
    <3>3. shared_libc.phys = up * PageSize
      BY <2>7, <3>2 DEF LibcIn
    <3> QED BY <3>3, BoundaryFact
  <2>9. frame = Page(phys)
    BY <2>2, <2>4, <2>5, <2>6, <2>8
  <2>10. PICK size \in 0..ImageSize : size = LibcSize
    BY Sizes
  <2>11. ASSUME NEW k \in 0..size - 1
         PROVE  Sees(p, FirstPage(LibcRegion) * PageSize + k, Libc[k])
    <3>1. ram[phys + k] = Libc[k]
      BY <2>7, <2>8, <2>10 DEF LibcIn
    <3> QED BY <1>1, <2>6, <2>8, <2>10, <3>1, WordSeen
  <2> QED BY <2>8, <2>9, <2>10, <2>11
<1> QED BY <1>2, <1>3

-----------------------------------------------------------------------------
(* Theorems.                                                               *)

\* Types of the programs' memory, whatever the sizes and however programs move
\* their breaks: directories lead to tables that exist, tables to frames, and
\* the DMA page of a table is handed out once (memory.c).
THEOREM MemoryTypeCorrect == Spec => []TypeOK
<1>1. BaseInv => TypeOK
  BY BaseTyped
<1> QED BY <1>1, BaseInvariant, PTL

\* Programs with directories of their own never share a frame of image or
\* heap, however they move their breaks, until sbrk maps a page outside the
\* heap's region (memory.c, map_vaddr_to_paddr and alloc_user_page).
THEOREM HeapsIsolated == Spec => []Isolated
<1>1. spilled \/ MemInv => Isolated
  BY FramesApart DEF Isolated
<1> QED BY <1>1, MemInvariant, PTL

\* Every word of a libc block has a frame of the program's own behind it, and
\* blocks do not overlap, as long as the program's break was neither lowered
\* nor carried out of the heap's region, and no heap spilled out of that region
\* (libc.c's malloc over sys_sbrk).
THEOREM HeapIsBacked == Spec => []HeapBacked
<1>1. spilled \/ MemInv => HeapBacked
  <2>1. CASE spilled
    BY <2>1 DEF HeapBacked
  <2>2. CASE MemInv
    BY <2>2, BlocksBacked DEF HeapBacked, Frame, Words, HeldPages
  <2> QED BY <2>1, <2>2
<1> QED BY <1>1, MemInvariant, PTL

\* The reaper gives back the image of every program it kills, and only that
\* (task.c, kill_task_by_id), until a heap spills.
THEOREM ImagesGivenBack == Spec => []ImagesReturned
<1>1. spilled \/ MemInv => ImagesReturned
  BY BlocksHaveOwners DEF ImagesReturned
<1> QED BY <1>1, MemInvariant, PTL

\* A program reads its own file and the library as long as it lives
\* (kernel.c, api_exec_app and load_elf_segments), until a heap spills.
THEOREM ProgramsStayIntact == Spec => []ImageIntact
<1>1. spilled \/ MemInv => ImageIntact
  BY ProgramsSeen DEF ImageIntact
<1> QED BY <1>1, MemInvariant, PTL

\* A page that a live program has mapped keeps its frame: an image's always, a
\* heap's until the program's break went astray (sys_sbrk maps behind the old
\* break); until a heap spills.
THEOREM MappingsNeverMove == Spec => MappingsStable
<1> DEFINE Stable ==
      spilled' \/ \A p \in Settled : tasks'[p].alive =>
        \A v \in RegionOf(ImageRegion)
                   \cup (IF p \in strayed THEN {} ELSE RegionOf(HeapRegion)) :
          Translate(mmu, tasks[p].cr3, v) # NoFrame =>
            Translate(mmu', tasks[p].cr3, v) = Translate(mmu, tasks[p].cr3, v)
<1>1. ASSUME MemInv, [Next]_vars, ~spilled' PROVE Stable
  <2>1. Kept
    BY <1>1, StepMem
  <2>2. HeapRegion \in UserRegions /\ ImageRegion \in UserRegions /\ HeapRegion # ImageRegion
    BY DEF UserRegions, HeapRegion, ImageRegion
  <2> QED BY <2>1, <2>2, SettledFact DEF Kept, Frame
<1>2. (spilled \/ MemInv) /\ [Next]_vars => [Stable]_vars
  BY <1>1, SpillStays
<1> QED BY <1>2, MemInvariant, PTL DEF Spec, MappingsStable
=============================================================================
