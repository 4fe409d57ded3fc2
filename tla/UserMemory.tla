----------------------------- MODULE UserMemory -----------------------------
(***************************************************************************)
(* The memory of programs: page directories and tables (memory.c, task.c), *)
(* the image api_exec_app allocates and load_elf_segments fills, the       *)
(* shared library, the break of sys_sbrk and the blocks libc carves from   *)
(* it.                                                                     *)
(*                                                                         *)
(* Addresses are counted in words, pages hold PageSize of them and a page  *)
(* table maps RegionPages pages (4096 bytes and 1024 pages in the code).   *)
(* Each region of virtual memory that matters is one table wide: the       *)
(* kernel, the programs' heap (4 MB), the kernel heap (8 MB), DMA and the  *)
(* window structure (12 MB), the programs' image (0x2000000, sdk/app.ld)   *)
(* and the library (0x60000000).  The frame buffer's tables are left out:  *)
(* nothing maps over them.                                                 *)
(*                                                                         *)
(* The kernel heap is taken by its contract, which KernelHeap checks: a    *)
(* free place of the size asked for, or 0 when there is none.              *)
(*                                                                         *)
(* sys_sbrk checks neither the sign nor the size of an increment.  What it *)
(* then does to the page tables is modelled; strayed and spilled remember  *)
(* which program's heap, and whether the kernel's own tables, are no       *)
(* longer what they should be.                                             *)
(***************************************************************************)
EXTENDS Integers, Sequences, FiniteSets

CONSTANTS
  PageSize,     \* words in a page
  RegionPages,  \* pages in a page table
  HeaderWords,  \* words of a kernel heap block header
  ImageSize,    \* words of an application's image (65536 bytes)
  MaxDirs,      \* length of task_page_dirs
  Files,        \* the programs on disk
  FileSize,     \* p_filesz of a program's PT_LOAD segment, in words
  MemSize,      \* p_memsz of that segment
  NeedsLibc,    \* the programs with a DT_NEEDED entry
  LibcSize,     \* words of LIBC.SO, 0 when it is not on the disk
  UserHeader,   \* words of a libc block header (12 bytes)
  Requests,     \* the sizes programs ask malloc for, rounded up to words
  Breaks,       \* where programs put their break themselves, by sbrk
  HeapSpots,    \* bound: where kernel heap blocks of programs may lie
  MaxTasks,     \* bound: programs launched
  MaxBlocks,    \* bound: libc blocks of one program
  MaxFrames     \* bound: frames of alloc_user_page

ASSUME SizesAssumption ==
  /\ {PageSize, RegionPages, HeaderWords, ImageSize, UserHeader, MaxDirs}
        \subseteq Nat \ {0}
  /\ RegionPages >= 2 /\ HeapSpots \subseteq Nat
  /\ Requests \subseteq Nat /\ Breaks \subseteq Nat
  /\ {MaxTasks, MaxBlocks, MaxFrames} \subseteq Nat
  /\ ImageSize % PageSize = 0
  /\ ImageSize <= RegionPages * PageSize /\ LibcSize \in 0..ImageSize

\* The programs are those the Makefile puts on the disk, as sdk/app.ld links
\* them: one PT_LOAD segment, at 0x2000000, that fits in an image.
ASSUME LinkedAssumption ==
  \A f \in Files : FileSize[f] \in 0..MemSize[f] /\ MemSize[f] \in 0..ImageSize

VARIABLES
  mmu,              \* directories, page tables and dma_memory_pointer
  next_task_id,     \* entries of task_page_dirs handed out
  user_phys_memory, \* next frame of alloc_user_page
  shared_libc,      \* shared_libc_phys and shared_libc_size
  held,             \* kernel heap blocks that are not free
  ram,              \* contents of low memory and of the kernel heap
  tasks,            \* the programs launched so far
  strayed,          \* history: programs whose break was lowered or left the
                    \* heap's region
  spilled           \* history: sbrk mapped a page outside the heap's region

vars == <<mmu, next_task_id, user_phys_memory, shared_libc, held, ram, tasks,
          strayed, spilled>>

-----------------------------------------------------------------------------
(* Regions, pages and frames *)

KernelRegion == 0
HeapRegion == 1        \* 0x400000: programs' heaps
KernelHeapRegion == 2  \* 0x800000
DmaRegion == 3         \* 0xC00000
ImageRegion == 4       \* 0x2000000
LibcRegion == 5        \* 0x60000000
Regions == KernelRegion..LibcRegion

KernelDir == 0         \* page_directory; 1..MaxDirs is task_page_dirs
NoTable == 0
NoFrame == -1

Page(word) == word \div PageSize
PagesUp(word) == (word + PageSize - 1) \div PageSize
FirstPage(region) == region * RegionPages
FirstWord(region) == FirstPage(region) * PageSize
RegionWords(region) == FirstWord(region)..FirstWord(region + 1) - 1
RegionOf(region) == FirstPage(region)..FirstPage(region + 1) - 1

\* 2^32: the regions between those modelled are left out.
Pages == FirstPage(LibcRegion + 1)
Space == FirstWord(LibcRegion + 1)

\* first_page_table, heap_page_table and dma_page_table map each page to
\* itself; the table of a kernel region is numbered by its region.
KernelRegions == {KernelRegion, KernelHeapRegion, DmaRegion}
KernelTable(region) == region + 1

page_directory ==
  [r \in Regions |-> IF r \in KernelRegions THEN KernelTable(r) ELSE NoTable]

KernelTables ==
  [t \in {KernelTable(r) : r \in KernelRegions} |->
     [i \in 0..RegionPages - 1 |-> FirstPage(t - 1) + i]]

\* The frame behind page v in directory d.
Translate(m, d, v) ==
  LET t == m.directory[d][v \div RegionPages]
  IN  IF t = NoTable THEN NoFrame ELSE m.table[t][v % RegionPages]

\* alloc_page_aligned: a table is known by the DMA page it lies in.
WithTable(m, d, r) ==
  IF m.directory[d][r] # NoTable THEN m
  ELSE LET pt == m.dma_memory_pointer
       IN  [directory |-> [m.directory EXCEPT ![d][r] = pt],
            table |-> [t \in DOMAIN m.table \cup {pt} |->
                         IF t = pt THEN [i \in 0..RegionPages - 1 |-> NoFrame]
                         ELSE m.table[t]],
            dma_memory_pointer |-> pt + 1]

\* map_vaddr_to_paddr for count pages from the page first, all of one region,
\* to frames in a row.
MapPages(m, d, first, count, frame) ==
  IF count = 0 THEN m
  ELSE LET r == first \div RegionPages
           n == WithTable(m, d, r)
           t == n.directory[d][r]
       IN  [n EXCEPT !.table[t] =
              [i \in 0..RegionPages - 1 |->
                 IF FirstPage(r) + i \in first..first + count - 1
                 THEN frame + FirstPage(r) + i - first
                 ELSE n.table[t][i]]]

Cut(page, region) ==
  IF page < FirstPage(region) THEN FirstPage(region)
  ELSE IF page > FirstPage(region + 1) THEN FirstPage(region + 1) ELSE page

\* The same from page first up to page end, whatever regions they are in.
MapSpan(m, d, first, end, frame) ==
  LET Part(n, r) ==
        MapPages(n, d, Cut(first, r), Cut(end, r) - Cut(first, r),
                 frame + Cut(first, r) - first)
  IN  Part(Part(Part(Part(Part(Part(m, 0), 1), 2), 3), 4), 5)

-----------------------------------------------------------------------------
(* The kernel heap by its contract *)

Room == ImageSize + PageSize   \* malloc(65536 + 4096), for images and LIBC.SO

Extent(b) == b.at - HeaderWords..b.at + b.size - 1

Places(blocks) ==
  {at \in HeapSpots :
     LET e == Extent([at |-> at, size |-> Room])
     IN  /\ e \subseteq RegionWords(KernelHeapRegion)
         /\ \A b \in blocks : e \cap Extent(b) = {}}

\* What malloc(Room) may return.
MallocResults(blocks) == IF Places(blocks) = {} THEN {0} ELSE Places(blocks)

Taken(blocks, raw) ==
  IF raw = 0 THEN blocks ELSE blocks \cup {[at |-> raw, size |-> Room]}

Write(m, at, data) ==
  [w \in DOMAIN m |-> IF w - at \in DOMAIN data THEN data[w - at] ELSE m[w]]

BlockHeader == [k \in 0..HeaderWords - 1 |-> <<"header", Room>>]

\* The header that malloc leaves in front of the block.
WriteHeader(m, raw) == IF raw = 0 THEN m ELSE Write(m, raw - HeaderWords, BlockHeader)

-----------------------------------------------------------------------------
(* Starting a program *)

zero == <<"zero", 0>>

\* What load_elf_segments leaves in the image: the file's bytes, then zeros.
Image(f) ==
  [k \in 0..ImageSize - 1 |-> IF k < FileSize[f] THEN <<f, k>> ELSE zero]

Libc == [k \in 0..LibcSize - 1 |-> <<"libc", k>>]

\* The image starts at the first page boundary behind raw, and raw is kept in
\* the word before it for the reaper.
AppMemory(raw) == ((raw + PageSize) \div PageSize) * PageSize

LoadImage(m, raw, f) ==
  LET app_memory == AppMemory(raw)
      saved == Write(WriteHeader(m, raw), app_memory - 1, [k \in {0} |-> <<"raw", raw>>])
  IN  Write(saved, app_memory, Image(f))

\* The library is read from disk by the first program that asks for it.
LibcMissing(f) == f \in NeedsLibc /\ shared_libc.phys = 0

LibcAfter(f, lib) ==
  IF LibcMissing(f)
  THEN [phys |-> PagesUp(lib) * PageSize, size |-> LibcSize]
  ELSE shared_libc

LoadLibc(m, f, lib) ==
  IF LibcMissing(f) THEN Write(WriteHeader(m, lib), PagesUp(lib) * PageSize, Libc) ELSE m

\* create_task_page_dir: a copy of the kernel's directory, or, when none is
\* left, that directory itself.
NewDir == IF next_task_id >= MaxDirs THEN KernelDir ELSE next_task_id + 1

\* Mutant: the directory of the first program is copied, its image included.
ClonedFromProgram(m) ==
  IF NewDir = KernelDir THEN m
  ELSE [m EXCEPT !.directory[NewDir] = m.directory[IF NewDir = 1 THEN KernelDir ELSE 1]]

Cloned(m) ==
  IF NewDir = KernelDir THEN m
  ELSE [m EXCEPT !.directory[NewDir] = m.directory[KernelDir]]

\* Mutant: the last page of the image, when it is not full, is not mapped.
MapWholePages(m, d, f, app_memory, libc) ==
  MapPages(m, d, FirstPage(ImageRegion), Page(MemSize[f]), Page(app_memory))

MapProgram(m, d, f, app_memory, libc) ==
  LET image == MapPages(m, d, FirstPage(ImageRegion), PagesUp(MemSize[f]), Page(app_memory))
  IN  IF f \in NeedsLibc
      THEN MapPages(image, d, FirstPage(LibcRegion), PagesUp(libc.size), Page(libc.phys))
      ELSE image

BreakStart == (FirstPage(HeapRegion) + 1) * PageSize   \* 0x410000

NewTask(f, app_base) ==
  [file |-> f, cr3 |-> NewDir, app_base |-> app_base, v_heap_end |-> BreakStart,
   alive |-> TRUE, blocks |-> << >>]

\* api_exec_app and create_task.  Whether malloc failed is not looked at.
Exec(f) ==
  /\ Len(tasks) < MaxTasks
  /\ \E raw \in MallocResults(held) :
     \E lib \in IF LibcMissing(f) THEN MallocResults(Taken(held, raw)) ELSE {0} :
       LET libc == LibcAfter(f, lib)
       IN  /\ held' = Taken(Taken(held, raw), lib)
           /\ ram' = LoadLibc(LoadImage(ram, raw, f), f, lib)
           /\ shared_libc' = libc
           /\ mmu' = MapProgram(Cloned(mmu), NewDir, f, AppMemory(raw), libc)
           /\ tasks' = Append(tasks, NewTask(f, AppMemory(raw)))
  /\ next_task_id' = IF NewDir = KernelDir THEN next_task_id ELSE next_task_id + 1
  /\ UNCHANGED <<user_phys_memory, strayed, spilled>>

-----------------------------------------------------------------------------
(* A program's heap and its end *)

Live == {p \in DOMAIN tasks : tasks[p].alive}

\* Pages from start_page to end_page get a fresh frame each; none when the new
\* break is the lower one, or when the top of memory makes end_page 0.
SbrkFrom(p, start_page, end_page) ==
  LET count == IF start_page < end_page THEN end_page - start_page ELSE 0
  IN  /\ user_phys_memory + count <= FirstPage(ImageRegion) + MaxFrames
      /\ mmu' = MapSpan(mmu, tasks[p].cr3, start_page, start_page + count,
                        user_phys_memory)
      /\ user_phys_memory' = user_phys_memory + count
      /\ spilled' = (spilled \/ ~(start_page..start_page + count - 1
                                    \subseteq RegionOf(HeapRegion)))

\* Mutants: the break is rounded down at its new, or at its old end.
SbrkShort(p, new_break) ==
  SbrkFrom(p, PagesUp(tasks[p].v_heap_end), Page(new_break))
SbrkAgain(p, new_break) ==
  SbrkFrom(p, Page(tasks[p].v_heap_end), PagesUp(new_break))

\* sys_sbrk: whole pages behind the old break, up to the new one.
Sbrk(p, new_break) ==
  IF new_break > tasks[p].v_heap_end
  THEN SbrkFrom(p, PagesUp(tasks[p].v_heap_end) % Pages, PagesUp(new_break) % Pages)
  ELSE UNCHANGED <<mmu, user_phys_memory, spilled>>

\* Whether p's break, moved to this word, stays above what it was and in the
\* heap's region; the word is not yet cut to the width of an address.
Astray(p, word) == word < tasks[p].v_heap_end \/ word > FirstWord(KernelHeapRegion)

\* A program moves its break itself, by any increment, a negative one too.
MoveBreak(p, new_break) ==
  /\ new_break # tasks[p].v_heap_end
  /\ Sbrk(p, new_break)
  /\ tasks' = [tasks EXCEPT ![p].v_heap_end = new_break]
  /\ strayed' = IF Astray(p, new_break) THEN strayed \cup {p} ELSE strayed
  /\ UNCHANGED <<next_task_id, shared_libc, held, ram>>

Usable(p, size) ==
  {i \in DOMAIN tasks[p].blocks :
     tasks[p].blocks[i].is_free /\ tasks[p].blocks[i].size >= size}

\* libc's malloc: the first free block that is large enough, or else a block
\* behind the break, whatever sbrk did with the size.
ReuseBlock(p, size) ==
  /\ \E i \in Usable(p, size) :
       /\ \A j \in Usable(p, size) : i <= j
       /\ tasks' = [tasks EXCEPT ![p].blocks[i].is_free = FALSE]
  /\ UNCHANGED <<mmu, user_phys_memory, next_task_id, shared_libc, held, ram,
                 strayed, spilled>>

ExtendHeap(p, size) ==
  LET end == tasks[p].v_heap_end
      new_break == (end + UserHeader + size) % Space
  IN  /\ Usable(p, size) = {}
      /\ Len(tasks[p].blocks) < MaxBlocks
      /\ Sbrk(p, new_break)
      /\ tasks' = [tasks EXCEPT
           ![p].v_heap_end = new_break,
           ![p].blocks = Append(@, [at |-> end + UserHeader, size |-> size,
                                    is_free |-> FALSE])]
      /\ strayed' = IF Astray(p, end + UserHeader + size) THEN strayed \cup {p}
                    ELSE strayed
      /\ UNCHANGED <<next_task_id, shared_libc, held, ram>>

\* libc's free of a block the program holds.
Free(p) ==
  /\ \E i \in DOMAIN tasks[p].blocks :
       /\ ~tasks[p].blocks[i].is_free
       /\ tasks' = [tasks EXCEPT ![p].blocks[i].is_free = TRUE]
  /\ UNCHANGED <<mmu, user_phys_memory, next_task_id, shared_libc, held, ram,
                 strayed, spilled>>

\* A freed TCB, and freed memory: what they held is forgotten.
NoTask == [file |-> {}, cr3 |-> KernelDir, app_base |-> 0, v_heap_end |-> BreakStart,
           alive |-> FALSE, blocks |-> << >>]

Forgotten(m, blocks) ==
  [w \in DOMAIN m |-> IF \E b \in blocks : w \in Extent(b) THEN zero ELSE m[w]]

\* A task is unlinked and the block behind ptr is freed.
FreeImage(p, ptr) ==
  LET freed == {b \in held : b.at = ptr}
  IN  /\ held' = held \ freed
      /\ ram' = Forgotten(ram, freed)
      /\ tasks' = [tasks EXCEPT ![p] = NoTask]
      /\ strayed' = strayed \ {p}
      /\ UNCHANGED <<mmu, user_phys_memory, next_task_id, shared_libc, spilled>>

\* Mutant: the image's address is freed, not the pointer malloc returned.
KillByBase(p) == FreeImage(p, tasks[p].app_base)

\* kill_task_by_id: the image is freed by the pointer in the word before it;
\* the directory, its tables and the frames of the heap are not given back.
Kill(p) == FreeImage(p, ram[tasks[p].app_base - 1][2])

-----------------------------------------------------------------------------
Init ==
  /\ mmu = [directory |-> [d \in 0..MaxDirs |->
                             IF d = KernelDir THEN page_directory
                             ELSE [r \in Regions |-> NoTable]],
            table |-> KernelTables,
            dma_memory_pointer |-> FirstPage(DmaRegion)]
  /\ next_task_id = 0
  /\ user_phys_memory = FirstPage(ImageRegion)   \* 16 MB
  /\ shared_libc = [phys |-> 0, size |-> 0]
  /\ held = {}
  /\ ram = [w \in (0..PageSize + ImageSize - 1) \cup RegionWords(KernelHeapRegion) |-> zero]
  /\ tasks = << >>
  /\ strayed = {}
  /\ spilled = FALSE

Next ==
  \/ \E f \in Files : Exec(f)
  \/ \E p \in Live :
       \/ \E size \in Requests : ReuseBlock(p, size) \/ ExtendHeap(p, size)
       \/ \E new_break \in Breaks : MoveBreak(p, new_break)
       \/ Free(p)
       \/ Kill(p)

Spec == Init /\ [][Next]_vars

-----------------------------------------------------------------------------
(* Properties *)

\* The programs that got a directory and an image of their own.
Settled ==
  {p \in Live : /\ tasks[p].cr3 # KernelDir
                /\ tasks[p].app_base \in RegionWords(KernelHeapRegion)}

\* The frames of a program's image and heap.
Frames(p) ==
  {Translate(mmu, tasks[p].cr3, v) : v \in RegionOf(HeapRegion) \cup RegionOf(ImageRegion)}
    \ {NoFrame}

\* Program p finds the word x at this address.
Sees(p, word, x) ==
  LET frame == Translate(mmu, tasks[p].cr3, Page(word))
  IN  frame # NoFrame /\ ram[frame * PageSize + (word % PageSize)] = x

Block == [at : Nat, size : Nat, is_free : BOOLEAN]

\* Types of the state: directories point to tables that exist, tables to
\* frames.
TypeOK ==
  /\ mmu.directory \in [0..MaxDirs -> [Regions -> DOMAIN mmu.table \cup {NoTable}]]
  /\ \A t \in DOMAIN mmu.table : mmu.table[t] \in [0..RegionPages - 1 -> Nat \cup {NoFrame}]
  /\ mmu.dma_memory_pointer \in Nat
  /\ \A t \in DOMAIN mmu.table : t < mmu.dma_memory_pointer
  /\ next_task_id \in 0..MaxDirs
  /\ user_phys_memory \in Nat
  /\ shared_libc \in [phys : Nat, size : {0, LibcSize}]
  /\ strayed \subseteq DOMAIN tasks /\ spilled \in BOOLEAN
  /\ held \subseteq [at : Nat, size : {Room}]
  /\ Len(tasks) <= MaxTasks
  /\ \A p \in DOMAIN tasks :
       /\ tasks[p].cr3 \in 0..MaxDirs
       /\ tasks[p].v_heap_end \in Nat
       /\ tasks[p].blocks \in Seq(Block)

\* Two programs with directories of their own never share a frame of image or
\* heap, whatever was killed and started before and however they move their
\* breaks (memory.c:182, "isolated physical memory for applications"), until a
\* heap grows out of its region.
Isolated ==
  spilled \/ \A p, q \in Settled : p # q => Frames(p) \cap Frames(q) = {}

SeesImage(p) ==
  \A k \in 0..MemSize[tasks[p].file] - 1 :
    Sees(p, FirstPage(ImageRegion) * PageSize + k, Image(tasks[p].file)[k])

\* A program bound to LIBC.SO in the kernel heap: the frames are those of the
\* one copy, and hold the library.
SeesLibrary(p) ==
  LET frame == Translate(mmu, tasks[p].cr3, FirstPage(LibcRegion))
  IN  frame \in RegionOf(KernelHeapRegion) =>
        /\ frame = Page(shared_libc.phys)
        /\ \A k \in 0..LibcSize - 1 :
             Sees(p, FirstPage(LibcRegion) * PageSize + k, Libc[k])

\* A program reads its own file at 0x2000000, zeros behind it up to p_memsz,
\* and LIBC.SO at 0x60000000 if it asked for it, as long as it lives, whatever
\* the heaps do inside their region and whoever comes and goes meanwhile.
ImageIntact == spilled \/ \A p \in Settled : SeesImage(p) /\ SeesLibrary(p)

\* The same for every program whose image was allocated, with a directory of
\* its own or not ("per-process paging", memory.c:182): false once the eight
\* directories are handed out.
EveryImageIntact ==
  \A p \in Live :
    tasks[p].app_base \in RegionWords(KernelHeapRegion) => SeesImage(p)

\* Every word of a libc block, header included, has a frame of the program's
\* own behind it, no two pages the same; and no two blocks overlap.  Until the
\* program lowers its break or a size carries it out of its region, which
\* sys_sbrk does not refuse.
HeapBacked ==
  spilled \/ \A p \in Settled \ strayed :
    LET blocks == tasks[p].blocks
        words(i) == blocks[i].at - UserHeader..blocks[i].at + blocks[i].size - 1
        frame(v) == Translate(mmu, tasks[p].cr3, v)
        pages == {Page(w) : w \in UNION {words(i) : i \in DOMAIN blocks}}
    IN  /\ \A v \in pages : frame(v) \in FirstPage(ImageRegion)..user_phys_memory - 1
        /\ \A u, v \in pages : u # v => frame(u) # frame(v)
        /\ \A i, j \in DOMAIN blocks : i # j => words(i) \cap words(j) = {}

\* The reaper gives back the image of every program it kills, and only that:
\* a block is held for a live program or for the library.  Neither rounding an
\* image up to a page nor the pointer kept before it touches the header in
\* front of a block.
ImagesReturned == spilled \/
  /\ \A b \in held : \A k \in 1..HeaderWords : ram[b.at - k] = <<"header", Room>>
  /\ \A b \in held :
       \/ \E p \in Live : tasks[p].app_base \in Extent(b)
       \/ shared_libc.phys \in Extent(b)
  /\ \A p \in Settled : \E b \in held :
       tasks[p].app_base - 1..tasks[p].app_base + ImageSize - 1 \subseteq b.at..b.at + b.size - 1

\* A page that a live program has mapped keeps its frame: growing the heap
\* does not take away what lies below the break, unless the break was lowered
\* before.
MappingsStable ==
  [][spilled' \/ \A p \in Settled : tasks'[p].alive =>
       \A v \in RegionOf(ImageRegion)
                  \cup (IF p \in strayed THEN {} ELSE RegionOf(HeapRegion)) :
         Translate(mmu, tasks[p].cr3, v) # NoFrame =>
           Translate(mmu', tasks[p].cr3, v) = Translate(mmu, tasks[p].cr3, v)]_vars

\* Once a heap spilled, the kernel finds other frames behind its own pages; such
\* a state is checked, and not explored further.  Bound: a stray counts as a program more.
FewStrays == ~spilled /\ Cardinality(strayed) + Len(tasks) <= MaxTasks
=============================================================================
