------------------------------- MODULE Fat16 -------------------------------
(***************************************************************************)
(* The FAT16 engine (disk.c): writing, deleting and reading files of the   *)
(* root directory, and creating directories.  A call runs with interrupts  *)
(* off, so calls do not interleave; power may fail between any two sectors *)
(* that reach the disk, never within one.  A sector of file data is named  *)
(* by the text it belongs to and its place in it.                          *)
(*                                                                         *)
(* Nothing of the disk is cached: every call reads the sectors it needs    *)
(* and a reboot finds what was written last.  Entries never used (0x00)    *)
(* and deleted ones (0xE5) are both NoEntry: the scans treat both as free, *)
(* and slots are taken first to last.                                      *)
(*                                                                         *)
(* The code leaves what it should work on in several ways, and the model   *)
(* goes there with it: a delete follows a chain behind its copy of FAT     *)
(* sector 0, a write runs behind its cluster, a full disk hands out FAT    *)
(* entries that no cluster belongs to, and a directory gets the name of a  *)
(* file.  What happened so far is in mishaps and doubled.                  *)
(***************************************************************************)
EXTENDS Integers, Sequences

CONSTANTS
    Names,              \* names of files
    DirNames,           \*   and the ones that a directory can have, too
    Texts,              \* what may be in a file
    Written,            \*   and what programs write, among them
    Slots,              \* bound: entries of the root directory are 1 .. Slots
    SubSlots,           \* how many of them one cluster's sectors hold (64)
    LastCluster,        \* the FAT has an entry for 2 .. LastCluster
    DataSectors,        \* the data area; the FAT may have more entries
    EntriesPerSector,   \* FAT entries in a sector (256)
    SectorsPerCluster,
    MaxSectors,         \* the longest text ardaos_write_file takes (10240 bytes)
    FirstFat,           \* the FAT, the directory and the data that mkfs.fat
    FirstDir,           \*   and mcopy left
    FirstData,
    NoFile

ASSUME SizesAssumption ==
    /\ {SectorsPerCluster, EntriesPerSector, MaxSectors} \subseteq Nat \ {0}
    /\ {Slots, SubSlots, DataSectors} \subseteq Nat
    /\ LastCluster \in 2 .. 65527         \* below 0xFFF8, where a chain ends
    /\ NoFile \notin Names /\ DirNames \subseteq Names /\ Written \subseteq Texts

Cluster == 2 .. LastCluster
EndOfChain == 65535
Slot == 1 .. Slots
Sector == 0 .. DataSectors - 1
NoEntry == [name |-> NoFile, dir |-> FALSE, cluster |-> 0, size |-> 0]
Entry == [name : Names \cup {NoFile}, dir : BOOLEAN,
          cluster : {0} \cup Cluster, size : Nat]
Block == Texts \X Nat               \* what a sector of the data area holds
Contents == {NoFile} \cup Seq(Block)

\* cluster_to_lba, counted from the start of the data area; the root
\* directory's 32 sectors lie before it.
RootDir == -32
Lba(c) == IF c < 2 THEN RootDir ELSE (c - 2) * SectorsPerCluster

\* The clusters of the chain that starts at c in the table F: the least set
\* with c in it that following the table does not leave.
ChainIn(F, c) ==
    LET closed == {S \in SUBSET Cluster :
                     /\ {c} \cap Cluster \subseteq S
                     /\ \A x \in S : F[x] \in Cluster => F[x] \in S}
    IN  {x \in Cluster : \A S \in closed : x \in S}

\* The disk that the Makefile builds: files only, each in clusters of its own
\* one behind the other, and no other cluster allocated.
FirstOwners == {i \in Slot : FirstDir[i] # NoEntry}
FirstChain(i) == ChainIn(FirstFat, FirstDir[i].cluster)

ASSUME FirstDiskAssumption ==
    /\ FirstFat \in [Cluster -> {0, EndOfChain} \cup Cluster]
    /\ FirstDir \in [Slot -> Entry]
    /\ FirstData \in [Sector -> Block]
    /\ \A i \in FirstOwners :
          /\ FirstDir[i].name \in Names /\ ~FirstDir[i].dir
          /\ FirstDir[i].cluster \in Cluster
          /\ \A k \in 0 .. FirstDir[i].size - 1 :
                /\ FirstDir[i].cluster + k \div SectorsPerCluster \in FirstChain(i)
                /\ Lba(FirstDir[i].cluster) + k \in Sector
    /\ \A i, j \in FirstOwners : i # j =>
          /\ FirstDir[i].name # FirstDir[j].name
          /\ FirstChain(i) \cap FirstChain(j) = {}
    /\ {c \in Cluster : FirstFat[c] # 0} = UNION {FirstChain(i) : i \in FirstOwners}

VARIABLES
    fat,        \* the first FAT on the disk
    fat2,       \* the second
    dir,        \* the root directory
    data,       \* the data area, sector by sector
    pc,         \* what the running call writes next; "idle" between calls
    file,       \* the file the call is about, NoFile between calls
    want,       \* what the call should make the file read back as
    slot,       \* target_sec and target_slot
    cluster,    \* target_cluster; in a delete, current_cluster
    done,       \* sectors of the text written so far
    table,      \* the copy of FAT sector 0 that a delete works on
    mishaps,    \* history: what has gone wrong so far, of Mishaps
    doubled     \* history: names that a directory got although they were taken

disk == <<fat, fat2, dir, data>>
call == <<file, want, slot, cluster, done, table>>
history == <<mishaps, doubled>>
vars == <<disk, pc, call, history>>

\* Power failed in the middle of a call; a delete came to a cluster that FAT
\* sector 0 does not describe; it went on from there, by what it read off the
\* stack, at a cluster that it does describe; a write left its file's chain,
\* or the disk.
Mishaps == {"power", "skip", "stray", "overrun"}

\* Files may hold anything afterwards.
Spoilt == mishaps \cap {"stray", "overrun"} # {}

FatSector(c) == c \div EntriesPerSector
SectorZero == {c \in Cluster : FatSector(c) = 0}

Idle ==
    /\ file' = NoFile /\ want' = NoFile /\ slot' = 0 /\ cluster' = 0 /\ done' = 0
    /\ table' = [c \in SectorZero |-> 0]

Init ==
    /\ fat = FirstFat /\ fat2 = FirstFat
    /\ dir = FirstDir /\ data = FirstData
    /\ pc = "idle" /\ file = NoFile /\ want = NoFile
    /\ slot = 0 /\ cluster = 0 /\ done = 0
    /\ table = [c \in SectorZero |-> 0]
    /\ mishaps = {} /\ doubled = {}

-----------------------------------------------------------------------------
(* Reading.                                                                *)

First(S) == CHOOSE i \in S : \A j \in S : i <= j

SlotsOf(f) == {i \in Slot : dir[i].name = f}
FreeSlots == {i \in Slot : dir[i] = NoEntry}
FreeClusters == {c \in Cluster : fat[c] = 0}

\* A scan that is off by one when it turns an index into a cluster.
OneTooLow == First(FreeClusters) - 1

\* The cluster a new file gets.
NewCluster == First(FreeClusters)

\* The part of the root directory that is reached through an entry: a path
\* leads through directories only, and one made by ardaos_create_dir has no
\* cluster, so that its sectors are the first ones of the root directory.
Shown(e) == IF e.dir /\ Lba(e.cluster) = RootDir THEN 1 .. SubSlots ELSE {}

\* fat16_get_parent_dir: the root directory, or what a directory shows.
Parents == {Slot} \cup {Shown(dir[i]) : i \in {j \in Slot : dir[j].dir}}

\* ardaos_read_file: as many sectors as the size says, one behind the other
\* from the first cluster on, whatever the FAT says.
Read(f) ==
    IF SlotsOf(f) = {} \/ dir[First(SlotsOf(f))].dir THEN NoFile
    ELSE LET e == dir[First(SlotsOf(f))]
         IN  [k \in 1 .. e.size |-> data[Lba(e.cluster) + k - 1]]

-----------------------------------------------------------------------------
(* Writing.                                                                *)

\* Nothing at all, or more than fits the limit, is written as one sector.
Clamped(n) == IF n \in 1 .. MaxSectors THEN n ELSE 1

\* The text t when the caller says that it is n sectors long.
Text(t, n) == [k \in 1 .. Clamped(n) |-> <<t, k>>]

\* ardaos_write_file finds the entry of an existing file and goes straight
\* to its data...
Overwrite(f, t, n) ==
    /\ pc = "idle"
    /\ SlotsOf(f) # {}
    /\ dir[First(SlotsOf(f))].cluster >= 2
    /\ slot' = First(SlotsOf(f))
    /\ cluster' = dir[slot'].cluster
    /\ file' = f /\ want' = Text(t, n)
    /\ pc' = "data"
    /\ UNCHANGED <<disk, done, table, history>>

\* Where a file without a cluster is entered: over the entry of its name, a
\* directory's, or in the first free one.
EntriesFor(f) == IF SlotsOf(f) # {} THEN SlotsOf(f) ELSE FreeSlots

\* ... or takes an entry and the first free cluster.
Create(f, t, n) ==
    /\ pc = "idle"
    /\ SlotsOf(f) # {} => dir[First(SlotsOf(f))].cluster < 2
    /\ EntriesFor(f) # {} /\ FreeClusters # {}
    /\ slot' = First(EntriesFor(f))
    /\ cluster' = NewCluster
    /\ file' = f /\ want' = Text(t, n)
    /\ pc' = "fat"
    /\ UNCHANGED <<disk, done, table, history>>

\* fat_table[i] = 0xFFFF, and the sector is written to the first FAT...
MarkCluster ==
    /\ pc = "fat"
    /\ fat' = [fat EXCEPT ![cluster] = EndOfChain]
    /\ pc' = "fat2"
    /\ UNCHANGED <<fat2, dir, data, call, history>>

\* The whole sector of the first FAT, copied over that of the second.
Mirrored(s) == [c \in Cluster |-> IF FatSector(c) = s THEN fat[c] ELSE fat2[c]]

\* ... and to the second.
MirrorCluster ==
    /\ pc = "fat2"
    /\ fat2' = Mirrored(FatSector(cluster))
    /\ pc' = "data"
    /\ UNCHANGED <<fat, dir, data, call, history>>

\* Data starts at the cluster whatever its number.
TargetOffByOne == Lba(cluster) + done + 1

\* Where the next sector of the text goes.
Target == Lba(cluster) + done

\* The clusters of the chain that starts at c.
Chain(c) == ChainIn(fat, c)

\* The sector k sectors behind the start of cluster c lies in a cluster of its
\* chain, and on the disk.
Within(c, k) == c + k \div SectorsPerCluster \in Chain(c) /\ Lba(c) + k \in Sector

\* One sector of ata_lba_write(actual_lba, sectors_to_write, ...), which looks
\* neither at the FAT nor at the end of the disk: the drive stores nothing
\* behind it, and asks for no more data then, so that the call may go on or
\* wait for ever.
WriteSector ==
    /\ pc = "data"
    /\ done < Len(want)
    /\ data' = [s \in Sector |-> IF s = Target THEN want[done + 1] ELSE data[s]]
    /\ done' = done + 1
    /\ mishaps' = IF Within(cluster, done) THEN mishaps ELSE mishaps \cup {"overrun"}
    /\ UNCHANGED <<fat, fat2, dir, pc, file, want, slot, cluster, table, doubled>>

\* The directory entry, last: size, and for a new file name and cluster.
WriteEntry ==
    /\ pc = "data"
    /\ done = Len(want)
    /\ dir' = [dir EXCEPT ![slot] = [name |-> file, dir |-> FALSE,
                                     cluster |-> cluster, size |-> Len(want)]]
    /\ pc' = "idle"
    /\ Idle
    /\ UNCHANGED <<fat, fat2, data, history>>

-----------------------------------------------------------------------------
(* Deleting.                                                               *)

\* ardaos_delete_file finds the entry...
Delete(f) ==
    /\ pc = "idle"
    /\ SlotsOf(f) # {}
    /\ slot' = First(SlotsOf(f))
    /\ cluster' = dir[slot'].cluster
    /\ file' = f /\ want' = NoFile
    /\ table' = [c \in SectorZero |-> fat[c]]
    /\ pc' = "unlink"
    /\ UNCHANGED <<disk, done, history>>

\* ... marks it 0xE5 on the disk and, if it has no cluster, is done...
Unlink ==
    /\ pc = "unlink"
    /\ dir' = [dir EXCEPT ![slot] = NoEntry]
    /\ IF cluster \in Cluster THEN pc' = "walk" /\ UNCHANGED call
                             ELSE pc' = "idle" /\ Idle
    /\ UNCHANGED <<fat, fat2, data, history>>

\* A loop that stops after the first cluster.
AfterFree(c) == EndOfChain

\* The next cluster of the chain.
NextOf(c) == table[c]

\* ... and follows the chain in its copy of sector 0...
FreeNext ==
    /\ pc = "walk"
    /\ cluster \in SectorZero
    /\ cluster' = NextOf(cluster)
    /\ table' = [table EXCEPT ![cluster] = 0]
    /\ UNCHANGED <<disk, pc, file, want, slot, done, history>>

\* ... also for a cluster of a later sector: then it reads, and sets to 0, a
\* word of the stack behind the copy, and any value may come next.
SkipNext ==
    /\ pc = "walk"
    /\ cluster \in Cluster \ SectorZero
    /\ cluster' \in Cluster \cup {0, EndOfChain}
    /\ mishaps' = mishaps \cup {"skip"}
                          \cup (IF cluster' \in SectorZero THEN {"stray"} ELSE {})
    /\ UNCHANGED <<disk, pc, file, want, slot, done, table, doubled>>

\* The chain has ended: sector 0 goes to the first FAT...
FreeChain ==
    /\ pc = "walk"
    /\ cluster \notin Cluster
    /\ fat' = [c \in Cluster |-> IF c \in SectorZero THEN table[c] ELSE fat[c]]
    /\ pc' = "free2"
    /\ UNCHANGED <<fat2, dir, data, call, history>>

\* ... and to the second.
FreeMirror ==
    /\ pc = "free2"
    /\ fat2' = Mirrored(0)
    /\ pc' = "idle"
    /\ Idle
    /\ UNCHANGED <<fat, dir, data, history>>

-----------------------------------------------------------------------------
\* ardaos_create_dir: the first free entry of the parent, no cluster, whether
\* or not the name is taken.
CreateDir(d, parent) ==
    /\ pc = "idle"
    /\ FreeSlots \cap parent # {}
    /\ dir' = [dir EXCEPT ![First(FreeSlots \cap parent)] =
                 [name |-> d, dir |-> TRUE, cluster |-> 0, size |-> 0]]
    /\ doubled' = IF SlotsOf(d) = {} THEN doubled ELSE doubled \cup {d}
    /\ UNCHANGED <<fat, fat2, data, pc, call, mishaps>>

\* Power fails in the middle of a call; init_disk keeps nothing in memory.
PowerLoss ==
    /\ pc # "idle"
    /\ pc' = "idle"
    /\ Idle
    /\ mishaps' = mishaps \cup {"power"}
    /\ UNCHANGED <<disk, doubled>>

-----------------------------------------------------------------------------
Call ==
    \/ \E f \in Names, t \in Written, n \in 0 .. MaxSectors + 1 :
          Overwrite(f, t, n) \/ Create(f, t, n)
    \/ \E f \in Names : Delete(f)
    \/ \E d \in DirNames, parent \in Parents : CreateDir(d, parent)

Calls ==
    \/ Call
    \/ MarkCluster \/ MirrorCluster \/ WriteSector \/ WriteEntry
    \/ Unlink \/ FreeNext \/ SkipNext \/ FreeChain \/ FreeMirror

Next == Calls \/ PowerLoss

Spec == Init /\ [][Next]_vars

-----------------------------------------------------------------------------
(* Properties.                                                             *)

TypeOK ==
    /\ fat \in [Cluster -> {0, EndOfChain} \cup Cluster]
    /\ fat2 \in [Cluster -> {0, EndOfChain} \cup Cluster]
    /\ dir \in [Slot -> Entry]
    /\ data \in [Sector -> Block]
    /\ pc \in {"idle", "fat", "fat2", "data", "unlink", "walk", "free2"}
    /\ mishaps \subseteq Mishaps /\ doubled \subseteq Names
    /\ file \in Names \cup {NoFile}
    /\ want \in Contents
    /\ slot \in {0} \cup Slot
    /\ cluster \in {0, EndOfChain} \cup Cluster
    /\ done \in 0 .. MaxSectors
    /\ table \in [SectorZero -> {0, EndOfChain} \cup Cluster]

\* The entries that own clusters.
Owners == {i \in Slot : dir[i].cluster \in Cluster}

\* At every instant, the middle of a call and the first instant after a power
\* failure included, the chain of every file in the directory is allocated
\* and no two files share a cluster: a crash of ardaos_write_file or
\* ardaos_delete_file, a full disk, a text that is too long and a delete that
\* runs off FAT sector 0 can lose clusters but never give one away twice,
\* until a delete goes astray.
ChainsAllocated ==
    \/ "stray" \in mishaps
    \/ /\ \A i \in Owners : \A c \in Chain(dir[i].cluster) : fat[c] # 0
       /\ \A i, j \in Owners :
             i # j => Chain(dir[i].cluster) \cap Chain(dir[j].cluster) = {}

\* What is allocated in either FAT belongs to a file.
AllOwned ==
    \A F \in {fat, fat2} :
        {c \in Cluster : F[c] # 0} = UNION {Chain(dir[i].cluster) : i \in Owners}

\* As long as power never failed in a call and every chain that was deleted
\* lay in FAT sector 0, a cluster that is allocated in either FAT belongs to
\* a file between calls: ardaos_delete_file gives the whole chain back, in the
\* mirror too.
NothingLeaks == pc = "idle" /\ mishaps \subseteq {"overrun"} => AllOwned

\* ardaos_delete_file breaks the chain, as its header says: only a power
\* failure leaves clusters allocated that no file owns.
DeletesBreakChain == pc = "idle" /\ "power" \notin mishaps => AllOwned

Store == INSTANCE FileStore WITH
            Files <- Names,
            files <- [f \in Names |-> Read(f)],
            busy <- file,
            wanted <- want,
            loose <- doubled,
            spoilt <- Spoilt

\* A write or a delete leaves every other file as it was, power failure or
\* not, and when it returns the file reads back as it was written, or is gone,
\* unless its name had been doubled: until a delete goes astray or a write
\* leaves its chain.
ImplementsStore == Store!Spec
=============================================================================
