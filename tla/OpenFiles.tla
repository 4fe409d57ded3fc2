----------------------------- MODULE OpenFiles -----------------------------
(***************************************************************************)
(* Disk files behind descriptors (disk.c: vfs_open, vfs_read, vfs_close)   *)
(* over the FAT16 engine.  A descriptor remembers where its file began and *)
(* how long it was when it was opened, and never looks at the directory or *)
(* the FAT again; meanwhile the calls of Fat16, of the same task or of     *)
(* others, change the disk under it.  System calls run with interrupts     *)
(* off, so a descriptor is used between those calls only.                  *)
(*                                                                         *)
(* Every task has a table of descriptors of its own: here there is one.  A *)
(* byte of a file is named by its sector and its place in the sector.      *)
(***************************************************************************)
EXTENDS Fat16

CONSTANTS
    Fds,            \* descriptors of a task, numbered from 0 (MAX_FD_PER_TASK is 8)
    SectorSize,     \* bytes of a sector (512)
    Counts          \* how many bytes a program asks for

ASSUME ReadsAssumption ==
    Fds \in Nat /\ SectorSize \in Nat \ {0} /\ Counts \subseteq Nat

Fd == 0 .. Fds - 1

Closed == [open |-> FALSE, size |-> 0, lba |-> 0, offset |-> 0]

VARIABLES
    fd_table,   \* the descriptors
    opened      \* history: what the file was when it was opened and what was
                \* read of it since, or Unknown if a call worked on the file

openVars == <<vars, fd_table, opened>>

Unknown == [file |-> NoFile, text |-> <<>>, got |-> <<>>]

OpenInit ==
    /\ Init
    /\ fd_table = [fd \in Fd |-> Closed]
    /\ opened = [fd \in Fd |-> Unknown]

-----------------------------------------------------------------------------
(* fat16_find_entry.                                                       *)

\* A path to a file, in the root directory or in a directory of it.
Paths == {<<f>> : f \in Names} \cup (Names \X Names)

\* The entry of that name among those in S: the first one, or none.
Find(name, S) ==
    LET found == S \cap SlotsOf(name)
    IN  IF found = {} THEN NoEntry ELSE dir[First(found)]

\* Every part of the path but the last is to be a directory.
Resolve(path) ==
    LET top == Find(path[1], Slot)
    IN  IF Len(path) = 1 THEN top ELSE Find(path[2], Shown(top))

-----------------------------------------------------------------------------
(* vfs_open, vfs_read, vfs_close.                                          *)

FreeFds == {fd \in Fd : ~fd_table[fd].open}

Open(path) ==
    LET e  == Resolve(path)
        fd == First(FreeFds)
    IN  /\ pc = "idle"
        /\ FreeFds # {}
        /\ e # NoEntry
        /\ fd_table' = [fd_table EXCEPT ![fd] =
                          [open |-> TRUE, size |-> e.size * SectorSize,
                           lba |-> Lba(e.cluster), offset |-> 0]]
        /\ opened' = [opened EXCEPT ![fd] =
                        [file |-> e.name, got |-> <<>>,
                         text |-> [k \in 1 .. e.size |-> data[Lba(e.cluster) + k - 1]]]]
        /\ UNCHANGED vars

\* The sector that holds the byte k bytes behind the offset.
SectorAt(file_obj, k) == file_obj.lba + (file_obj.offset + k) \div SectorSize

\* A loop that starts every sector at its first byte.
FromSectorStart(file_obj, k) == <<data[SectorAt(file_obj, k)], k % SectorSize>>

\* That byte, on the disk.
ByteAt(file_obj, k) == <<data[SectorAt(file_obj, k)], (file_obj.offset + k) % SectorSize>>

\* What a read of that many bytes returns: no more than what is left.
Chunk(file_obj, count) ==
    LET left == file_obj.size - file_obj.offset
        n    == IF count <= left THEN count ELSE left
    IN  [k \in 1 .. n |-> ByteAt(file_obj, k - 1)]

\* ata_lba_read waits for ever for a sector that is not on the disk.
ReadOpen(fd, count) ==
    LET bytes == Chunk(fd_table[fd], count)
    IN  /\ pc = "idle"
        /\ fd_table[fd].open
        /\ bytes # <<>>
        /\ \A k \in 1 .. Len(bytes) : SectorAt(fd_table[fd], k - 1) \in Sector
        /\ fd_table' = [fd_table EXCEPT ![fd].offset = @ + Len(bytes)]
        /\ opened' = IF opened[fd] = Unknown THEN opened
                     ELSE [opened EXCEPT ![fd].got = @ \o bytes]
        /\ UNCHANGED vars

Close(fd) ==
    /\ pc = "idle"
    /\ fd_table[fd].open
    /\ fd_table' = [fd_table EXCEPT ![fd] = Closed]
    /\ opened' = [opened EXCEPT ![fd] = Unknown]
    /\ UNCHANGED vars

\* A call of the engine.  A descriptor is not told that its file is written
\* or deleted.
DiskStep ==
    /\ Calls
    /\ opened' = [fd \in Fd |-> IF opened[fd].file = file' THEN Unknown ELSE opened[fd]]
    /\ UNCHANGED fd_table

\* After a power failure every table is empty.
Reboot ==
    /\ PowerLoss
    /\ fd_table' = [fd \in Fd |-> Closed]
    /\ opened' = [fd \in Fd |-> Unknown]

OpenNext ==
    \/ \E path \in Paths : Open(path)
    \/ \E fd \in Fd, count \in Counts : ReadOpen(fd, count)
    \/ \E fd \in Fd : Close(fd)
    \/ DiskStep
    \/ Reboot

OpenSpec == OpenInit /\ [][OpenNext]_openVars

-----------------------------------------------------------------------------
(* Properties.                                                             *)

\* The bytes of a text, sector by sector.
Bytes(text) ==
    [k \in 1 .. Len(text) * SectorSize |->
        <<text[(k - 1) \div SectorSize + 1], (k - 1) % SectorSize>>]

\* As long as no call works on the file itself, what its descriptor reads are
\* the bytes that the file had when it was opened, in order and in full,
\* whatever is written, created and deleted around it: the place and size
\* that vfs_open kept stay right, until a delete goes astray or a write leaves
\* its chain.
OpenFilesReadBack ==
    Spoilt \/ \A fd \in Fd :
        LET h == opened[fd]
        IN  h # Unknown =>
                /\ h.got = SubSeq(Bytes(h.text), 1, fd_table[fd].offset)
                /\ fd_table[fd].size = Len(Bytes(h.text))
                /\ Chunk(fd_table[fd], fd_table[fd].size) =
                       SubSeq(Bytes(h.text), fd_table[fd].offset + 1, Len(Bytes(h.text)))
=============================================================================
