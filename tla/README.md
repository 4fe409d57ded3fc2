# A TLA+ model of the ArdaOS kernel

TLA+ modules that model the core of the kernel in `src/`, the TLC
configurations that check them on small instances, and TLAPS proofs of the
results that hold for every instance. `PROJECT.json` maps every definition to
the lines it stands for and lists the runs, the mutants that show that each
property can fail, the findings, the hazards that the properties are aimed at,
and the theorems.

1. [The system](#the-system)
2. [Modules](#modules)
3. [Runs, bounds and fairness](#runs-bounds-and-fairness)
4. [Proofs](#proofs)
5. [Findings and other disagreements](#findings-and-other-disagreements)
6. [What is not modelled](#what-is-not-modelled)
7. [Plan](#plan)

## The system

ArdaOS is a 32-bit kernel for one processor. Tasks are kept in a ring of TCBs
and preempted by a 100 Hz timer (`boot.asm`, `timer.c`, `task.c`). System calls
(`int 128`) and interrupt handlers run with interrupts off. Three things run
with interrupts on and can be preempted between any two instructions: the main
loop of `kernel_main`, which is task 0 and does the reaping of killed tasks and
the line editing; `create_task` after its `sti` (`task.c:94`); and every user
program, the window manager among them, which shares the structure `gui` with
the kernel. **This decides the grain of every module**: what runs with
interrupts off is one action, what does not is split at each point where a step
of somebody else can change what was read.

| part | state | operations | who it talks to |
|---|---|---|---|
| tasks (`task.c`, `boot.asm`, `timer.c`, `idt.c`) | ring of TCBs, `current_task`, `state`, `sleep_ticks`, `task_to_kill` | create, kill, wake, sleep, yield, timer preemption, fault, exit | heap (TCB, stack, image), windows (closed at death), keyboard (wakes a reader) |
| kernel heap (`memory.c`) | list of blocks, `next_fit_ptr`, `total_used_memory` | `malloc`, `free` | tasks, ELF loader, exec |
| paging and user pages (`memory.c`, `task.c`) | directories, tables, `dma_memory_pointer`, `user_phys_memory` | make a directory, map, allocate a frame | loader, `sys_sbrk`, network card |
| ELF loader, `sys_sbrk` (`task.c`), libc heap (`sdk/libc.c`) | image and break of a task, libc blocks | load, bind LIBC.SO, grow | kernel heap, disk, paging |
| keyboard (`keyboard.c`) | ring of 256 characters, shift and ctrl | IRQ1 handler, `get_keyboard_char` | main loop |
| terminal line (`kernel.c`) | input line, history of 10, `pending_command` | a character, Enter, arrows, paste, `sys_get_cmd` | keyboard, shell |
| terminal lines (`kernel.c`) | `terminal_lines`, `terminal_line_count` | `terminal_print`, `api_clear_terminal` | everybody prints, the window manager draws |
| VFS (`disk.c`) | 8 descriptors per task, 16 pipes of 512 bytes | open, read, write, close | FAT16, sockets, keyboard |
| FAT16 and ATA (`disk.c`) | two FATs, directory, data clusters | read, write, delete, list, mkdir | VFS, exec |
| network (`rtl8139.c`) | 16 sockets, ARP flag, receive ring, 4 transmit buffers | IRQ11 handler, connect, send | VFS |
| windows (`kernel.c`, `idt.c`) | window slots, focus, buttons, event queues | create, buttons, poll an event, close | window manager, tasks |
| window manager (`sdk/wm.c`) | `gui` and the mouse's button | click, drag, menus, focus, release | everything in `gui` |
| screen (`sdk/wm.c`) | dirty rectangle, `force_redraw`, back buffer, frame buffer | mark dirty, draw, swap | everybody who changes what is to be seen asks through `force_redraw` |
| shell and applications (`sdk/`) | local | system calls | kernel |
| mouse, sound, PCI, VGA text | registers, packets | output | window manager |

Hard behaviour, by kind (the lines are under `hazards`):

- *interleaving and atomicity*: the reaper frees TCBs, images and windows with
  interrupts on while tasks are created and scheduled over the same ring; the
  window manager appends to event queues that system calls shift and clear; IRQ1
  stores into a ring that the main loop reads.
- *one-slot mailboxes*: `task_to_kill`, `pending_command`, `last_game_key`,
  `force_redraw`.
- *pools that never refill or refill by one path only*: sockets, pipes, page
  directories, frames.
- *crash*: a write of a file is four disk writes, a delete three.
- *network*: late frames of a closed connection, segments sent twice, a lost
  first SYN.
- *liveness*: the search for a runnable task spins with interrupts off.

What makes each part correct, in a sentence: the run ring is one cycle of live
TCBs and the processor is on one of them; heap blocks tile the heap and a block
has one holder; two programs share no frame; keyboard ring and pipes are
bounded queues; the line entered last reaches the shell whole; a file call
changes its file only, power failure or not; a socket carries the bytes of its
own connection; a click reaches the program that drew the button, once and in
order; the terminal holds the newest lines, and the screen shows what is there.

## Modules

### Tasks (proofs in `TasksProofs`)

Scheduler, reaper, sleep and wake, with the windows and the focus that decide
whom the reaper kills and whom a key wakes. `current` is the task the processor
runs and every other task's steps are disabled. Correspondence:

| action | code |
|---|---|
| `Hop`, `Tick`, `KeyPress` | the search loop and the timer handler of `boot.asm`/`timer.c`, IRQ1 |
| `Exec`, `LinkRead`, `LinkWrite` | `sys_exec` → `create_task` up to the `sti`, then the read of `ready_queue->next` and the two stores |
| `Yield`, `Sleep`, `GetKey`, `PollKey`, `Fault`, `Exit`, `ShellKill`, `CreateWindow` | system calls and the exception handler |
| `WmClick...`, `WmMenu...` | the close button and context menu of `wm.c`, each split between `sys_kill` and the stores into `gui` |
| `Reap`, `ReapWalk`, `ReapUnlink`, `ReapFree`, `ReapWindow`, `ReapReset` | the reaper in `kernel_main` and `kill_task_by_id`, split where the code runs with interrupts on |
| `TakeKey`, `WakeFocused`, `DeliverKey`, `KernelYield` | the keyboard half of the main loop |

`stale` is a history variable: it becomes TRUE when a store into the ring uses
a pointer that changed after it was read (a second `create_task` between the
read and the write, or the reaper's unlink). The code has that race; the ring
properties say what holds until it happens. The runs have one launcher, with
which the reaper's unlink can still meet a link. `lost` is a second one: it
becomes TRUE when a request to kill (`Request`) overwrites one that was not
served, or comes while the reaper works (`ReaperAtWork`), whose last store to
`task_to_kill` wipes it. Both happen in the code; `NoOrphanWindow` and
`FaultReaped` say that they are the only ways for a window or a faulted task to
be left behind.

### KernelHeap (proofs in `KernelHeapProofs`)

`malloc` and `free` one turn of a loop at a time; addresses count words.
Two parties: a system call, which nothing interleaves, and the reaper.
`Preemptible` says whether a system call may interrupt the reaper's `free`. As
the kernel is built, it may: with `Preemptible = TRUE` TLC finds
`HeldBlocksSafe` violated in a second (the header that `free` is merging is
split by `malloc`). The run and the proofs take `Preemptible = FALSE`: they show
that the algorithm is right and that this race is all that is wrong.

### ByteRing, BoundedFifo, KeyboardRing (proofs in `RingProofs`)

`ByteRing` holds the operators of a circular buffer that keyboard and pipes
share (where an index goes next, what lies between two indices).
`KeyboardRing` is IRQ1's handler with Shift and Ctrl, and `get_keyboard_char`
in two steps, since IRQ1 may come between its read of the slot and its store of
`kbd_tail`. `BoundedFifo` is the abstract specification: a queue of at most
`BufferSize - 1` characters that drops what does not fit.

### Fat16, FileStore, OpenFiles (proofs in `Fat16Proofs`)

`Fat16` is the disk engine: `Create`/`Overwrite`, then `MarkCluster`,
`MirrorCluster`, `WriteSector`, `WriteEntry`; `Delete`, then `Unlink`,
`FreeNext`, `FreeChain`, `FreeMirror`; `CreateDir`; and `PowerLoss` between any
two sector writes. A sector write is atomic and a call is not interleaved with
another (interrupts are off). `FileStore` is what a caller may expect: one call
at a time works on one file, no other file ever changes, and what was asked for
is there when the call returns.

`OpenFiles` puts `vfs_open`, `vfs_read` and `vfs_close` over it: a descriptor
keeps the first sector and the size of the moment of opening and never looks at
the directory again, while files are created, deleted and written under it.
`Resolve` is `fat16_find_entry`. A directory made by `mkdir` has cluster 0,
which `cluster_to_lba` maps to the root: `Shown` says so, and a path through a
directory therefore finds what lies in the first cluster's worth of the root
directory, both for opening and for the explorer's "+ YENI KLASOR".

`ChainIn` is the walk of `ardaos_delete_file` along a table. The disk at the
start is any that the Makefile can build (`FirstDiskAssumption`): files only,
each with a name of its own and in clusters of its own chain one behind the
other, as `mcopy` fills an empty disk, and nothing else allocated.

Three assumptions stand for what the programs of the sdk do: `TextsFit` (no
text is longer than a cluster: at most 1023 characters against 2048),
`NamesDiffer` (directories have no extension, files have one) and, in the
passing run and the proofs, `SafeDeletes` (see findings).

### Tcp (proofs in `TcpProofs`)

Socket pool, connect, write, read, close, kill, and the interrupt handler that
takes one frame per interrupt. The other end is not in the repository; it is
modelled as an endpoint that keeps TCP's rules (answers a SYN, sends in order,
repeats what was not acknowledged), one for every connection ever opened.
Sequence numbers count from each side's first, and a write is one byte. A frame
carries the local port it is for, so that a late frame can meet a socket that
was opened later. Programs are killed with sockets open and never give them
back, as in the code.

### Pipes, NamedPipes (proofs in `RingProofs`)

`system_pipes` with the descriptor tables: open by the first eight characters
of a name (joining a pipe or taking the first free one), partial writes, reads
that copy what is there, close, exit. `NamedPipes` is the abstract
specification: one bounded queue per name.

### UserMemory (proofs in `UserMemoryProofs`)

Directories and tables, the image that `api_exec_app` allocates and
`load_elf_segments` fills, LIBC.SO, `sys_sbrk`, and libc's first-fit blocks.
Memory is a function from words to contents, so that a program's view goes
through its own directory. The kernel heap enters by its contract (a free place
of that size, or 0), which `KernelHeap` checks. Freed memory is forgotten: what
a freed word holds is not in `ram`. The tables over the frame buffer are left
out. The bound `MaxBreak` keeps a heap in its 4 MB, which the code does not do.

### Console (proofs in `InterfaceProofs`)

The line editor of `process_keyboard_events`, the history and the hand-over to
the shell. It runs in the main loop with interrupts on, so `pending_command` is
copied byte by byte (`copied`) and `sys_get_cmd` may come in between; where the
focus is, is chosen anew each time the editor looks. Ctrl+V pastes and then
falls through to the editor, which stores the character itself: the model does
the same. `overtaken` marks a line entered while an earlier one still waited:
then the earlier one is lost, and the shell may take a line half copied.
`commands` is a history variable: the lines entered so far, newest last.

### Desktop (proofs in `DesktopProofs`)

`gui_state_t`: windows, drag, focus, context menu, buttons, event queues; the
mouse's button; `process_mouse_events` of the window manager; and the calls
`api_create_window`, create-button, poll-event, clear-gui. The window manager
is preempted between its test for room, the store of the id, the load and the
store of `event_count`. `due` is the queue an observer would expect; `raced`
marks a window whose queue was changed by a system call in the middle of an
append, until it is cleared. Coordinates and minimised windows are abstracted:
what lies under the pointer is chosen anew at every pass. Closing the terminal
or the monitor is in `Tasks`, whose reaper it concerns.

### Terminal (proofs in `InterfaceProofs`)

`terminal_print` and `api_clear_terminal`. Programs, faults and the network
interrupt print with interrupts off (`SysPrint`, `SysClear`): a text of several
lines goes in line by line, and while lines of it are left (`sysText`) nothing
else moves. The main loop
prints with interrupts on, so its print is five steps (`LookForRoom`,
`ScrollLine`, `ScrollEnd`, `StoreLine`, `CountLine`). The compiled code reads
`terminal_line_count` once for the test and the store (`slot`), which is why a
print in between can never lead the store out of the array, though it can raise
the count to one more than the array holds until the next print. `disturbed`
counts how long a misplaced line can still be seen.

### Screen (proofs in `InterfaceProofs`)

The renderer of the window manager: `process_mouse_events` up to the places it
marks dirty (`MenuClick`, `TaskbarClick`, `PressWindow`, `DragWindow`,
`MovePointer`, `AskForDirty`, `MarkDirty`) and `render_gui` (`Look`, `Widen`,
`ClearRedraw`, `DrawScene`, `DrawCursorAndSwap`) with the clipping arithmetic of
`add_dirty_rect`, `set_clipping_rect`, `draw_rect` and `swap_buffers` in
`AddDirty`, `OnScreen` and `Drawn`. Everybody else changes what is to be seen and
writes `force_redraw`: a system call in one step (`SysChange`), the main loop in
two (`MainChange` then `MainAsk`; the keyboard the other way round, `KeyAsk` then
`KeyEdit`), the once-a-second refresh (`Second`). One window with one text stands
for all. `unseen` is TRUE while a wish for a whole picture has been wiped by one
of the window manager's stores (`wm.c:408`, `414-416`) or overtaken by the edit of
the line that it announced (`kernel.c:259`); `Settles` shows that the
once-a-second refresh heals all of these, and what the early returns of
`process_mouse_events` leave marked dirty.

## Runs, bounds and fairness

All runs use `tlc -workers 2 -config X.cfg M`. Deadlock is checked except for
`UserMemory`, where the bounded supply of launches and frames runs out.

| run | what it shows | bounds |
|---|---|---|
| `tasks_ring` | `RingIntact`, `CpuOnLinkedTask`, `NoOrphanWindow` while a program is launched, opens a window, is killed by the shell, the close button and the context menu (the kernel task too), faults and exits | one application pid (`MaxPid = 4`): the tasks 0 to 3 of boot and one that comes and goes is the shortest ring in which head, middle and running task differ. With two applications all three hold too: 777,236 states when the user closes window 2, 2,964,997 when he closes window 0 (without the menu; too long for a routine run) |
| `tasks_lifecycle` | `FaultReaped`, `KernelScheduled`, `KeyWakesReader`, `SleepEnds` under fairness | one application, sleeps of one tick, one waiting key, the user closes the application's window by the button or the menu: sleep, key and kill can all meet |
| `heap` | `Tiled`, `HeldBlocksSafe`, `Coalesced`, `FailsOnlyWhenFull`, `Accounted`; `CallsReturn` | 21 words: up to four blocks, so a merge has a left and a right neighbour and a search wraps; 127 bytes wrap round the (7-bit) address space |
| `screen` | `FrameShowsScene`, `Settles` of `Screen`, `ShowsLastLines`, `LinesStayInside` of `Terminal`, and that the keyboard ring implements `BoundedFifo`: three instances that share nothing, of which the initial state of `MCScreen` chooses one | screen: 4 by 3 pixels, a pointer of 2 by 2, a window of 3 by 2, three spots, so that pointer and window are cut at the edges and the window leaves the screen; terminal: 3 lines, texts of up to 2, so that a text scrolls and a print in between fills the array; keyboard: 3 slots (full, empty, wrapped), with codes for Shift, Ctrl, arrows, letters and an untranslated key |
| `files` (2.4 million states, the longest run) | `ChainsAllocated`, `NothingLeaks`, `ImplementsStore`, `OpenFilesReadBack` | three clusters over two FAT sectors, a file of two clusters from the host, 3 directory entries of which a directory shows 2, sectors of 2 bytes and reads of 3, so that reads cross sectors and end inside them |
| `files_delete` | violation: a chain outside FAT sector 0 is not given back | as above, `SafeDeletes = FALSE` |
| `tcp` | `OwnBytesOnly`, `EndsAgree`, `AcksOnlySent`, `SocketsNotShared` | two programs, two sockets, three connections: a socket is used again while frames of its earlier connection are under way |
| `pipes` | the pool implements `NamedPipes` | two programs, two pipes of two bytes, three names of which two are the same in eight characters: the pool runs out, pipes fill, wrap and are joined |
| `user_memory` | `Isolated`, `ImageIntact`, `HeapBacked`, `ImagesReturned`, `MappingsStable` | two directories and three launches (the third has none), three places in the kernel heap of which two are unaligned, breaks of up to 6 words on pages of 2 |
| `user_memory_ninth` | violation: a program without a directory of its own overwrites another's view | one directory, three launches |
| `console` | `ConsoleTypeOK`, `HistoryRecalls`, `TakesWholeLine`; `NewestLineRuns` under fairness | lines of 2, a history of 2 and 3 entered lines: the history wraps, a paste fills the line |
| `desktop` | `EventsInOrder`, `EventsNameButtons`, `OneDragged`, `OnlyPointerPresses` | one application window used by two programs in turn, 3 buttons, 3 events. With two application windows, 2 buttons and 1 event (4,435,812 states, too long for a routine run) all hold too |

Each module has one type invariant, and all are proved for every instance; only
`console` checks one by a run as well, where it says that a
paste stays inside the line.

**Fairness.** Only four specifications have it.

- `Tasks!FairSpec`: the search loop (`Hop`) is weakly fair: it runs with
  interrupts off. The timer (`Tick`) is strongly fair: an interrupt that comes
  while they are off stays pending and is served when they are on again. The
  main loop is strongly fair: it is enabled only while task 0 has the
  processor, and the processor then executes its instructions. A task that
  faulted is in an endless `yield` (`idt.c`), so its `Yield` is weakly fair. No
  fairness is asked of programs, of the user or of the window manager.
- `KernelHeap!FairSpec`: a system call in the heap is not interrupted (weak);
  the reaper's `free` is executed whenever the main loop has the processor
  (strong), which `KernelScheduled` of `Tasks` supports.
- `Console`: the main loop's editor and the shell's polling of `sys_get_cmd`,
  an endless loop with a `yield`, are weakly fair: both are tasks of the ring,
  and a runnable task of the ring is scheduled in turn.
- `Screen!ScreenFairness`: the window manager's loop and the once-a-second
  refresh are weakly fair for the same reason, and only while `calm`: `Settles`
  speaks of the time when user, programs and network rest.

## Proofs

`tlapm` checks every proof to the last leaf; nothing is assumed but the named
`ASSUME`s on constants, which TLC evaluates on every run.

| module | proved, for every value of the constants | argument |
|---|---|---|
| `TasksProofs` | `TypeOK`, `RingIntact`, `CpuOnLinkedTask`, `NoOrphanWindow` | `IndInv`. `RingIntact` alone is not inductive: the step that links a TCB needs that the TCB is private to its creator and in nobody's `next` (`ChildInv`), and the step that unlinks needs that the walk's pointer is in the ring (`RingInv`) and that nobody asks for the death of the background task (`TargetInv`), so that the ring never becomes empty. `InsertCycle` and `RemoveCycle` state that a cycle with one element put in, or cut out, is a cycle. `NoOrphanWindow` needs in addition which windows the reaper has closed so far, and that it still reads the pid it has killed unless a request was lost |
| `KernelHeapProofs` | `TypeOK`, `Tiled`, `HeldBlocksSafe`, `Coalesced`, `FailsOnlyWhenFull`, `Accounted`, for `~Preemptible` | `IndInv` adds where a call is (`CallInv`: a half-done merge has extended the left block exactly to the end of the right one), that the search has skipped only blocks that do not fit (`SearchInv`) and that everything left of `free`'s pass is coalesced (`CoalesceInv`). `AccountInv`: the count is ahead of the sum by one block between `free`'s two first stores and equal to it otherwise. That the sum may take its blocks in any order (`SumsExist`, `SumIs`), so that one block can be put in or taken out (`SumAdds`), is proved from the definition of the fold |
| `RingProofs` | the type invariants of `KeyboardRing` and `Pipes`, and that they implement `BoundedFifo` and `NamedPipes`, for every size, every table of characters and every number of programs, pipes and names | lemmas on circular buffers say what a store or a take does to the sequence between two indices: arithmetic of `%` for an index that wraps once. Keyboard: no character of the ring is 0 (0 means "empty" to the caller), and the character that the main loop has loaded is still the oldest. Pipes: `head` is `count` slots behind `tail`, an active pipe's name is its own, and an open descriptor's pipe is active; so each name has one queue |
| `TcpProofs` | `TypeOK`, `OwnBytesOnly`, `EndsAgree`, `AcksOnlySent`, `SocketsNotShared`, for every number of programs, sockets and connections | `IInv`: a frame's port and number belong to the connection it names (`Frames`), and ports are handed out once, so no frame of an earlier connection matches a later socket |
| `InterfaceProofs` | Screen: `FrameShowsScene`, and that the dirty rectangle never leaves the screen (`DirtyOnScreen`), for every size of screen, pointer and window and wherever the mouse goes | `ScreenInv`: what is wrong on the screen is dirty (`ScreenRight`), what is about to be copied is right (`BufferRight`), and whenever only the dirty rectangle is drawn the pointer is in it (`PhaseInv`). `AddDirtyCovers` and `DrawnUnclipped` carry the geometry: merging two rectangles side by side loses no pixel, and clipping cuts none that is dirty |
| | Terminal: `LinesStayInside`, `ShowsLastLines`, for every number of lines and of texts | the line looked for is inside the array whatever printed in between, and the lines shown are the last ones of what was printed, except for as many as a disturbed print can have displaced (`disturbed`) |
| | Console: `ConsoleTypeOK`, `HistoryRecalls`, `TakesWholeLine`, for every length of line and of history | the slot of the i-th newest line by arithmetic of `%` on the number of lines entered; until a line is overtaken, what is copied so far is a beginning of the line entered last |
| `DesktopProofs` | `TypeOK`, `EventsInOrder`, `EventsNameButtons`, `OneDragged`, `OnlyPointerPresses`, for any number of programs, windows, buttons and events | `IInv`: an undisturbed append has read and stored what is still there (`AppendInv`), every queue not raced holds exactly what is due, also of closed windows (`QueueRight`), and no window is dragged once the release has begun (`DragInv`) |
| `UserMemoryProofs` | `Isolated`, `HeapBacked`, `ImagesReturned`, `ImageIntact`, `MappingsStable` and the shape of the state, for every number of directories, launches and frames, every size of page, image and region | `MemInv` says where everything is: in which table and on which frame each page of an image, of the library and of a heap lies; that a table is in one entry of one directory (`TablesOwned`), so that a store into one directory's table is seen by no other; that the pages of a heap are those below the break, on frames that nobody else has; and that the frames of an image are those of one held block, whose address `malloc` gave is in the word before it. The lemmas on `PageBounds` and application memory are arithmetic of pages and frames |
| `Fat16Proofs` | `TypeOK`, `ChainsAllocated`, `NothingLeaks`, that `Fat16` implements `FileStore`, and `OpenFilesReadBack`, for every disk the Makefile can build, every set of files, texts, descriptors and sizes of reads, for `SafeDeletes`; and, without that, that descriptors never change the disk (`OpenSpec => Spec`) | `FatInv`: entries are well formed, unique and contiguous in their chain (`DirInv`); the cluster of a write is marked and nobody's, or the file's own (`WriteInv`); once a delete has removed the entry, its copy of the table differs from the FAT only in clusters that no file owns (`DeleteInv`). `LeakInv` says what the running call has yet to give back or to mirror, `OpenInv` that the sectors of an opened file are where they were. A chain is a least set, so that two tables that agree on a chain have the same one, and a step of the walk leaves the rest of it; sectors of different clusters differ |

The refinements are proved the usual way: the initial state maps to an initial
state and each step to a step or a stutter of the abstract specification.

`SafeDeletes` and `~Preemptible` are hypotheses of the theorems and not
assumptions on the system: the kernel as it is built has neither, and the
properties fail without them (see findings).

The library's induction theorems take the formula as an operator, which the
provers cannot instantiate. Where a proof needs an induction it goes through the
least number of a concrete set (`LeastNumber`, from the library's
well-foundedness of `<`).

Only model-checked: all liveness (`FaultReaped`, `KernelScheduled`,
`KeyWakesReader`, `SleepEnds`, `CallsReturn`, `NewestLineRuns`, `Settles`), which
is beyond the prover. Every other property of a passing run is a theorem.

## Findings and other disagreements

Two runs end in a violation, each of something the repository says:

- `files_delete`: the header of `ardaos_delete_file` announces the breaking of
  the chain (`disk.c:273`), but only FAT sector 0 is loaded and indexed with any
  cluster number. On the image the Makefile builds, applications fill clusters
  2 to 1247, so every file the running system creates is beyond sector 0.
- `user_memory_ninth`: "per-process paging" (`memory.c:182`) ends with the
  eighth directory; every later program maps its image into the kernel's
  directory at the same addresses.

Others can be seen by changing a constant; they are races or gaps that no text
of the repository denies, or that the passing properties name as their
exception:

| change | what TLC shows |
|---|---|
| `Tasks`: the disjunct `lost` taken out of `NoOrphanWindow` and `FaultReaped`, two applications (`MaxPid = 5`) | both fail: a request to kill overwrites the one slot `task_to_kill`, or the reaper's final store wipes one, and a faulted task or a window stays |
| `Tasks`, lifecycle: `CloseTargets` with 0 | `KernelScheduled` fails: the kernel task is killed by the terminal's close button; nothing is reaped afterwards |
| `KernelHeap`: `Preemptible = TRUE` | `HeldBlocksSafe` fails |
| `Fat16`: `MaxSectors > SectorsPerCluster` | TLC refuses the assumption; a longer text would run into the next file's cluster |

In `Tcp` the first SYN is not sent when the router's address is unknown, and
nothing sends it again (`Connect` before `OnArp`); in `Console` a line that is
overtaken is lost; in `Desktop` a raced append loses a click or repeats an old
one; in `Terminal` a print of the main loop that is overtaken loses a line, and the
count may exceed the array by one, so that the window manager draws one line from
behind it; in `Screen` a wiped wish leaves an old picture for up to a second.

## What is not modelled

- *UDP, ping, transmit buffers, the receive ring's addresses*: UDP keeps one
  datagram and nothing depends on it; the byte offsets of the ring
  (`rx_offset` is never taken modulo the ring) are below the model's frames.
- *Listing directories*: changes nothing.
- *Mouse packets and the clamping of the pointer, text selection*: the phase of
  the three bytes is one counter in one handler; `Screen` and `Desktop` take any
  movement and any button.
- *What is drawn*: fonts, colours, taskbar, menu, clock, the lamp of the network,
  the wallpaper's file. They are drawn over the windows at fixed places; what
  they do to `force_redraw` is in `Screen`.
- *`graphics.c`*: the same renderer again, for the kernel's fatal-error screen,
  after which nothing runs.
- *VGA text, splitting a printed text at 79 characters*: layout.
- *Clipboard between windows, window text, shapes, titles*: one assignment each.
- *Sound, PCI scan, port and string helpers*: no state outlives a call.
- *Boot, GDT, IDT set-up*: done once; `Init` of each module is the state after
  it.
- *Build, linker script, disk injector*: host tools; the Makefile fixes the
  constants of `Fat16`.

## Plan

Order of work, most important first. Done: 1 to 10.

1. `Tasks`: scheduler, reaper, wake-ups; ring proofs.
2. `KernelHeap` and its proofs.
3. `KeyboardRing` over `ByteRing` and `BoundedFifo`; refinement proof.
4. `Fat16` over `FileStore`; `OpenFiles` over `Fat16`.
5. `Tcp` and its proofs.
6. `Pipes` over `NamedPipes`; refinement proof.
7. `UserMemory`, `Console`, `Desktop`.
8. `Screen` and `Terminal`; the proof of `FrameShowsScene`.
9. Proofs of `NoOrphanWindow` and of the properties of `Desktop`.
10. Proofs of `Isolated`, `MappingsStable` and the rest of `UserMemory`, of the
    properties of `Console` and `Terminal`, of `Fat16` and `OpenFiles` for any
    disk, and of `Accounted`.
11. An abstract scheduler (a set of tasks, each runnable or blocked) that
    `Tasks` implements as long as `~stale`.
12. Composition of `Console` with the focus and the readers of `Tasks`, so that
    a key goes either into the line or to the program that waits for it.
13. The mouse's three-byte packets and the phase that a lost byte shifts; UDP
    descriptors.
