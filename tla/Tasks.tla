------------------------------- MODULE Tasks -------------------------------
(***************************************************************************)
(* Tasks, their scheduler and the reaper (task.c, boot.asm, timer.c,       *)
(* idt.c, the main loop of kernel.c), with the windows and the keyboard    *)
(* focus that decide whom the reaper kills and whom a key wakes.           *)
(*                                                                         *)
(* There is one processor.  `current' is the task it runs; a step of any   *)
(* other task is not enabled.  System calls, interrupt handlers and the    *)
(* search for the next task run with interrupts off and are one step each; *)
(* the kernel task (the main loop) and create_task after its `sti' run     *)
(* with interrupts on, and are split where another task's step can change  *)
(* what they have read.  A TCB is named by its pid: pids only grow, so a   *)
(* pid outside `live' is a TCB that was freed or not allocated yet.        *)
(***************************************************************************)
EXTENDS Integers

CONSTANTS
    MaxPid,       \* bound: create_task hands out pids up to this one
    MaxWindows,   \* MAX_WINDOWS of ardaos.h
    MaxSleep,     \* bound: the longest sleep, in ticks (0: nobody sleeps)
    MaxKeys,      \* bound: key presses waiting in the keyboard ring
    Launchers,    \* the tasks whose program calls sys_exec (shell, explorer)
    ShellTargets, \* the pids the user types after "kill"
    CloseTargets, \* the windows the user closes, by the button or the menu
    MenuUsed      \* whether the user opens the context menu

Kernel == 0       \* kernel_main's loop
Background == 1   \* background_task
Wm == 2           \* wm.elf
Shell == 3        \* shell.elf
NoTask == -1

Pid == 0 .. MaxPid
Windows == 0 .. MaxWindows - 1
AppWindows == 2 .. MaxWindows - 1   \* 0 is the terminal, 1 the monitor
App == 4 .. MaxPid

ASSUME PidAssumption == MaxPid \in Nat /\ MaxPid >= Shell
ASSUME WindowAssumption == MaxWindows \in Nat /\ MaxWindows >= 3
ASSUME BoundAssumption == MaxSleep \in Nat /\ MaxKeys \in Nat
ASSUME RoleAssumption ==
    /\ Launchers \subseteq {Shell} \cup App
    /\ ShellTargets \subseteq Shell .. MaxPid   \* shell.c refuses pids <= 2
    /\ CloseTargets \subseteq Windows
    /\ MenuUsed \in BOOLEAN

VARIABLES
    live,        \* the pids whose TCB is allocated
    next,        \* next[p]: the `next' pointer in the TCB of p
    state,       \* 0 runnable, 1 blocked
    sleepTicks,
    nextPid,
    readyQueue,
    current,
    switching,   \* the processor is in the search loop of boot.asm
    upc,         \* where a user task is
    child,       \* the TCB a task inside create_task has not linked yet
    taskToKill,
    kpc,         \* where the kernel's main loop is
    killArg,     \* the argument of kill_task_by_id
    kCurr,       \* its local `curr'
    kTarget,     \* its local `target'
    kWin,        \* the index of the loop that closes windows
    victim,      \* the register that holds task_to_kill in that loop
    open,        \* the windows with is_open set
    owner,       \* owner_task_id of a window
    focus,       \* focused_window
    menu,        \* context_menu_open
    keys,        \* characters in the keyboard ring
    lastKey,     \* last_game_key holds a key
    stale,       \* history: a pointer changed between its read and its use
    lost         \* history: a request to kill was overwritten, or wiped unserved

ring     == <<next, readyQueue, live, child, stale>>
blocking == <<state, sleepTicks>>
cpu      == <<current, switching>>
reaper   == <<killArg, kCurr, kTarget, kWin, victim>>
gui      == <<open, owner, focus, menu>>
kbd      == <<keys, lastKey>>
request == <<taskToKill, lost>>
vars == <<ring, blocking, cpu, nextPid, upc, request, kpc, reaper, gui, kbd>>

-----------------------------------------------------------------------------
\* The state after boot, when shell.elf has been loaded: create_task inserts
\* behind ready_queue, so the ring is kernel, shell, wm, background.
Init ==
    /\ live = 0 .. Shell
    /\ next = [p \in Pid |-> IF p \in 1 .. Shell THEN p - 1
                             ELSE IF p = Kernel THEN Shell ELSE NoTask]
    /\ state = [p \in Pid |-> 0]
    /\ sleepTicks = [p \in Pid |-> 0]
    /\ nextPid = Shell + 1
    /\ readyQueue = Kernel
    /\ current = Kernel
    /\ switching = FALSE
    /\ upc = [p \in Pid |-> "run"]
    /\ child = [p \in Pid |-> NoTask]
    /\ taskToKill = NoTask
    /\ kpc = "reap"
    /\ killArg = NoTask
    /\ kCurr = Kernel
    /\ kTarget = NoTask
    /\ kWin = 2
    /\ victim = NoTask
    /\ open = {0, 1}
    /\ owner = [w \in Windows |-> Kernel]
    /\ focus = 0
    /\ menu = FALSE
    /\ keys = 0
    /\ lastKey = FALSE
    /\ stale = FALSE
    /\ lost = FALSE

\* The tasks a do-while from ready_queue along `next' visits.
Walked ==
    LET at[n \in 0 .. MaxPid + 1] == IF n = 0 THEN readyQueue ELSE next[at[n - 1]]
    IN  {at[n] : n \in 0 .. MaxPid + 1}

\* The processor executes an instruction of task p.
Runs(p) == ~switching /\ current = p

FocusedApp == focus \in AppWindows /\ focus \in open

-----------------------------------------------------------------------------
(* The scheduler.                                                          *)

\* A search that starts over at the head of the queue.
SuccessorOfHead == next[readyQueue]

\* Where the search of boot.asm looks next.
Successor == next[current]

\* One turn of timer_find_next_task / find_next_task: current_task moves on,
\* and the search ends at the first task whose state is not 1.
Hop ==
    /\ switching
    /\ current' = Successor
    /\ switching' = (state[Successor] = 1)
    /\ UNCHANGED <<ring, blocking, nextPid, upc, request, kpc, reaper, gui, kbd>>

\* An interrupt ends the `hlt' at the bottom of the main loop.
Unhalt == kpc' = IF current = Kernel /\ kpc = "hlt" THEN "reap" ELSE kpc

\* The tasks timer_handler_main counts down.
Sleeper(p) == p \in Walked /\ state[p] = 1 /\ sleepTicks[p] > 0

\* A test before the count instead of after it.
SleepOverBefore(p) == Sleeper(p) /\ sleepTicks[p] = 0

SleepOver(p) == Sleeper(p) /\ sleepTicks[p] = 1

\* IRQ0: timer_handler_main counts every sleeper down, and the handler
\* preempts the running task.  fault_handler's loop has interrupts off.
Tick ==
    /\ ~switching
    /\ upc[current] # "fault"
    /\ sleepTicks' = [p \in Pid |-> IF Sleeper(p) THEN sleepTicks[p] - 1 ELSE sleepTicks[p]]
    /\ state' = [p \in Pid |-> IF SleepOver(p) THEN 0 ELSE state[p]]
    /\ switching' = TRUE
    /\ Unhalt
    /\ UNCHANGED <<ring, current, nextPid, upc, request, reaper, gui, kbd>>

\* IRQ1: keyboard_handler_main stores a character (see KeyboardRing).
KeyPress ==
    /\ ~switching
    /\ upc[current] # "fault"
    /\ keys < MaxKeys
    /\ keys' = keys + 1
    /\ Unhalt
    /\ UNCHANGED <<ring, blocking, cpu, nextPid, upc, request, reaper, gui, lastKey>>

-----------------------------------------------------------------------------
(* User tasks: system calls, faults, and the int 129 of sys_yield.         *)

AtUser(p) == p # Kernel /\ Runs(p) /\ upc[p] = "run"

\* Between the search of kill_task_by_id and task_to_kill = -1.
ReaperAtWork == kpc \in {"walk", "unlink", "free", "windows", "reset"}

\* task_to_kill = p, whatever was there: there is one slot for all requests,
\* and the reaper, when it is done, wipes what it then holds.
Request(p) ==
    /\ taskToKill' = p
    /\ lost' = (lost \/ taskToKill \notin {NoTask, p} \/ ReaperAtWork)

\* sys_yield, and the yield of fault_handler's quarantine loop.
Yield(p) ==
    /\ p # Kernel /\ Runs(p) /\ upc[p] \in {"run", "fault"}
    /\ switching' = TRUE
    /\ UNCHANGED <<ring, blocking, current, nextPid, upc, request, kpc, reaper, gui, kbd>>

\* sleep_task: at least one tick.
Sleep(p) ==
    /\ AtUser(p) /\ p \notin {Background, Wm}
    /\ \E t \in 1 .. MaxSleep : sleepTicks' = [sleepTicks EXCEPT ![p] = t]
    /\ state' = [state EXCEPT ![p] = 1]
    /\ switching' = TRUE
    /\ UNCHANGED <<ring, current, nextPid, upc, request, kpc, reaper, gui, kbd>>

\* An exit that gives the TCB back at once instead of asking the reaper.
ExitAtOnce(p) ==
    /\ AtUser(p) /\ p \in App
    /\ live' = live \ {p}
    /\ switching' = TRUE
    /\ UNCHANGED <<next, readyQueue, child, stale, blocking, current, nextPid, upc,
                   request, kpc, reaper, gui, kbd>>

\* api_exit_app: the request, then a yield; a task scheduled again before the
\* reaper has run returns from sys_exit to its program.
Exit(p) ==
    /\ AtUser(p) /\ p \in App
    /\ Request(p)
    /\ switching' = TRUE
    /\ UNCHANGED <<ring, blocking, current, nextPid, upc, kpc, reaper, gui, kbd>>

\* A fault_handler that parks the task and forgets to ask for the reaper.
FaultUnreported(p) ==
    /\ AtUser(p) /\ p \in App
    /\ state' = [state EXCEPT ![p] = 1]
    /\ upc' = [upc EXCEPT ![p] = "fault"]
    /\ switching' = TRUE
    /\ UNCHANGED <<ring, sleepTicks, current, nextPid, request, kpc, reaper, gui, kbd>>

\* fault_handler for a task with id >= 2: request, block, loop in yield.
Fault(p) ==
    /\ AtUser(p) /\ p \in App
    /\ Request(p)
    /\ state' = [state EXCEPT ![p] = 1]
    /\ upc' = [upc EXCEPT ![p] = "fault"]
    /\ switching' = TRUE
    /\ UNCHANGED <<ring, sleepTicks, current, nextPid, kpc, reaper, gui, kbd>>

\* The shell's "kill <pid>": sys_kill_task only stores the request.
ShellKill(t) ==
    /\ AtUser(Shell)
    /\ Request(t)
    /\ UNCHANGED <<ring, blocking, cpu, nextPid, upc, kpc, reaper, gui, kbd>>

\* sys_exec up to the end of the ELF load: the TCB exists and is zeroed, the
\* `sti' of create_task has turned interrupts on.
Exec(p) ==
    /\ AtUser(p) /\ p \in Launchers
    /\ nextPid <= MaxPid
    /\ live' = live \cup {nextPid}
    /\ child' = [child EXCEPT ![p] = nextPid]
    /\ nextPid' = nextPid + 1
    /\ upc' = [upc EXCEPT ![p] = "created"]
    /\ UNCHANGED <<next, readyQueue, stale, blocking, cpu, request, kpc, reaper, gui, kbd>>

\* new_task->next = ready_queue->next
LinkRead(p) ==
    /\ p # Kernel /\ Runs(p) /\ upc[p] = "created"
    /\ next' = [next EXCEPT ![child[p]] = next[readyQueue]]
    /\ upc' = [upc EXCEPT ![p] = "linking"]
    /\ UNCHANGED <<live, child, readyQueue, stale, blocking, cpu, nextPid, request,
                   kpc, reaper, gui, kbd>>

\* ready_queue->next = new_task
LinkWrite(p) ==
    /\ p # Kernel /\ Runs(p) /\ upc[p] = "linking"
    /\ next' = [next EXCEPT ![readyQueue] = child[p]]
    /\ stale' = (stale \/ next[readyQueue] # next[child[p]])
    /\ child' = [child EXCEPT ![p] = NoTask]
    /\ upc' = [upc EXCEPT ![p] = "run"]
    /\ UNCHANGED <<live, readyQueue, blocking, cpu, nextPid, request, kpc, reaper, gui, kbd>>

\* api_get_key for the owner of the focused window: take the key, or mark
\* the task blocked and return; the program runs on until it is switched out.
GetKey(p) ==
    /\ AtUser(p) /\ p \in App
    /\ FocusedApp /\ owner[focus] = p
    /\ lastKey' = FALSE
    /\ state' = IF lastKey THEN state ELSE [state EXCEPT ![p] = 1]
    /\ UNCHANGED <<ring, sleepTicks, cpu, nextPid, upc, request, kpc, reaper, gui, keys>>

\* api_poll_key never blocks.
PollKey(p) ==
    /\ AtUser(p) /\ p \in App
    /\ FocusedApp /\ owner[focus] = p
    /\ lastKey' = FALSE
    /\ UNCHANGED <<ring, blocking, cpu, nextPid, upc, request, kpc, reaper, gui, keys>>

\* api_create_window takes the first closed slot, if there is one.
CreateWindow(p) ==
    /\ AtUser(p) /\ p \in App
    /\ \E w \in Windows \ open :
         /\ \A v \in Windows : v < w => v \in open
         /\ open' = open \cup {w}
         /\ owner' = [owner EXCEPT ![w] = p]
         /\ focus' = w
    /\ UNCHANGED <<ring, blocking, cpu, nextPid, upc, request, kpc, reaper, menu, kbd>>

-----------------------------------------------------------------------------
(* The window manager (wm.c), a user task of its own.  sys_kill and the    *)
(* store that closes the window are two steps; the store indexes with the  *)
(* focused_window it reads then.                                           *)

\* A click on a close button: focus the window, ask for its owner's death.
WmClickClose(w) ==
    /\ AtUser(Wm) /\ ~menu
    /\ w \in open
    /\ focus' = w
    /\ Request(owner[w])
    /\ upc' = [upc EXCEPT ![Wm] = "closing"]
    /\ UNCHANGED <<ring, blocking, cpu, nextPid, kpc, reaper, open, owner, menu, kbd>>

WmClickClosed ==
    /\ Runs(Wm) /\ upc[Wm] = "closing"
    /\ open' = open \ {focus}
    /\ upc' = [upc EXCEPT ![Wm] = "run"]
    /\ UNCHANGED <<ring, blocking, cpu, nextPid, request, kpc, reaper, owner, focus, menu, kbd>>

\* The taskbar gives a window the focus.
WmFocus(w) ==
    /\ AtUser(Wm) /\ ~menu
    /\ w \in open /\ w # focus
    /\ focus' = w
    /\ UNCHANGED <<ring, blocking, cpu, nextPid, upc, request, kpc, reaper, open, owner, menu, kbd>>

WmMenuOpen ==
    /\ AtUser(Wm) /\ MenuUsed /\ ~menu
    /\ focus \in open
    /\ menu' = TRUE
    /\ UNCHANGED <<ring, blocking, cpu, nextPid, upc, request, kpc, reaper, open, owner, focus, kbd>>

\* "Kapat" in the menu acts on whatever window has the focus by now.
WmMenuClose ==
    /\ AtUser(Wm) /\ menu /\ focus \in CloseTargets
    /\ Request(owner[focus])
    /\ upc' = [upc EXCEPT ![Wm] = "menuClosing"]
    /\ UNCHANGED <<ring, blocking, cpu, nextPid, kpc, reaper, gui, kbd>>

\* It then focuses some window that is still open (the first one that is not
\* minimized; which ones are minimized is left open here).
WmMenuClosed ==
    /\ Runs(Wm) /\ upc[Wm] = "menuClosing"
    /\ open' = open \ {focus}
    /\ focus' \in (open \ {focus}) \cup {focus}
    /\ menu' = FALSE
    /\ upc' = [upc EXCEPT ![Wm] = "run"]
    /\ UNCHANGED <<ring, blocking, cpu, nextPid, request, kpc, reaper, owner, kbd>>

\* Any other menu entry, or a click beside the menu.
WmMenuDismiss ==
    /\ AtUser(Wm) /\ menu
    /\ menu' = FALSE
    /\ focus' \in open \cup {focus}
    /\ UNCHANGED <<ring, blocking, cpu, nextPid, upc, request, kpc, reaper, open, owner, kbd>>

-----------------------------------------------------------------------------
(* The kernel task: one turn of the main loop of kernel_main.              *)

AtKernel(label) == Runs(Kernel) /\ kpc = label

\* if (task_to_kill != -1) kill_task_by_id(task_to_kill)
Reap ==
    /\ AtKernel("reap")
    /\ IF taskToKill = NoTask
       THEN kpc' = "keyboard" /\ UNCHANGED <<killArg, kCurr>>
       ELSE kpc' = "walk" /\ killArg' = taskToKill /\ kCurr' = readyQueue
    /\ UNCHANGED <<ring, blocking, cpu, nextPid, upc, request, kTarget, kWin, victim, gui, kbd>>

\* One turn of the search in kill_task_by_id.
ReapWalk ==
    /\ AtKernel("walk")
    /\ LET t == next[kCurr] IN
         IF t = killArg
         THEN kTarget' = t /\ kpc' = "unlink" /\ UNCHANGED <<kCurr, kWin>>
         ELSE /\ kCurr' = t
              /\ kpc' = IF t = readyQueue THEN "windows" ELSE "walk"
              /\ kWin' = 2
              /\ UNCHANGED kTarget
    /\ UNCHANGED <<ring, blocking, cpu, nextPid, upc, request, killArg, victim, gui, kbd>>

\* ready_queue left where it is.
HeadKept(t) == readyQueue

\* ready_queue moves off the target.
HeadWithout(t) == IF readyQueue = t THEN next[t] ELSE readyQueue

\* curr->next = target->next, after moving ready_queue off the target.
ReapUnlink ==
    /\ AtKernel("unlink")
    /\ readyQueue' = HeadWithout(kTarget)
    /\ next' = [next EXCEPT ![kCurr] = next[kTarget]]
    /\ stale' = (stale \/ next[kCurr] # kTarget)
    /\ kpc' = "free"
    /\ UNCHANGED <<live, child, blocking, cpu, nextPid, upc, request, reaper, gui, kbd>>

\* A reaper that skips the loop over the windows.
ReapFreeOnly ==
    /\ AtKernel("free")
    /\ live' = live \ {kTarget}
    /\ kpc' = "reset"
    /\ UNCHANGED <<next, readyQueue, child, stale, blocking, cpu, nextPid, upc, request,
                   killArg, kCurr, kTarget, kWin, victim, gui, kbd>>

\* The stack, the program's memory and the TCB go back to the heap: what they
\* held (where the task was, why it was blocked) is no state any more, except
\* the `next' the processor may still follow.
ReapFree ==
    /\ AtKernel("free")
    /\ live' = live \ {kTarget}
    /\ state' = [state EXCEPT ![kTarget] = 0]
    /\ sleepTicks' = [sleepTicks EXCEPT ![kTarget] = 0]
    /\ upc' = [upc EXCEPT ![kTarget] = IF @ = "fault" THEN "run" ELSE @]
    /\ kpc' = "windows"
    /\ kWin' = 2
    /\ UNCHANGED <<next, readyQueue, child, stale, cpu, nextPid, request,
                   killArg, kCurr, kTarget, victim, gui, kbd>>

\* One turn of the loop that closes the victim's windows.  task_to_kill is
\* an ordinary int: the build loads it before the loop, and may load it
\* again in any turn.
ReapWindow ==
    /\ AtKernel("windows")
    /\ victim' \in IF kWin = 2 THEN {taskToKill} ELSE {victim, taskToKill}
    /\ IF kWin \in open /\ owner[kWin] = victim'
       THEN open' = open \ {kWin} /\ focus' = IF focus = kWin THEN 0 ELSE focus
       ELSE UNCHANGED <<open, focus>>
    /\ kWin' = kWin + 1
    /\ kpc' = IF kWin = MaxWindows - 1 THEN "reset" ELSE "windows"
    /\ UNCHANGED <<ring, blocking, cpu, nextPid, upc, request, killArg, kCurr, kTarget,
                   owner, menu, kbd>>

\* task_to_kill = -1; the locals of kill_task_by_id and of the loop are gone.
ReapReset ==
    /\ AtKernel("reset")
    /\ taskToKill' = NoTask /\ UNCHANGED lost
    /\ kpc' = "keyboard"
    /\ killArg' = NoTask /\ kCurr' = readyQueue /\ kTarget' = NoTask /\ kWin' = 2 /\ victim' = NoTask
    /\ UNCHANGED <<ring, blocking, cpu, nextPid, upc, gui, kbd>>

\* process_keyboard_events takes a character, if there is one...
TakeKey ==
    /\ AtKernel("keyboard")
    /\ IF keys = 0 THEN kpc' = "yield" /\ UNCHANGED keys
                   ELSE kpc' = "wake" /\ keys' = keys - 1
    /\ UNCHANGED <<ring, blocking, cpu, nextPid, upc, request, reaper, gui, lastKey>>

\* A key that wakes nobody.
WakesNobody(p) == FALSE

\* The task wake_task_by_id makes runnable: only one it finds in the ring.
Wakes(p) == FocusedApp /\ owner[focus] = p /\ p \in Walked

\* ... wakes the owner of the focused window...
WakeFocused ==
    /\ AtKernel("wake")
    /\ state' = [p \in Pid |-> IF Wakes(p) THEN 0 ELSE state[p]]
    /\ kpc' = "deliver"
    /\ UNCHANGED <<ring, sleepTicks, cpu, nextPid, upc, request, reaper, gui, kbd>>

\* ... and only then stores the key (or edits the terminal line instead).
DeliverKey ==
    /\ AtKernel("deliver")
    /\ lastKey' = FocusedApp
    /\ kpc' = "yield"
    /\ UNCHANGED <<ring, blocking, cpu, nextPid, upc, request, reaper, gui, keys>>

\* yield(); sti; hlt
KernelYield ==
    /\ AtKernel("yield")
    /\ switching' = TRUE
    /\ kpc' = "hlt"
    /\ UNCHANGED <<ring, blocking, current, nextPid, upc, request, reaper, gui, kbd>>

-----------------------------------------------------------------------------
KernelStep ==
    \/ Reap \/ ReapWalk \/ ReapUnlink \/ ReapFree \/ ReapWindow \/ ReapReset
    \/ TakeKey \/ WakeFocused \/ DeliverKey \/ KernelYield

WmStep ==
    \/ \E w \in CloseTargets : WmClickClose(w)
    \/ \E w \in Windows : WmFocus(w)
    \/ WmClickClosed \/ WmMenuOpen \/ WmMenuClose \/ WmMenuClosed \/ WmMenuDismiss

UserStep(p) ==
    \/ Yield(p) \/ Sleep(p) \/ Exit(p) \/ Fault(p)
    \/ Exec(p) \/ LinkRead(p) \/ LinkWrite(p)
    \/ GetKey(p) \/ PollKey(p) \/ CreateWindow(p)

ShellStep == \E t \in ShellTargets : ShellKill(t)

Next == Hop \/ Tick \/ KeyPress \/ KernelStep \/ WmStep \/ ShellStep
        \/ \E p \in Pid : UserStep(p)

Spec == Init /\ [][Next]_vars

\* The search loop makes progress; the timer fires (an interrupt that comes
\* while interrupts are off stays pending); the kernel executes instructions
\* whenever it keeps being scheduled (a quantum is 10 ms), and so does the loop
\* in which fault_handler parks a task.  Nothing is assumed of user programs.
Fairness ==
    /\ WF_vars(Hop) /\ SF_vars(Tick) /\ SF_vars(KernelStep)
    /\ \A p \in App : WF_vars(upc[p] = "fault" /\ Yield(p))

FairSpec == Spec /\ Fairness
-----------------------------------------------------------------------------
(* Properties.                                                             *)

TypeOK ==
    /\ live \subseteq Pid
    /\ next \in [Pid -> Pid \cup {NoTask}]
    /\ state \in [Pid -> {0, 1}]
    /\ sleepTicks \in [Pid -> 0 .. MaxSleep]
    /\ nextPid \in Shell + 1 .. MaxPid + 1
    /\ readyQueue \in Pid
    /\ current \in Pid
    /\ switching \in BOOLEAN
    /\ upc \in [Pid -> {"run", "fault", "created", "linking", "closing", "menuClosing"}]
    /\ child \in [Pid -> Pid \cup {NoTask}]
    /\ taskToKill \in Pid \cup {NoTask}
    /\ kpc \in {"reap", "walk", "unlink", "free", "windows", "reset",
                "keyboard", "wake", "deliver", "yield", "hlt"}
    /\ killArg \in Pid \cup {NoTask}
    /\ kCurr \in Pid
    /\ kTarget \in Pid \cup {NoTask}
    /\ kWin \in 2 .. MaxWindows
    /\ victim \in Pid \cup {NoTask}
    /\ open \subseteq Windows
    /\ owner \in [Windows -> Pid]
    /\ focus \in Windows
    /\ menu \in BOOLEAN
    /\ keys \in 0 .. MaxKeys
    /\ lastKey \in BOOLEAN
    /\ stale \in BOOLEAN
    /\ lost \in BOOLEAN

\* The tasks that are in the run ring: allocated, no longer private to
\* create_task, not yet cut out by kill_task_by_id.
Ring == (live \ {child[p] : p \in Pid}) \ (IF kpc = "free" THEN {kTarget} ELSE {})

\* nx runs through all of R in one cycle: it stays in R, no two elements have
\* the same successor, and no proper part of R is closed under it.
OneCycle(nx, R) ==
    /\ \A p \in R : nx[p] \in R
    /\ \A p, q \in R : nx[p] = nx[q] => p = q
    /\ \A S \in SUBSET R : S # {} /\ (\A p \in S : nx[p] \in S) => S = R

\* As long as no link or unlink has acted on a pointer that changed since it
\* was read, the ring the scheduler runs through is one cycle that holds
\* every linked task and no freed one, and ready_queue points into it.
RingIntact == ~stale => OneCycle(next, Ring) /\ readyQueue \in Ring

\* ... and the processor is on a task of the ring: no task runs on a TCB and
\* a stack that went back to the heap.
CpuOnLinkedTask == ~stale /\ Kernel \in Ring => current \in Ring

\* When the reaper is not at work, an application window that is open has a
\* live owner: a window outlives its task only when a request to kill was
\* overwritten before the main loop had served it, when the ring was already
\* damaged, or when the main loop itself was killed.
NoOrphanWindow ==
    ~stale /\ ~lost /\ Kernel \in live /\ kpc \notin {"free", "windows"} =>
        \A w \in open \cap AppWindows : owner[w] \in live

\* A task that faulted is reaped (idt.c: its window and memory are freed),
\* unless another request overwrote the fault's or the ring is damaged.
FaultReaped == \A p \in App : upc[p] = "fault" ~> (p \notin live \/ stale \/ lost)

\* The main loop gets the processor again and again, whatever programs do.
KernelScheduled == []<>Runs(Kernel)

\* A key that waits while a task is blocked on the focused window wakes it,
\* unless the focus or the task is gone first.
KeyWakesReader ==
    \A p \in App : (keys > 0 /\ state[p] = 1 /\ FocusedApp /\ owner[focus] = p)
                     ~> (state[p] = 0 \/ ~FocusedApp \/ owner[focus] # p)

\* A task that sleeps wakes up (the timer counts it down, or a key ends the
\* sleep early: both share state 1), unless it is gone from the ring.
SleepEnds ==
    \A p \in {Shell} \cup App : (sleepTicks[p] > 0 /\ state[p] = 1)
                     ~> (state[p] = 0 \/ p \notin live \/ stale)
=============================================================================
