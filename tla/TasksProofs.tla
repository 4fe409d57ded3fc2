---------------------------- MODULE TasksProofs ----------------------------
(***************************************************************************)
(* The run ring of Tasks, for every number of tasks and windows: the       *)
(* pointers the scheduler and the reaper follow are never null, and as     *)
(* long as no pointer went stale under an interrupted update the ring is   *)
(* one cycle through exactly the linked tasks.                             *)
(***************************************************************************)
EXTENDS Tasks, TLAPS

\* The TCBs whose `next' has been written.
HasNext == {p \in Pid : next[p] # NoTask}

\* Types, with what keeps them: every pointer that is followed leads to a TCB
\* whose own `next' has been written.
TypeInv ==
    /\ TypeOK
    /\ \A p \in Pid : next[p] # NoTask => next[p] \in HasNext
    /\ {readyQueue, current, kCurr} \subseteq HasNext
    /\ kpc \in {"unlink", "free"} => kTarget \in HasNext
    /\ kpc = "windows" => kWin < MaxWindows
    /\ \A p \in Pid : /\ upc[p] \in {"created", "linking"} => child[p] \in Pid
                      /\ upc[p] = "linking" => child[p] \in HasNext

\* The pids that create_task has not linked yet.
Private == {child[p] : p \in Pid} \ {NoTask}

\* Every child is a live TCB of one creator only, and nothing points to it.
ChildInv ==
    /\ live \subseteq 0 .. nextPid - 1
    /\ \A p \in Pid : IF upc[p] \in {"created", "linking"}
                      THEN child[p] \in live /\ child[p] > Shell
                      ELSE child[p] = NoTask
    /\ \A p, q \in Pid : p # q /\ child[p] = child[q] => child[p] = NoTask
    /\ \A p \in Pid : /\ p >= nextPid => next[p] = NoTask
                      /\ next[p] \notin Private
    /\ kpc \in {"unlink", "free"} => kTarget \notin Private

\* The background task is never asked for.
TargetInv ==
    /\ taskToKill # Background
    /\ kpc \in {"walk", "unlink"} => killArg # Background
    /\ kpc = "unlink" => kTarget = killArg
    /\ \A w \in Windows : owner[w] # Background

\* The ring, with the positions of the reaper in it.
RingInv ==
    ~stale =>
        /\ OneCycle(next, Ring)
        /\ readyQueue \in Ring
        /\ Background \in Ring
        /\ kpc \in {"walk", "unlink"} => kCurr \in Ring
        /\ kpc = "unlink" => kTarget \in Ring
        /\ Kernel \in Ring => current \in Ring

\* The reaper works for the request it read, and the windows whose owner is
\* gone are the ones its loop has not reached.
OrphanInv ==
    ~stale /\ ~lost /\ Kernel \in Ring =>
        /\ kpc \in {"walk", "unlink", "free", "windows"} => killArg # NoTask /\ taskToKill = killArg
        /\ kpc = "free" => kTarget = killArg
        /\ kpc = "windows" /\ kWin # 2 => victim = killArg
        /\ \A w \in open \cap AppWindows :
             owner[w] \in live \/ (kpc = "windows" /\ owner[w] = killArg /\ w >= kWin)

IndInv == TypeInv /\ ChildInv /\ TargetInv /\ RingInv /\ OrphanInv

-----------------------------------------------------------------------------
\* Inserting c behind h leaves one cycle (create_task).
LEMMA InsertCycle ==
    ASSUME NEW D, NEW E, NEW nx \in [D -> E], NEW R \in SUBSET D,
           OneCycle(nx, R), NEW h \in R, NEW c \in D \ R, nx[c] = nx[h]
    PROVE  OneCycle([nx EXCEPT ![h] = c], R \cup {c})
<1> DEFINE ny == [nx EXCEPT ![h] = c]
<1>1. /\ ny[h] = c /\ ny[c] = nx[h] /\ nx[h] \in R
      /\ \A p \in R : p # h => ny[p] = nx[p] /\ nx[p] \in R
  BY DEF OneCycle
<1>2. \A p \in R \cup {c} : ny[p] \in R \cup {c}
  BY <1>1
<1>4. ASSUME NEW p \in R \cup {c}, NEW q \in R \cup {c}, ny[p] = ny[q]
      PROVE  p = q
  BY <1>1, <1>4 DEF OneCycle
<1>3. ASSUME NEW S \in SUBSET (R \cup {c}), S # {}, \A p \in S : ny[p] \in S
      PROVE  S = R \cup {c}
  <2> DEFINE T == S \ {c}
  <2>1. T # {}
    BY <1>1, <1>3
  <2>2. \A p \in T : nx[p] \in T
    <3>1. SUFFICES ASSUME NEW p \in T PROVE nx[p] \in T
      OBVIOUS
    <3>2. CASE p = h
      BY <1>1, <1>3, <3>2
    <3>3. CASE p # h
      BY <1>1, <1>3, <3>3
    <3> QED BY <3>2, <3>3
  <2>3. T = R
    BY <2>1, <2>2 DEF OneCycle
  <2>4. c \in S
    BY <1>1, <1>3, <2>3
  <2> QED BY <2>3, <2>4
<1> HIDE DEF ny
<1>5. OneCycle(ny, R \cup {c})
  BY <1>2, <1>3, <1>4 DEF OneCycle
<1> QED BY <1>5 DEF ny

\* Cutting t out from behind c leaves one cycle (kill_task_by_id).
LEMMA RemoveCycle ==
    ASSUME NEW D, NEW E, NEW nx \in [D -> E], NEW R \in SUBSET D,
           OneCycle(nx, R), NEW c \in R, NEW t \in R, nx[c] = t, R # {t}
    PROVE  OneCycle([nx EXCEPT ![c] = nx[t]], R \ {t})
<1> DEFINE ny == [nx EXCEPT ![c] = nx[t]]
<1>0. nx[t] # t
  <2>1. SUFFICES ASSUME nx[t] = t PROVE FALSE
    OBVIOUS
  <2> DEFINE S == {t}
  <2>2. S \in SUBSET R /\ S # {} /\ \A p \in S : nx[p] \in S
    BY <2>1
  <2>3. S # R
    OBVIOUS
  <2> HIDE DEF S
  <2> QED BY <2>2, <2>3 DEF OneCycle
<1>1. /\ c # t /\ ny[c] = nx[t] /\ nx[t] \in R
      /\ \A p \in R : p # c => ny[p] = nx[p] /\ nx[p] \in R
  BY <1>0 DEF OneCycle
<1>2. \A p \in R \ {t} : ny[p] \in R \ {t}
  BY <1>0, <1>1 DEF OneCycle
<1>3. ASSUME NEW p \in R \ {t}, NEW q \in R \ {t}, ny[p] = ny[q]
      PROVE  p = q
  BY <1>1, <1>3 DEF OneCycle
<1>4. ASSUME NEW S \in SUBSET (R \ {t}), S # {}, \A p \in S : ny[p] \in S
      PROVE  S = R \ {t}
  <2>1. CASE c \in S
    <3> DEFINE T == S \cup {t}
    <3>1. T \in SUBSET R /\ T # {} /\ \A p \in T : nx[p] \in T
      BY <1>1, <1>4, <2>1
    <3> HIDE DEF T
    <3>2. T = R
      BY <3>1 DEF OneCycle
    <3> QED BY <3>2 DEF T
  <2>2. CASE c \notin S
    <3>1. \A p \in S : nx[p] \in S
      BY <1>1, <1>4, <2>2
    <3>2. S = R
      BY <1>4, <3>1 DEF OneCycle
    <3> QED BY <3>2
  <2> QED BY <2>1, <2>2
<1> HIDE DEF ny
<1>5. OneCycle(ny, R \ {t})
  BY <1>2, <1>3, <1>4 DEF OneCycle
<1> QED BY <1>5 DEF ny
-----------------------------------------------------------------------------
\* The groups of variables that most actions leave alone.
USE PidAssumption, WindowAssumption, BoundAssumption, RoleAssumption
    DEF ring, request, Request, blocking, cpu, reaper, gui, kbd, Runs, AtUser, AtKernel

LEMMA PidFacts ==
    /\ {Kernel, Background, Wm, Shell} \subseteq Pid
    /\ NoTask \notin Pid
    /\ App \subseteq Pid /\ App \cap {Kernel, Background, Wm, Shell} = {}
    /\ Launchers \subseteq Pid /\ Kernel \notin Launchers
    /\ ShellTargets \subseteq Pid /\ Background \notin ShellTargets
    /\ Pid \subseteq Int
    /\ Shell + 1 .. MaxPid + 1 \subseteq Int
    /\ \A n \in Shell + 1 .. MaxPid + 1 :
         n <= MaxPid => n \in Pid /\ n + 1 \in Shell + 1 .. MaxPid + 1
  BY DEF Pid, App, Kernel, Background, Wm, Shell, NoTask

LEMMA InitTypeInv == Init => TypeInv
<1> SUFFICES ASSUME Init PROVE TypeInv
  OBVIOUS
<1>1. next \in [Pid -> Pid \cup {NoTask}] /\ Kernel \in HasNext
  BY DEF Init, HasNext, Pid, Kernel, Shell, NoTask
<1>2. \A p \in Pid : next[p] # NoTask => next[p] \in HasNext
  BY DEF Init, HasNext, Pid, Kernel, Shell, NoTask
<1>3. /\ live \subseteq Pid
      /\ nextPid \in Shell + 1 .. MaxPid + 1
      /\ open \subseteq Windows /\ focus \in Windows
      /\ kWin \in 2 .. MaxWindows
  BY DEF Init, Pid, Shell, Windows
<1>a. /\ state \in [Pid -> {0, 1}]
      /\ sleepTicks \in [Pid -> 0 .. MaxSleep]
      /\ child \in [Pid -> Pid \cup {NoTask}]
      /\ owner \in [Windows -> Pid]
      /\ keys \in 0 .. MaxKeys
  BY PidFacts DEF Init
<1>b. /\ readyQueue \in Pid /\ current \in Pid /\ kCurr \in Pid
      /\ {taskToKill, killArg, kTarget, victim} \subseteq Pid \cup {NoTask}
      /\ upc \in [Pid -> {"run", "fault", "created", "linking", "closing", "menuClosing"}]
      /\ kpc = "reap"
      /\ {switching, menu, lastKey, stale, lost} \subseteq BOOLEAN
  BY PidFacts DEF Init
<1>4. TypeOK
  BY <1>1, <1>3, <1>a, <1>b DEF TypeOK
<1> QED
  BY <1>1, <1>2, <1>4, PidFacts DEF Init, TypeInv

LEMMA StepTypeInv == TypeInv /\ [Next]_vars => TypeInv'
<1> SUFFICES ASSUME TypeInv, [Next]_vars PROVE TypeInv'
  OBVIOUS
<1>1. CASE Hop
  BY <1>1, PidFacts DEF Hop, Successor, TypeInv, TypeOK, HasNext
<1>2. CASE Tick
  BY <1>2, PidFacts DEF Tick, Sleeper, SleepOver, Unhalt, TypeInv, TypeOK, HasNext
<1>3. CASE KeyPress
  BY <1>3, PidFacts DEF KeyPress, Unhalt, TypeInv, TypeOK, HasNext
<1>4. CASE Reap
  BY <1>4, PidFacts DEF Reap, TypeInv, TypeOK, HasNext
<1>5. CASE ReapWalk
  BY <1>5, PidFacts DEF ReapWalk, TypeInv, TypeOK, HasNext
<1>6. CASE ReapUnlink
  BY <1>6, PidFacts DEF ReapUnlink, HeadWithout, TypeInv, TypeOK, HasNext
<1>7. CASE ReapFree
  BY <1>7, PidFacts DEF ReapFree, TypeInv, TypeOK, HasNext
<1>8. CASE ReapWindow
  <2>1. kWin < MaxWindows /\ kWin \in 2 .. MaxWindows
    BY <1>8 DEF ReapWindow, TypeInv, TypeOK
  <2>2. kWin' \in 2 .. MaxWindows /\ (kpc' = "windows" => kWin' < MaxWindows)
    BY <1>8, <2>1 DEF ReapWindow
  <2>3. victim' \in Pid \cup {NoTask}
    BY <1>8 DEF ReapWindow, TypeInv, TypeOK
  <2>4. open' \subseteq Windows /\ focus' \in Windows
    <3>1. 0 \in Windows
      BY DEF Windows
    <3> QED BY <1>8, <3>1 DEF ReapWindow, TypeInv, TypeOK
  <2>5. UNCHANGED <<ring, blocking, cpu, nextPid, upc, request, killArg, kCurr, kTarget,
                    owner, menu, kbd>> /\ kpc' \in {"reset", "windows"}
    BY <1>8 DEF ReapWindow
  <2> QED BY <2>2, <2>3, <2>4, <2>5, PidFacts DEF TypeInv, TypeOK, HasNext
<1>9. CASE ReapReset
  BY <1>9, PidFacts DEF ReapReset, TypeInv, TypeOK, HasNext
<1>10. CASE TakeKey
  BY <1>10, PidFacts DEF TakeKey, TypeInv, TypeOK, HasNext
<1>11. CASE WakeFocused
  BY <1>11, PidFacts DEF WakeFocused, Wakes, TypeInv, TypeOK, HasNext
<1>12. CASE DeliverKey
  BY <1>12, PidFacts DEF DeliverKey, FocusedApp, TypeInv, TypeOK, HasNext
<1>13. CASE KernelYield
  BY <1>13, PidFacts DEF KernelYield, TypeInv, TypeOK, HasNext
<1>14. CASE WmClickClosed
  BY <1>14, PidFacts DEF WmClickClosed, TypeInv, TypeOK, HasNext
<1>15. CASE WmMenuOpen
  BY <1>15, PidFacts DEF WmMenuOpen, TypeInv, TypeOK, HasNext
<1>16. CASE WmMenuClose
  BY <1>16, PidFacts DEF WmMenuClose, TypeInv, TypeOK, HasNext
<1>17. CASE WmMenuClosed
  <2>1. open' \subseteq Windows /\ focus' \in Windows
    BY <1>17 DEF WmMenuClosed, TypeInv, TypeOK
  <2>2. /\ menu' = FALSE /\ upc' = [upc EXCEPT ![Wm] = "run"]
        /\ UNCHANGED <<ring, blocking, cpu, nextPid, request, kpc, reaper, owner, kbd>>
    BY <1>17 DEF WmMenuClosed
  <2>3. menu' \in BOOLEAN /\ lost' \in BOOLEAN /\ lastKey' \in BOOLEAN
    BY <2>2 DEF TypeInv, TypeOK
  <2>4. TypeOK'
    BY <2>1, <2>2, <2>3 DEF TypeInv, TypeOK
  <2>5. HasNext' = HasNext
    BY <2>2 DEF HasNext
  <2> QED BY <2>2, <2>4, <2>5, PidFacts DEF TypeInv
<1>18. CASE WmMenuDismiss
  <2>1. open' \subseteq Windows /\ focus' \in Windows
    BY <1>18 DEF WmMenuDismiss, TypeInv, TypeOK
  <2>2. /\ menu' = FALSE
        /\ UNCHANGED <<ring, blocking, cpu, nextPid, upc, request, kpc, reaper, open, owner, kbd>>
    BY <1>18 DEF WmMenuDismiss
  <2>3. menu' \in BOOLEAN /\ lost' \in BOOLEAN /\ lastKey' \in BOOLEAN
    BY <2>2 DEF TypeInv, TypeOK
  <2>4. TypeOK'
    BY <2>1, <2>2, <2>3 DEF TypeInv, TypeOK
  <2>5. HasNext' = HasNext
    BY <2>2 DEF HasNext
  <2> QED BY <2>2, <2>4, <2>5, PidFacts DEF TypeInv
<1>19. ASSUME NEW w \in CloseTargets, WmClickClose(w) PROVE TypeInv'
  BY <1>19, PidFacts DEF WmClickClose, TypeInv, TypeOK, HasNext
<1>20. ASSUME NEW w \in Windows, WmFocus(w) PROVE TypeInv'
  BY <1>20, PidFacts DEF WmFocus, TypeInv, TypeOK, HasNext
<1>21. ASSUME NEW t \in ShellTargets, ShellKill(t) PROVE TypeInv'
  BY <1>21, PidFacts DEF ShellKill, TypeInv, TypeOK, HasNext
<1>22. ASSUME NEW p \in Pid, Yield(p) PROVE TypeInv'
  BY <1>22, PidFacts DEF Yield, TypeInv, TypeOK, HasNext
<1>23. ASSUME NEW p \in Pid, Sleep(p) PROVE TypeInv'
  BY <1>23, PidFacts DEF Sleep, TypeInv, TypeOK, HasNext
<1>24. ASSUME NEW p \in Pid, Exit(p) PROVE TypeInv'
  BY <1>24, PidFacts DEF Exit, TypeInv, TypeOK, HasNext
<1>25. ASSUME NEW p \in Pid, Fault(p) PROVE TypeInv'
  BY <1>25, PidFacts DEF Fault, TypeInv, TypeOK, HasNext
<1>26. ASSUME NEW p \in Pid, Exec(p) PROVE TypeInv'
  <2>1. nextPid \in Pid /\ nextPid' \in Shell + 1 .. MaxPid + 1
    BY <1>26, PidFacts DEF Exec, TypeInv, TypeOK
  <2> QED BY <1>26, <2>1, PidFacts DEF Exec, TypeInv, TypeOK, HasNext
<1>27. ASSUME NEW p \in Pid, LinkRead(p) PROVE TypeInv'
  BY <1>27, PidFacts DEF LinkRead, TypeInv, TypeOK, HasNext
<1>28. ASSUME NEW p \in Pid, LinkWrite(p) PROVE TypeInv'
  BY <1>28, PidFacts DEF LinkWrite, TypeInv, TypeOK, HasNext
<1>29. ASSUME NEW p \in Pid, GetKey(p) PROVE TypeInv'
  <2>1. state' \in [Pid -> {0, 1}]
    BY <1>29 DEF GetKey, TypeInv, TypeOK
  <2>2. /\ lastKey' = FALSE
        /\ UNCHANGED <<ring, sleepTicks, cpu, nextPid, upc, request, kpc, reaper, gui, keys>>
    BY <1>29 DEF GetKey
  <2>5. lastKey' \in BOOLEAN /\ lost' \in BOOLEAN /\ menu' \in BOOLEAN
    BY <2>2 DEF TypeInv, TypeOK
  <2>3. TypeOK'
    BY <2>1, <2>2, <2>5 DEF TypeInv, TypeOK
  <2>4. HasNext' = HasNext
    BY <2>2 DEF HasNext, ring
  <2> QED BY <2>2, <2>3, <2>4 DEF TypeInv, ring, reaper
<1>30. ASSUME NEW p \in Pid, PollKey(p) PROVE TypeInv'
  <2>1. /\ lastKey' \in BOOLEAN
        /\ UNCHANGED <<ring, blocking, cpu, nextPid, upc, request, kpc, reaper, gui, keys>>
    BY <1>30 DEF PollKey, TypeInv, TypeOK
  <2>2. TypeOK'
    BY <2>1 DEF TypeInv, TypeOK
  <2>3. HasNext' = HasNext
    BY <2>1 DEF HasNext, ring
  <2> QED BY <2>1, <2>2, <2>3 DEF TypeInv, ring, cpu, reaper
<1>31. ASSUME NEW p \in Pid, CreateWindow(p) PROVE TypeInv'
  BY <1>31, PidFacts DEF CreateWindow, TypeInv, TypeOK, HasNext
<1>32. CASE UNCHANGED vars
  BY <1>32, PidFacts DEF vars, TypeInv, TypeOK, HasNext
<1> QED
  BY <1>1, <1>2, <1>3, <1>4, <1>5, <1>6, <1>7, <1>8, <1>9, <1>10, <1>11, <1>12, <1>13, <1>14, <1>15, <1>16, <1>17, <1>18, <1>19, <1>20, <1>21, <1>22, <1>23, <1>24, <1>25, <1>26, <1>27, <1>28, <1>29, <1>30, <1>31, <1>32
  DEF Next, KernelStep, WmStep, ShellStep, UserStep
-----------------------------------------------------------------------------
LEMMA InitTargetInv == Init => TargetInv
  BY PidFacts DEF Init, TargetInv, Kernel, Background, NoTask

LEMMA StepTargetInv == TypeInv /\ TargetInv /\ [Next]_vars => TargetInv'
<1> SUFFICES ASSUME TypeInv, TargetInv, [Next]_vars PROVE TargetInv'
  OBVIOUS
<1> USE DEF TypeInv, TypeOK
<1>1. CASE Hop
  BY <1>1, PidFacts DEF Hop, Successor, TargetInv
<1>2. CASE Tick
  BY <1>2, PidFacts DEF Tick, Unhalt, TargetInv
<1>3. CASE KeyPress
  BY <1>3, PidFacts DEF KeyPress, Unhalt, TargetInv
<1>4. CASE Reap
  BY <1>4, PidFacts DEF Reap, TargetInv
<1>5. CASE ReapWalk
  BY <1>5, PidFacts DEF ReapWalk, TargetInv
<1>6. CASE ReapUnlink
  BY <1>6, PidFacts DEF ReapUnlink, HeadWithout, TargetInv
<1>7. CASE ReapFree
  BY <1>7, PidFacts DEF ReapFree, TargetInv
<1>8. CASE ReapWindow
  BY <1>8, PidFacts DEF ReapWindow, TargetInv
<1>9. CASE ReapReset
  BY <1>9, PidFacts DEF ReapReset, TargetInv
<1>10. CASE TakeKey
  BY <1>10, PidFacts DEF TakeKey, TargetInv
<1>11. CASE WakeFocused
  BY <1>11, PidFacts DEF WakeFocused, TargetInv
<1>12. CASE DeliverKey
  BY <1>12, PidFacts DEF DeliverKey, TargetInv
<1>13. CASE KernelYield
  BY <1>13, PidFacts DEF KernelYield, TargetInv
<1>14. CASE WmClickClosed
  BY <1>14, PidFacts DEF WmClickClosed, TargetInv
<1>15. CASE WmMenuOpen
  BY <1>15, PidFacts DEF WmMenuOpen, TargetInv
<1>16. CASE WmMenuClose
  BY <1>16, PidFacts DEF WmMenuClose, TargetInv
<1>17. CASE WmMenuClosed
  BY <1>17, PidFacts DEF WmMenuClosed, TargetInv
<1>18. CASE WmMenuDismiss
  BY <1>18, PidFacts DEF WmMenuDismiss, TargetInv
<1>19. ASSUME NEW w \in CloseTargets, WmClickClose(w) PROVE TargetInv'
  BY <1>19, PidFacts DEF WmClickClose, TargetInv
<1>20. ASSUME NEW w \in Windows, WmFocus(w) PROVE TargetInv'
  BY <1>20, PidFacts DEF WmFocus, TargetInv
<1>21. ASSUME NEW t \in ShellTargets, ShellKill(t) PROVE TargetInv'
  BY <1>21, PidFacts DEF ShellKill, TargetInv
<1>22. ASSUME NEW p \in Pid, Yield(p) PROVE TargetInv'
  BY <1>22, PidFacts DEF Yield, TargetInv
<1>23. ASSUME NEW p \in Pid, Sleep(p) PROVE TargetInv'
  BY <1>23, PidFacts DEF Sleep, TargetInv
<1>24. ASSUME NEW p \in Pid, Exit(p) PROVE TargetInv'
  BY <1>24, PidFacts DEF Exit, TargetInv
<1>25. ASSUME NEW p \in Pid, Fault(p) PROVE TargetInv'
  BY <1>25, PidFacts DEF Fault, TargetInv
<1>26. ASSUME NEW p \in Pid, Exec(p) PROVE TargetInv'
  BY <1>26, PidFacts DEF Exec, TargetInv
<1>27. ASSUME NEW p \in Pid, LinkRead(p) PROVE TargetInv'
  BY <1>27, PidFacts DEF LinkRead, TargetInv
<1>28. ASSUME NEW p \in Pid, LinkWrite(p) PROVE TargetInv'
  BY <1>28, PidFacts DEF LinkWrite, TargetInv
<1>29. ASSUME NEW p \in Pid, GetKey(p) PROVE TargetInv'
  BY <1>29, PidFacts DEF GetKey, TargetInv
<1>30. ASSUME NEW p \in Pid, PollKey(p) PROVE TargetInv'
  BY <1>30, PidFacts DEF PollKey, TargetInv
<1>31. ASSUME NEW p \in Pid, CreateWindow(p) PROVE TargetInv'
  BY <1>31, PidFacts DEF CreateWindow, TargetInv
<1>32. CASE UNCHANGED vars
  BY <1>32, PidFacts DEF vars, TargetInv
<1> QED
  BY <1>1, <1>2, <1>3, <1>4, <1>5, <1>6, <1>7, <1>8, <1>9, <1>10, <1>11, <1>12, <1>13, <1>14, <1>15, <1>16, <1>17, <1>18, <1>19, <1>20, <1>21, <1>22, <1>23, <1>24, <1>25, <1>26, <1>27, <1>28, <1>29, <1>30, <1>31, <1>32
  DEF Next, KernelStep, WmStep, ShellStep, UserStep

-----------------------------------------------------------------------------
LEMMA InitChildInv == Init => ChildInv
  BY PidFacts DEF Init, ChildInv, Private, Pid, Kernel, Shell, NoTask

LEMMA StepChildInv == TypeInv /\ ChildInv /\ [Next]_vars => ChildInv'
<1> SUFFICES ASSUME TypeInv, ChildInv, [Next]_vars PROVE ChildInv'
  OBVIOUS
<1> USE DEF TypeInv, TypeOK
<1>1. CASE Hop
  BY <1>1, PidFacts DEF Hop, Successor, ChildInv, Private
<1>2. CASE Tick
  BY <1>2, PidFacts DEF Tick, Unhalt, ChildInv, Private
<1>3. CASE KeyPress
  BY <1>3, PidFacts DEF KeyPress, Unhalt, ChildInv, Private
<1>4. CASE Reap
  BY <1>4, PidFacts DEF Reap, ChildInv, Private
<1>5. CASE ReapWalk
  BY <1>5, PidFacts DEF ReapWalk, ChildInv, Private
<1>6. CASE ReapUnlink
  <2>1. Private' = Private
    BY <1>6 DEF ReapUnlink, Private
  <2>2. /\ next' = [next EXCEPT ![kCurr] = next[kTarget]]
        /\ kCurr \in Pid /\ kTarget \in Pid /\ kCurr < nextPid
        /\ UNCHANGED <<live, child, upc, nextPid, kTarget>> /\ kpc = "unlink"
    BY <1>6, PidFacts DEF ReapUnlink, ChildInv, HasNext
  <2> QED BY <2>1, <2>2, PidFacts DEF ChildInv
<1>7. CASE ReapFree
  BY <1>7, PidFacts DEF ReapFree, ChildInv, Private
<1>8. CASE ReapWindow
  BY <1>8, PidFacts DEF ReapWindow, ChildInv, Private
<1>9. CASE ReapReset
  BY <1>9, PidFacts DEF ReapReset, ChildInv, Private
<1>10. CASE TakeKey
  BY <1>10, PidFacts DEF TakeKey, ChildInv, Private
<1>11. CASE WakeFocused
  BY <1>11, PidFacts DEF WakeFocused, ChildInv, Private
<1>12. CASE DeliverKey
  BY <1>12, PidFacts DEF DeliverKey, ChildInv, Private
<1>13. CASE KernelYield
  BY <1>13, PidFacts DEF KernelYield, ChildInv, Private
<1>14. CASE WmClickClosed
  BY <1>14, PidFacts DEF WmClickClosed, ChildInv, Private
<1>15. CASE WmMenuOpen
  BY <1>15, PidFacts DEF WmMenuOpen, ChildInv, Private
<1>16. CASE WmMenuClose
  BY <1>16, PidFacts DEF WmMenuClose, ChildInv, Private
<1>17. CASE WmMenuClosed
  BY <1>17, PidFacts DEF WmMenuClosed, ChildInv, Private
<1>18. CASE WmMenuDismiss
  BY <1>18, PidFacts DEF WmMenuDismiss, ChildInv, Private
<1>19. ASSUME NEW w \in CloseTargets, WmClickClose(w) PROVE ChildInv'
  BY <1>19, PidFacts DEF WmClickClose, ChildInv, Private
<1>20. ASSUME NEW w \in Windows, WmFocus(w) PROVE ChildInv'
  BY <1>20, PidFacts DEF WmFocus, ChildInv, Private
<1>21. ASSUME NEW t \in ShellTargets, ShellKill(t) PROVE ChildInv'
  BY <1>21, PidFacts DEF ShellKill, ChildInv, Private
<1>22. ASSUME NEW p \in Pid, Yield(p) PROVE ChildInv'
  BY <1>22, PidFacts DEF Yield, ChildInv, Private
<1>23. ASSUME NEW p \in Pid, Sleep(p) PROVE ChildInv'
  BY <1>23, PidFacts DEF Sleep, ChildInv, Private
<1>24. ASSUME NEW p \in Pid, Exit(p) PROVE ChildInv'
  BY <1>24, PidFacts DEF Exit, ChildInv, Private
<1>25. ASSUME NEW p \in Pid, Fault(p) PROVE ChildInv'
  BY <1>25, PidFacts DEF Fault, ChildInv, Private
<1>26. ASSUME NEW p \in Pid, Exec(p) PROVE ChildInv'
  <2>1. /\ nextPid \in Pid /\ nextPid > Shell /\ nextPid' = nextPid + 1
        /\ live' = live \cup {nextPid}
        /\ child' = [child EXCEPT ![p] = nextPid]
        /\ upc[p] = "run" /\ upc' = [upc EXCEPT ![p] = "created"]
        /\ UNCHANGED <<next, kpc, kTarget>>
    BY <1>26, PidFacts DEF Exec, Shell
  <2>2. Private' \subseteq Private \cup {nextPid}
    BY <2>1, PidFacts DEF Private
  <2>3. \A q \in Pid : child[q] # nextPid /\ next[q] # nextPid
    BY <2>1, PidFacts DEF ChildInv, HasNext, Shell
  <2>4. live' \subseteq 0 .. nextPid' - 1
    BY <2>1, PidFacts DEF ChildInv, Shell
  <2>5. \A q \in Pid : IF upc'[q] \in {"created", "linking"}
                       THEN child'[q] \in live' /\ child'[q] > Shell
                       ELSE child'[q] = NoTask
    BY <2>1 DEF ChildInv
  <2>6. \A q, r \in Pid : q # r /\ child'[q] = child'[r] => child'[q] = NoTask
    BY <2>1, <2>3 DEF ChildInv
  <2>7. \A q \in Pid : /\ q >= nextPid' => next'[q] = NoTask
                       /\ next'[q] \notin Private'
    BY <2>1, <2>2, <2>3, PidFacts DEF ChildInv
  <2>8. kpc' \in {"unlink", "free"} => kTarget' \notin Private'
    BY <2>1, <2>2, PidFacts DEF ChildInv, HasNext
  <2> QED BY <2>4, <2>5, <2>6, <2>7, <2>8 DEF ChildInv
<1>27. ASSUME NEW p \in Pid, LinkRead(p) PROVE ChildInv'
  BY <1>27, PidFacts DEF LinkRead, ChildInv, Private
<1>28. ASSUME NEW p \in Pid, LinkWrite(p) PROVE ChildInv'
  <2>1. /\ next' = [next EXCEPT ![readyQueue] = child[p]]
        /\ child' = [child EXCEPT ![p] = NoTask]
        /\ upc[p] = "linking" /\ upc' = [upc EXCEPT ![p] = "run"]
        /\ UNCHANGED <<live, nextPid, kpc, kTarget>>
        /\ readyQueue \in Pid /\ readyQueue < nextPid
    BY <1>28, PidFacts DEF LinkWrite, ChildInv, HasNext
  <2>2. Private' = Private \ {child[p]}
    BY <2>1, PidFacts DEF Private, ChildInv
  <2>3. \A q, r \in Pid : q # r /\ child'[q] = child'[r] => child'[q] = NoTask
    BY <2>1 DEF ChildInv
  <2>4. \A q \in Pid : /\ q >= nextPid' => next'[q] = NoTask
                       /\ next'[q] \notin Private'
    BY <2>1, <2>2, PidFacts DEF ChildInv
  <2> QED BY <2>1, <2>2, <2>3, <2>4 DEF ChildInv
<1>29. ASSUME NEW p \in Pid, GetKey(p) PROVE ChildInv'
  BY <1>29, PidFacts DEF GetKey, ChildInv, Private
<1>30. ASSUME NEW p \in Pid, PollKey(p) PROVE ChildInv'
  BY <1>30, PidFacts DEF PollKey, ChildInv, Private
<1>31. ASSUME NEW p \in Pid, CreateWindow(p) PROVE ChildInv'
  BY <1>31, PidFacts DEF CreateWindow, ChildInv, Private
<1>32. CASE UNCHANGED vars
  BY <1>32, PidFacts DEF vars, ChildInv, Private
<1> QED
  BY <1>1, <1>2, <1>3, <1>4, <1>5, <1>6, <1>7, <1>8, <1>9, <1>10, <1>11, <1>12, <1>13, <1>14, <1>15, <1>16, <1>17, <1>18, <1>19, <1>20, <1>21, <1>22, <1>23, <1>24, <1>25, <1>26, <1>27, <1>28, <1>29, <1>30, <1>31, <1>32
  DEF Next, KernelStep, WmStep, ShellStep, UserStep
-----------------------------------------------------------------------------
LEMMA InitRingInv == Init => RingInv
<1> SUFFICES ASSUME Init PROVE RingInv
  OBVIOUS
<1>1. Ring = 0 .. 3
  BY PidFacts DEF Init, Ring, NoTask, Shell
<1>2. /\ next[0] = 3 /\ next[1] = 0 /\ next[2] = 1 /\ next[3] = 2
      /\ 0 .. 3 = {0, 1, 2, 3}
  BY DEF Init, Pid, Kernel, Shell
<1>3. ASSUME NEW S \in SUBSET Ring, S # {}, \A q \in S : next[q] \in S
      PROVE  S = Ring
  BY <1>1, <1>2, <1>3
<1>4. OneCycle(next, Ring)
  BY <1>1, <1>2, <1>3 DEF OneCycle
<1> QED BY <1>1, <1>2, <1>4 DEF Init, RingInv, Kernel, Background

LEMMA StepRingInv ==
    TypeInv /\ ChildInv /\ TargetInv /\ RingInv /\ [Next]_vars => RingInv'
<1> SUFFICES ASSUME TypeInv, ChildInv, TargetInv, RingInv, [Next]_vars PROVE RingInv'
  OBVIOUS
<1>t. /\ live \subseteq Pid
      /\ next \in [Pid -> Pid \cup {NoTask}]
      /\ readyQueue \in Pid /\ kCurr \in Pid
      /\ child \in [Pid -> Pid \cup {NoTask}]
      /\ upc \in [Pid -> {"run", "fault", "created", "linking", "closing", "menuClosing"}]
      /\ nextPid \in Shell + 1 .. MaxPid + 1
      /\ \A p \in Pid : upc[p] \in {"created", "linking"} => child[p] \in Pid
  BY DEF TypeInv, TypeOK
<1>1. CASE Hop
  <2>1. Ring' = Ring
    BY <1>1 DEF Hop, Ring
  <2>2. current' = next[current] /\ UNCHANGED <<next, readyQueue, stale, kpc, kCurr, kTarget>>
    BY <1>1 DEF Hop, Successor
  <2> QED BY <2>1, <2>2 DEF RingInv, OneCycle
<1>2. CASE Tick
  <2>1. /\ UNCHANGED <<next, readyQueue, live, child, stale, current, kCurr, kTarget>>
        /\ kpc' = kpc \/ (kpc = "hlt" /\ kpc' = "reap")
    BY <1>2 DEF Tick, Unhalt
  <2> QED BY <2>1 DEF RingInv, Ring
<1>3. CASE KeyPress
  BY <1>3, PidFacts DEF KeyPress, Unhalt, RingInv, Ring
<1>4. CASE Reap
  BY <1>4, PidFacts DEF Reap, RingInv, Ring
<1>5. CASE ReapWalk
  <2>1. Ring' = Ring
    BY <1>5 DEF ReapWalk, Ring
  <2>2. /\ kpc = "walk" /\ kpc' \in {"walk", "unlink", "windows"}
        /\ UNCHANGED <<next, readyQueue, stale, current>>
        /\ kpc' = "unlink" => kTarget' = next[kCurr] /\ kCurr' = kCurr
        /\ kpc' = "walk" => kCurr' = next[kCurr]
    BY <1>5 DEF ReapWalk
  <2> QED BY <2>1, <2>2 DEF RingInv, OneCycle
<1>6. CASE ReapUnlink
  <2>1. /\ readyQueue' = HeadWithout(kTarget)
        /\ next' = [next EXCEPT ![kCurr] = next[kTarget]]
        /\ stale' = (stale \/ next[kCurr] # kTarget)
        /\ kpc = "unlink" /\ kpc' = "free" /\ current = Kernel
        /\ UNCHANGED <<live, child, kCurr, kTarget, current>>
    BY <1>6 DEF ReapUnlink
  <2>2. Ring' = Ring \ {kTarget}
    BY <2>1 DEF Ring
  <2>3. SUFFICES ASSUME ~stale' PROVE RingInv'
    BY DEF RingInv
  <2>4. /\ next[kCurr] = kTarget /\ kCurr \in Ring /\ kTarget \in Ring
        /\ OneCycle(next, Ring) /\ readyQueue \in Ring /\ Background \in Ring
        /\ kTarget # Background
    BY <2>1, <2>3 DEF RingInv, TargetInv
  <2>5. Ring \in SUBSET Pid /\ next \in [Pid -> Pid \cup {NoTask}]
    BY <1>t DEF Ring
  <2>6. Ring # {kTarget}
    BY <2>4
  <2>7. OneCycle(next, Ring)'
    BY <2>1, <2>2, <2>4, <2>5, <2>6, RemoveCycle
  <2>8. readyQueue' \in Ring'
    <3>1. next[kTarget] = kTarget => FALSE
      <4> DEFINE S == {kTarget}
      <4>1. SUFFICES ASSUME next[kTarget] = kTarget PROVE FALSE
        OBVIOUS
      <4>2. S \in SUBSET Ring /\ S # {} /\ \A q \in S : next[q] \in S
        BY <2>4, <4>1
      <4>3. S # Ring
        BY <2>6
      <4> HIDE DEF S
      <4> QED BY <2>4, <4>2, <4>3 DEF OneCycle
    <3>2. next[kTarget] \in Ring
      BY <2>4 DEF OneCycle
    <3> QED BY <2>1, <2>2, <2>4, <3>1, <3>2 DEF HeadWithout
  <2> QED BY <2>1, <2>2, <2>4, <2>7, <2>8 DEF RingInv
<1>7. CASE ReapFree
  <2>1. Ring' = Ring
    BY <1>7 DEF ReapFree, Ring
  <2>2. kpc' = "windows" /\ UNCHANGED <<next, readyQueue, stale, current>>
    BY <1>7 DEF ReapFree
  <2> QED BY <2>1, <2>2 DEF RingInv
<1>8. CASE ReapWindow
  BY <1>8, PidFacts DEF ReapWindow, RingInv, Ring
<1>9. CASE ReapReset
  BY <1>9, PidFacts DEF ReapReset, RingInv, Ring
<1>10. CASE TakeKey
  <2>1. /\ UNCHANGED <<next, readyQueue, live, child, stale, current, kCurr, kTarget>>
        /\ kpc = "keyboard" /\ kpc' \in {"yield", "wake"}
    BY <1>10 DEF TakeKey
  <2> QED BY <2>1 DEF RingInv, Ring
<1>11. CASE WakeFocused
  BY <1>11, PidFacts DEF WakeFocused, RingInv, Ring
<1>12. CASE DeliverKey
  BY <1>12, PidFacts DEF DeliverKey, RingInv, Ring
<1>13. CASE KernelYield
  BY <1>13, PidFacts DEF KernelYield, RingInv, Ring
<1>14. CASE WmClickClosed
  BY <1>14, PidFacts DEF WmClickClosed, RingInv, Ring
<1>15. CASE WmMenuOpen
  BY <1>15, PidFacts DEF WmMenuOpen, RingInv, Ring
<1>16. CASE WmMenuClose
  BY <1>16, PidFacts DEF WmMenuClose, RingInv, Ring
<1>17. CASE WmMenuClosed
  BY <1>17, PidFacts DEF WmMenuClosed, RingInv, Ring
<1>18. CASE WmMenuDismiss
  BY <1>18, PidFacts DEF WmMenuDismiss, RingInv, Ring
<1>19. ASSUME NEW w \in CloseTargets, WmClickClose(w) PROVE RingInv'
  BY <1>19, PidFacts DEF WmClickClose, RingInv, Ring
<1>20. ASSUME NEW w \in Windows, WmFocus(w) PROVE RingInv'
  BY <1>20, PidFacts DEF WmFocus, RingInv, Ring
<1>21. ASSUME NEW t \in ShellTargets, ShellKill(t) PROVE RingInv'
  BY <1>21, PidFacts DEF ShellKill, RingInv, Ring
<1>22. ASSUME NEW p \in Pid, Yield(p) PROVE RingInv'
  BY <1>22, PidFacts DEF Yield, RingInv, Ring
<1>23. ASSUME NEW p \in Pid, Sleep(p) PROVE RingInv'
  BY <1>23, PidFacts DEF Sleep, RingInv, Ring
<1>24. ASSUME NEW p \in Pid, Exit(p) PROVE RingInv'
  BY <1>24, PidFacts DEF Exit, RingInv, Ring
<1>25. ASSUME NEW p \in Pid, Fault(p) PROVE RingInv'
  BY <1>25, PidFacts DEF Fault, RingInv, Ring
<1>26. ASSUME NEW p \in Pid, Exec(p) PROVE RingInv'
  <2>1. /\ nextPid \notin live /\ nextPid # NoTask
        /\ live' = live \cup {nextPid}
        /\ child[p] = NoTask /\ child' = [child EXCEPT ![p] = nextPid]
        /\ NoTask \notin live
        /\ UNCHANGED <<next, readyQueue, stale, kpc, kCurr, kTarget, current>>
    <3>1. nextPid \in Pid
      BY <1>26, <1>t, PidFacts DEF Exec
    <3>2. nextPid \notin live
      BY <1>t, PidFacts DEF ChildInv
    <3> QED BY <1>26, <1>t, <3>1, <3>2, PidFacts DEF Exec, ChildInv
  <2>2. Ring' = Ring
    BY <1>t, <2>1 DEF Ring
  <2> QED BY <2>1, <2>2 DEF RingInv
<1>27. ASSUME NEW p \in Pid, LinkRead(p) PROVE RingInv'
  <2>1. /\ next' = [next EXCEPT ![child[p]] = next[readyQueue]]
        /\ child[p] \in Pid
        /\ UNCHANGED <<live, child, readyQueue, stale, kpc, kCurr, kTarget, current>>
    BY <1>27, <1>t, PidFacts DEF LinkRead
  <2>2. Ring' = Ring /\ child[p] \notin Ring
    BY <1>t, <2>1 DEF Ring
  <2>3. \A q \in Ring : next'[q] = next[q]
    BY <1>t, <2>1, <2>2 DEF ChildInv, Ring
  <2>4. OneCycle(next, Ring) => OneCycle(next, Ring)'
    BY <2>2, <2>3 DEF OneCycle
  <2> QED BY <2>1, <2>2, <2>4 DEF RingInv
<1>28. ASSUME NEW p \in Pid, LinkWrite(p) PROVE RingInv'
  <2> DEFINE c == child[p]
  <2>1. /\ next' = [next EXCEPT ![readyQueue] = c]
        /\ child' = [child EXCEPT ![p] = NoTask]
        /\ stale' = (stale \/ next[readyQueue] # next[c])
        /\ upc[p] = "linking"
        /\ UNCHANGED <<live, readyQueue, kpc, kCurr, kTarget, current>>
    BY <1>28, <1>t, PidFacts DEF LinkWrite
  <2>2. /\ c \in live /\ c # NoTask /\ NoTask \notin live
        /\ \A q \in Pid : q # p => child[q] # c
        /\ kpc = "free" => kTarget # c
        /\ c # Kernel
    <3>1. c \in live /\ NoTask \notin live
      BY <1>t, <2>1, PidFacts DEF ChildInv
    <3>2. \A q \in Pid : q # p => child[q] # c
      BY <3>1 DEF ChildInv
    <3>3. c \in Private
      BY <3>1 DEF Private
    <3>4. c # Kernel
      BY <2>1 DEF ChildInv, Kernel, Shell
    <3> QED BY <3>1, <3>2, <3>3, <3>4, PidFacts DEF ChildInv
  <2>3. Ring' = Ring \cup {c} /\ c \in Pid \ Ring
    BY <1>t, <2>1, <2>2 DEF Ring
  <2> HIDE DEF c
  <2>4. SUFFICES ASSUME ~stale' PROVE RingInv'
    BY DEF RingInv
  <2>5. ~stale /\ next[c] = next[readyQueue] /\ readyQueue \in Ring /\ OneCycle(next, Ring)
    BY <2>1, <2>4 DEF RingInv
  <2>6. OneCycle(next, Ring)'
    <3>1. Ring \in SUBSET Pid /\ next \in [Pid -> Pid \cup {NoTask}]
      BY <1>t DEF Ring
    <3> QED BY <1>t, <2>1, <2>3, <2>5, <3>1, InsertCycle
  <2> QED BY <2>1, <2>2, <2>3, <2>5, <2>6 DEF RingInv
<1>29. ASSUME NEW p \in Pid, GetKey(p) PROVE RingInv'
  BY <1>29, PidFacts DEF GetKey, RingInv, Ring
<1>30. ASSUME NEW p \in Pid, PollKey(p) PROVE RingInv'
  BY <1>30, PidFacts DEF PollKey, RingInv, Ring
<1>31. ASSUME NEW p \in Pid, CreateWindow(p) PROVE RingInv'
  BY <1>31, PidFacts DEF CreateWindow, RingInv, Ring
<1>32. CASE UNCHANGED vars
  BY <1>32, PidFacts DEF vars, RingInv, Ring
<1> QED
  BY <1>1, <1>2, <1>3, <1>4, <1>5, <1>6, <1>7, <1>8, <1>9, <1>10, <1>11, <1>12, <1>13, <1>14, <1>15, <1>16, <1>17, <1>18, <1>19, <1>20, <1>21, <1>22, <1>23, <1>24, <1>25, <1>26, <1>27, <1>28, <1>29, <1>30, <1>31, <1>32
  DEF Next, KernelStep, WmStep, ShellStep, UserStep

-----------------------------------------------------------------------------
LEMMA InitOrphanInv == Init => OrphanInv
  BY PidFacts DEF Init, OrphanInv, AppWindows

LEMMA StepOrphanInv ==
    TypeInv /\ ChildInv /\ TargetInv /\ RingInv /\ OrphanInv /\ [Next]_vars => OrphanInv'
<1> SUFFICES ASSUME TypeInv, ChildInv, TargetInv, RingInv, OrphanInv, [Next]_vars PROVE OrphanInv'
  OBVIOUS
<1>t. TypeOK
  BY DEF TypeInv
<1>k. Kernel \in Ring <=> Kernel \in live /\ ~(kpc = "free" /\ kTarget = Kernel)
  BY PidFacts DEF ChildInv, Ring, Kernel, Shell, NoTask
<1>m. (Kernel \in Ring <=> Kernel \in live /\ ~(kpc = "free" /\ kTarget = Kernel))'
  <2>1. ChildInv'
    BY StepChildInv
  <2> QED BY <2>1, PidFacts DEF ChildInv, Ring, Kernel, Shell, NoTask
<1>1. CASE Hop
  BY <1>1, <1>t, PidFacts DEF Hop, Successor, OrphanInv, Ring
<1>2. CASE Tick
  BY <1>2, <1>t, PidFacts DEF Tick, Unhalt, OrphanInv, Ring
<1>3. CASE KeyPress
  BY <1>3, <1>t, PidFacts DEF KeyPress, Unhalt, OrphanInv, Ring
<1>4. CASE Reap
  BY <1>4, <1>t, PidFacts DEF Reap, OrphanInv, Ring
<1>5. CASE ReapWalk
  BY <1>5, <1>t, PidFacts DEF ReapWalk, OrphanInv, Ring
<1>6. CASE ReapUnlink
  <2>1. /\ kpc = "unlink" /\ kpc' = "free" /\ stale' = (stale \/ next[kCurr] # kTarget)
        /\ UNCHANGED <<live, lost, taskToKill, killArg, kTarget, open, owner>>
    BY <1>6 DEF ReapUnlink
  <2>2. Kernel \in Ring' => Kernel \in Ring
    BY <2>1, <1>k, <1>m
  <2>3. kTarget = killArg
    BY <2>1 DEF TargetInv
  <2> QED BY <2>1, <2>2, <2>3 DEF OrphanInv
<1>7. CASE ReapFree
  <2>1. /\ kpc = "free" /\ kpc' = "windows" /\ kWin' = 2 /\ live' = live \ {kTarget}
        /\ UNCHANGED <<stale, lost, taskToKill, killArg, kTarget, open, owner>>
    BY <1>7 DEF ReapFree
  <2>2. Kernel \in Ring' => Kernel \in Ring
    BY <2>1, <1>k, <1>m
  <2>3. \A w \in AppWindows : w >= 2
    BY DEF AppWindows
  <2> QED BY <2>1, <2>2, <2>3 DEF OrphanInv
<1>8. CASE ReapWindow
  <2>1. /\ kpc = "windows" /\ kWin' = kWin + 1 /\ kWin \in 2 .. MaxWindows
        /\ kpc' = IF kWin = MaxWindows - 1 THEN "reset" ELSE "windows"
        /\ victim' \in IF kWin = 2 THEN {taskToKill} ELSE {victim, taskToKill}
        /\ UNCHANGED <<live, stale, lost, taskToKill, killArg, kTarget, owner>>
    BY <1>8, <1>t DEF ReapWindow, TypeOK
  <2>2. open' = IF kWin \in open /\ owner[kWin] = victim' THEN open \ {kWin} ELSE open
    BY <1>8 DEF ReapWindow
  <2>3. SUFFICES ASSUME ~stale, ~lost, Kernel \in Ring PROVE OrphanInv'
    BY <2>1, <1>k, <1>m DEF OrphanInv
  <2>4. taskToKill = killArg /\ killArg # NoTask /\ victim' = killArg
    BY <2>1, <2>3 DEF OrphanInv
  <2>5. \A w \in AppWindows : w \in 2 .. MaxWindows - 1
    BY DEF AppWindows
  <2>6. ASSUME NEW w \in open' \cap AppWindows
        PROVE  owner[w] \in live \/ (kpc' = "windows" /\ owner[w] = killArg /\ w >= kWin')
    <3>1. w \in open /\ (w = kWin => owner[w] # killArg)
      BY <2>2, <2>4, <2>6
    <3>2. owner[w] \in live \/ (owner[w] = killArg /\ w >= kWin)
      BY <2>3, <2>6, <3>1 DEF OrphanInv
    <3>3. w >= kWin /\ w # kWin => w >= kWin + 1 /\ kWin # MaxWindows - 1
      BY <2>1, <2>5, <2>6
    <3> QED BY <2>1, <3>1, <3>2, <3>3
  <2> QED BY <2>1, <2>4, <2>6 DEF OrphanInv
<1>9. CASE ReapReset
  BY <1>9, <1>t, PidFacts DEF ReapReset, OrphanInv, Ring
<1>10. CASE TakeKey
  BY <1>10, <1>t, PidFacts DEF TakeKey, OrphanInv, Ring
<1>11. CASE WakeFocused
  BY <1>11, <1>t, PidFacts DEF WakeFocused, OrphanInv, Ring
<1>12. CASE DeliverKey
  BY <1>12, <1>t, PidFacts DEF DeliverKey, OrphanInv, Ring
<1>13. CASE KernelYield
  BY <1>13, <1>t, PidFacts DEF KernelYield, OrphanInv, Ring
<1>14. CASE WmClickClosed
  BY <1>14, <1>t, PidFacts DEF WmClickClosed, OrphanInv, Ring
<1>15. CASE WmMenuOpen
  BY <1>15, <1>t, PidFacts DEF WmMenuOpen, OrphanInv, Ring
<1>16. CASE WmMenuClose
  BY <1>16, <1>t, PidFacts DEF WmMenuClose, OrphanInv, Ring
<1>17. CASE WmMenuClosed
  BY <1>17, <1>t, PidFacts DEF WmMenuClosed, OrphanInv, Ring
<1>18. CASE WmMenuDismiss
  BY <1>18, <1>t, PidFacts DEF WmMenuDismiss, OrphanInv, Ring
<1>19. ASSUME NEW w \in CloseTargets, WmClickClose(w) PROVE OrphanInv'
  BY <1>19, <1>t, PidFacts DEF WmClickClose, OrphanInv, Ring
<1>20. ASSUME NEW w \in Windows, WmFocus(w) PROVE OrphanInv'
  BY <1>20, <1>t, PidFacts DEF WmFocus, OrphanInv, Ring
<1>21. ASSUME NEW t \in ShellTargets, ShellKill(t) PROVE OrphanInv'
  BY <1>21, <1>t, PidFacts DEF ShellKill, OrphanInv, Ring
<1>22. ASSUME NEW p \in Pid, Yield(p) PROVE OrphanInv'
  BY <1>22, <1>t, PidFacts DEF Yield, OrphanInv, Ring
<1>23. ASSUME NEW p \in Pid, Sleep(p) PROVE OrphanInv'
  BY <1>23, <1>t, PidFacts DEF Sleep, OrphanInv, Ring
<1>24. ASSUME NEW p \in Pid, Exit(p) PROVE OrphanInv'
  BY <1>24, <1>t, PidFacts DEF Exit, OrphanInv, Ring
<1>25. ASSUME NEW p \in Pid, Fault(p) PROVE OrphanInv'
  BY <1>25, <1>t, PidFacts DEF Fault, OrphanInv, Ring
<1>26. ASSUME NEW p \in Pid, Exec(p) PROVE OrphanInv'
  <2>1. /\ live \subseteq live' /\ live' \subseteq live \cup {nextPid} /\ Kernel # nextPid
        /\ UNCHANGED <<stale, request, kpc, reaper, open, owner>>
    BY <1>26, <1>t, PidFacts DEF Exec, TypeOK, Kernel, Shell
  <2>2. Kernel \in Ring' => Kernel \in Ring
    BY <2>1, <1>k, <1>m
  <2> QED BY <2>1, <2>2 DEF OrphanInv
<1>27. ASSUME NEW p \in Pid, LinkRead(p) PROVE OrphanInv'
  BY <1>27, <1>t, PidFacts DEF LinkRead, OrphanInv, Ring
<1>28. ASSUME NEW p \in Pid, LinkWrite(p) PROVE OrphanInv'
  <2>1. /\ stale' = (stale \/ next[readyQueue] # next[child[p]])
        /\ UNCHANGED <<live, request, kpc, reaper, open, owner>>
    BY <1>28 DEF LinkWrite
  <2>2. Kernel \in Ring' => Kernel \in Ring
    BY <2>1, <1>k, <1>m
  <2> QED BY <2>1, <2>2 DEF OrphanInv
<1>29. ASSUME NEW p \in Pid, GetKey(p) PROVE OrphanInv'
  BY <1>29, <1>t, PidFacts DEF GetKey, OrphanInv, Ring
<1>30. ASSUME NEW p \in Pid, PollKey(p) PROVE OrphanInv'
  BY <1>30, <1>t, PidFacts DEF PollKey, OrphanInv, Ring
<1>31. ASSUME NEW p \in Pid, CreateWindow(p) PROVE OrphanInv'
  <2>1. PICK w \in Windows \ open :
            open' = open \cup {w} /\ owner' = [owner EXCEPT ![w] = p]
    BY <1>31 DEF CreateWindow
  <2>2. UNCHANGED <<ring, request, kpc, reaper>> /\ current = p
    BY <1>31 DEF CreateWindow
  <2>3. SUFFICES ASSUME ~stale, ~lost, Kernel \in Ring PROVE OrphanInv'
    BY <2>2, <1>k, <1>m DEF OrphanInv
  <2>4. p \in live
    BY <2>2, <2>3 DEF RingInv, Ring
  <2>5. owner \in [Windows -> Pid]
    BY <1>t DEF TypeOK
  <2>6. ASSUME NEW v \in open' \cap AppWindows
        PROVE  owner'[v] \in live \/ (kpc = "windows" /\ owner'[v] = killArg /\ v >= kWin)
    <3>1. CASE v = w
      BY <2>1, <2>4, <2>5, <3>1
    <3>2. CASE v # w
      BY <2>1, <2>3, <2>5, <2>6, <3>2 DEF OrphanInv
    <3> QED BY <3>1, <3>2
  <2> QED BY <2>2, <2>3, <2>6 DEF OrphanInv
<1>32. CASE UNCHANGED vars
  BY <1>32, <1>t, PidFacts DEF vars, OrphanInv, Ring
<1> QED
  BY <1>1, <1>2, <1>3, <1>4, <1>5, <1>6, <1>7, <1>8, <1>9, <1>10, <1>11, <1>12, <1>13, <1>14, <1>15, <1>16, <1>17, <1>18, <1>19, <1>20, <1>21, <1>22, <1>23, <1>24, <1>25, <1>26, <1>27, <1>28, <1>29, <1>30, <1>31, <1>32
  DEF Next, KernelStep, WmStep, ShellStep, UserStep

-----------------------------------------------------------------------------
\* Every reachable state of the specification satisfies the invariant.
THEOREM Invariant == Spec => []IndInv
<1>1. Init => IndInv
  BY InitTypeInv, InitChildInv, InitTargetInv, InitRingInv, InitOrphanInv DEF IndInv
<1>2. IndInv /\ [Next]_vars => IndInv'
  BY StepTypeInv, StepChildInv, StepTargetInv, StepRingInv, StepOrphanInv DEF IndInv
<1> QED BY <1>1, <1>2, PTL DEF Spec

\* Types, for every number of tasks and windows: no pointer that is followed
\* is ever null.
THEOREM TypeCorrect == Spec => []TypeOK
<1>1. IndInv => TypeOK
  BY DEF IndInv, TypeInv
<1> QED BY <1>1, Invariant, PTL

\* The run ring is one cycle through exactly the linked tasks.
THEOREM RingStaysIntact == Spec => []RingIntact
<1>1. IndInv => RingIntact
  BY DEF IndInv, RingInv, RingIntact
<1> QED BY <1>1, Invariant, PTL

\* The processor never runs a task whose TCB was freed.
THEOREM CpuStaysOnLinkedTask == Spec => []CpuOnLinkedTask
<1>1. IndInv => CpuOnLinkedTask
  BY DEF IndInv, RingInv, CpuOnLinkedTask
<1> QED BY <1>1, Invariant, PTL

\* While no request was overwritten and no pointer went stale, a window never
\* outlives its owner once the reaper has finished.
THEOREM NoWindowIsOrphaned == Spec => []NoOrphanWindow
<1>1. IndInv => NoOrphanWindow
  BY PidFacts DEF IndInv, TypeInv, TypeOK, ChildInv, OrphanInv, NoOrphanWindow, Ring, Kernel, Shell
<1> QED BY <1>1, Invariant, PTL
=============================================================================
