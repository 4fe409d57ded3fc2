--------------------------- MODULE DesktopProofs ---------------------------
(***************************************************************************)
(* Theorems about Desktop, for any number of programs, windows, buttons    *)
(* and events, checked by TLAPS.                                           *)
(*                                                                         *)
(* The order of the events is not inductive: the append of the window      *)
(* manager has three steps, and what it has read and stored must be what   *)
(* is there until it has finished, or the window is marked raced           *)
(* (AppendInv).  Nor is OneDragged: that no second window is taken follows *)
(* from there being none when any_window_dragging is clear (DragInv).      *)
(***************************************************************************)
EXTENDS Desktop, TLAPS

\* The queue of w holds what is due, and only buttons that w has.
QueueRight(w) ==
  /\ Len(due[w]) = event_count[w]
  /\ \A n \in 1..event_count[w] : due[w][n] = event_id[w][n - 1]
  /\ \A n \in 1..event_count[w] : event_id[w][n - 1] < button_count[w]

\* An append that no system call has disturbed.
AppendInv ==
  /\ wm \in {"load", "bump"} => event_count[at[1]] < MaxEvents
  /\ wm \in {"store", "load", "bump"} /\ at[1] \notin raced
       => at[2] < button_count[at[1]]
  /\ wm \in {"load", "bump"} /\ at[1] \notin raced
       => event_id[at[1]][event_count[at[1]]] = at[2]
  /\ wm = "bump" /\ at[1] \notin raced => loaded = event_count[at[1]]

DragInv ==
  /\ \A v, w \in is_dragging : v = w
  /\ ~any_window_dragging \/ wm \notin {"idle", "click"} => is_dragging = {}

IInv ==
  /\ TypeOK
  /\ DragInv
  /\ AppendInv
  /\ \A w \in AppWindows \ raced : QueueRight(w)

-----------------------------------------------------------------------------
(* Who moves: the steps of the window manager, and those of a program on   *)
(* a window of its own or on the first closed slot.                        *)

LEMMA Ranges ==
  /\ AppWindows \subseteq Windows /\ Windows \subseteq Nat
  /\ 0 \in Windows /\ 2 \in AppWindows
  /\ Buttons \subseteq Nat /\ 0 \in Buttons
  /\ \A w \in Windows : w \notin SystemWindows => w \in AppWindows
BY DesktopAssumption DEF AppWindows, Windows, SystemWindows, Buttons

LEMMA TypeInit == Init => TypeOK
<1> SUFFICES ASSUME Init PROVE TypeOK
  OBVIOUS
<1> USE DEF Init
<1>1. /\ SystemWindows \subseteq Windows /\ 0 \in Buttons
      /\ 0 \in 0..MaxButtons /\ 0 \in 0..MaxEvents /\ 0 \in 0..MaxEvents - 1
  BY DesktopAssumption, Ranges DEF SystemWindows, Windows
<1>2. /\ owner_task_id \in [Windows -> Programs \cup {Kernel}]
      /\ button_count \in [AppWindows -> 0..MaxButtons]
      /\ button_state \in [AppWindows -> SUBSET Buttons]
      /\ event_count \in [AppWindows -> 0..MaxEvents]
      /\ event_id \in [AppWindows -> [Slots -> Buttons]]
      /\ due \in [AppWindows -> Seq(Buttons)]
  BY <1>1
<1> QED BY <1>1, <1>2, Ranges DEF TypeOK

LEMMA TypeStep == ASSUME IInv, [Next]_vars PROVE TypeOK'
<1>a. AppendInv /\ TypeOK /\ \A w \in AppWindows \ raced : QueueRight(w)
  BY DEF IInv
<1> USE <1>a, DesktopAssumption DEF TypeOK
<1>1. CASE MousePacket
  BY <1>1 DEF MousePacket, placing, dragging, widgets, queue, manager
<1>2. CASE WmPress
  <2>1. ASSUME NEW w \in AppWindows, NEW hit \in SUBSET (0..button_count[w] - 1)
        PROVE  hit \subseteq Buttons
    <3>1. button_count[w] \in 0..MaxButtons
      OBVIOUS
    <3> QED BY <3>1 DEF Buttons
  <2>2. button_state' \in [AppWindows -> SUBSET Buttons]
    <3>1. CASE UNCHANGED button_state
      BY <3>1
    <3>2. CASE \E hit \in SUBSET (0..button_count[focused_window] - 1) :
                 /\ focused_window \in AppWindows
                 /\ button_state' = [button_state EXCEPT ![focused_window] = @ \cup hit]
      <4>1. PICK hit \in SUBSET (0..button_count[focused_window] - 1) :
               /\ focused_window \in AppWindows
               /\ button_state' = [button_state EXCEPT ![focused_window] = @ \cup hit]
        BY <3>2
      <4>2. button_state[focused_window] \cup hit \in SUBSET Buttons
        BY <2>1, <4>1
      <4> QED BY <4>1, <4>2
    <3> QED BY <1>2, <3>1, <3>2 DEF WmPress
  <2> QED BY <1>2, <2>2 DEF WmPress, placing, dragging, queue
<1>3. CASE WmMinimise \/ WmMenuClose \/ WmMenuDismiss \/ WmMenuOpen \/ WmClickNothing
  BY <1>3 DEF WmMinimise, WmMenuClose, WmMenuDismiss, WmMenuOpen, WmClickNothing, Click,
              placing, dragging, widgets, queue, SystemWindows, AppWindows
<1>4. ASSUME NEW w \in Windows, WmClickBody(w) \/ WmDrag(w) \/ WmClose(w) PROVE TypeOK'
  BY <1>4 DEF WmClickBody, WmDrag, WmClose, WmFocus, Click,
              placing, dragging, widgets, queue, SystemWindows, AppWindows
<1>5. CASE WmRelease \/ WmReleased
  BY <1>5 DEF WmRelease, WmReleased, placing, dragging, widgets, queue
<1>6. CASE WmSpringBack
  <2>1. PICK p \in Pressed : /\ at' = p
                             /\ button_state' = [button_state EXCEPT ![p[1]] = @ \ {p[2]}]
    BY <1>6 DEF WmSpringBack
  <2>2. p \in AppWindows \X Buttons
    BY DEF Pressed
  <2> QED BY <1>6, <2>1, <2>2 DEF WmSpringBack, placing, dragging, queue
<1>7. CASE WmStore
  <2>1. at[1] \in AppWindows /\ at[2] \in Buttons
    OBVIOUS
  <2>2. Room(at[1]) => event_count[at[1]] \in Slots
    BY <2>1 DEF Room, Slots
  <2>3. event_id' \in [AppWindows -> [Slots -> Buttons]]
    <3>1. CASE event_id' = [event_id EXCEPT ![at[1]] = [event_id[at[1]] EXCEPT ![event_count[at[1]]] = at[2]]]
      <4>1. [event_id[at[1]] EXCEPT ![event_count[at[1]]] = at[2]] \in [Slots -> Buttons]
        BY <2>1
      <4> QED BY <2>1, <3>1, <4>1
    <3>2. CASE event_id' = event_id
      BY <3>2
    <3> QED BY <1>7, <3>1, <3>2 DEF WmStore
  <2>4. at' \in AppWindows \X Buttons /\ wm' \in {"load", "release"}
    BY <1>7, <2>1, Ranges DEF WmStore
  <2> QED BY <1>7, <2>3, <2>4 DEF WmStore, placing, dragging, widgets
<1>8. CASE WmLoad
  <2>1. event_count[at[1]] \in 0..MaxEvents - 1
    <3>1. event_count[at[1]] \in 0..MaxEvents
      OBVIOUS
    <3> QED BY <1>8, <3>1 DEF WmLoad, AppendInv
  <2> QED BY <1>8, <2>1 DEF WmLoad, placing, dragging, widgets, queue
<1>9. CASE WmBump
  <2>1. at[1] \in AppWindows /\ at[2] \in Buttons /\ loaded + 1 \in 0..MaxEvents
    OBVIOUS
  <2>2. event_count' \in [AppWindows -> 0..MaxEvents]
    BY <1>9, <2>1 DEF WmBump
  <2>3. due' \in [AppWindows -> Seq(Buttons)]
    <3>1. due[at[1]] \in Seq(Buttons)
      BY <2>1
    <3>2. Append(due[at[1]], at[2]) \in Seq(Buttons) /\ <<>> \in Seq(Buttons)
      BY <2>1, <3>1
    <3> QED BY <1>9, <2>1, <3>2 DEF WmBump
  <2>4. at' \in AppWindows \X Buttons /\ loaded' \in 0..MaxEvents - 1 /\ wm' = "release"
    BY <1>9, Ranges DEF WmBump
  <2> QED BY <1>9, <2>2, <2>3, <2>4 DEF WmBump, placing, dragging, widgets
<1>10. ASSUME NEW w \in AppWindows, Emptied(w)
       PROVE  /\ event_count' \in [AppWindows -> 0..MaxEvents]
              /\ due' \in [AppWindows -> Seq(Buttons)]
              /\ raced' \subseteq AppWindows
              /\ event_id' = event_id
  <2>1. <<>> \in Seq(Buttons) /\ 0 \in 0..MaxEvents
    OBVIOUS
  <2> QED BY <1>10, <2>1 DEF Emptied
<1>11. ASSUME NEW p \in Programs, CreateWindow(p) PROVE TypeOK'
  <2>1. PICK w \in Windows :
          /\ Lowest(w, Windows \ is_open)
          /\ is_open' = is_open \cup {w}
          /\ owner_task_id' = [owner_task_id EXCEPT ![w] = p]
          /\ is_dragging' = is_dragging \ {w}
          /\ button_count' = [button_count EXCEPT ![w] = 0]
          /\ focused_window' = w
          /\ Emptied(w)
    BY <1>11 DEF CreateWindow
  <2>2. w \in AppWindows
    BY <2>1 DEF Lowest, AppWindows
  <2>3. button_count' \in [AppWindows -> 0..MaxButtons]
    <3>1. 0 \in 0..MaxButtons
      OBVIOUS
    <3> QED BY <2>1, <3>1
  <2>4. owner_task_id' \in [Windows -> Programs \cup {Kernel}]
    BY <1>11, <2>1
  <2> QED BY <1>10, <1>11, <2>1, <2>2, <2>3, <2>4 DEF CreateWindow, manager
<1>12. ASSUME NEW p \in Programs, CreateButton(p) PROVE TypeOK'
  <2>1. PICK w \in Owned(p) :
          /\ button_count[w] < MaxButtons
          /\ button_state' = [button_state EXCEPT ![w] = @ \ {button_count[w]}]
          /\ button_count' = [button_count EXCEPT ![w] = @ + 1]
    BY <1>12 DEF CreateButton
  <2>2. w \in AppWindows
    BY DEF Owned
  <2>3. button_count[w] + 1 \in 0..MaxButtons
    BY <2>1, <2>2
  <2>4. /\ button_count' \in [AppWindows -> 0..MaxButtons]
        /\ button_state' \in [AppWindows -> SUBSET Buttons]
    BY <2>1, <2>2, <2>3
  <2> QED BY <1>12, <2>4 DEF CreateButton, placing, dragging, queue, manager
<1>13. ASSUME NEW p \in Programs, ClearGui(p) PROVE TypeOK'
  <2>1. PICK w \in Windows :
          /\ Lowest(w, Owned(p))
          /\ button_count' = [button_count EXCEPT ![w] = 0]
          /\ Emptied(w)
    BY <1>13 DEF ClearGui
  <2>2. w \in AppWindows
    BY <2>1 DEF Lowest, Owned
  <2>3. button_count' \in [AppWindows -> 0..MaxButtons]
    <3>1. 0 \in 0..MaxButtons
      OBVIOUS
    <3> QED BY <2>1, <3>1
  <2> QED BY <1>10, <1>13, <2>1, <2>2, <2>3 DEF ClearGui, placing, dragging, manager
<1>14. ASSUME NEW p \in Programs, PollEvent(p) PROVE TypeOK'
  <2>1. PICK w \in Owned(p) :
          /\ event_count[w] > 0
          /\ event_id' = [event_id EXCEPT ![w] = Shifted(w)]
          /\ event_count' = [event_count EXCEPT ![w] = @ - 1]
          /\ raced' = IF Appending(w) /\ wm # "store" THEN raced \cup {w} ELSE raced
          /\ due' = [due EXCEPT ![w] = IF w \in raced' THEN <<>> ELSE Tail(@)]
    BY <1>14 DEF PollEvent
  <2>2. w \in AppWindows
    BY DEF Owned
  <2>3. Shifted(w) \in [Slots -> Buttons]
    <3>1. /\ event_id[w] \in [Slots -> Buttons]
          /\ event_count[w] \in 0..MaxEvents
      BY <2>2
    <3>2. ASSUME NEW s \in Slots
          PROVE  (IF s + 1 < event_count[w] THEN event_id[w][s + 1] ELSE event_id[w][s]) \in Buttons
      BY <3>1 DEF Slots
    <3> QED BY <3>2 DEF Shifted
  <2>4. event_count[w] - 1 \in 0..MaxEvents
    BY <2>1, <2>2
  <2>5. (IF w \in raced' THEN <<>> ELSE Tail(due[w])) \in Seq(Buttons)
    <3>1. CASE w \in raced'
      BY <3>1
    <3>2. CASE w \notin raced'
      <4>1. Len(due[w]) = event_count[w] /\ due[w] \in Seq(Buttons)
        BY <2>1, <2>2, <3>2 DEF QueueRight
      <4> QED BY <2>1, <3>2, <4>1
    <3> QED BY <3>1, <3>2
  <2>6. /\ event_id' \in [AppWindows -> [Slots -> Buttons]]
        /\ event_count' \in [AppWindows -> 0..MaxEvents]
        /\ due' \in [AppWindows -> Seq(Buttons)]
        /\ raced' \subseteq AppWindows
    BY <2>1, <2>2, <2>3, <2>4, <2>5
  <2> QED BY <1>14, <2>6 DEF PollEvent, placing, dragging, widgets, manager
<1>15. ASSUME NEW p \in Programs, ProgramEnds(p) PROVE TypeOK'
  BY <1>15, Ranges DEF ProgramEnds, Owned, AppWindows, dragging, widgets, queue, manager
<1>16. CASE UNCHANGED vars
  BY <1>16 DEF vars, placing, dragging, widgets, queue, manager
<1> QED BY <1>1, <1>2, <1>3, <1>4, <1>5, <1>6, <1>7, <1>8, <1>9, <1>11, <1>12, <1>13,
           <1>14, <1>15, <1>16 DEF Next, WindowManager, Program

-----------------------------------------------------------------------------
(* One window is dragged *)

LEMMA DragStep == ASSUME IInv, [Next]_vars PROVE DragInv'
<1>a. TypeOK /\ DragInv
  BY DEF IInv
<1> USE <1>a DEF DragInv
<1>1. CASE MousePacket \/ UNCHANGED vars
  BY <1>1 DEF MousePacket, vars, dragging, manager
<1>2. CASE WmPress \/ WmMinimise \/ WmMenuClose \/ WmMenuDismiss \/ WmMenuOpen \/ WmClickNothing
  BY <1>2 DEF WmPress, WmMinimise, WmMenuClose, WmMenuDismiss, WmMenuOpen, WmClickNothing,
              Click, dragging
<1>3. ASSUME NEW w \in Windows, WmClickBody(w) \/ WmDrag(w) \/ WmClose(w) PROVE DragInv'
  BY <1>3 DEF WmClickBody, WmDrag, WmClose, WmFocus, Click, dragging
<1>4. CASE WmRelease \/ WmReleased
  BY <1>4 DEF WmRelease, WmReleased, TypeOK
<1>5. CASE WmSpringBack \/ WmStore \/ WmLoad \/ WmBump
  BY <1>5 DEF WmSpringBack, WmStore, WmLoad, WmBump, dragging
<1>6. ASSUME NEW p \in Programs, Program(p) PROVE DragInv'
  BY <1>6 DEF Program, CreateWindow, CreateButton, ClearGui, PollEvent, ProgramEnds,
              dragging, manager
<1> QED BY <1>1, <1>2, <1>3, <1>4, <1>5, <1>6 DEF Next, WindowManager

-----------------------------------------------------------------------------
(* An append that nobody disturbs stays right *)

LEMMA AppendStep == ASSUME IInv, [Next]_vars PROVE AppendInv'
<1>a. TypeOK /\ AppendInv
  BY DEF IInv
<1>b. at[1] \in AppWindows /\ at[2] \in Buttons
  BY <1>a DEF TypeOK
<1>c. \A w \in AppWindows : event_count[w] \in Nat /\ button_count[w] \in Nat
  BY <1>a, DesktopAssumption DEF TypeOK
<1> USE <1>a, <1>b, <1>c
<1>1. CASE UNCHANGED <<wm, at, loaded, queue, button_count>>
  BY <1>1 DEF AppendInv, queue
<1>2. CASE \/ WmPress \/ WmMinimise \/ WmMenuClose \/ WmMenuDismiss \/ WmMenuOpen
           \/ WmClickNothing \/ WmRelease \/ WmReleased
           \/ \E w \in Windows : WmClickBody(w) \/ WmDrag(w) \/ WmClose(w)
  <2>1. wm' \in {"click", "idle", "release"}
    BY <1>2 DEF WmPress, WmMinimise, WmMenuClose, WmMenuDismiss, WmMenuOpen, WmClickNothing,
                WmRelease, WmReleased, WmClickBody, WmDrag, WmClose, WmFocus, Click
  <2> QED BY <2>1 DEF AppendInv
<1>3. CASE WmSpringBack
  <2>1. PICK p \in Pressed : at' = p
    BY <1>3 DEF WmSpringBack
  <2> QED BY <1>3, <2>1 DEF WmSpringBack, Pressed, AppendInv
<1>4. CASE WmStore
  <2>1. CASE Room(at[1])
    <3>1. /\ wm' = "load" /\ at' = at /\ raced' = raced /\ event_count' = event_count
          /\ button_count' = button_count
          /\ event_id' = [event_id EXCEPT ![at[1]][event_count[at[1]]] = at[2]]
          /\ wm = "store"
      BY <1>4, <2>1 DEF WmStore, widgets
    <3>2. event_count[at[1]] \in Slots
      BY <2>1, DesktopAssumption DEF Room, Slots
    <3>3. event_id'[at[1]][event_count[at[1]]] = at[2]
      BY <3>1, <3>2 DEF TypeOK
    <3> QED BY <2>1, <3>1, <3>3 DEF AppendInv, Room
  <2>2. CASE ~Room(at[1])
    BY <1>4, <2>2 DEF WmStore, AppendInv
  <2> QED BY <2>1, <2>2
<1>5. CASE WmLoad
  BY <1>5 DEF WmLoad, AppendInv, queue, widgets
<1>6. CASE WmBump
  BY <1>6 DEF WmBump, AppendInv
<1>7. ASSUME NEW w \in AppWindows, Emptied(w), UNCHANGED <<wm, at, loaded>>,
             \A v \in AppWindows \ {w} : button_count'[v] = button_count[v]
      PROVE  AppendInv'
  <2>1. /\ event_count'[w] = 0
        /\ \A v \in AppWindows \ {w} : /\ event_count'[v] = event_count[v]
                                       /\ v \in raced' <=> v \in raced
        /\ event_id' = event_id
    BY <1>7 DEF Emptied, TypeOK
  <2>2. 0 < MaxEvents
    BY DesktopAssumption
  <2>3. CASE at[1] = w
    <3>1. wm \in {"store", "load", "bump"} => w \in raced'
      BY <1>7, <2>3 DEF Emptied, Appending
    <3> QED BY <1>7, <2>1, <2>2, <2>3, <3>1 DEF AppendInv
  <2>4. CASE at[1] # w
    BY <1>7, <2>1, <2>4 DEF AppendInv
  <2> QED BY <2>3, <2>4
<1>8. ASSUME NEW p \in Programs, CreateWindow(p) \/ ClearGui(p) PROVE AppendInv'
  <2>1. PICK w \in Windows :
          /\ Lowest(w, Windows \ is_open) \/ Lowest(w, Owned(p))
          /\ button_count' = [button_count EXCEPT ![w] = 0]
          /\ Emptied(w)
    BY <1>8 DEF CreateWindow, ClearGui
  <2>2. w \in AppWindows
    BY <2>1 DEF Lowest, Owned, TypeOK, AppWindows
  <2>3. \A v \in AppWindows \ {w} : button_count'[v] = button_count[v]
    BY <2>1 DEF TypeOK
  <2>4. UNCHANGED <<wm, at, loaded>>
    BY <1>8 DEF CreateWindow, ClearGui, manager
  <2> QED BY <1>7, <2>1, <2>2, <2>3, <2>4
<1>9. ASSUME NEW p \in Programs, CreateButton(p) PROVE AppendInv'
  <2>1. PICK w \in AppWindows : button_count' = [button_count EXCEPT ![w] = @ + 1]
    BY <1>9 DEF CreateButton, Owned
  <2>2. \A v \in AppWindows : button_count[v] <= button_count'[v] /\ button_count'[v] \in Nat
    BY <2>1 DEF TypeOK
  <2>3. UNCHANGED <<wm, at, loaded, event_count, event_id, raced>>
    BY <1>9 DEF CreateButton, queue, manager
  <2> QED BY <2>2, <2>3 DEF AppendInv, Buttons
<1>10. ASSUME NEW p \in Programs, PollEvent(p) PROVE AppendInv'
  <2>1. PICK w \in AppWindows :
          /\ event_count[w] > 0
          /\ event_id' = [event_id EXCEPT ![w] = Shifted(w)]
          /\ event_count' = [event_count EXCEPT ![w] = @ - 1]
          /\ raced' = IF Appending(w) /\ wm # "store" THEN raced \cup {w} ELSE raced
    BY <1>10 DEF PollEvent, Owned
  <2>2. UNCHANGED <<wm, at, loaded, button_count>>
    BY <1>10 DEF PollEvent, widgets, manager
  <2>3. \A v \in AppWindows : event_count'[v] <= event_count[v] /\ event_count'[v] \in Int
    BY <2>1 DEF TypeOK
  <2>4. CASE w = at[1]
    BY <2>1, <2>2, <2>3, <2>4, DesktopAssumption DEF AppendInv, Appending
  <2>5. CASE w # at[1]
    <3>1. /\ event_id'[at[1]] = event_id[at[1]]
          /\ event_count'[at[1]] = event_count[at[1]]
          /\ at[1] \in raced' <=> at[1] \in raced
      BY <2>1, <2>5 DEF TypeOK
    <3> QED BY <2>2, <3>1 DEF AppendInv
  <2> QED BY <2>4, <2>5
<1>11. CASE MousePacket \/ UNCHANGED vars \/ \E p \in Programs : ProgramEnds(p)
  BY <1>1, <1>11 DEF MousePacket, ProgramEnds, vars, widgets, manager
<1> QED BY <1>2, <1>3, <1>4, <1>5, <1>6, <1>8, <1>9, <1>10, <1>11
        DEF Next, WindowManager, Program

-----------------------------------------------------------------------------
(* The queue of a window is what is due *)

LEMMA TailOfQueue ==
  ASSUME NEW S, NEW s \in Seq(S), Len(s) > 0
  PROVE  /\ Len(Tail(s)) = Len(s) - 1
         /\ \A n \in 1..Len(s) - 1 : Tail(s)[n] = s[n + 1]
<1>1. Len(s) \in Nat /\ s # <<>>
  OBVIOUS
<1>2. Tail(s) \in Seq(S)
  BY <1>1
<1>3. Len(Tail(s)) = Len(s) - 1
  BY <1>1
<1>4. ASSUME NEW n \in 1..Len(s) - 1 PROVE Tail(s)[n] = s[n + 1]
  BY <1>1, <1>4
<1> QED BY <1>3, <1>4

LEMMA QueueStep ==
  ASSUME IInv, [Next]_vars, NEW w \in AppWindows, w \notin raced'
  PROVE  QueueRight(w)'
<1>a. /\ TypeOK /\ AppendInv
      /\ w \notin raced => QueueRight(w)
  BY DEF IInv
<1>b. /\ at[1] \in AppWindows /\ at[2] \in Buttons
      /\ event_count[w] \in 0..MaxEvents /\ button_count[w] \in 0..MaxButtons
      /\ event_id[w] \in [Slots -> Buttons]
      /\ due[w] \in Seq(Buttons)
      /\ MaxEvents \in Nat /\ MaxButtons \in Nat
  BY <1>a, DesktopAssumption DEF TypeOK
<1> USE <1>a, <1>b DEF QueueRight
<1>1. CASE UNCHANGED <<queue, button_count>>
  BY <1>1 DEF queue
<1>2. CASE WmStore
  <2>1. UNCHANGED <<event_count, due, raced, button_count>>
    BY <1>2 DEF WmStore, widgets
  <2>2. \A n \in 1..event_count[w] : event_id'[w][n - 1] = event_id[w][n - 1]
    <3>1. CASE Room(at[1]) /\ at[1] = w
      <4>1. event_id'[w] = [event_id[w] EXCEPT ![event_count[w]] = at[2]]
        BY <1>2, <3>1 DEF WmStore, TypeOK
      <4> QED BY <4>1 DEF Slots
    <3>2. CASE ~(Room(at[1]) /\ at[1] = w)
      <4>1. event_id'[w] = event_id[w]
        BY <1>2, <3>2 DEF WmStore, TypeOK
      <4> QED BY <4>1
    <3> QED BY <3>1, <3>2
  <2> QED BY <2>1, <2>2
<1>3. CASE WmBump
  <2>1. CASE at[1] = w
    <3>1. /\ event_count'[w] = event_count[w] + 1
          /\ due'[w] = Append(due[w], at[2])
          /\ event_id' = event_id /\ button_count' = button_count
          /\ event_id[w][event_count[w]] = at[2]
          /\ at[2] < button_count[w]
          /\ w \notin raced
      BY <1>3, <2>1 DEF WmBump, AppendInv, TypeOK, widgets
    <3>2. Len(due'[w]) = event_count'[w]
      BY <3>1
    <3>3. \A n \in 1..event_count'[w] : due'[w][n] = event_id[w][n - 1]
      <4>1. ASSUME NEW n \in 1..event_count'[w] PROVE due'[w][n] = event_id[w][n - 1]
        <5>1. CASE n = event_count[w] + 1
          BY <3>1, <5>1
        <5>2. CASE n # event_count[w] + 1
          BY <3>1, <5>2
        <5> QED BY <5>1, <5>2
      <4> QED BY <4>1
    <3>4. \A n \in 1..event_count'[w] : event_id[w][n - 1] < button_count[w]
      BY <3>1
    <3> QED BY <3>1, <3>2, <3>3, <3>4
  <2>2. CASE at[1] # w
    BY <1>3, <2>2 DEF WmBump, TypeOK, widgets
  <2> QED BY <2>1, <2>2
<1>4. ASSUME NEW p \in Programs, CreateWindow(p) \/ ClearGui(p) PROVE QueueRight(w)'
  <2>1. PICK v \in Windows :
          /\ Lowest(v, Windows \ is_open) \/ Lowest(v, Owned(p))
          /\ button_count' = [button_count EXCEPT ![v] = 0]
          /\ Emptied(v)
    BY <1>4 DEF CreateWindow, ClearGui
  <2>2. v \in AppWindows
    BY <2>1 DEF Lowest, Owned, TypeOK, AppWindows
  <2>3. CASE v = w
    <3>1. event_count'[w] = 0 /\ due'[w] = <<>>
      BY <2>1, <2>3 DEF Emptied, TypeOK
    <3> QED BY <3>1
  <2>4. CASE v # w
    BY <2>1, <2>2, <2>4 DEF Emptied, TypeOK
  <2> QED BY <2>3, <2>4
<1>5. ASSUME NEW p \in Programs, CreateButton(p) PROVE QueueRight(w)'
  <2>1. PICK v \in AppWindows : button_count' = [button_count EXCEPT ![v] = @ + 1]
    BY <1>5 DEF CreateButton, Owned
  <2>2. button_count[w] <= button_count'[w] /\ button_count'[w] \in Int
    BY <2>1 DEF TypeOK
  <2>3. UNCHANGED queue
    BY <1>5 DEF CreateButton
  <2>4. \A n \in 1..event_count[w] : event_id[w][n - 1] \in Int
    BY DEF Slots, Buttons
  <2> QED BY <2>2, <2>3, <2>4 DEF queue
<1>6. ASSUME NEW p \in Programs, PollEvent(p) PROVE QueueRight(w)'
  <2>1. PICK v \in AppWindows :
          /\ event_count[v] > 0
          /\ event_id' = [event_id EXCEPT ![v] = Shifted(v)]
          /\ event_count' = [event_count EXCEPT ![v] = @ - 1]
          /\ raced' = IF Appending(v) /\ wm # "store" THEN raced \cup {v} ELSE raced
          /\ due' = [due EXCEPT ![v] = IF v \in raced' THEN <<>> ELSE Tail(@)]
    BY <1>6 DEF PollEvent, Owned
  <2>2. button_count' = button_count /\ w \notin raced
    BY <1>6, <2>1 DEF PollEvent, widgets
  <2>3. CASE v = w
    <3>1. /\ event_count'[w] = event_count[w] - 1
          /\ due'[w] = Tail(due[w])
          /\ event_id'[w] = Shifted(w)
      BY <2>1, <2>3 DEF TypeOK
    <3>2. \A n \in 1..event_count'[w] : /\ n - 1 \in Slots
                                        /\ event_id'[w][n - 1] = event_id[w][n]
      BY <2>1, <2>3, <3>1 DEF Shifted, Slots
    <3>0. Len(due[w]) = event_count[w] /\ Len(due[w]) > 0
      BY <2>1, <2>2, <2>3
    <3>3. \A n \in 1..event_count'[w] : due'[w][n] = due[w][n + 1]
      BY <3>0, <3>1, TailOfQueue
    <3>4. \A n \in 1..event_count'[w] : due[w][n + 1] = event_id[w][n] /\ event_id[w][n] < button_count[w]
      <4>1. ASSUME NEW n \in 1..event_count'[w]
            PROVE  due[w][n + 1] = event_id[w][n] /\ event_id[w][n] < button_count[w]
        <5>1. n + 1 \in 1..event_count[w] /\ (n + 1) - 1 = n
          BY <3>1
        <5> QED BY <2>2, <5>1
      <4> QED BY <4>1
    <3>5. Len(due'[w]) = event_count'[w]
      BY <3>0, <3>1, TailOfQueue
    <3> QED BY <2>2, <3>2, <3>3, <3>4, <3>5
  <2>4. CASE v # w
    BY <2>1, <2>2, <2>4 DEF TypeOK
  <2> QED BY <2>3, <2>4
<1>7. CASE \/ WmPress \/ WmMinimise \/ WmMenuClose \/ WmMenuDismiss \/ WmMenuOpen
           \/ WmClickNothing \/ WmRelease \/ WmReleased \/ WmSpringBack \/ WmLoad
           \/ \E v \in Windows : WmClickBody(v) \/ WmDrag(v) \/ WmClose(v)
  BY <1>1, <1>7 DEF WmPress, WmMinimise, WmMenuClose, WmMenuDismiss, WmMenuOpen,
     WmClickNothing, WmRelease, WmReleased, WmSpringBack, WmLoad, WmClickBody, WmDrag,
     WmClose, WmFocus, Click, widgets
<1>8. CASE MousePacket \/ UNCHANGED vars \/ \E p \in Programs : ProgramEnds(p)
  BY <1>1, <1>8 DEF MousePacket, ProgramEnds, vars, widgets
<1> QED BY <1>2, <1>3, <1>4, <1>5, <1>6, <1>7, <1>8 DEF Next, WindowManager, Program
-----------------------------------------------------------------------------
LEMMA InitInv == Init => IInv
<1> SUFFICES ASSUME Init PROVE IInv
  OBVIOUS
<1>1. TypeOK
  BY TypeInit
<1>2. DragInv /\ AppendInv
  BY DEF Init, DragInv, AppendInv
<1>3. ASSUME NEW w \in AppWindows PROVE QueueRight(w)
  <2>1. event_count[w] = 0 /\ due[w] = <<>>
    BY DEF Init
  <2> QED BY <2>1 DEF QueueRight
<1> QED BY <1>1, <1>2, <1>3 DEF IInv

LEMMA StepInv == IInv /\ [Next]_vars => IInv'
<1> SUFFICES ASSUME IInv, [Next]_vars PROVE IInv'
  OBVIOUS
<1>1. AppWindows' = AppWindows
  BY DEF AppWindows
<1>2. \A w \in AppWindows : w \notin raced' => QueueRight(w)'
  BY QueueStep
<1> QED BY <1>1, <1>2, TypeStep, DragStep, AppendStep DEF IInv

LEMMA IndInv == Spec => []IInv
BY InitInv, StepInv, PTL DEF Spec

(* Every variable keeps to its type: no count passes its array, and the    *)
(* terminal and the monitor stay open.                                     *)
THEOREM TypeCorrect == Spec => []TypeOK
<1>1. IInv => TypeOK
  BY DEF IInv
<1> QED BY <1>1, IndInv, PTL

(* Polling returns the clicks in the order they were made, whatever the    *)
(* system calls of the programs and the appends of the window manager have *)
(* done to the shifted array - but for a queue changed under an append.    *)
THEOREM EventsStayInOrder == Spec => []EventsInOrder
<1>1. IInv => EventsInOrder
  <2> SUFFICES ASSUME IInv, NEW w \in (AppWindows \cap is_open) \ raced
               PROVE  Queue(w) = due[w]
    BY DEF EventsInOrder
  <2>1. QueueRight(w) /\ due[w] \in Seq(Buttons)
    BY DEF IInv, TypeOK
  <2>2. due[w] = [n \in 1..Len(due[w]) |-> due[w][n]]
    BY <2>1
  <2>3. \A n \in 1..event_count[w] : due[w][n] = event_id[w][n - 1]
    BY <2>1 DEF QueueRight
  <2>4. Len(due[w]) = event_count[w]
    BY <2>1 DEF QueueRight
  <2> HIDE DEF QueueRight
  <2> QED BY <2>2, <2>3, <2>4 DEF Queue
<1> QED BY <1>1, IndInv, PTL

(* An event that waits names a button its window has, although the program *)
(* may clear its interface and make another between the click and the poll.*)
THEOREM EventsNameExistingButtons == Spec => []EventsNameButtons
<1>1. IInv => EventsNameButtons
  BY DEF IInv, QueueRight, Queue, EventsNameButtons
<1> QED BY <1>1, IndInv, PTL

(* At most one window follows the pointer, and none between the passes     *)
(* once any_window_dragging is clear.                                      *)
THEOREM OneWindowDragged == Spec => []OneDragged
<1>1. IInv => OneDragged
  BY DEF IInv, DragInv, OneDragged
<1> QED BY <1>1, IndInv, PTL

-----------------------------------------------------------------------------
(* Only the pointer presses a button *)

LEMMA PressStep ==
  ASSUME IInv, [Next]_vars
  PROVE  Pressed' \subseteq Pressed \/ (wm = "idle" /\ wm' = "click")
<1> DEFINE Fewer == Pressed' \subseteq Pressed
<1>a. TypeOK
  BY DEF IInv
<1>1. CASE UNCHANGED widgets /\ is_open' \subseteq is_open
  BY <1>1 DEF Pressed, widgets
<1>2. CASE WmPress
  BY <1>2 DEF WmPress
<1>3. CASE MousePacket \/ UNCHANGED vars \/ \E p \in Programs : ProgramEnds(p) \/ PollEvent(p)
  BY <1>1, <1>3 DEF MousePacket, vars, ProgramEnds, PollEvent, placing
<1>4. CASE \/ WmMinimise \/ WmMenuClose \/ WmMenuDismiss \/ WmMenuOpen
           \/ WmClickNothing \/ WmRelease \/ WmReleased \/ WmStore \/ WmLoad \/ WmBump
           \/ \E v \in Windows : WmClickBody(v) \/ WmDrag(v) \/ WmClose(v)
  BY <1>1, <1>4 DEF WmMinimise, WmMenuClose, WmMenuDismiss, WmMenuOpen, WmClickNothing,
     WmRelease, WmReleased, WmStore, WmLoad, WmBump, WmClickBody, WmDrag, WmClose,
     WmFocus, Click, placing
<1>5. CASE WmSpringBack
  <2>1. PICK p \in Pressed : button_state' = [button_state EXCEPT ![p[1]] = @ \ {p[2]}]
    BY <1>5 DEF WmSpringBack
  <2>2. \A w \in AppWindows : button_state'[w] \subseteq button_state[w]
    BY <1>a, <2>1 DEF TypeOK
  <2>3. is_open' = is_open /\ button_count' = button_count
    BY <1>5 DEF WmSpringBack, placing
  <2> QED BY <2>2, <2>3 DEF Pressed
<1>6. ASSUME NEW p \in Programs, CreateWindow(p) \/ ClearGui(p) PROVE Fewer
  <2>1. PICK w \in Windows :
          /\ Lowest(w, Windows \ is_open) \/ Lowest(w, Owned(p))
          /\ button_count' = [button_count EXCEPT ![w] = 0]
          /\ is_open' \subseteq is_open \cup {w}
    BY <1>6 DEF CreateWindow, ClearGui, placing
  <2>2. w \in AppWindows
    BY <1>a, <2>1 DEF Lowest, Owned, TypeOK, AppWindows
  <2>3. button_state' = button_state
    BY <1>6 DEF CreateWindow, ClearGui
  <2>4. ASSUME NEW q \in Pressed' PROVE q \in Pressed
    <3>1. /\ q \in AppWindows \X Buttons /\ q[1] \in is_open'
          /\ q[2] < button_count'[q[1]] /\ q[2] \in button_state[q[1]]
      BY <2>3 DEF Pressed
    <3>2. q[1] # w
      <4>1. SUFFICES ASSUME q[1] = w PROVE FALSE
        OBVIOUS
      <4>2. button_count'[w] = 0
        BY <1>a, <2>1, <2>2 DEF TypeOK
      <4> QED BY <3>1, <4>1, <4>2 DEF Buttons
    <3>3. button_count'[q[1]] = button_count[q[1]] /\ q[1] \in is_open
      BY <1>a, <2>1, <3>1, <3>2 DEF TypeOK
    <3> QED BY <3>1, <3>3 DEF Pressed
  <2> QED BY <2>4
<1>7. ASSUME NEW p \in Programs, CreateButton(p) PROVE Fewer
  <2>1. PICK w \in AppWindows :
          /\ button_state' = [button_state EXCEPT ![w] = @ \ {button_count[w]}]
          /\ button_count' = [button_count EXCEPT ![w] = @ + 1]
    BY <1>7 DEF CreateButton, Owned
  <2>2. is_open' = is_open
    BY <1>7 DEF CreateButton, placing
  <2>3. ASSUME NEW q \in Pressed' PROVE q \in Pressed
    <3>1. /\ q \in AppWindows \X Buttons /\ q[1] \in is_open
          /\ q[2] < button_count'[q[1]] /\ q[2] \in button_state'[q[1]]
      BY <2>2 DEF Pressed
    <3>2. CASE q[1] = w
      <4>1. button_count[w] \in Nat /\ q[2] \in Nat
        BY <1>a, <3>1, DesktopAssumption DEF TypeOK, Buttons
      <4>2. q[2] < button_count[w] + 1 /\ q[2] # button_count[w] /\ q[2] \in button_state[w]
        BY <1>a, <2>1, <3>1, <3>2 DEF TypeOK
      <4>3. q[2] < button_count[w]
        BY <4>1, <4>2
      <4> QED BY <3>1, <3>2, <4>2, <4>3 DEF Pressed
    <3>3. CASE q[1] # w
      <4>1. button_count'[q[1]] = button_count[q[1]] /\ button_state'[q[1]] = button_state[q[1]]
        BY <1>a, <2>1, <3>1, <3>3 DEF TypeOK
      <4> QED BY <3>1, <4>1 DEF Pressed
    <3> QED BY <3>2, <3>3
  <2> QED BY <2>3
<1> QED BY <1>2, <1>3, <1>4, <1>5, <1>6, <1>7 DEF Next, WindowManager, Program

(* No system call, no closing or opening of a window and no pass of the    *)
(* window manager but the press itself puts a button down: a slot that is  *)
(* used again never shows the press of the one that had it before.         *)
THEOREM NobodyElsePresses == Spec => OnlyPointerPresses
<1>1. IInv /\ [Next]_vars
      => [Pressed' \subseteq Pressed \/ (wm = "idle" /\ wm' = "click")]_vars
  BY PressStep
<1> QED BY <1>1, IndInv, PTL DEF Spec, OnlyPointerPresses
=============================================================================
