------------------------------ MODULE Desktop ------------------------------
(***************************************************************************)
(* Windows, their buttons and their event queues: the state gui_state_t    *)
(* that the kernel and the window manager share (ardaos.h), the mouse      *)
(* engine of the window manager (process_mouse_events of wm.c), and the    *)
(* system calls through which a program makes a window, makes buttons and  *)
(* polls for clicks (kernel.c, idt.c).                                     *)
(*                                                                         *)
(* System calls run with interrupts off and are one step.  The window      *)
(* manager is a user task: it can lose the processor between any two of    *)
(* its instructions, and is split where a system call or the reaper can    *)
(* change what it has read.  Coordinates are left out, and so is which     *)
(* windows are minimised: what lies under the pointer is chosen anew at    *)
(* every pass.  Which owner a close button kills is in Tasks; closing the  *)
(* terminal or the monitor, whose owner is the kernel task, too.           *)
(***************************************************************************)
EXTENDS Integers, Sequences

CONSTANTS
  Programs,     \* running programs; a name is free again once its owner ended
  Kernel,       \* owner of the terminal and the monitor
  MAX_WINDOWS,
  MaxButtons,   \* button slots of a window (20)
  MaxEvents     \* event slots of a window (20)

ASSUME DesktopAssumption ==
  /\ MAX_WINDOWS \in Nat /\ MAX_WINDOWS >= 3
  /\ MaxButtons \in Nat \ {0} /\ MaxEvents \in Nat \ {0}
  /\ Kernel \notin Programs

Windows == 0..MAX_WINDOWS - 1
SystemWindows == {0, 1}              \* the terminal, the monitor
AppWindows == Windows \ SystemWindows
Buttons == 0..MaxButtons - 1
Slots == 0..MaxEvents - 1

VARIABLES
  is_open,         \* the windows that are open
  owner_task_id,
  is_dragging,     \* the ones with is_dragging set
  any_window_dragging,
  focused_window,
  context_menu_open,
  button_count, button_state, \* per application window; the pressed buttons
  event_count, event_id,
  mouse_left_button,          \* in the mouse driver
  wm,              \* where the window manager is
  at,              \* the window and button of its release loop
  loaded,          \* event_count as event_count++ has read it
  due,             \* history: the clicks a first-in first-out queue would hold
  raced            \* history: windows whose queue changed under the append

placing == <<is_open, owner_task_id>>
dragging == <<is_dragging, any_window_dragging>>
widgets == <<button_count, button_state>>
queue == <<event_count, event_id, due, raced>>
manager == <<wm, at, loaded>>
vars == <<placing, dragging, focused_window, context_menu_open, widgets, queue,
          mouse_left_button, manager>>

\* kernel_main opens the terminal and the monitor; the rest is zero.
Init ==
  /\ is_open = SystemWindows
  /\ owner_task_id = [w \in Windows |-> Kernel]
  /\ is_dragging = {} /\ any_window_dragging = FALSE
  /\ focused_window = 0 /\ context_menu_open = FALSE
  /\ button_count = [w \in AppWindows |-> 0]
  /\ button_state = [w \in AppWindows |-> {}]
  /\ event_count = [w \in AppWindows |-> 0]
  /\ event_id = [w \in AppWindows |-> [s \in Slots |-> 0]]
  /\ mouse_left_button = FALSE
  /\ wm = "idle" /\ at = <<2, 0>> /\ loaded = 0
  /\ due = [w \in AppWindows |-> <<>>] /\ raced = {}

Lowest(w, S) == w \in S /\ \A v \in S : w <= v

\* The queue of w as its owner will poll it.
Queue(w) == [n \in 1..event_count[w] |-> event_id[w][n - 1]]

\* The window manager is leaving an event with w: it has found the button
\* pressed and not stored event_count yet.
Appending(w) == wm \in {"store", "load", "bump"} /\ at[1] = w

-----------------------------------------------------------------------------
(* The mouse driver: mouse_handler_main *)

\* The third byte of a packet sets the button; a packet with an overflow bit
\* is thrown away, button and all.
MousePacket ==
  /\ mouse_left_button' \in BOOLEAN
  /\ UNCHANGED <<placing, dragging, focused_window, context_menu_open, widgets,
                 queue, manager>>

-----------------------------------------------------------------------------
(* The window manager: process_mouse_events *)

\* The button is down: the buttons of the focused window under the pointer
\* go down with it.  Nothing asks whether that window is still open.
WmPress ==
  /\ wm = "idle" /\ mouse_left_button
  /\ IF focused_window \in AppWindows /\ ~any_window_dragging /\ ~context_menu_open
     THEN \E hit \in SUBSET (0..button_count[focused_window] - 1) :
            button_state' = [button_state EXCEPT ![focused_window] = @ \cup hit]
     ELSE UNCHANGED button_state
  /\ wm' = "click"
  /\ UNCHANGED <<placing, dragging, focused_window, context_menu_open, button_count,
                 queue, mouse_left_button, at, loaded>>

Click ==
  /\ wm = "click" /\ wm' = "idle"
  /\ UNCHANGED <<widgets, queue, mouse_left_button, at, loaded>>

\* "Kucult": the focused window is minimised, some window in sight focused.
WmMinimise ==
  /\ Click /\ ~any_window_dragging /\ context_menu_open
  /\ focused_window' \in is_open \cup {focused_window}
  /\ context_menu_open' = FALSE
  /\ UNCHANGED <<placing, dragging>>

\* "Kapat": its owner is to be killed, the window closes at once.
WmMenuClose ==
  /\ Click /\ ~any_window_dragging /\ context_menu_open
  /\ focused_window \in AppWindows
  /\ is_open' = is_open \ {focused_window}
  /\ focused_window' \in is_open' \cup {focused_window}
  /\ context_menu_open' = FALSE
  /\ UNCHANGED <<owner_task_id, dragging>>

\* "Tam Ekran", which only resizes, or a click beside the menu.
WmMenuDismiss ==
  /\ Click /\ ~any_window_dragging /\ context_menu_open
  /\ context_menu_open' = FALSE
  /\ UNCHANGED <<placing, dragging, focused_window>>

WmMenuOpen ==
  /\ Click /\ ~any_window_dragging /\ ~context_menu_open
  /\ focused_window \in is_open
  /\ context_menu_open' = TRUE
  /\ UNCHANGED <<placing, dragging, focused_window>>

\* A click into window w focuses it, ...
WmFocus(w) ==
  /\ Click /\ ~any_window_dragging /\ ~context_menu_open
  /\ w \in is_open
  /\ focused_window' = w
  /\ UNCHANGED context_menu_open

\* ... does nothing else in its body or in the taskbar, ...
WmClickBody(w) == WmFocus(w) /\ UNCHANGED <<placing, dragging>>

\* ... drags it on the title bar, ...
WmDrag(w) ==
  /\ WmFocus(w)
  /\ is_dragging' = is_dragging \cup {w}
  /\ any_window_dragging' = TRUE
  /\ UNCHANGED placing

\* ... and closes it on the close button; the focus stays where it was.
WmClose(w) ==
  /\ WmFocus(w)
  /\ w \in AppWindows
  /\ is_open' = is_open \ {w}
  /\ UNCHANGED <<owner_task_id, dragging>>

\* Nothing under the pointer, or a window being moved.
WmClickNothing ==
  /\ Click /\ (any_window_dragging \/ ~context_menu_open)
  /\ UNCHANGED <<placing, dragging, focused_window, context_menu_open>>

\* Mutant: only the focused window stops being dragged.
WmReleaseFocused ==
  /\ wm = "idle" /\ ~mouse_left_button
  /\ is_dragging' = is_dragging \ {focused_window}
  /\ wm' = "release"
  /\ UNCHANGED <<placing, any_window_dragging, focused_window, context_menu_open,
                 widgets, queue, mouse_left_button, at, loaded>>

\* The button is up and the mouse has moved: first, no window is dragged...
WmRelease ==
  /\ wm = "idle" /\ ~mouse_left_button
  /\ is_dragging' = {}
  /\ wm' = "release"
  /\ UNCHANGED <<placing, any_window_dragging, focused_window, context_menu_open,
                 widgets, queue, mouse_left_button, at, loaded>>

\* The buttons the release loop finds pressed, in its order.
Pressed == {p \in (AppWindows \cap is_open) \X Buttons :
              p[2] < button_count[p[1]] /\ p[2] \in button_state[p[1]]}
Before(p, q) == p[1] < q[1] \/ (p[1] = q[1] /\ p[2] < q[2])

\* ... then each pressed button of an open window springs back ...
WmSpringBack ==
  /\ wm = "release"
  /\ \E p \in Pressed :
       /\ \A q \in Pressed : q = p \/ Before(p, q)
       /\ at' = p
       /\ button_state' = [button_state EXCEPT ![p[1]] = @ \ {p[2]}]
  /\ wm' = "store"
  /\ UNCHANGED <<placing, dragging, focused_window, context_menu_open, button_count,
                 queue, mouse_left_button, loaded>>

\* The slot the next event goes to, if there is one.
Room(w) == event_count[w] < MaxEvents

\* ... and leaves an event, if the queue has room: the slot behind the last
\* event is written ...
WmStore ==
  LET w == at[1] IN
  /\ wm = "store"
  /\ IF Room(w)
     THEN /\ event_id' = [event_id EXCEPT ![w][event_count[w]] = at[2]]
          /\ wm' = "load" /\ UNCHANGED at
     ELSE wm' = "release" /\ at' = <<2, 0>> /\ UNCHANGED event_id
  /\ UNCHANGED <<placing, dragging, focused_window, context_menu_open, widgets,
                 event_count, due, raced, mouse_left_button, loaded>>

\* ... event_count is read ...
WmLoad ==
  /\ wm = "load"
  /\ loaded' = event_count[at[1]]
  /\ wm' = "bump"
  /\ UNCHANGED <<placing, dragging, focused_window, context_menu_open, widgets,
                 queue, mouse_left_button, at>>

\* ... and one more is stored.
WmBump ==
  /\ wm = "bump"
  /\ event_count' = [event_count EXCEPT ![at[1]] = loaded + 1]
  /\ due' = [due EXCEPT ![at[1]] = IF at[1] \in raced THEN <<>> ELSE Append(@, at[2])]
  /\ wm' = "release" /\ at' = <<2, 0>> /\ loaded' = 0
  /\ UNCHANGED <<placing, dragging, focused_window, context_menu_open, widgets,
                 event_id, raced, mouse_left_button>>

\* No button is left: the pass ends.
WmReleased ==
  /\ wm = "release" /\ Pressed = {}
  /\ any_window_dragging' = FALSE
  /\ wm' = "idle"
  /\ UNCHANGED <<placing, is_dragging, focused_window, context_menu_open, widgets,
                 queue, mouse_left_button, at, loaded>>

-----------------------------------------------------------------------------
(* Programs *)

Owned(p) == {w \in AppWindows \cap is_open : owner_task_id[w] = p}

\* The queue of w is emptied, in the middle of an append or not.
Emptied(w) ==
  /\ event_count' = [event_count EXCEPT ![w] = 0]
  /\ due' = [due EXCEPT ![w] = <<>>]
  /\ raced' = IF Appending(w) THEN raced \cup {w} ELSE raced \ {w}
  /\ UNCHANGED event_id

\* api_create_window takes the first closed slot.  Slots 0 and 1 are open.
CreateWindow(p) ==
  /\ \E w \in Windows :
       /\ Lowest(w, Windows \ is_open)
       /\ is_open' = is_open \cup {w}
       /\ owner_task_id' = [owner_task_id EXCEPT ![w] = p]
       /\ is_dragging' = is_dragging \ {w}
       /\ button_count' = [button_count EXCEPT ![w] = 0]
       /\ focused_window' = w
       /\ Emptied(w)
  /\ UNCHANGED <<any_window_dragging, context_menu_open, button_state,
                 mouse_left_button, manager>>

\* Mutant: the new button keeps the state its slot had.
CreateButtonAsFound(p) ==
  /\ \E w \in Owned(p) :
       /\ button_count[w] < MaxButtons
       /\ \A v \in Owned(p) : v < w => button_count[v] = MaxButtons
       /\ button_count' = [button_count EXCEPT ![w] = @ + 1]
  /\ UNCHANGED <<placing, dragging, focused_window, context_menu_open, button_state,
                 queue, mouse_left_button, manager>>

\* sys_create_button, on the first window of p that has a free slot.
CreateButton(p) ==
  /\ \E w \in Owned(p) :
       /\ button_count[w] < MaxButtons
       /\ \A v \in Owned(p) : v < w => button_count[v] = MaxButtons
       /\ button_state' = [button_state EXCEPT ![w] = @ \ {button_count[w]}]
       /\ button_count' = [button_count EXCEPT ![w] = @ + 1]
  /\ UNCHANGED <<placing, dragging, focused_window, context_menu_open, queue,
                 mouse_left_button, manager>>

\* Mutant: the buttons go, the events stay.
ClearGuiKeepEvents(p) ==
  /\ \E w \in Windows : /\ Lowest(w, Owned(p))
                        /\ button_count' = [button_count EXCEPT ![w] = 0]
  /\ UNCHANGED <<placing, dragging, focused_window, context_menu_open, button_state,
                 queue, mouse_left_button, manager>>

\* sys_clear_gui: the buttons and the events of the first window of p.
ClearGui(p) ==
  /\ \E w \in Windows :
       /\ Lowest(w, Owned(p))
       /\ button_count' = [button_count EXCEPT ![w] = 0]
       /\ Emptied(w)
  /\ UNCHANGED <<placing, dragging, focused_window, context_menu_open, button_state,
                 mouse_left_button, manager>>

\* Mutant: the shift ends one slot early.
ShiftedShort(w) == [s \in Slots |-> IF s + 2 < event_count[w] THEN event_id[w][s + 1]
                                                             ELSE event_id[w][s]]

\* Every event moves one slot up; the slot of the last one keeps its value.
Shifted(w) == [s \in Slots |-> IF s + 1 < event_count[w] THEN event_id[w][s + 1]
                                                        ELSE event_id[w][s]]

\* sys_poll_event, on the first window of p that has an event; a program
\* without one is told so.
PollEvent(p) ==
  /\ \E w \in Owned(p) :
       /\ event_count[w] > 0
       /\ \A v \in Owned(p) : v < w => event_count[v] = 0
       /\ event_id' = [event_id EXCEPT ![w] = Shifted(w)]
       /\ event_count' = [event_count EXCEPT ![w] = @ - 1]
       /\ raced' = IF Appending(w) /\ wm # "store" THEN raced \cup {w} ELSE raced
       /\ due' = [due EXCEPT ![w] = IF w \in raced' THEN <<>> ELSE Tail(@)]
  /\ UNCHANGED <<placing, dragging, focused_window, context_menu_open, widgets,
                 mouse_left_button, manager>>

\* The reaper closes the windows of a program that exited or was killed.
ProgramEnds(p) ==
  /\ Owned(p) # {}
  /\ is_open' = is_open \ Owned(p)
  /\ focused_window' = IF focused_window \in Owned(p) THEN 0 ELSE focused_window
  /\ UNCHANGED <<owner_task_id, dragging, context_menu_open, widgets,
                 queue, mouse_left_button, manager>>

-----------------------------------------------------------------------------
WindowManager ==
  \/ WmPress \/ WmMinimise \/ WmMenuClose \/ WmMenuDismiss \/ WmMenuOpen
  \/ \E w \in Windows : WmClickBody(w) \/ WmDrag(w) \/ WmClose(w)
  \/ WmClickNothing \/ WmRelease \/ WmSpringBack \/ WmStore \/ WmLoad \/ WmBump
  \/ WmReleased

Program(p) ==
  CreateWindow(p) \/ CreateButton(p) \/ ClearGui(p) \/ PollEvent(p) \/ ProgramEnds(p)

Next == MousePacket \/ WindowManager \/ \E p \in Programs : Program(p)

Spec == Init /\ [][Next]_vars

-----------------------------------------------------------------------------
(* Properties *)

TypeOK ==
  /\ is_open \subseteq Windows /\ SystemWindows \subseteq is_open
  /\ owner_task_id \in [Windows -> Programs \cup {Kernel}]
  /\ is_dragging \subseteq Windows
  /\ any_window_dragging \in BOOLEAN /\ context_menu_open \in BOOLEAN
  /\ focused_window \in Windows
  /\ button_count \in [AppWindows -> 0..MaxButtons]
  /\ button_state \in [AppWindows -> SUBSET Buttons]
  /\ event_count \in [AppWindows -> 0..MaxEvents]
  /\ event_id \in [AppWindows -> [Slots -> Buttons]]
  /\ mouse_left_button \in BOOLEAN
  /\ wm \in {"idle", "click", "release", "store", "load", "bump"}
  /\ at \in AppWindows \X Buttons
  /\ loaded \in 0..MaxEvents - 1
  /\ due \in [AppWindows -> Seq(Buttons)]
  /\ raced \subseteq AppWindows

\* The event queue is first-in first-out (idt.c: "FIFO Kuyruk Motoru"): what
\* polling an open window will return is what was clicked in it since it was
\* made or cleared, less what was polled, in order - as long as no system
\* call has changed the queue while the window manager was appending to it.
EventsInOrder == \A w \in (AppWindows \cap is_open) \ raced : Queue(w) = due[w]

\* With the same exception, an event that waits in an open window names a
\* button the window has: the explorer takes the id as an index into the list
\* of files it made the buttons from (explorer.c).
EventsNameButtons ==
  \A w \in (AppWindows \cap is_open) \ raced :
    \A n \in 1..event_count[w] : Queue(w)[n] < button_count[w]

\* A button of an open window goes down only under the pointer: not because
\* its slot was pressed when an earlier window or interface had it, nor
\* because the window was closed while it was held.
OnlyPointerPresses ==
  [][Pressed' \subseteq Pressed \/ (wm = "idle" /\ wm' = "click")]_vars

\* A drag moves one window, and only until the button is released: programs
\* open and lose windows under it.
OneDragged ==
  /\ \A v, w \in is_dragging : v = w
  /\ wm = "idle" /\ ~any_window_dragging => is_dragging = {}
=============================================================================
