------------------------------- MODULE Screen -------------------------------
(***************************************************************************)
(* The picture on the screen: the renderer of the window manager (wm.c)    *)
(* with its clipping and dirty rectangles, and gui->force_redraw, the word *)
(* through which everybody else asks it for a new picture: 1 for all of    *)
(* it, 2 for the dirty rectangle.                                          *)
(*                                                                         *)
(* The window manager is a user task, built without optimisation: each of  *)
(* its looks at force_redraw reads memory, and every other task and the    *)
(* main loop can run between two of them.  System calls run with           *)
(* interrupts off and are one step.  One window stands for all; what it    *)
(* shows is a value.  The parts that are drawn over the windows at fixed   *)
(* places (taskbar, menu, clock, the lamp of the network) are not part of  *)
(* the picture here, what they do to force_redraw is.                      *)
(***************************************************************************)
EXTENDS Integers

CONSTANTS
  Width, Height,               \* screen_width, screen_height
  CursorSize,                  \* 16
  WindowWidth, WindowHeight,
  TitleHeight, Border,         \* 30 and 2
  TaskbarTop,                  \* 728
  Spots,                       \* where the mouse is polled
  FirstSpot, FirstWindow,      \* where the pointer and the window are at first
  Texts,                       \* what a window may show
  Closed                       \* not open or minimised

Pixels == (0..Width - 1) \X (0..Height - 1)

ASSUME ScreenAssumption ==
  /\ Width \in Nat \ {0} /\ Height \in Nat \ {0}
  /\ CursorSize \in Nat \ {0} /\ WindowWidth \in Nat /\ WindowHeight \in Nat
  /\ TitleHeight \in Nat /\ Border \in Nat /\ TaskbarTop \in Nat
  /\ FirstSpot \in Spots /\ Spots \subseteq Pixels
  /\ FirstWindow \in Int \X Int
  /\ Closed \notin Texts

VARIABLES
  mouse,          \* last_mouse_x, last_mouse_y
  dragging,       \* any_window_dragging and the window's is_dragging
  window,         \* the window's x, y; it may lie partly off the screen
  content,        \* the text it shows, or Closed
  dirty,          \* dirty_min_x .. dirty_max_y
  force_redraw,
  net_activity_timer, \* 0, or 1 for any number of pictures
  back_buffer, framebuffer,
  wm,             \* where the window manager is
  mainLoop,       \* where the main loop is with a change of the content
  calm,           \* history: key, mouse, network and programs rest for good
  unseen          \* history: a wish for all of the picture was wiped unserved

shared == <<content, force_redraw>>
drawing == <<dirty, back_buffer, framebuffer>>
pointing == <<mouse, dragging, window>>
screenVars == <<shared, drawing, pointing, net_activity_timer, wm, mainLoop,
                calm, unseen>>

WindowContents == Texts \cup {Closed}

-----------------------------------------------------------------------------
(* Rectangles, as their first and last columns and rows.                   *)

Rect(x, y, w, h) ==
  [left |-> x, top |-> y, right |-> x + w - 1, bottom |-> y + h - 1]

In(p, r) == r.left <= p[1] /\ p[1] <= r.right /\ r.top <= p[2] /\ p[2] <= r.bottom

Vacant(r) == r.left > r.right \/ r.top > r.bottom

WholeScreen == Rect(0, 0, Width, Height)
NothingDirty == [left |-> Width, top |-> Height, right |-> 0, bottom |-> 0]

AtLeast(low, v) == IF v < low THEN low ELSE v
AtMost(high, v) == IF v > high THEN high ELSE v

\* set_clipping_rect; draw_wallpaper and swap_buffers cut the dirty rectangle
\* the same way.
OnScreen(r) ==
  [left  |-> AtLeast(0, r.left),         top    |-> AtLeast(0, r.top),
   right |-> AtMost(Width - 1, r.right), bottom |-> AtMost(Height - 1, r.bottom)]

\* add_dirty_rect
AddDirty(d, r) ==
  [left   |-> IF r.left < d.left THEN AtLeast(0, r.left) ELSE d.left,
   top    |-> IF r.top < d.top THEN AtLeast(0, r.top) ELSE d.top,
   right  |-> IF r.right > d.right THEN AtMost(Width - 1, r.right) ELSE d.right,
   bottom |-> IF r.bottom > d.bottom THEN AtMost(Height - 1, r.bottom) ELSE d.bottom]

Meet(r, s) ==
  [left  |-> AtLeast(r.left, s.left),  top    |-> AtLeast(r.top, s.top),
   right |-> AtMost(r.right, s.right), bottom |-> AtMost(r.bottom, s.bottom)]

\* The pixels that draw_rect sets and that put_pixel lets pass.
Drawn(r, clip, d) == Meet(Meet(r, clip), d)

Cursor(at) == Rect(at[1], at[2], CursorSize, CursorSize)
Frame(at) == Rect(at[1], at[2], WindowWidth, WindowHeight)
Inside(at) == Rect(at[1] + Border, at[2] + TitleHeight + Border,
                   WindowWidth - 2 * Border, WindowHeight - TitleHeight - 2 * Border)

\* The title bar as a click finds it, one column and one row too large.
Title(at) == Rect(at[1], at[2], WindowWidth + 1, TitleHeight + 1)

\* What there is to see under the pointer.
Under(p) ==
  IF content # Closed /\ In(p, Inside(window)) THEN content
  ELSE IF content # Closed /\ In(p, Frame(window)) THEN "frame"
  ELSE "desktop"

\* What should be seen.
Scene == [p \in Pixels |-> IF In(p, Cursor(mouse)) THEN "cursor" ELSE Under(p)]

ScreenInit ==
  /\ mouse = FirstSpot /\ dragging = FALSE /\ window = FirstWindow
  /\ content \in Texts
  /\ dirty = WholeScreen /\ force_redraw = 1
  /\ net_activity_timer = 0
  /\ back_buffer = [p \in Pixels |-> "desktop"]
  /\ framebuffer = [p \in Pixels |-> "desktop"]
  /\ wm = "poll" /\ mainLoop = "idle"
  /\ calm = FALSE /\ unseen = FALSE

-----------------------------------------------------------------------------
(* process_mouse_events of the window manager.  One step up to the test of *)
(* force_redraw at its end: nothing before depends on it.                  *)

Polling == wm = "poll" /\ UNCHANGED <<back_buffer, framebuffer, net_activity_timer,
                                      mainLoop, calm, unseen>>

\* A pass may change what the window shows (a button that goes down or up, a
\* selection, focus, minimise, close); it then asks for a new picture.
MayChange ==
  \/ content' \in WindowContents /\ force_redraw' = 1
  \/ UNCHANGED shared

\* Neither moved nor pressed; a button let go where it was pressed is not seen.
NoMouseEvent ==
  /\ Polling
  /\ wm' = "look"
  /\ UNCHANGED <<shared, dirty, pointing>>

\* A click while the menu is open, or on the taskbar: it returns early, with
\* the place the pointer leaves marked dirty and the one it goes to not.
MenuClick(at) ==
  /\ Polling /\ ~calm /\ ~dragging
  /\ dirty' = AddDirty(dirty, Cursor(mouse))
  /\ mouse' = at
  /\ content' \in WindowContents /\ force_redraw' = 1
  /\ wm' = "look"
  /\ UNCHANGED <<dragging, window>>

TaskbarClick(at) ==
  /\ Polling /\ ~calm /\ ~dragging
  /\ at[2] >= TaskbarTop
  /\ dirty' = AddDirty(dirty, Cursor(mouse))
  /\ mouse' = at
  /\ MayChange
  /\ wm' = "look"
  /\ UNCHANGED <<dragging, window>>

\* The pointer leaves one place for another.
PointerDirty(d, at) == AddDirty(AddDirty(d, Cursor(mouse)), Cursor(at))

\* Mutant: the place the window leaves is not drawn again.
WindowDirtyThere(d, to) == AddDirty(d, Frame(to))

\* Both places of a window that is dragged.
WindowDirty(d, to) == AddDirty(AddDirty(d, Frame(window)), Frame(to))

\* A click beside them: it may change what is shown, close the window, or
\* take it by its title.
PressWindow(at) ==
  /\ Polling /\ ~calm /\ ~dragging
  /\ at[2] < TaskbarTop
  /\ mouse' = at
  /\ MayChange
  /\ dirty' = PointerDirty(dirty, at)
  /\ wm' = "ask"
  /\ UNCHANGED <<dragging, window>>

Moved(at) == <<window[1] + at[1] - mouse[1], window[2] + at[2] - mouse[2]>>

\* The window follows the pointer, from the pass on in which it is taken; that
\* one may have moved the focus or the selection.
DragWindow(at) ==
  /\ Polling /\ ~calm
  /\ \/ dragging /\ UNCHANGED shared
     \/ /\ ~dragging /\ content # Closed /\ at[2] < TaskbarTop /\ In(at, Title(window))
        /\ MayChange /\ content' # Closed
  /\ dragging' = TRUE
  /\ mouse' = at
  /\ window' = Moved(at)
  /\ dirty' = PointerDirty(WindowDirty(dirty, Moved(at)), at)
  /\ wm' = "ask"

\* The pointer moves with the button up: a drag ends, a button goes up.
MovePointer(at) ==
  /\ Polling /\ ~calm /\ at # mouse
  /\ dragging' = FALSE
  /\ mouse' = at
  /\ MayChange
  /\ dirty' = PointerDirty(dirty, at)
  /\ wm' = "ask"
  /\ UNCHANGED window

\* if (force_redraw == 0) ...
AskForDirty ==
  /\ wm = "ask"
  /\ wm' = IF force_redraw = 0 THEN "mark" ELSE "look"
  /\ UNCHANGED <<shared, drawing, pointing, net_activity_timer, mainLoop, calm, unseen>>

\* ... force_redraw = 2, whoever has written to it since.
MarkDirty ==
  /\ wm = "mark"
  /\ force_redraw' = 2
  /\ unseen' = (unseen \/ force_redraw = 1)
  /\ wm' = "look"
  /\ UNCHANGED <<content, drawing, pointing, net_activity_timer, mainLoop, calm>>

-----------------------------------------------------------------------------
(* render_gui                                                              *)

Look ==
  /\ wm = "look"
  /\ wm' = IF force_redraw = 0 THEN "poll" ELSE "widen"
  /\ UNCHANGED <<shared, drawing, pointing, net_activity_timer, mainLoop, calm, unseen>>

\* mark_screen_dirty for a 1
Widen ==
  /\ wm = "widen"
  /\ dirty' = IF force_redraw = 1 THEN WholeScreen ELSE dirty
  /\ wm' = "clear"
  /\ UNCHANGED <<shared, back_buffer, framebuffer, pointing, net_activity_timer,
                 mainLoop, calm, unseen>>

\* A 1 that arrived since is wiped; a picture of all the screen makes good
\* every one before it.
ClearRedraw ==
  /\ wm = "clear"
  /\ force_redraw' = 0
  /\ unseen' = (dirty # WholeScreen /\ (unseen \/ force_redraw = 1))
  /\ wm' = "draw"
  /\ UNCHANGED <<content, drawing, pointing, net_activity_timer, mainLoop, calm>>

\* Wallpaper, the window under the whole screen as clipping rectangle, what
\* is in it under its own.  The lamp of the taskbar asks for the next picture.
DrawScene ==
  /\ wm = "draw"
  /\ back_buffer' =
       [p \in Pixels |->
          IF content # Closed
             /\ In(p, Drawn(Inside(window), OnScreen(Inside(window)), dirty))
          THEN content
          ELSE IF content # Closed /\ In(p, Drawn(Frame(window), WholeScreen, dirty))
          THEN "frame"
          ELSE IF In(p, OnScreen(dirty)) THEN "desktop"
          ELSE back_buffer[p]]
  /\ net_activity_timer' = 0
  /\ force_redraw' = IF net_activity_timer > 0 THEN 1 ELSE force_redraw
  /\ wm' = "swap"
  /\ UNCHANGED <<content, dirty, framebuffer, pointing, mainLoop, calm, unseen>>

\* draw_cursor and swap_buffers; an empty rectangle is left as it is.
DrawCursorAndSwap ==
  /\ wm = "swap"
  /\ back_buffer' =
       [p \in Pixels |-> IF In(p, Drawn(Cursor(mouse), WholeScreen, dirty))
                         THEN "cursor" ELSE back_buffer[p]]
  /\ framebuffer' =
       [p \in Pixels |-> IF In(p, OnScreen(dirty))
                         THEN back_buffer'[p] ELSE framebuffer[p]]
  /\ dirty' = IF Vacant(OnScreen(dirty)) THEN dirty ELSE NothingDirty
  /\ wm' = "poll"
  /\ UNCHANGED <<shared, pointing, net_activity_timer, mainLoop, calm, unseen>>

-----------------------------------------------------------------------------
(* Everybody else *)

\* A system call that changes what a window shows, opens or closes one.
SysChange ==
  /\ ~calm
  /\ content' \in WindowContents /\ force_redraw' = 1
  /\ UNCHANGED <<drawing, pointing, net_activity_timer, wm, mainLoop, calm, unseen>>

\* A frame arrives: the lamp is to be lit, nobody is asked for a picture.
NetFrame ==
  /\ ~calm
  /\ net_activity_timer' = 1
  /\ UNCHANGED <<shared, drawing, pointing, wm, mainLoop, calm, unseen>>

\* The reaper closes a window, and terminal_print in the main loop prints,
\* before they ask.
MainChange ==
  /\ mainLoop = "idle" /\ ~calm
  /\ content' \in WindowContents
  /\ mainLoop' = "ask"
  /\ UNCHANGED <<force_redraw, drawing, pointing, net_activity_timer, wm, calm, unseen>>

MainAsk ==
  /\ mainLoop = "ask"
  /\ force_redraw' = 1
  /\ mainLoop' = "idle"
  /\ UNCHANGED <<content, drawing, pointing, net_activity_timer, wm, calm, unseen>>

\* process_keyboard_events asks first ...
KeyAsk ==
  /\ mainLoop = "idle" /\ ~calm
  /\ force_redraw' = 1
  /\ mainLoop' = "edit"
  /\ UNCHANGED <<content, drawing, pointing, net_activity_timer, wm, calm, unseen>>

\* All of the picture is still to be drawn.
AllPending ==
  \/ force_redraw = 1
  \/ wm \in {"clear", "draw"} /\ dirty = WholeScreen

\* ... and edits the line then, which the picture asked for may have missed.
KeyEdit ==
  /\ mainLoop = "edit"
  /\ content' \in WindowContents
  /\ unseen' = (unseen \/ ~AllPending)
  /\ mainLoop' = "idle"
  /\ UNCHANGED <<force_redraw, drawing, pointing, net_activity_timer, wm, calm>>

\* Mutant: the monitor's values are renewed without a picture.
NothingAsked == force_redraw

WishOfSecond == 1

\* Once a second the main loop renews the values of the monitor.
Second ==
  /\ mainLoop = "idle"
  /\ force_redraw' = WishOfSecond
  /\ UNCHANGED <<content, drawing, pointing, net_activity_timer, wm, mainLoop, calm,
                 unseen>>

\* Nobody touches anything any more.  It is noted between two passes of the
\* window manager and of the main loop: a pass that is under way when the last
\* one acts goes on to its end first.
Rest ==
  /\ ~calm /\ wm = "poll" /\ mainLoop = "idle"
  /\ calm' = TRUE
  /\ UNCHANGED <<shared, drawing, pointing, net_activity_timer, wm, mainLoop, unseen>>

-----------------------------------------------------------------------------
MouseEvents ==
  \/ NoMouseEvent
  \/ \E at \in Spots :
       MenuClick(at) \/ TaskbarClick(at) \/ PressWindow(at) \/ DragWindow(at)
       \/ MovePointer(at)

RenderGui ==
  AskForDirty \/ MarkDirty \/ Look \/ Widen \/ ClearRedraw \/ DrawScene \/ DrawCursorAndSwap

WindowManager == MouseEvents \/ RenderGui

MainLoop == MainChange \/ MainAsk \/ KeyAsk \/ KeyEdit \/ Second

ScreenNext == WindowManager \/ MainLoop \/ SysChange \/ NetFrame \/ Rest

ScreenSpec == ScreenInit /\ [][ScreenNext]_screenVars

\* The window manager is scheduled again and again (KernelScheduled of Tasks
\* shows the same of the main loop), and the timer ticks: asked for only while
\* everybody rests, which is all that Settles needs.
ScreenFairness ==
  /\ WF_screenVars(calm /\ WindowManager)
  /\ WF_screenVars(calm /\ Second)

-----------------------------------------------------------------------------
(* Properties *)

ScreenTypeOK ==
  /\ mouse \in Pixels /\ dragging \in BOOLEAN /\ window \in Int \X Int
  /\ content \in WindowContents
  /\ dirty \in [left : Int, top : Int, right : Int, bottom : Int]
  /\ force_redraw \in 0..2 /\ net_activity_timer \in 0..1
  /\ back_buffer \in [Pixels -> Texts \cup {"desktop", "frame", "cursor"}]
  /\ framebuffer \in [Pixels -> Texts \cup {"desktop", "frame", "cursor"}]
  /\ wm \in {"poll", "ask", "mark", "look", "widen", "clear", "draw", "swap"}
  /\ mainLoop \in {"idle", "ask", "edit"}
  /\ calm \in BOOLEAN /\ unseen \in BOOLEAN

\* When nothing is asked for, marked dirty, under way or wiped, the screen
\* shows what the window manager would draw from scratch: the dirty rectangle
\* always held all that had changed.
FrameShowsScene ==
  (wm = "poll" /\ force_redraw = 0 /\ dirty = NothingDirty /\ mainLoop = "idle" /\ ~unseen)
    => framebuffer = Scene

\* Whatever was wiped unserved, or left dirty by an early return: when nobody
\* touches anything any more, the screen comes to show the scene for good.
Settles == <>[](calm => framebuffer = Scene)
=============================================================================
