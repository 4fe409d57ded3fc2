--------------------------- MODULE InterfaceProofs ---------------------------
(***************************************************************************)
(* Theorems about what the user sees and types, for every size of the      *)
(* screen, the terminal and the line: Screen, Terminal and Console.  They  *)
(* share no variable, and a theorem is about one of them.                  *)
(*                                                                         *)
(* Screen.  FrameShowsScene is not inductive.  What is: outside the dirty  *)
(* rectangle and the pointer the screen shows what is under the pointer,   *)
(* unless all of the picture is still to be drawn, was wiped, or is about  *)
(* to be asked for; the back buffer is right in the dirty rectangle when   *)
(* it is copied; and whenever a picture of the dirty rectangle alone is    *)
(* drawn, the pointer is in it.                                            *)
(*                                                                         *)
(* Terminal.  What is inductive says where each line printed last stands   *)
(* while the scroll is half done, with the slot and the loop variable that *)
(* the interrupted printer holds.                                          *)
(*                                                                         *)
(* Console.  What is inductive says which beginning of pending_command is  *)
(* written while EnterLine copies it, and when that copy has no reader.    *)
(***************************************************************************)
EXTENDS Screen, Terminal, Console, SequenceTheorems, WellFoundedInduction, TLAPS

-----------------------------------------------------------------------------
(* Screen.                                                                 *)

\* The dirty rectangle is cut at the edges of the screen.
DirtyInv ==
  /\ 0 <= dirty.left /\ dirty.right <= Width - 1
  /\ 0 <= dirty.top /\ dirty.bottom <= Height - 1

PointerDirtied == \A p \in Pixels : In(p, Cursor(mouse)) => In(p, dirty)

\* Where force_redraw and the window manager can be together.
PhaseInv ==
  /\ force_redraw = 2 => wm \in {"look", "widen", "clear"} /\ PointerDirtied
  /\ wm = "widen" => force_redraw # 0
  /\ wm \in {"ask", "mark", "clear", "draw", "swap"} => PointerDirtied

\* Somebody will see to all of the picture, or has lost the wish for it.
Excused == AllPending \/ mainLoop = "ask" \/ unseen

\* What is wrong on the screen is dirty.
ScreenRight(p) ==
  \/ Excused
  \/ In(p, dirty)
  \/ IF In(p, Cursor(mouse))
     THEN framebuffer[p] = "cursor" \/ dirty # NothingDirty
     ELSE framebuffer[p] = Under(p)

\* What is about to be copied is right.
BufferRight(p) ==
  (wm = "swap" /\ In(p, dirty)) => (Excused \/ back_buffer[p] = Under(p))

ScreenInv ==
  /\ ScreenTypeOK
  /\ DirtyInv
  /\ PhaseInv
  /\ \A p \in Pixels : ScreenRight(p) /\ BufferRight(p)

-----------------------------------------------------------------------------
(* Rectangles *)

Rectangles == [left : Int, top : Int, right : Int, bottom : Int]

LEMMA RectTypes ==
  /\ \A x \in Int, y \in Int, w \in Int, h \in Int : Rect(x, y, w, h) \in Rectangles
  /\ \A at \in Int \X Int : /\ Cursor(at) \in Rectangles
                            /\ Frame(at) \in Rectangles
                            /\ Inside(at) \in Rectangles
  /\ WholeScreen \in Rectangles /\ NothingDirty \in Rectangles
  /\ Pixels \subseteq Int \X Int
BY ScreenAssumption, SMT
   DEF Rectangles, Rect, Cursor, Frame, Inside, WholeScreen, NothingDirty, Pixels

LEMMA Bounds ==
  ASSUME NEW a \in Int, NEW b \in Int, NEW x \in Int
  PROVE  /\ AtLeast(a, b) \in Int /\ AtMost(a, b) \in Int
         /\ AtLeast(a, b) <= x <=> a <= x /\ b <= x
         /\ x <= AtMost(a, b) <=> x <= a /\ x <= b
BY DEF AtLeast, AtMost

\* Every pixel lies in the whole screen, and none in an empty rectangle.
LEMMA WholeAndNothing ==
  ASSUME NEW p \in Pixels
  PROVE  In(p, WholeScreen) /\ ~In(p, NothingDirty) /\ p[1] \in Int /\ p[2] \in Int
BY ScreenAssumption, SMT DEF In, WholeScreen, NothingDirty, Rect, Pixels

\* What add_dirty_rect leaves: a rectangle of the screen with all that was
\* dirty and all that is to be.
LEMMA AddDirtyCovers ==
  ASSUME NEW d \in Rectangles, NEW r \in Rectangles,
         0 <= d.left, 0 <= d.top, d.right <= Width - 1, d.bottom <= Height - 1
  PROVE  LET e == AddDirty(d, r)
         IN  /\ e \in Rectangles
             /\ 0 <= e.left /\ 0 <= e.top /\ e.right <= Width - 1 /\ e.bottom <= Height - 1
             /\ \A p \in Pixels : In(p, d) \/ In(p, r) => In(p, e)
<1> DEFINE e == AddDirty(d, r)
<1>1. /\ e.left = IF r.left < d.left THEN AtLeast(0, r.left) ELSE d.left
      /\ e.top = IF r.top < d.top THEN AtLeast(0, r.top) ELSE d.top
      /\ e.right = IF r.right > d.right THEN AtMost(Width - 1, r.right) ELSE d.right
      /\ e.bottom = IF r.bottom > d.bottom THEN AtMost(Height - 1, r.bottom) ELSE d.bottom
  BY DEF AddDirty
<1>2. /\ d.left \in Int /\ d.top \in Int /\ d.right \in Int /\ d.bottom \in Int
      /\ r.left \in Int /\ r.top \in Int /\ r.right \in Int /\ r.bottom \in Int
      /\ Width \in Nat \ {0} /\ Height \in Nat \ {0}
  BY ScreenAssumption DEF Rectangles
<1>3. e.left \in Int /\ e.top \in Int /\ e.right \in Int /\ e.bottom \in Int
  BY <1>1, <1>2 DEF AtLeast, AtMost
<1>4. e \in Rectangles
  BY <1>3 DEF Rectangles, AddDirty
<1>5. 0 <= e.left /\ 0 <= e.top /\ e.right <= Width - 1 /\ e.bottom <= Height - 1
  BY <1>1, <1>2 DEF AtLeast, AtMost
<1>6. ASSUME NEW p \in Pixels, In(p, d) \/ In(p, r)
      PROVE  In(p, e)
  <2>1. p[1] \in 0..Width - 1 /\ p[2] \in 0..Height - 1
    BY DEF Pixels
  <2> QED
    BY <1>1, <1>2, <1>6, <2>1, SMT DEF In, AtLeast, AtMost
<1>7. \A p \in Pixels : In(p, d) \/ In(p, r) => In(p, e)
  BY <1>6
<1> QED
  BY <1>4, <1>5, <1>7, Zenon

\* A dirty rectangle of the screen is cut to itself.
LEMMA DirtyOnScreenIsDirty ==
  ASSUME NEW d \in Rectangles, NEW p \in Pixels,
         0 <= d.left, 0 <= d.top, d.right <= Width - 1, d.bottom <= Height - 1
  PROVE  /\ In(p, OnScreen(d)) <=> In(p, d)
         /\ Vacant(OnScreen(d)) => ~In(p, d)
BY ScreenAssumption, SMT DEF In, OnScreen, AtLeast, AtMost, Vacant, Rectangles, Pixels

\* draw_rect sets the dirty part of what it is asked to draw.
LEMMA DrawnUnclipped ==
  ASSUME NEW d \in Rectangles, NEW r \in Rectangles, NEW p \in Pixels
  PROVE  /\ In(p, Drawn(r, WholeScreen, d)) <=> In(p, r) /\ In(p, d)
         /\ In(p, Drawn(r, OnScreen(r), d)) <=> In(p, r) /\ In(p, d)
<1>1. /\ d.left \in Int /\ d.top \in Int /\ d.right \in Int /\ d.bottom \in Int
      /\ r.left \in Int /\ r.top \in Int /\ r.right \in Int /\ r.bottom \in Int
      /\ Width \in Nat \ {0} /\ Height \in Nat \ {0}
      /\ p[1] \in 0..Width - 1 /\ p[2] \in 0..Height - 1
  BY ScreenAssumption DEF Rectangles, Pixels
<1>2. ASSUME NEW s \in Rectangles, NEW t \in Rectangles
      PROVE  Meet(s, t) \in Rectangles /\ (In(p, Meet(s, t)) <=> In(p, s) /\ In(p, t))
  <2>1. /\ s.left \in Int /\ s.top \in Int /\ s.right \in Int /\ s.bottom \in Int
        /\ t.left \in Int /\ t.top \in Int /\ t.right \in Int /\ t.bottom \in Int
    BY DEF Rectangles
  <2>2. /\ AtLeast(s.left, t.left) <= p[1] <=> s.left <= p[1] /\ t.left <= p[1]
        /\ AtLeast(s.top, t.top) <= p[2] <=> s.top <= p[2] /\ t.top <= p[2]
        /\ p[1] <= AtMost(s.right, t.right) <=> p[1] <= s.right /\ p[1] <= t.right
        /\ p[2] <= AtMost(s.bottom, t.bottom) <=> p[2] <= s.bottom /\ p[2] <= t.bottom
    <3>1. p[1] \in Int /\ p[2] \in Int
      BY <1>1
    <3> QED
      BY <2>1, <3>1, SMT DEF AtLeast, AtMost
  <2>3. Meet(s, t) \in Rectangles
    BY <2>1, Bounds DEF Meet, Rectangles
  <2>4. /\ Meet(s, t).left = AtLeast(s.left, t.left)
        /\ Meet(s, t).top = AtLeast(s.top, t.top)
        /\ Meet(s, t).right = AtMost(s.right, t.right)
        /\ Meet(s, t).bottom = AtMost(s.bottom, t.bottom)
    BY DEF Meet
  <2>5. In(p, Meet(s, t)) <=> In(p, s) /\ In(p, t)
    BY <2>2, <2>4, Zenon DEF In
  <2> QED
    BY <2>3, <2>5
<1>3. OnScreen(r) \in Rectangles /\ (In(p, OnScreen(r)) <=> In(p, r))
  BY <1>1, SMT DEF OnScreen, Rectangles, In, AtLeast, AtMost
<1>4. WholeScreen \in Rectangles /\ In(p, WholeScreen)
  BY RectTypes, WholeAndNothing
<1>5. In(p, Drawn(r, WholeScreen, d)) <=> In(p, r) /\ In(p, d)
  BY <1>2, <1>4 DEF Drawn
<1>6. In(p, Drawn(r, OnScreen(r), d)) <=> In(p, r) /\ In(p, d)
  BY <1>2, <1>3 DEF Drawn
<1> QED
  BY <1>5, <1>6

\* The inside of a window is in its frame.
LEMMA InsideInFrame ==
  ASSUME NEW at \in Int \X Int, NEW p \in Pixels, In(p, Inside(at))
  PROVE  In(p, Frame(at))
BY ScreenAssumption, SMT DEF In, Inside, Frame, Rect, Pixels

-----------------------------------------------------------------------------
(* Types, and the dirty rectangle                                          *)

LEMMA SpotsArePixels ==
  /\ Spots \subseteq Pixels /\ FirstSpot \in Pixels /\ Pixels \subseteq Int \X Int
  /\ \A at \in Pixels : at[1] \in Int /\ at[2] \in Int /\ In(at, Cursor(at))
BY ScreenAssumption, SMT DEF Pixels, In, Cursor, Rect

\* What the engine marks dirty when the pointer moves: the old dirty rectangle
\* and both places.
LEMMA PointerDirtyCovers ==
  ASSUME NEW d \in Rectangles, NEW at \in Pixels, mouse \in Pixels,
         0 <= d.left, 0 <= d.top, d.right <= Width - 1, d.bottom <= Height - 1
  PROVE  /\ PointerDirty(d, at) \in Rectangles
         /\ 0 <= PointerDirty(d, at).left /\ 0 <= PointerDirty(d, at).top
         /\ PointerDirty(d, at).right <= Width - 1
         /\ PointerDirty(d, at).bottom <= Height - 1
         /\ \A p \in Pixels : In(p, d) \/ In(p, Cursor(mouse)) \/ In(p, Cursor(at))
                                => In(p, PointerDirty(d, at))
<1>1. Cursor(mouse) \in Rectangles /\ Cursor(at) \in Rectangles
  BY RectTypes
<1> DEFINE e == AddDirty(d, Cursor(mouse))
<1>2. /\ e \in Rectangles
      /\ 0 <= e.left /\ 0 <= e.top /\ e.right <= Width - 1 /\ e.bottom <= Height - 1
      /\ \A p \in Pixels : In(p, d) \/ In(p, Cursor(mouse)) => In(p, e)
  BY <1>1, AddDirtyCovers
<1> HIDE DEF e
<1> DEFINE f == AddDirty(e, Cursor(at))
<1>3. /\ f \in Rectangles
      /\ 0 <= f.left /\ 0 <= f.top /\ f.right <= Width - 1 /\ f.bottom <= Height - 1
      /\ \A p \in Pixels : In(p, e) \/ In(p, Cursor(at)) => In(p, f)
  BY <1>1, <1>2, AddDirtyCovers
<1>4. f = PointerDirty(d, at)
  BY DEF PointerDirty, e, f
<1> HIDE DEF f
<1> QED
  BY <1>2, <1>3, <1>4, Zenon

LEMMA WindowDirtyCovers ==
  ASSUME NEW d \in Rectangles, NEW to \in Int \X Int, window \in Int \X Int,
         0 <= d.left, 0 <= d.top, d.right <= Width - 1, d.bottom <= Height - 1
  PROVE  /\ WindowDirty(d, to) \in Rectangles
         /\ 0 <= WindowDirty(d, to).left /\ 0 <= WindowDirty(d, to).top
         /\ WindowDirty(d, to).right <= Width - 1
         /\ WindowDirty(d, to).bottom <= Height - 1
         /\ \A p \in Pixels : In(p, d) \/ In(p, Frame(window)) \/ In(p, Frame(to))
                                => In(p, WindowDirty(d, to))
<1>1. Frame(window) \in Rectangles /\ Frame(to) \in Rectangles
  BY RectTypes
<1> DEFINE e == AddDirty(d, Frame(window))
<1>2. /\ e \in Rectangles
      /\ 0 <= e.left /\ 0 <= e.top /\ e.right <= Width - 1 /\ e.bottom <= Height - 1
      /\ \A p \in Pixels : In(p, d) \/ In(p, Frame(window)) => In(p, e)
  BY <1>1, AddDirtyCovers
<1> HIDE DEF e
<1> DEFINE f == AddDirty(e, Frame(to))
<1>3. /\ f \in Rectangles
      /\ 0 <= f.left /\ 0 <= f.top /\ f.right <= Width - 1 /\ f.bottom <= Height - 1
      /\ \A p \in Pixels : In(p, e) \/ In(p, Frame(to)) => In(p, f)
  BY <1>1, <1>2, AddDirtyCovers
<1>4. f = WindowDirty(d, to)
  BY DEF WindowDirty, e, f
<1> HIDE DEF f
<1> QED
  BY <1>2, <1>3, <1>4, Zenon

LEMMA MovedType ==
  ASSUME NEW at \in Pixels, mouse \in Pixels, window \in Int \X Int
  PROVE  Moved(at) \in Int \X Int
BY SpotsArePixels DEF Moved

\* The dirty rectangle after each step that changes it.
LEMMA DirtyBounds ==
  WholeScreen.left = 0 /\ WholeScreen.top = 0 /\ WholeScreen.right = Width - 1
  /\ WholeScreen.bottom = Height - 1
  /\ 0 <= NothingDirty.left /\ 0 <= NothingDirty.top
  /\ NothingDirty.right <= Width - 1 /\ NothingDirty.bottom <= Height - 1
BY ScreenAssumption, SMT DEF WholeScreen, NothingDirty, Rect

Colours == Texts \cup {"desktop", "frame", "cursor"}

LEMMA TypeInit == ScreenInit => ScreenTypeOK /\ DirtyInv
<1> SUFFICES ASSUME ScreenInit PROVE ScreenTypeOK /\ DirtyInv
  OBVIOUS
<1>1. dirty \in Rectangles /\ DirtyInv
  BY RectTypes, DirtyBounds, ScreenAssumption, SMT DEF ScreenInit, DirtyInv
<1>2. mouse \in Pixels /\ window \in Int \X Int
  BY SpotsArePixels, ScreenAssumption DEF ScreenInit
<1>3. /\ back_buffer \in [Pixels -> Colours] /\ framebuffer \in [Pixels -> Colours]
  BY DEF ScreenInit, Colours
<1>4. /\ content \in WindowContents /\ force_redraw \in 0..2 /\ net_activity_timer \in 0..1
      /\ wm = "poll" /\ mainLoop = "idle"
  BY DEF ScreenInit, WindowContents
<1>5. dragging \in BOOLEAN /\ calm \in BOOLEAN /\ unseen \in BOOLEAN
  BY DEF ScreenInit
<1> QED
  BY <1>1, <1>2, <1>3, <1>4, <1>5, Zenon DEF ScreenTypeOK, Rectangles, Colours

LEMMA TypeStep ==
  ASSUME ScreenTypeOK, DirtyInv, [ScreenNext]_screenVars
  PROVE  ScreenTypeOK' /\ DirtyInv'
<1> USE DEF shared, drawing, pointing
<1>1. dirty \in Rectangles /\ mouse \in Pixels /\ window \in Int \X Int
  BY DEF ScreenTypeOK, Rectangles
<1>2. /\ 0 <= dirty.left /\ dirty.right <= Width - 1
      /\ 0 <= dirty.top /\ dirty.bottom <= Height - 1
  BY DEF DirtyInv
<1>3. ASSUME dirty' \in Rectangles, DirtyInv', UNCHANGED <<back_buffer, framebuffer>>,
             mouse' \in Pixels, window' \in Int \X Int, content' \in WindowContents,
             force_redraw' \in 0..2, net_activity_timer' \in 0..1,
             wm' \in {"poll", "ask", "mark", "look", "widen", "clear", "draw", "swap"},
             mainLoop' \in {"idle", "ask", "edit"},
             dragging' \in BOOLEAN, calm' \in BOOLEAN, unseen' \in BOOLEAN
      PROVE  ScreenTypeOK' /\ DirtyInv'
  BY <1>3 DEF ScreenTypeOK, Rectangles
<1>4. ASSUME UNCHANGED dirty
      PROVE  dirty' \in Rectangles /\ DirtyInv'
  BY <1>1, <1>4 DEF DirtyInv
<1>5. CASE UNCHANGED screenVars
  <2>1. /\ UNCHANGED <<back_buffer, framebuffer, mouse, dragging, window, content, dirty>>
        /\ UNCHANGED <<force_redraw, net_activity_timer, wm, mainLoop, calm, unseen>>
    BY <1>5 DEF screenVars
  <2>2. ScreenTypeOK'
    BY <2>1, Zenon DEF ScreenTypeOK
  <2> QED
    BY <1>4, <2>1, <2>2
<1>6. CASE NoMouseEvent
  BY <1>1, <1>3, <1>4, <1>6 DEF NoMouseEvent, Polling, ScreenTypeOK
<1>7. ASSUME NEW at \in Spots,
             MenuClick(at) \/ TaskbarClick(at)
      PROVE  ScreenTypeOK' /\ DirtyInv'
  <2>1. at \in Pixels /\ Cursor(mouse) \in Rectangles
    BY <1>1, RectTypes, SpotsArePixels
  <2>2. dirty' = AddDirty(dirty, Cursor(mouse)) /\ mouse' = at
    BY <1>7 DEF MenuClick, TaskbarClick
  <2>3. dirty' \in Rectangles /\ DirtyInv'
    BY <1>1, <1>2, <2>1, <2>2, AddDirtyCovers DEF DirtyInv
  <2> QED
    BY <1>3, <1>7, <2>1, <2>2, <2>3
    DEF MenuClick, TaskbarClick, Polling, MayChange, ScreenTypeOK
<1>8. ASSUME NEW at \in Spots,
             PressWindow(at) \/ MovePointer(at)
      PROVE  ScreenTypeOK' /\ DirtyInv'
  <2>1. at \in Pixels
    BY SpotsArePixels
  <2>2. dirty' = PointerDirty(dirty, at) /\ mouse' = at
    BY <1>8 DEF PressWindow, MovePointer
  <2>3. dirty' \in Rectangles /\ DirtyInv'
    BY <1>1, <1>2, <2>1, <2>2, PointerDirtyCovers DEF DirtyInv
  <2> QED
    <3>1. content' \in WindowContents /\ force_redraw' \in 0..2
      BY <1>8 DEF PressWindow, MovePointer, MayChange, ScreenTypeOK
    <3>2. dragging' \in BOOLEAN /\ window' = window /\ wm' = "ask"
      BY <1>8 DEF PressWindow, MovePointer, ScreenTypeOK
    <3>3. UNCHANGED <<back_buffer, framebuffer, net_activity_timer, mainLoop, calm, unseen>>
      BY <1>8 DEF PressWindow, MovePointer, Polling
    <3>4. /\ net_activity_timer' \in 0..1 /\ mainLoop' \in {"idle", "ask", "edit"}
          /\ calm' \in BOOLEAN /\ unseen' \in BOOLEAN
      BY <3>3 DEF ScreenTypeOK
    <3> QED
      BY <1>1, <1>3, <2>1, <2>2, <2>3, <3>1, <3>2, <3>3, <3>4
<1>9. ASSUME NEW at \in Spots, DragWindow(at)
      PROVE  ScreenTypeOK' /\ DirtyInv'
  <2>1. at \in Pixels /\ Moved(at) \in Int \X Int
    BY <1>1, SpotsArePixels, MovedType
  <2>2. /\ dirty' = PointerDirty(WindowDirty(dirty, Moved(at)), at)
        /\ mouse' = at /\ window' = Moved(at)
    BY <1>9 DEF DragWindow
  <2> DEFINE d == WindowDirty(dirty, Moved(at))
  <2>3. /\ d \in Rectangles
        /\ 0 <= d.left /\ 0 <= d.top /\ d.right <= Width - 1 /\ d.bottom <= Height - 1
    BY <1>1, <1>2, <2>1, WindowDirtyCovers
  <2> HIDE DEF d
  <2>4. dirty' = PointerDirty(d, at)
    BY <2>2 DEF d
  <2>5. dirty' \in Rectangles /\ DirtyInv'
    BY <1>1, <2>1, <2>3, <2>4, PointerDirtyCovers DEF DirtyInv
  <2>6. content' \in WindowContents /\ force_redraw' \in 0..2
    BY <1>9 DEF DragWindow, MayChange, ScreenTypeOK
  <2> QED
    BY <1>3, <1>9, <2>1, <2>2, <2>5, <2>6 DEF DragWindow, Polling, ScreenTypeOK
<1>10. CASE AskForDirty \/ Look
  BY <1>1, <1>3, <1>4, <1>10 DEF AskForDirty, Look, ScreenTypeOK
<1>11. CASE MarkDirty
  BY <1>1, <1>3, <1>4, <1>11 DEF MarkDirty, ScreenTypeOK
<1>12. CASE Widen
  <2>1. dirty' \in Rectangles /\ DirtyInv'
    BY <1>1, <1>2, <1>12, RectTypes, DirtyBounds, ScreenAssumption, SMT DEF Widen, DirtyInv
  <2> QED
    BY <1>1, <1>3, <1>12, <2>1 DEF Widen, ScreenTypeOK
<1>13. CASE ClearRedraw
  BY <1>1, <1>3, <1>4, <1>13 DEF ClearRedraw, ScreenTypeOK
<1>14. CASE DrawScene
  <2>1. back_buffer' \in [Pixels -> Colours]
    BY <1>14 DEF DrawScene, ScreenTypeOK, WindowContents, Colours
  <2>2. force_redraw' \in 0..2 /\ net_activity_timer' \in 0..1
    BY <1>14 DEF DrawScene, ScreenTypeOK
  <2>3. DirtyInv'
    BY <1>4, <1>14 DEF DrawScene
  <2> QED
    BY <1>14, <2>1, <2>2, <2>3 DEF DrawScene, ScreenTypeOK, Colours
<1>15. CASE DrawCursorAndSwap
  <2>1. back_buffer' \in [Pixels -> Colours]
    BY <1>15 DEF DrawCursorAndSwap, ScreenTypeOK, Colours
  <2>2. framebuffer' \in [Pixels -> Colours]
    BY <1>15, <2>1 DEF DrawCursorAndSwap, ScreenTypeOK, Colours
  <2>3. dirty' \in Rectangles /\ DirtyInv'
    BY <1>1, <1>4, <1>15, RectTypes, DirtyBounds DEF DrawCursorAndSwap, DirtyInv
  <2> QED
    BY <1>15, <2>1, <2>2, <2>3 DEF DrawCursorAndSwap, ScreenTypeOK, Colours, Rectangles
<1>16. CASE SysChange \/ NetFrame \/ Rest
  <2>1. CASE SysChange
    BY <1>1, <1>3, <1>4, <2>1 DEF SysChange, ScreenTypeOK
  <2>2. CASE NetFrame
    BY <1>1, <1>3, <1>4, <2>2 DEF NetFrame, ScreenTypeOK
  <2>3. CASE Rest
    <3>1. calm' \in BOOLEAN
      BY <2>3 DEF Rest
    <3> QED
      BY <1>1, <1>3, <1>4, <2>3, <3>1 DEF Rest, ScreenTypeOK
  <2> QED
    BY <1>16, <2>1, <2>2, <2>3
<1>17. CASE MainChange \/ MainAsk \/ KeyAsk \/ Second
  BY <1>1, <1>3, <1>4, <1>17
  DEF MainChange, MainAsk, KeyAsk, Second, WishOfSecond, ScreenTypeOK
<1>18. CASE KeyEdit
  BY <1>1, <1>3, <1>4, <1>18 DEF KeyEdit, AllPending, ScreenTypeOK
<1> QED
  BY <1>5, <1>6, <1>7, <1>8, <1>9, <1>10, <1>11, <1>12, <1>13, <1>14, <1>15, <1>16, <1>17,
     <1>18
  DEF ScreenNext, WindowManager, MouseEvents, RenderGui, MainLoop

-----------------------------------------------------------------------------
(* The picture *)

LEMMA InvInit == ScreenInit => ScreenInv
<1> SUFFICES ASSUME ScreenInit PROVE ScreenInv
  OBVIOUS
<1>1. ScreenTypeOK /\ DirtyInv
  BY TypeInit
<1>2. PhaseInv
  BY DEF ScreenInit, PhaseInv
<1>3. Excused
  BY DEF ScreenInit, Excused, AllPending
<1> QED
  BY <1>1, <1>2, <1>3 DEF ScreenInv, ScreenRight, BufferRight

\* A step that draws nothing and moves nothing.
LEMMA QuietStep ==
  ASSUME ScreenInv,
         UNCHANGED <<dirty, pointing, framebuffer, back_buffer>>,
         wm' = "swap" => wm = "swap",
         Excused' \/ (~Excused /\ content' = content)
  PROVE  \A p \in Pixels : ScreenRight(p)' /\ BufferRight(p)'
<1>1. CASE Excused'
  BY <1>1 DEF ScreenRight, BufferRight
<1>2. CASE ~Excused /\ content' = content
  <2> SUFFICES ASSUME NEW p \in Pixels PROVE ScreenRight(p)' /\ BufferRight(p)'
    OBVIOUS
  <2>1. /\ dirty' = dirty /\ mouse' = mouse /\ window' = window
        /\ framebuffer' = framebuffer /\ back_buffer' = back_buffer
    BY DEF pointing
  <2>2. Under(p)' = Under(p)
    BY <1>2, <2>1 DEF Under
  <2>3. ScreenRight(p) /\ BufferRight(p)
    BY DEF ScreenInv
  <2> QED
    BY <1>2, <2>1, <2>2, <2>3 DEF ScreenRight, BufferRight
<1> QED
  BY <1>1, <1>2

\* A pass that marks the place the pointer leaves and leaves the window where
\* it is.  What it changes there to see, it has asked all of the picture for.
LEMMA PointerStep ==
  ASSUME ScreenInv, ScreenTypeOK', DirtyInv', NEW at \in Pixels,
         wm = "poll", wm' # "swap",
         mouse' = at, window' = window, MayChange,
         UNCHANGED <<back_buffer, framebuffer, mainLoop, unseen>>,
         \A p \in Pixels : In(p, dirty) \/ In(p, Cursor(mouse)) => In(p, dirty')
  PROVE  \A p \in Pixels : ScreenRight(p)' /\ BufferRight(p)'
<1> SUFFICES ASSUME NEW p \in Pixels, ~Excused' PROVE ScreenRight(p)' /\ BufferRight(p)'
  BY DEF ScreenRight, BufferRight
<1>1. UNCHANGED shared
  BY DEF MayChange, Excused, AllPending
<1>2. ~Excused
  BY <1>1 DEF Excused, AllPending, shared
<1>3. Under(p)' = Under(p)
  BY <1>1 DEF Under, shared
<1>4. ScreenRight(p)
  BY DEF ScreenInv
<1>5. BufferRight(p)'
  BY DEF BufferRight
<1>6. dirty' # NothingDirty
  <2>1. mouse \in Pixels
    BY DEF ScreenInv, ScreenTypeOK
  <2>2. In(mouse, dirty')
    BY <2>1, SpotsArePixels
  <2> QED
    BY <2>1, <2>2, WholeAndNothing
<1> QED
  BY <1>2, <1>3, <1>4, <1>5, <1>6 DEF ScreenRight

LEMMA InvStep == ScreenInv /\ [ScreenNext]_screenVars => ScreenInv'
<1> SUFFICES ASSUME ScreenInv, [ScreenNext]_screenVars PROVE ScreenInv'
  OBVIOUS
<1>1. ScreenTypeOK' /\ DirtyInv'
  BY TypeStep DEF ScreenInv
<1>2. /\ dirty \in Rectangles /\ mouse \in Pixels /\ window \in Int \X Int
      /\ 0 <= dirty.left /\ dirty.right <= Width - 1
      /\ 0 <= dirty.top /\ dirty.bottom <= Height - 1
      /\ PhaseInv
  BY DEF ScreenInv, ScreenTypeOK, DirtyInv, Rectangles
<1>3. SUFFICES PhaseInv' /\ \A p \in Pixels : ScreenRight(p)' /\ BufferRight(p)'
  BY <1>1 DEF ScreenInv
<1>4. ASSUME UNCHANGED <<mouse, dirty>>
      PROVE  PointerDirtied' = PointerDirtied
  BY <1>4 DEF PointerDirtied
<1>5. CASE UNCHANGED screenVars
  <2>1. /\ UNCHANGED <<dirty, pointing, framebuffer, back_buffer, mouse, content, wm>>
        /\ UNCHANGED <<force_redraw, mainLoop, unseen>>
    BY <1>5 DEF screenVars, drawing, pointing, shared
  <2>2. Excused' = Excused
    BY <2>1 DEF Excused, AllPending
  <2>3. PhaseInv'
    BY <1>2, <1>4, <2>1 DEF PhaseInv
  <2> QED
    BY <2>1, <2>2, <2>3, QuietStep
<1>6. CASE NoMouseEvent
  <2>1. /\ UNCHANGED <<dirty, pointing, framebuffer, back_buffer, mouse, content>>
        /\ UNCHANGED <<force_redraw, mainLoop, unseen>> /\ wm = "poll" /\ wm' = "look"
    BY <1>6 DEF NoMouseEvent, Polling, pointing, shared
  <2>2. Excused' = Excused
    BY <2>1 DEF Excused, AllPending
  <2>3. PhaseInv'
    BY <1>2, <2>1 DEF PhaseInv
  <2> QED
    BY <2>1, <2>2, <2>3, QuietStep
<1>7. ASSUME NEW at \in Spots, MenuClick(at) \/ TaskbarClick(at)
      PROVE  PhaseInv' /\ \A p \in Pixels : ScreenRight(p)' /\ BufferRight(p)'
  <2>1. at \in Pixels /\ Cursor(mouse) \in Rectangles
    BY <1>2, RectTypes, SpotsArePixels
  <2>2. /\ dirty' = AddDirty(dirty, Cursor(mouse)) /\ mouse' = at /\ window' = window
        /\ MayChange /\ wm = "poll" /\ wm' = "look"
        /\ UNCHANGED <<back_buffer, framebuffer, mainLoop, unseen>>
    BY <1>7 DEF MenuClick, TaskbarClick, Polling, MayChange
  <2>3. \A p \in Pixels : In(p, dirty) \/ In(p, Cursor(mouse)) => In(p, dirty')
    BY <1>2, <2>1, <2>2, AddDirtyCovers
  <2>4. force_redraw' # 2
    BY <1>2, <2>2 DEF PhaseInv, MayChange, shared
  <2>5. PhaseInv'
    BY <2>2, <2>4 DEF PhaseInv
  <2> QED
    BY <1>1, <2>1, <2>2, <2>3, <2>5, PointerStep
<1>8. ASSUME NEW at \in Spots, PressWindow(at) \/ MovePointer(at)
      PROVE  PhaseInv' /\ \A p \in Pixels : ScreenRight(p)' /\ BufferRight(p)'
  <2>1. at \in Pixels
    BY SpotsArePixels
  <2>2. /\ dirty' = PointerDirty(dirty, at) /\ mouse' = at /\ window' = window
        /\ MayChange /\ wm = "poll" /\ wm' = "ask"
        /\ UNCHANGED <<back_buffer, framebuffer, mainLoop, unseen>>
    BY <1>8 DEF PressWindow, MovePointer, Polling
  <2>3. \A p \in Pixels : In(p, dirty) \/ In(p, Cursor(mouse)) \/ In(p, Cursor(at))
                            => In(p, dirty')
    BY <1>2, <2>1, <2>2, PointerDirtyCovers
  <2>4. force_redraw' # 2
    BY <1>2, <2>2 DEF PhaseInv, MayChange, shared
  <2>5. PhaseInv'
    BY <2>2, <2>3, <2>4 DEF PhaseInv, PointerDirtied
  <2> QED
    BY <1>1, <2>1, <2>2, <2>3, <2>5, PointerStep
<1>9. ASSUME NEW at \in Spots, DragWindow(at)
      PROVE  PhaseInv' /\ \A p \in Pixels : ScreenRight(p)' /\ BufferRight(p)'
  <2>1. at \in Pixels /\ Moved(at) \in Int \X Int
    BY <1>2, SpotsArePixels, MovedType
  <2> DEFINE d == WindowDirty(dirty, Moved(at))
  <2>2. /\ dirty' = PointerDirty(d, at) /\ mouse' = at /\ window' = Moved(at)
        /\ MayChange /\ wm = "poll" /\ wm' = "ask"
        /\ UNCHANGED <<back_buffer, framebuffer, mainLoop, unseen>>
    BY <1>9 DEF DragWindow, Polling, MayChange
  <2>3. /\ d \in Rectangles
        /\ 0 <= d.left /\ 0 <= d.top /\ d.right <= Width - 1 /\ d.bottom <= Height - 1
        /\ \A p \in Pixels : In(p, dirty) \/ In(p, Frame(window)) \/ In(p, Frame(Moved(at)))
                               => In(p, d)
    BY <1>2, <2>1, WindowDirtyCovers
  <2> HIDE DEF d
  <2>4. \A p \in Pixels : In(p, d) \/ In(p, Cursor(mouse)) \/ In(p, Cursor(at))
                            => In(p, dirty')
    BY <1>2, <2>1, <2>2, <2>3, PointerDirtyCovers
  <2>5. force_redraw' # 2
    BY <1>2, <2>2 DEF PhaseInv, MayChange, shared
  <2>6. PhaseInv'
    BY <2>2, <2>4, <2>5 DEF PhaseInv, PointerDirtied
  <2>7. ASSUME NEW p \in Pixels, ~Excused', ~In(p, dirty')
        PROVE  ScreenRight(p)'
    <3>1. UNCHANGED shared
      BY <2>2, <2>7 DEF MayChange, Excused, AllPending
    <3>2. ~Excused
      BY <2>2, <2>7, <3>1 DEF Excused, AllPending, shared
    <3>3. /\ ~In(p, Frame(window)) /\ ~In(p, Frame(Moved(at))) /\ ~In(p, dirty)
          /\ ~In(p, Cursor(mouse)) /\ ~In(p, Cursor(at))
      BY <2>3, <2>4, <2>7
    <3>4. Under(p) = "desktop"
      BY <1>2, <3>3, InsideInFrame DEF Under
    <3>5. Under(p)' = "desktop"
      BY <2>1, <2>2, <3>3, InsideInFrame DEF Under
    <3>6. framebuffer[p] = "desktop"
      BY <3>2, <3>3, <3>4 DEF ScreenInv, ScreenRight
    <3> QED
      BY <2>2, <3>3, <3>5, <3>6 DEF ScreenRight
  <2>8. \A p \in Pixels : ScreenRight(p)'
    BY <2>7 DEF ScreenRight
  <2> QED
    BY <2>2, <2>6, <2>8 DEF BufferRight
<1>10. CASE AskForDirty
  <2>1. /\ UNCHANGED <<dirty, pointing, framebuffer, back_buffer, mouse, content>>
        /\ UNCHANGED <<force_redraw, mainLoop, unseen>>
        /\ wm = "ask" /\ wm' \in {"mark", "look"}
    BY <1>10 DEF AskForDirty, drawing, pointing, shared
  <2>2. Excused' = Excused
    BY <2>1 DEF Excused, AllPending
  <2>3. PhaseInv'
    BY <1>2, <1>4, <2>1 DEF PhaseInv
  <2> QED
    BY <2>1, <2>2, <2>3, QuietStep
<1>11. CASE MarkDirty
  <2>1. /\ UNCHANGED <<dirty, pointing, framebuffer, back_buffer, mouse, content>>
        /\ mainLoop' = mainLoop /\ wm = "mark" /\ wm' = "look" /\ force_redraw' = 2
        /\ unseen' = (unseen \/ force_redraw = 1)
    BY <1>11 DEF MarkDirty, drawing, pointing
  <2>2. Excused' \/ ~Excused
    BY <2>1 DEF Excused, AllPending
  <2>3. PhaseInv'
    BY <1>2, <1>4, <2>1 DEF PhaseInv
  <2> QED
    BY <2>1, <2>2, <2>3, QuietStep
<1>12. CASE Look
  <2>1. /\ UNCHANGED <<dirty, pointing, framebuffer, back_buffer, mouse, content>>
        /\ UNCHANGED <<force_redraw, mainLoop, unseen>>
        /\ wm = "look" /\ wm' = (IF force_redraw = 0 THEN "poll" ELSE "widen")
    BY <1>12 DEF Look, drawing, pointing, shared
  <2>2. Excused' = Excused
    BY <2>1 DEF Excused, AllPending
  <2>3. PhaseInv'
    BY <1>2, <1>4, <2>1 DEF PhaseInv
  <2> QED
    BY <2>1, <2>2, <2>3, QuietStep
<1>13. CASE Widen
  <2>1. /\ UNCHANGED <<pointing, framebuffer, back_buffer, mouse, content>>
        /\ UNCHANGED <<force_redraw, mainLoop, unseen>> /\ wm = "widen" /\ wm' = "clear"
        /\ dirty' = IF force_redraw = 1 THEN WholeScreen ELSE dirty
    BY <1>13 DEF Widen, pointing, shared
  <2>2. CASE force_redraw = 1
    <3>1. Excused' /\ PointerDirtied'
      BY <2>1, <2>2, WholeAndNothing DEF Excused, AllPending, PointerDirtied
    <3>2. PhaseInv'
      BY <2>1, <2>2, <3>1 DEF PhaseInv
    <3> QED
      BY <3>1, <3>2 DEF ScreenRight, BufferRight
  <2>3. CASE force_redraw # 1
    <3>1. force_redraw = 2 /\ PointerDirtied
      BY <1>2, <2>1, <2>3 DEF PhaseInv, ScreenInv, ScreenTypeOK
    <3>2. PhaseInv'
      BY <1>4, <2>1, <2>3, <3>1 DEF PhaseInv
    <3>3. Excused' \/ ~Excused
      BY <2>1, <2>3 DEF Excused, AllPending
    <3> QED
      BY <2>1, <2>3, <3>2, <3>3, QuietStep
  <2> QED
    BY <2>2, <2>3
<1>14. CASE ClearRedraw
  <2>1. /\ UNCHANGED <<dirty, pointing, framebuffer, back_buffer, mouse, content>>
        /\ mainLoop' = mainLoop /\ wm = "clear" /\ wm' = "draw" /\ force_redraw' = 0
        /\ unseen' = (dirty # WholeScreen /\ (unseen \/ force_redraw = 1))
    BY <1>14 DEF ClearRedraw, drawing, pointing
  <2>2. Excused' \/ ~Excused
    BY <2>1 DEF Excused, AllPending
  <2>3. PhaseInv'
    BY <1>2, <1>4, <2>1 DEF PhaseInv
  <2> QED
    BY <2>1, <2>2, <2>3, QuietStep
<1>15. CASE DrawScene
  <2>1. /\ UNCHANGED <<dirty, framebuffer, mouse, window, content, mainLoop, unseen>>
        /\ wm = "draw" /\ wm' = "swap" /\ force_redraw' \in {1, force_redraw}
    BY <1>15 DEF DrawScene, pointing
  <2>2. PhaseInv'
    BY <1>2, <1>4, <2>1 DEF PhaseInv
  <2>3. ASSUME NEW p \in Pixels
        PROVE  ScreenRight(p)' /\ BufferRight(p)'
    <3>1. Under(p)' = Under(p)
      BY <2>1 DEF Under
    <3>2. CASE In(p, dirty)
      <4>1. Inside(window) \in Rectangles /\ Frame(window) \in Rectangles
        BY <1>2, RectTypes
      <4>2. /\ In(p, Drawn(Inside(window), OnScreen(Inside(window)), dirty))
                 <=> In(p, Inside(window))
            /\ In(p, Drawn(Frame(window), WholeScreen, dirty)) <=> In(p, Frame(window))
            /\ In(p, OnScreen(dirty))
        BY <1>2, <3>2, <4>1, DrawnUnclipped, DirtyOnScreenIsDirty
      <4>3. back_buffer'[p] = Under(p)
        BY <1>15, <4>2 DEF DrawScene, Under
      <4> QED
        BY <2>1, <3>1, <3>2, <4>3 DEF ScreenRight, BufferRight
    <3>3. CASE ~In(p, dirty)
      <4>1. dirty # WholeScreen
        BY <3>3, WholeAndNothing
      <4>2. Excused => Excused'
        BY <2>1, <4>1 DEF Excused, AllPending
      <4>3. ScreenRight(p)
        BY DEF ScreenInv
      <4> QED
        BY <2>1, <3>1, <3>3, <4>2, <4>3 DEF ScreenRight, BufferRight
    <3> QED
      BY <3>2, <3>3
  <2> QED
    BY <2>2, <2>3
<1>16. CASE DrawCursorAndSwap
  <2>1. /\ UNCHANGED <<mouse, window, content, force_redraw, mainLoop, unseen>>
        /\ wm = "swap" /\ wm' = "poll"
    BY <1>16 DEF DrawCursorAndSwap, pointing, shared
  <2>2. PhaseInv' /\ PointerDirtied
    BY <1>2, <2>1 DEF PhaseInv
  <2>3. Excused' = Excused
    BY <2>1 DEF Excused, AllPending
  <2>4. ASSUME NEW p \in Pixels, ~Excused
        PROVE  ScreenRight(p)'
    <3>1. Under(p)' = Under(p)
      BY <2>1 DEF Under
    <3>2. ScreenRight(p) /\ BufferRight(p)
      BY DEF ScreenInv
    <3>3. In(p, OnScreen(dirty)) <=> In(p, dirty)
      BY <1>2, DirtyOnScreenIsDirty
    <3>4. framebuffer'[p] = IF In(p, dirty) THEN back_buffer'[p] ELSE framebuffer[p]
      BY <1>16, <3>3 DEF DrawCursorAndSwap
    <3>5. CASE In(p, dirty)
      <4>1. In(p, Drawn(Cursor(mouse), WholeScreen, dirty)) <=> In(p, Cursor(mouse))
        BY <1>2, <3>5, RectTypes, SpotsArePixels, DrawnUnclipped
      <4>2. back_buffer'[p] = IF In(p, Cursor(mouse)) THEN "cursor" ELSE back_buffer[p]
        BY <1>16, <4>1 DEF DrawCursorAndSwap
      <4> QED
        BY <2>1, <2>4, <3>1, <3>2, <3>4, <3>5, <4>2 DEF ScreenRight, BufferRight
    <3>6. CASE ~In(p, dirty)
      <4>1. ~In(p, Cursor(mouse))
        BY <2>2, <3>6 DEF PointerDirtied
      <4> QED
        BY <2>1, <2>4, <3>1, <3>2, <3>4, <3>6, <4>1 DEF ScreenRight
    <3> QED
      BY <3>5, <3>6
  <2>5. \A p \in Pixels : ScreenRight(p)'
    BY <2>3, <2>4 DEF ScreenRight
  <2> QED
    BY <2>1, <2>2, <2>5 DEF BufferRight
<1>17. CASE SysChange \/ NetFrame \/ Rest \/ MainLoop
  <2>1. UNCHANGED <<dirty, pointing, framebuffer, back_buffer, mouse, wm>>
    BY <1>17
    DEF SysChange, NetFrame, Rest, MainLoop, MainChange, MainAsk, KeyAsk, KeyEdit, Second,
        drawing, pointing
  <2>2. force_redraw' \in {1, force_redraw}
    BY <1>17
    DEF SysChange, NetFrame, Rest, MainLoop, MainChange, MainAsk, KeyAsk, KeyEdit, Second,
        WishOfSecond, shared
  <2>3. PhaseInv'
    BY <1>2, <1>4, <2>1, <2>2 DEF PhaseInv
  <2>4. CASE NetFrame \/ Rest
    <3>1. UNCHANGED <<content, force_redraw, mainLoop, unseen>>
      BY <2>4 DEF NetFrame, Rest, shared
    <3>2. Excused' = Excused
      BY <2>1, <3>1 DEF Excused, AllPending
    <3> QED
      BY <2>1, <2>3, <3>1, <3>2, QuietStep
  <2>5. CASE SysChange \/ MainAsk \/ KeyAsk \/ Second
    <3>1. Excused'
      BY <2>5
      DEF SysChange, MainAsk, KeyAsk, Second, WishOfSecond, Excused, AllPending
    <3> QED
      BY <2>1, <2>3, <3>1, QuietStep
  <2>6. CASE MainChange
    <3>1. Excused'
      BY <2>6 DEF MainChange, Excused
    <3> QED
      BY <2>1, <2>3, <3>1, QuietStep
  <2>7. CASE KeyEdit
    <3>1. AllPending' = AllPending
      BY <2>1, <2>7 DEF KeyEdit, AllPending
    <3>2. Excused'
      BY <2>7, <3>1 DEF KeyEdit, Excused
    <3> QED
      BY <2>1, <2>3, <3>2, QuietStep
  <2> QED
    BY <1>17, <2>4, <2>5, <2>6, <2>7 DEF MainLoop
<1> QED
  BY <1>5, <1>6, <1>7, <1>8, <1>9, <1>10, <1>11, <1>12, <1>13, <1>14, <1>15, <1>16, <1>17
  DEF ScreenNext, WindowManager, MouseEvents, RenderGui

-----------------------------------------------------------------------------
(* The theorems *)

\* Whatever the pointer, the drag of a window and the programs do, the picture
\* that process_mouse_events and render_gui keep up piecewise is the one they
\* would draw from scratch: FrameShowsScene for screens and windows of every
\* size (wm.c).
THEOREM ScreenShowsScene == ScreenSpec => []FrameShowsScene
<1>1. ScreenInv => FrameShowsScene
  <2> SUFFICES ASSUME ScreenInv, wm = "poll", force_redraw = 0, dirty = NothingDirty,
                      mainLoop = "idle", ~unseen
               PROVE  framebuffer = Scene
    BY DEF FrameShowsScene
  <2>1. ~Excused
    BY DEF Excused, AllPending
  <2>2. ASSUME NEW p \in Pixels
        PROVE  framebuffer[p] = IF In(p, Cursor(mouse)) THEN "cursor" ELSE Under(p)
    <3>1. ScreenRight(p) /\ ~In(p, dirty)
      BY WholeAndNothing DEF ScreenInv
    <3> QED
      BY <2>1, <3>1 DEF ScreenRight
  <2>3. framebuffer \in [Pixels -> Colours]
    BY DEF ScreenInv, ScreenTypeOK, Colours
  <2> QED
    BY <2>2, <2>3 DEF Scene
<1> QED
  BY <1>1, InvInit, InvStep, PTL DEF ScreenSpec

\* Every pixel the renderer draws or copies lies in the buffers: draw_rect and
\* put_pixel keep to the dirty rectangle, and add_dirty_rect cuts that at the
\* edges of the screen, wherever a window has been dragged (wm.c).
DirtyOnScreen == \A p \in Int \X Int : In(p, dirty) => p \in Pixels

THEOREM DrawsInsideBuffers == ScreenSpec => []DirtyOnScreen
<1>1. ScreenInv => DirtyOnScreen
  <2> SUFFICES ASSUME ScreenInv, NEW p \in Int \X Int, In(p, dirty) PROVE p \in Pixels
    BY DEF DirtyOnScreen
  <2>1. /\ dirty.left \in Int /\ dirty.top \in Int /\ dirty.right \in Int /\ dirty.bottom \in Int
        /\ 0 <= dirty.left /\ dirty.right <= Width - 1
        /\ 0 <= dirty.top /\ dirty.bottom <= Height - 1
    BY DEF ScreenInv, ScreenTypeOK, DirtyInv
  <2>2. /\ dirty.left <= p[1] /\ p[1] <= dirty.right
        /\ dirty.top <= p[2] /\ p[2] <= dirty.bottom
    BY DEF In
  <2>3. p[1] \in 0..Width - 1 /\ p[2] \in 0..Height - 1
    BY <2>1, <2>2, ScreenAssumption
  <2> QED
    BY <2>3 DEF Pixels
<1> QED
  BY <1>1, InvInit, InvStep, PTL DEF ScreenSpec

-----------------------------------------------------------------------------
(* Terminal.                                                               *)

\* Types, and how far the count can run ahead of the main loop.
TermTypes ==
  /\ terminal_lines \in [LineSlots -> PrintedLines \cup {BlankLine}]
  /\ terminal_line_count \in 0..TERMINAL_MAX_LINES + 1
  /\ sysText \in Seq(PrintedLines) /\ unprinted \in Seq(PrintedLines)
  /\ printer \in {"idle", "look", "scroll", "store", "count"}
  /\ printer # "idle" => unprinted # <<>>
  /\ printer \in {"store", "count"} =>
       slot \in LineSlots /\ terminal_line_count <= TERMINAL_MAX_LINES
  /\ j \in 1..TERMINAL_MAX_LINES
  /\ printed \in Seq(PrintedLines) /\ Len(printed) <= TERMINAL_MAX_LINES
  /\ disturbed \in 0..TERMINAL_MAX_LINES

\* How many of the lines printed last are in their places.
Placed == IF disturbed = 0 THEN Len(printed) ELSE TERMINAL_MAX_LINES - disturbed

\* The i-th line from the end.
FromEnd(i) == printed[Len(printed) + 1 - i]

\* The place that shows it, when nobody prints.
Shown(i) == terminal_lines[terminal_line_count - i]

InPlace ==
  /\ terminal_line_count <= TERMINAL_MAX_LINES
  /\ disturbed = 0 => terminal_line_count = Len(printed)
  /\ Placed <= terminal_line_count /\ Placed <= Len(printed)
  /\ \A i \in 1..Placed : Shown(i) = FromEnd(i)

\* The lines before j have moved one place up; the oldest is given up.
HalfScrolled ==
  /\ terminal_line_count = TERMINAL_MAX_LINES
  /\ disturbed = 0 => Len(printed) = TERMINAL_MAX_LINES
  /\ Placed <= Len(printed)
  /\ \A i \in 1..Placed :
       i < TERMINAL_MAX_LINES =>
         FromEnd(i) = IF TERMINAL_MAX_LINES - i < j
                      THEN terminal_lines[TERMINAL_MAX_LINES - i - 1]
                      ELSE terminal_lines[TERMINAL_MAX_LINES - i]

\* There is room behind the lines for one more.
RoomMade ==
  /\ slot = terminal_line_count /\ slot < TERMINAL_MAX_LINES
  /\ disturbed = 0 => \/ Len(printed) = slot
                      \/ slot = TERMINAL_MAX_LINES - 1 /\ Len(printed) = TERMINAL_MAX_LINES
  /\ disturbed # 0 => Placed <= slot
  /\ Placed <= Len(printed)
  /\ \A i \in 1..Placed : i <= slot => Shown(i) = FromEnd(i)

\* Only a print that has not been overtaken keeps the lines in their places.
LinesInv ==
  disturbed < TERMINAL_MAX_LINES =>
    /\ printer \in {"idle", "look"} => InPlace
    /\ printer = "scroll" => HalfScrolled
    /\ printer \in {"store", "count"} => RoomMade
    /\ printer = "count" => terminal_lines[slot] = Head(unprinted)

TermInv == TermTypes /\ LinesInv

-----------------------------------------------------------------------------
LEMMA TextIs ==
  ASSUME NEW text \in PrintedTexts
  PROVE  text \in Seq(PrintedLines) /\ text # <<>>
BY TerminalAssumption DEF PrintedTexts, BoundedSeq, SeqOf

\* A line more for the reader, the oldest dropped when there are too many.
LEMMA LatestWith ==
  ASSUME NEW p \in Seq(PrintedLines), Len(p) <= TERMINAL_MAX_LINES,
         NEW line \in PrintedLines
  PROVE  LET q == Latest(Append(p, line))
         IN  /\ q \in Seq(PrintedLines)
             /\ Len(q) = IF Len(p) = TERMINAL_MAX_LINES THEN Len(p) ELSE Len(p) + 1
             /\ q[Len(q)] = line
             /\ \A i \in 1..Len(q) - 1 : q[Len(q) - i] = p[Len(p) + 1 - i]
<1>1. PICK n \in Nat : n = Len(p)
  BY LenProperties
<1>2. PICK a \in Seq(PrintedLines) : a = Append(p, line)
  BY AppendProperties
<1>3. /\ Len(a) = n + 1 /\ a # <<>> /\ a[n + 1] = line
      /\ \A i \in 1..n : a[i] = p[i]
  BY <1>1, <1>2, AppendProperties
<1>4. CASE n < TERMINAL_MAX_LINES
  <2>1. Latest(a) = a
    BY <1>1, <1>3, <1>4, TerminalAssumption DEF Latest
  <2>2. \A i \in 1..Len(a) - 1 : a[Len(a) - i] = p[n + 1 - i]
    BY <1>3
  <2> QED BY <1>1, <1>2, <1>3, <1>4, <2>1, <2>2
<1>5. CASE n = TERMINAL_MAX_LINES
  <2>1. Latest(a) = Tail(a)
    BY <1>1, <1>3, <1>5, TerminalAssumption DEF Latest
  <2>2. PICK b \in Seq(PrintedLines) : b = Tail(a)
    BY <1>3, HeadTailProperties
  <2>3. Len(b) = Len(a) - 1 /\ \A i \in 1..Len(b) : b[i] = a[i + 1]
    BY <1>3, <2>2, HeadTailProperties
  <2>4. Len(b) = n /\ b[n] = line
    BY <1>3, <1>5, <2>3, TerminalAssumption
  <2>5. \A i \in 1..n - 1 : b[n - i] = p[n + 1 - i]
    <3> SUFFICES ASSUME NEW i \in 1..n - 1 PROVE b[n - i] = p[n + 1 - i]
      OBVIOUS
    <3>1. n - i \in 1..Len(b) /\ n - i + 1 \in 1..n /\ n - i + 1 = n + 1 - i
      BY <2>4
    <3>2. b[n - i] = a[n - i + 1]
      BY <2>3, <3>1
    <3> QED BY <1>3, <3>1, <3>2
  <2> QED BY <1>1, <1>2, <1>5, <2>1, <2>2, <2>4, <2>5
<1> QED BY <1>1, <1>4, <1>5, TerminalAssumption

\* What terminal_print does to the lines for one line of text.
LEMMA LineAdded ==
  ASSUME NEW lines \in [LineSlots -> PrintedLines \cup {BlankLine}],
         NEW count \in 0..TERMINAL_MAX_LINES + 1, NEW line \in PrintedLines
  PROVE  LET t == AddLine([lines |-> lines, count |-> count], line)
         IN  /\ t.lines \in [LineSlots -> PrintedLines \cup {BlankLine}]
             /\ t.count = IF count >= TERMINAL_MAX_LINES THEN TERMINAL_MAX_LINES ELSE count + 1
             /\ t.lines[t.count - 1] = line
             /\ count <= TERMINAL_MAX_LINES =>
                  \A i \in 1..t.count - 1 : t.lines[t.count - 1 - i] = lines[count - i]
<1> SUFFICES ASSUME NEW t, t = AddLine([lines |-> lines, count |-> count], line)
             PROVE  /\ t.lines \in [LineSlots -> PrintedLines \cup {BlankLine}]
                    /\ t.count = IF count >= TERMINAL_MAX_LINES THEN TERMINAL_MAX_LINES ELSE count + 1
                    /\ t.lines[t.count - 1] = line
                    /\ count <= TERMINAL_MAX_LINES =>
                         \A i \in 1..t.count - 1 : t.lines[t.count - 1 - i] = lines[count - i]
  OBVIOUS
<1>1. CASE count >= TERMINAL_MAX_LINES
  <2> DEFINE up == [i \in LineSlots |-> IF i + 1 \in LineSlots THEN lines[i + 1] ELSE lines[i]]
  <2>1. up \in [LineSlots -> PrintedLines \cup {BlankLine}]
    OBVIOUS
  <2>2. PICK stored : stored = [up EXCEPT ![TERMINAL_MAX_LINES - 1] = line]
    OBVIOUS
  <2>3. TERMINAL_MAX_LINES - 1 \in LineSlots /\ TERMINAL_MAX_LINES - 1 + 1 = TERMINAL_MAX_LINES
    BY TerminalAssumption DEF LineSlots
  <2>4. t.lines = stored /\ t.count = TERMINAL_MAX_LINES
    BY <1>1, <2>2, <2>3 DEF AddLine, Full, Scrolled
  <2>5. /\ stored \in [LineSlots -> PrintedLines \cup {BlankLine}]
        /\ stored[TERMINAL_MAX_LINES - 1] = line
    BY <2>1, <2>2, <2>3
  <2>6. count <= TERMINAL_MAX_LINES =>
          \A i \in 1..TERMINAL_MAX_LINES - 1 : stored[TERMINAL_MAX_LINES - 1 - i] = lines[count - i]
    <3> SUFFICES ASSUME count = TERMINAL_MAX_LINES, NEW i \in 1..TERMINAL_MAX_LINES - 1
                 PROVE  stored[TERMINAL_MAX_LINES - 1 - i] = lines[count - i]
      BY <1>1, TerminalAssumption
    <3>1. PICK from \in LineSlots : from = TERMINAL_MAX_LINES - 1 - i
      BY TerminalAssumption DEF LineSlots
    <3>2. from # TERMINAL_MAX_LINES - 1 /\ from + 1 \in LineSlots /\ from + 1 = count - i
      BY <3>1, TerminalAssumption DEF LineSlots
    <3> QED BY <2>2, <3>1, <3>2
  <2> QED BY <1>1, <2>4, <2>5, <2>6
<1>2. CASE count < TERMINAL_MAX_LINES
  <2>1. PICK stored : stored = [lines EXCEPT ![count] = line]
    OBVIOUS
  <2>2. count \in LineSlots /\ count + 1 - 1 = count
    BY <1>2, TerminalAssumption DEF LineSlots
  <2>3. t.lines = stored /\ t.count = count + 1
    <3>1. ~Full(count)
      BY <1>2, TerminalAssumption DEF Full
    <3>2. PICK next \in Nat : next = count + 1
      BY <1>2
    <3>3. t = [lines |-> stored, count |-> next]
      BY <2>1, <3>1, <3>2 DEF AddLine
    <3> QED BY <3>2, <3>3
  <2>4. stored \in [LineSlots -> PrintedLines \cup {BlankLine}] /\ stored[count] = line
    BY <2>1, <2>2
  <2>5. \A i \in 1..count : stored[count - i] = lines[count - i]
    BY <1>2, <2>1, TerminalAssumption DEF LineSlots
  <2> QED BY <1>2, <2>2, <2>3, <2>4, <2>5, TerminalAssumption
<1> QED BY <1>1, <1>2, TerminalAssumption

-----------------------------------------------------------------------------
LEMMA TermInitInv == TermInit => TermInv
<1> SUFFICES ASSUME TermInit PROVE TermInv
  OBVIOUS
<1>1. TermTypes
  BY TerminalAssumption, EmptySeq DEF TermInit, TermTypes, LineSlots
<1>2. Len(printed) = 0
  BY EmptySeq DEF TermInit
<1>3. InPlace
  BY <1>2, TerminalAssumption DEF TermInit, InPlace, Placed
<1>4. LinesInv
  BY <1>3, TerminalAssumption DEF TermInit, LinesInv
<1> QED BY <1>1, <1>4 DEF TermInv

\* A line printed with interrupts off.
LEMMA FirstLineStep ==
  ASSUME TermInv, NEW text \in Seq(PrintedLines), text # <<>>, FirstLine(text)
  PROVE  TermInv'
<1>1. PICK line \in PrintedLines : line = Head(text) /\ Tail(text) \in Seq(PrintedLines)
  BY HeadTailProperties
<1>2. PICK c \in 0..TERMINAL_MAX_LINES + 1 : c = terminal_line_count
  BY DEF TermInv, TermTypes
<1>3. /\ terminal_lines' \in [LineSlots -> PrintedLines \cup {BlankLine}]
      /\ terminal_line_count' =
           IF c >= TERMINAL_MAX_LINES THEN TERMINAL_MAX_LINES ELSE c + 1
      /\ terminal_lines'[terminal_line_count' - 1] = line
      /\ c <= TERMINAL_MAX_LINES =>
           \A i \in 1..terminal_line_count' - 1 :
             terminal_lines'[terminal_line_count' - 1 - i] = terminal_lines[c - i]
  <2>1. PICK t : t = AddLine([lines |-> terminal_lines, count |-> c], line)
    OBVIOUS
  <2>2. terminal_lines' = t.lines /\ terminal_line_count' = t.count
    BY <1>1, <1>2, <2>1 DEF FirstLine
  <2>3. terminal_lines \in [LineSlots -> PrintedLines \cup {BlankLine}]
    BY DEF TermInv, TermTypes
  <2>4. /\ t.lines \in [LineSlots -> PrintedLines \cup {BlankLine}]
        /\ t.count = IF c >= TERMINAL_MAX_LINES THEN TERMINAL_MAX_LINES ELSE c + 1
        /\ t.lines[t.count - 1] = line
        /\ c <= TERMINAL_MAX_LINES =>
             \A i \in 1..t.count - 1 : t.lines[t.count - 1 - i] = terminal_lines[c - i]
    BY <2>1, <2>3, LineAdded
  <2> QED BY <2>2, <2>4
<1>4. PICK n \in 0..TERMINAL_MAX_LINES : n = Len(printed)
  BY LenProperties, TerminalAssumption DEF TermInv, TermTypes
<1>5. /\ printed' \in Seq(PrintedLines)
      /\ Len(printed') = IF n = TERMINAL_MAX_LINES THEN n ELSE n + 1
      /\ printed'[Len(printed')] = line
      /\ \A i \in 1..Len(printed') - 1 : printed'[Len(printed') - i] = printed[n + 1 - i]
  BY <1>1, <1>4, LatestWith DEF FirstLine, TermInv, TermTypes
<1>6. /\ disturbed' = IF printer # "idle" THEN TERMINAL_MAX_LINES
                      ELSE IF disturbed > 0 THEN disturbed - 1 ELSE 0
      /\ sysText' = Tail(text)
      /\ UNCHANGED <<unprinted, printer, slot, j>>
  BY DEF FirstLine
<1>7. TermTypes'
  <2>1. terminal_line_count' \in 0..TERMINAL_MAX_LINES + 1 /\ terminal_line_count' <= TERMINAL_MAX_LINES
    BY <1>2, <1>3, TerminalAssumption
  <2>2. Len(printed') <= TERMINAL_MAX_LINES
    BY <1>4, <1>5, TerminalAssumption
  <2>3. disturbed' \in 0..TERMINAL_MAX_LINES
    BY <1>6, TerminalAssumption DEF TermInv, TermTypes
  <2> QED BY <1>1, <1>3, <1>5, <1>6, <2>1, <2>2, <2>3 DEF TermInv, TermTypes
<1>8. LinesInv'
  <2>1. CASE printer # "idle"
    BY <1>6, <2>1, TerminalAssumption DEF LinesInv
  <2>2. CASE printer = "idle"
    <3>1. PICK d \in 0..TERMINAL_MAX_LINES : d = disturbed
      BY DEF TermInv, TermTypes
    <3>2. PICK k \in 0..TERMINAL_MAX_LINES :
            k = IF d = 0 THEN n ELSE TERMINAL_MAX_LINES - d
      <4>1. (IF d = 0 THEN n ELSE TERMINAL_MAX_LINES - d) \in 0..TERMINAL_MAX_LINES
        BY TerminalAssumption
      <4> QED BY <4>1
    <3>3. /\ k <= n /\ k <= c /\ (k > 0 => c <= TERMINAL_MAX_LINES)
          /\ d = 0 => c = n /\ c <= TERMINAL_MAX_LINES
          /\ \A i \in 1..k : terminal_lines[c - i] = printed[n + 1 - i]
      <4>1. CASE d = TERMINAL_MAX_LINES
        <5>1. k = 0
          BY <3>2, <4>1, TerminalAssumption
        <5> QED BY <1>2, <1>4, <4>1, <5>1, TerminalAssumption
      <4>2. CASE d < TERMINAL_MAX_LINES
        <5>1. InPlace
          BY <2>2, <3>1, <4>2 DEF TermInv, LinesInv
        <5>2. Placed = k
          BY <1>4, <3>1, <3>2 DEF Placed
        <5> QED BY <1>2, <1>4, <3>1, <5>1, <5>2 DEF InPlace, Shown, FromEnd
      <4> QED BY <3>1, <4>1, <4>2, TerminalAssumption
    <3>4. PICK l \in 0..TERMINAL_MAX_LINES : l = Len(printed') /\ l = IF n = TERMINAL_MAX_LINES THEN n ELSE n + 1
      BY <1>4, <1>5, TerminalAssumption
    <3>5. PICK e \in 0..TERMINAL_MAX_LINES :
            e = terminal_line_count' /\ e = IF c >= TERMINAL_MAX_LINES THEN TERMINAL_MAX_LINES ELSE c + 1
      BY <1>2, <1>3, TerminalAssumption
    <3>6. PICK m \in 0..TERMINAL_MAX_LINES : m = Placed'
            /\ m = IF disturbed' = 0 THEN l ELSE TERMINAL_MAX_LINES - disturbed'
      <4>1. disturbed' \in 0..TERMINAL_MAX_LINES
        BY <1>7 DEF TermTypes
      <4>2. (IF disturbed' = 0 THEN l ELSE TERMINAL_MAX_LINES - disturbed') \in 0..TERMINAL_MAX_LINES
        <5>1. PICK f \in 0..TERMINAL_MAX_LINES : f = disturbed'
          BY <4>1
        <5>2. TERMINAL_MAX_LINES - f \in 0..TERMINAL_MAX_LINES
          BY TerminalAssumption
        <5> QED BY <5>1, <5>2
      <4>3. Placed' = IF disturbed' = 0 THEN l ELSE TERMINAL_MAX_LINES - disturbed'
        BY <3>4 DEF Placed
      <4> QED BY <4>2, <4>3
    <3>7. /\ m <= k + 1 /\ m <= e /\ m <= l
          /\ disturbed' = 0 => e = l
      <4>1. PICK f \in 0..TERMINAL_MAX_LINES :
              f = disturbed' /\ f = IF d > 0 THEN d - 1 ELSE 0
        BY <1>6, <2>2, <3>1, TerminalAssumption
      <4>2. m = IF f = 0 THEN l ELSE TERMINAL_MAX_LINES - f
        BY <3>6, <4>1
      <4>3. /\ m <= k + 1 /\ m <= e /\ m <= l
            /\ f = 0 => e = l
        <5>1. c \in Nat /\ n <= TERMINAL_MAX_LINES /\ TERMINAL_MAX_LINES \in Nat
          BY <1>2, TerminalAssumption
        <5>2. CASE d = 0
          BY <3>2, <3>3, <3>4, <3>5, <4>1, <4>2, <5>1, <5>2
        <5>3. CASE d = 1
          BY <3>2, <3>3, <3>4, <3>5, <4>1, <4>2, <5>1, <5>3
        <5>4. CASE d > 1
          BY <3>2, <3>3, <3>4, <3>5, <4>1, <4>2, <5>1, <5>4
        <5> QED BY <5>2, <5>3, <5>4
      <4> QED BY <4>1, <4>3
    <3>8. ASSUME NEW i \in 1..m PROVE terminal_lines'[e - i] = printed'[l + 1 - i]
      <4>1. CASE i = 1
        BY <1>3, <1>5, <3>4, <3>5, <4>1
      <4>2. CASE i > 1
        <5>1. PICK h \in 1..k : h = i - 1
          BY <3>7, <4>2
        <5>2. h \in 1..e - 1 /\ h \in 1..l - 1 /\ c <= TERMINAL_MAX_LINES
          BY <3>3, <3>7, <5>1
        <5>3. terminal_lines'[e - 1 - h] = terminal_lines[c - h]
          BY <1>3, <3>5, <5>2
        <5>4. printed'[l - h] = printed[n + 1 - h]
          BY <1>5, <3>4, <5>2
        <5>5. e - 1 - h = e - i /\ l - h = l + 1 - i
          BY <5>1
        <5> QED BY <3>3, <5>1, <5>3, <5>4, <5>5
      <4> QED BY <4>1, <4>2
    <3>9. InPlace'
      BY <3>4, <3>5, <3>6, <3>7, <3>8, TerminalAssumption DEF InPlace, Shown, FromEnd
    <3> QED BY <1>6, <2>2, <3>9 DEF LinesInv
  <2> QED BY <2>1, <2>2
<1> QED BY <1>7, <1>8 DEF TermInv

LEMMA ClearStep ==
  ASSUME TermInv, SysClear
  PROVE  TermInv'
<1>1. /\ terminal_line_count' = 0 /\ printed' = <<>> /\ Len(printed') = 0
      /\ disturbed' = IF printer # "idle" THEN TERMINAL_MAX_LINES ELSE 0
      /\ UNCHANGED <<terminal_lines, sysText, unprinted, printer, slot, j>>
  BY EmptySeq DEF SysClear
<1>2. TermTypes'
  <2>1. printed' \in Seq(PrintedLines)
    BY <1>1, EmptySeq
  <2> QED BY <1>1, <2>1, TerminalAssumption DEF TermInv, TermTypes
<1>3. LinesInv'
  <2>1. CASE printer = "idle"
    <3>1. Placed' = 0
      BY <1>1, <2>1 DEF Placed
    <3>2. InPlace'
      BY <1>1, <3>1, TerminalAssumption DEF InPlace
    <3> QED BY <1>1, <2>1, <3>2 DEF LinesInv
  <2>2. CASE printer # "idle"
    BY <1>1, <2>2, TerminalAssumption DEF LinesInv
  <2> QED BY <2>1, <2>2
<1> QED BY <1>2, <1>3 DEF TermInv

LEMMA MainPrintStep ==
  ASSUME TermInv, NEW text \in PrintedTexts, MainPrint(text)
  PROVE  TermInv'
<1>1. /\ printer = "idle" /\ printer' = "look" /\ unprinted' = text
      /\ UNCHANGED <<terminal_lines, terminal_line_count, sysText, slot, j, printed, disturbed>>
  BY DEF MainPrint, terminal
<1>2. TermTypes'
  BY <1>1, TextIs DEF TermInv, TermTypes
<1>3. LinesInv'
  <2>1. InPlace' = InPlace
    BY <1>1 DEF InPlace, Placed, Shown, FromEnd
  <2> QED BY <1>1, <2>1 DEF TermInv, LinesInv
<1> QED BY <1>2, <1>3 DEF TermInv

LEMMA LookStep ==
  ASSUME TermInv, LookForRoom
  PROVE  TermInv'
<1>1. /\ printer = "look"
      /\ UNCHANGED <<terminal_lines, terminal_line_count, sysText, unprinted, printed, disturbed>>
  BY DEF LookForRoom, terminal
<1>2. Placed' = Placed /\ \A i : Shown(i)' = Shown(i) /\ FromEnd(i)' = FromEnd(i)
  BY <1>1 DEF Placed, Shown, FromEnd
<1>3. CASE terminal_line_count >= TERMINAL_MAX_LINES
  <2>1. printer' = "scroll" /\ j' = 1 /\ slot' = slot
    BY <1>1, <1>3 DEF LookForRoom, Full
  <2>2. TermTypes'
    BY <1>1, <2>1, TerminalAssumption DEF TermInv, TermTypes
  <2>3. ASSUME disturbed < TERMINAL_MAX_LINES PROVE HalfScrolled'
    <3>1. InPlace
      BY <1>1, <2>3 DEF TermInv, LinesInv
    <3>2. terminal_line_count = TERMINAL_MAX_LINES
      BY <1>3, <3>1, TerminalAssumption DEF TermInv, TermTypes, InPlace
    <3>3. ASSUME NEW i \in 1..Placed, i < TERMINAL_MAX_LINES
          PROVE  /\ FromEnd(i) = terminal_lines[TERMINAL_MAX_LINES - i]
                 /\ ~ (TERMINAL_MAX_LINES - i < 1)
      BY <3>1, <3>2, <3>3, TerminalAssumption DEF InPlace, Shown
    <3> QED BY <1>1, <1>2, <2>1, <3>1, <3>2, <3>3 DEF HalfScrolled, InPlace
  <2> QED BY <1>1, <2>1, <2>2, <2>3 DEF TermInv, LinesInv
<1>4. CASE terminal_line_count < TERMINAL_MAX_LINES
  <2>1. printer' = "store" /\ slot' = terminal_line_count /\ j' = j
    BY <1>1, <1>4, TerminalAssumption DEF LookForRoom, Full, TermInv, TermTypes
  <2>2. TermTypes'
    <3>1. slot' \in LineSlots
      BY <1>4, <2>1, TerminalAssumption DEF TermInv, TermTypes, LineSlots
    <3> QED BY <1>1, <1>4, <2>1, <3>1, TerminalAssumption DEF TermInv, TermTypes
  <2>3. ASSUME disturbed < TERMINAL_MAX_LINES PROVE RoomMade'
    <3>1. InPlace
      BY <1>1, <2>3 DEF TermInv, LinesInv
    <3> QED BY <1>1, <1>2, <1>4, <2>1, <3>1 DEF RoomMade, InPlace
  <2> QED BY <1>1, <2>1, <2>2, <2>3 DEF TermInv, LinesInv
<1> QED BY <1>3, <1>4, TerminalAssumption DEF TermInv, TermTypes

LEMMA ScrollLineStep ==
  ASSUME TermInv, ScrollLine
  PROVE  TermInv'
<1>1. /\ printer = "scroll" /\ j < TERMINAL_MAX_LINES
      /\ terminal_lines' = [terminal_lines EXCEPT ![j - 1] = terminal_lines[j]]
      /\ j' = j + 1
      /\ UNCHANGED <<terminal_line_count, sysText, unprinted, printer, slot, printed, disturbed>>
  BY DEF ScrollLine
<1>2. PICK v \in 1..TERMINAL_MAX_LINES - 1 : v = j
  BY <1>1, TerminalAssumption DEF TermInv, TermTypes
<1>3. v \in LineSlots /\ v - 1 \in LineSlots
  BY <1>2, TerminalAssumption DEF LineSlots
<1>4. TermTypes'
  <2>1. terminal_lines' \in [LineSlots -> PrintedLines \cup {BlankLine}]
    BY <1>1, <1>2, <1>3 DEF TermInv, TermTypes
  <2>2. j' \in 1..TERMINAL_MAX_LINES
    BY <1>1, <1>2, TerminalAssumption
  <2> QED BY <1>1, <2>1, <2>2 DEF TermInv, TermTypes
<1>5. ASSUME disturbed < TERMINAL_MAX_LINES PROVE HalfScrolled'
  <2>1. HalfScrolled
    BY <1>1, <1>5 DEF TermInv, LinesInv
  <2>2. Placed' = Placed /\ \A i : FromEnd(i)' = FromEnd(i)
    BY <1>1 DEF Placed, FromEnd
  <2>3. \A k \in LineSlots :
          terminal_lines'[k] = IF k = v - 1 THEN terminal_lines[v] ELSE terminal_lines[k]
    BY <1>1, <1>2, <1>3 DEF TermInv, TermTypes
  <2>4. Placed \in 0..TERMINAL_MAX_LINES
    BY <2>1, LenProperties, TerminalAssumption DEF HalfScrolled, Placed, TermInv, TermTypes
  <2>5. ASSUME NEW i \in 1..Placed, i < TERMINAL_MAX_LINES
        PROVE  FromEnd(i) = IF TERMINAL_MAX_LINES - i < v + 1
                            THEN terminal_lines'[TERMINAL_MAX_LINES - i - 1]
                            ELSE terminal_lines'[TERMINAL_MAX_LINES - i]
    <3>1. PICK s \in 1..TERMINAL_MAX_LINES - 1 : s = TERMINAL_MAX_LINES - i
      BY <2>4, <2>5, TerminalAssumption
    <3>2. s \in LineSlots /\ s - 1 \in LineSlots
      BY TerminalAssumption DEF LineSlots
    <3>3. FromEnd(i) = IF s < v THEN terminal_lines[s - 1] ELSE terminal_lines[s]
      BY <1>2, <2>1, <2>5, <3>1 DEF HalfScrolled
    <3>4. CASE s < v
      BY <2>3, <3>1, <3>2, <3>3, <3>4
    <3>5. CASE s = v
      BY <2>3, <3>1, <3>2, <3>3, <3>5
    <3>6. CASE s > v
      BY <2>3, <3>1, <3>2, <3>3, <3>6
    <3> QED BY <3>4, <3>5, <3>6
  <2> QED BY <1>1, <1>2, <2>1, <2>2, <2>5 DEF HalfScrolled
<1> QED BY <1>1, <1>4, <1>5 DEF TermInv, LinesInv

LEMMA ScrollEndStep ==
  ASSUME TermInv, ScrollEnd
  PROVE  TermInv'
<1>1. /\ printer = "scroll" /\ j = TERMINAL_MAX_LINES
      /\ terminal_line_count' = TERMINAL_MAX_LINES - 1
      /\ slot' = TERMINAL_MAX_LINES - 1
      /\ printer' = "store"
      /\ UNCHANGED <<terminal_lines, sysText, unprinted, j, printed, disturbed>>
  BY DEF ScrollEnd
<1>2. TermTypes'
  <2>1. slot' \in LineSlots /\ terminal_line_count' \in 0..TERMINAL_MAX_LINES + 1
        /\ terminal_line_count' <= TERMINAL_MAX_LINES
    BY <1>1, TerminalAssumption DEF LineSlots
  <2> QED BY <1>1, <2>1 DEF TermInv, TermTypes
<1>3. ASSUME disturbed < TERMINAL_MAX_LINES PROVE RoomMade'
  <2>1. HalfScrolled
    BY <1>1, <1>3 DEF TermInv, LinesInv
  <2>2. Placed' = Placed /\ \A i : FromEnd(i)' = FromEnd(i)
    BY <1>1 DEF Placed, FromEnd
  <2>3. ASSUME NEW i \in 1..Placed, i <= TERMINAL_MAX_LINES - 1
        PROVE  terminal_lines[TERMINAL_MAX_LINES - 1 - i] = FromEnd(i)
    <3>1. PICK n \in Nat : n = Len(printed)
      BY LenProperties DEF TermInv, TermTypes
    <3>2. Placed \in 0..TERMINAL_MAX_LINES
      BY <2>1, <3>1, TerminalAssumption DEF HalfScrolled, Placed, TermInv, TermTypes
    <3>3. i \in Int /\ i < TERMINAL_MAX_LINES /\ TERMINAL_MAX_LINES - i < TERMINAL_MAX_LINES
          /\ TERMINAL_MAX_LINES - i - 1 = TERMINAL_MAX_LINES - 1 - i
      BY <2>3, <3>2, TerminalAssumption
    <3> QED BY <1>1, <2>1, <3>3 DEF HalfScrolled
  <2>4. disturbed # 0 => Placed <= TERMINAL_MAX_LINES - 1
    BY <1>3, TerminalAssumption DEF Placed, TermInv, TermTypes
  <2> QED BY <1>1, <2>1, <2>2, <2>3, <2>4, TerminalAssumption DEF RoomMade, HalfScrolled, Shown
<1> QED BY <1>1, <1>2, <1>3 DEF TermInv, LinesInv

LEMMA StoreStep ==
  ASSUME TermInv, StoreLine
  PROVE  TermInv'
<1>1. /\ printer = "store" /\ printer' = "count"
      /\ terminal_lines' = [terminal_lines EXCEPT ![slot] = Head(unprinted)]
      /\ UNCHANGED <<terminal_line_count, sysText, unprinted, slot, j, printed, disturbed>>
  BY DEF StoreLine
<1>2. slot \in LineSlots /\ Head(unprinted) \in PrintedLines
  BY <1>1, HeadTailProperties DEF TermInv, TermTypes
<1>3. TermTypes'
  <2>1. terminal_lines' \in [LineSlots -> PrintedLines \cup {BlankLine}]
    BY <1>1, <1>2 DEF TermInv, TermTypes
  <2> QED BY <1>1, <2>1 DEF TermInv, TermTypes
<1>4. ASSUME disturbed < TERMINAL_MAX_LINES
      PROVE  RoomMade' /\ terminal_lines'[slot] = Head(unprinted)
  <2>1. RoomMade
    BY <1>1, <1>4 DEF TermInv, LinesInv
  <2>2. Placed' = Placed /\ \A i : FromEnd(i)' = FromEnd(i)
    BY <1>1 DEF Placed, FromEnd
  <2>3. terminal_lines'[slot] = Head(unprinted)
    BY <1>1, <1>2 DEF TermInv, TermTypes
  <2>4. PICK n \in Nat : n = Len(printed)
    BY LenProperties DEF TermInv, TermTypes
  <2>5. Placed \in Int
    BY <2>4, TerminalAssumption DEF Placed, TermInv, TermTypes
  <2>6. ASSUME NEW i \in 1..Placed, i <= slot PROVE Shown(i)' = Shown(i)
    <3>1. slot - i \in LineSlots /\ slot - i # slot
      BY <1>2, <2>5, <2>6, TerminalAssumption DEF LineSlots
    <3> QED BY <1>1, <2>1, <3>1 DEF Shown, RoomMade, TermInv, TermTypes
  <2> QED BY <1>1, <2>1, <2>2, <2>3, <2>6 DEF RoomMade
<1> QED BY <1>1, <1>3, <1>4 DEF TermInv, LinesInv

LEMMA CountStep ==
  ASSUME TermInv, CountLine
  PROVE  TermInv'
<1>1. /\ printer = "count"
      /\ terminal_line_count' = terminal_line_count + 1
      /\ printed' = Latest(Append(printed, Head(unprinted)))
      /\ unprinted' = Tail(unprinted)
      /\ printer' = IF Len(unprinted) > 1 THEN "look" ELSE "idle"
      /\ UNCHANGED <<terminal_lines, sysText, slot, j, disturbed>>
  BY DEF CountLine
<1>2. PICK line \in PrintedLines : line = Head(unprinted)
  BY <1>1, HeadTailProperties DEF TermInv, TermTypes
<1>3. PICK n \in 0..TERMINAL_MAX_LINES : n = Len(printed)
  BY LenProperties, TerminalAssumption DEF TermInv, TermTypes
<1>4. /\ printed' \in Seq(PrintedLines)
      /\ Len(printed') = IF n = TERMINAL_MAX_LINES THEN n ELSE n + 1
      /\ printed'[Len(printed')] = line
      /\ \A i \in 1..Len(printed') - 1 : printed'[Len(printed') - i] = printed[n + 1 - i]
  BY <1>1, <1>2, <1>3, LatestWith DEF TermInv, TermTypes
<1>5. unprinted' \in Seq(PrintedLines) /\ (printer' # "idle" => unprinted' # <<>>)
  <2>1. unprinted \in Seq(PrintedLines) /\ unprinted # <<>>
    BY <1>1 DEF TermInv, TermTypes
  <2>2. PICK rest : rest = Tail(unprinted)
    OBVIOUS
  <2>3. rest \in Seq(PrintedLines) /\ Len(rest) = Len(unprinted) - 1
    BY <2>1, <2>2, HeadTailProperties
  <2>4. printer' # "idle" => Len(rest) # 0
    BY <1>1, <2>1, <2>3, LenProperties
  <2> QED BY <1>1, <2>2, <2>3, <2>4, EmptySeq
<1>6. TermTypes'
  <2>1. terminal_line_count' \in 0..TERMINAL_MAX_LINES + 1
    BY <1>1, TerminalAssumption DEF TermInv, TermTypes
  <2>2. Len(printed') <= TERMINAL_MAX_LINES
    BY <1>3, <1>4, TerminalAssumption
  <2>3. printer' \in {"look", "idle"}
    BY <1>1
  <2> QED BY <1>1, <1>4, <1>5, <2>1, <2>2, <2>3 DEF TermInv, TermTypes
<1>7. ASSUME disturbed < TERMINAL_MAX_LINES PROVE InPlace'
  <2>1. RoomMade /\ terminal_lines[slot] = line
    BY <1>1, <1>2, <1>7 DEF TermInv, LinesInv
  <2>2. PICK p \in 0..TERMINAL_MAX_LINES - 1 : p = slot /\ p = terminal_line_count
    BY <1>1, <2>1, TerminalAssumption DEF RoomMade, TermInv, TermTypes, LineSlots
  <2>3. PICK d \in 0..TERMINAL_MAX_LINES - 1 : d = disturbed
    BY <1>7, TerminalAssumption DEF TermInv, TermTypes
  <2>4. /\ d = 0 => n = p \/ (p = TERMINAL_MAX_LINES - 1 /\ n = TERMINAL_MAX_LINES)
        /\ d # 0 => TERMINAL_MAX_LINES - d <= p /\ TERMINAL_MAX_LINES - d <= n
        /\ \A i \in 1..(IF d = 0 THEN n ELSE TERMINAL_MAX_LINES - d) :
             i <= p => terminal_lines[p - i] = printed[n + 1 - i]
    BY <1>3, <2>1, <2>2, <2>3 DEF RoomMade, Placed, Shown, FromEnd
  <2>5. PICK l \in 1..TERMINAL_MAX_LINES : l = Len(printed')
          /\ l = IF n = TERMINAL_MAX_LINES THEN n ELSE n + 1
    BY <1>3, <1>4, TerminalAssumption
  <2>6. Placed' = IF d = 0 THEN l ELSE TERMINAL_MAX_LINES - d
    BY <1>1, <2>3, <2>5 DEF Placed
  <2>7. ASSUME NEW i \in 1..(IF d = 0 THEN l ELSE TERMINAL_MAX_LINES - d)
        PROVE  terminal_lines[p + 1 - i] = printed'[l + 1 - i]
    <3>1. i \in Int /\ 1 <= i /\ i <= l /\ i <= p + 1
      BY <2>4, <2>5, <2>7, TerminalAssumption
    <3>2. CASE i = 1
      BY <1>4, <2>1, <2>2, <2>5, <3>2
    <3>3. CASE i > 1
      <4>1. PICK h \in 1..p : h = i - 1
        BY <3>1, <3>3
      <4>2. h \in 1..(IF d = 0 THEN n ELSE TERMINAL_MAX_LINES - d)
        BY <2>4, <2>5, <2>7, <3>1, <3>3, <4>1, TerminalAssumption
      <4>3. terminal_lines[p - h] = printed[n + 1 - h]
        BY <2>4, <4>1, <4>2
      <4>4. h \in 1..l - 1 /\ l - h = l + 1 - i /\ p - h = p + 1 - i
        BY <3>1, <4>1
      <4> QED BY <1>4, <2>5, <4>3, <4>4
    <3> QED BY <3>1, <3>2, <3>3
  <2>8. d = 0 => p + 1 = l
    BY <2>4, <2>5, TerminalAssumption
  <2>9. /\ (IF d = 0 THEN l ELSE TERMINAL_MAX_LINES - d) <= p + 1
        /\ (IF d = 0 THEN l ELSE TERMINAL_MAX_LINES - d) <= l
    BY <2>4, <2>5, <2>8, TerminalAssumption
  <2>10. PICK m : m = Placed' /\ m = IF d = 0 THEN l ELSE TERMINAL_MAX_LINES - d
    BY <2>6
  <2>11. /\ terminal_line_count' = p + 1 /\ p + 1 <= TERMINAL_MAX_LINES
         /\ disturbed' = 0 => p + 1 = l
         /\ m <= p + 1 /\ m <= l
    BY <1>1, <2>2, <2>3, <2>8, <2>9, <2>10, TerminalAssumption
  <2>12. \A i \in 1..m : Shown(i)' = FromEnd(i)'
    <3> SUFFICES ASSUME NEW i \in 1..m PROVE Shown(i)' = FromEnd(i)'
      OBVIOUS
    <3>1. terminal_lines[p + 1 - i] = printed'[l + 1 - i]
      BY <2>7, <2>10
    <3>2. Shown(i)' = terminal_lines[p + 1 - i]
      BY <1>1, <2>11 DEF Shown
    <3>3. FromEnd(i)' = printed'[l + 1 - i]
      BY <2>5 DEF FromEnd
    <3> QED BY <3>1, <3>2, <3>3
  <2> QED BY <2>5, <2>10, <2>11, <2>12 DEF InPlace
<1>8. LinesInv'
  BY <1>1, <1>7 DEF LinesInv
<1> QED BY <1>6, <1>8 DEF TermInv

LEMMA TermStep == TermInv /\ [TermNext]_termVars => TermInv'
<1> SUFFICES ASSUME TermInv, [TermNext]_termVars PROVE TermInv'
  OBVIOUS
<1>1. ASSUME NEW text \in PrintedTexts, SysPrint(text) PROVE TermInv'
  BY <1>1, TextIs, FirstLineStep DEF SysPrint
<1>2. ASSUME NEW text \in PrintedTexts, MainPrint(text) PROVE TermInv'
  BY <1>2, MainPrintStep
<1>3. CASE SysPrintOn
  BY <1>3, FirstLineStep DEF SysPrintOn, TermInv, TermTypes
<1>4. CASE SysClear
  BY <1>4, ClearStep
<1>5. CASE MainPrinting
  BY <1>5, LookStep, ScrollLineStep, ScrollEndStep, StoreStep, CountStep DEF MainPrinting
<1>6. CASE UNCHANGED termVars
  BY <1>6 DEF termVars, terminal, TermInv, TermTypes, LinesInv, InPlace, HalfScrolled, RoomMade,
              Placed, Shown, FromEnd
<1> QED BY <1>1, <1>2, <1>3, <1>4, <1>5, <1>6 DEF TermNext

\* Whatever prints inside a print of the main loop, no line is stored behind
\* the array and the count exceeds it by one at most.
THEOREM TerminalStaysInside == TermSpec => []LinesStayInside
<1>1. TermInit => TermInv
  BY TermInitInv
<1>2. TermInv /\ [TermNext]_termVars => TermInv'
  BY TermStep
<1>3. TermInv => LinesStayInside
  BY DEF TermInv, TermTypes, LinesStayInside
<1> QED BY <1>1, <1>2, <1>3, PTL DEF TermSpec

\* The terminal shows the lines printed last, in order; after a print that was
\* overtaken it does so again once as many lines have been printed as fit.
THEOREM TerminalShowsLastLines == TermSpec => []ShowsLastLines
<1>1. TermInit => TermInv
  BY TermInitInv
<1>2. TermInv /\ [TermNext]_termVars => TermInv'
  BY TermStep
<1>3. TermInv => ShowsLastLines
  <2> SUFFICES ASSUME TermInv, printer = "idle", disturbed = 0
               PROVE  printed = [i \in 1..terminal_line_count |-> terminal_lines[i - 1]]
    BY DEF ShowsLastLines
  <2>1. InPlace
    BY TerminalAssumption DEF TermInv, LinesInv
  <2>2. PICK n \in Nat : n = Len(printed) /\ n = terminal_line_count /\ n = Placed
    BY <2>1, LenProperties DEF InPlace, Placed, TermInv, TermTypes
  <2>3. printed \in [1..n -> PrintedLines]
    BY <2>2, LenProperties DEF TermInv, TermTypes
  <2>4. ASSUME NEW i \in 1..n PROVE printed[i] = terminal_lines[i - 1]
    <3>1. PICK k \in 1..n : k = n + 1 - i
      OBVIOUS
    <3>2. terminal_lines[n - k] = printed[n + 1 - k] /\ n - k = i - 1 /\ n + 1 - k = i
      BY <2>1, <2>2, <3>1 DEF InPlace, Shown, FromEnd
    <3> QED BY <3>2
  <2> QED BY <2>2, <2>3, <2>4
<1> QED BY <1>1, <1>2, <1>3, PTL DEF TermSpec

-----------------------------------------------------------------------------
(* Console.                                                                *)

\* The first bytes of pending_command are those of the line and its Nul.
Holds(line, bytes) ==
  \A b \in 1..bytes :
    pending_command[b] = IF b <= Len(line) THEN line[b] ELSE Nul

\* What the shell can find: pending_command always ends in a Nul; while it is
\* written its beginning is the line entered last, and a command that waits
\* under the pen is one that was overtaken; a command that waits and was not
\* overtaken is all there.
HandOver ==
  /\ pending_command[MaxLine + 1] = Nul
  /\ step # "copy" => copied = 0
  /\ step = "copy" =>
       /\ entered # << >> /\ user_input = Last(entered)
       /\ copied <= Len(user_input) + 1
       /\ Holds(user_input, copied)
       /\ command_ready => overtaken
  /\ command_ready /\ ~overtaken =>
       entered # << >> /\ Holds(Last(entered), Len(Last(entered)) + 1)

\* The history holds the newest commands at the places of their numbers.
HistoryRecalls ==
  /\ history_count = Len(commands)
  /\ \A i \in 0..history_count - 1 :
       i >= history_count - MAX_HISTORY => cmd_history[HistorySlot(i)] = commands[i + 1]

ConsoleInv == ConsoleTypeOK /\ HistoryRecalls /\ HandOver

-----------------------------------------------------------------------------
LEMMA LeastNumber ==
  ASSUME NEW T, T \subseteq Nat, T # {}
  PROVE  \E x \in T : \A y \in T : x <= y
<1>1. \E R : IsWellFoundedOn(R, Nat) /\ \A x, y \in Nat : <<y, x>> \in R <=> y < x
  <2>1. \A x, y \in Nat : <<y, x>> \in OpToRel(<, Nat) <=> y < x
    BY DEF OpToRel
  <2> QED BY <2>1, NatLessThanWellFounded, Zenon
<1>2. PICK R : IsWellFoundedOn(R, Nat) /\ \A x, y \in Nat : <<y, x>> \in R <=> y < x
  BY <1>1
<1>3. PICK x \in T : \A y \in T : ~ (<<y, x>> \in R)
  BY <1>2, WFMin
<1>4. \A m, n \in Nat : <<m, n>> \in R <=> m < n
  BY <1>2
<1>5. \A y \in T : ~ (y < x)
  BY <1>3, <1>4
<1> QED BY <1>5

LEMMA NulNotStored == Nul \notin Stored
  BY CharsAssumption DEF Nul, Stored, CtrlV

LEMMA LineIs ==
  ASSUME NEW line
  PROVE  line \in Lines <=> line \in Seq(Stored) /\ Len(line) <= MaxLine
<1>1. line \in Lines => line \in Seq(Stored) /\ Len(line) <= MaxLine
  <2> SUFFICES ASSUME NEW m \in 0..MaxLine, line \in [1..m -> Stored]
               PROVE  line \in Seq(Stored) /\ Len(line) <= MaxLine
    BY DEF Lines, BoundedSeq, SeqOf
  <2> QED BY ConsoleAssumption
<1>2. line \in Seq(Stored) /\ Len(line) <= MaxLine => line \in Lines
  <2> HAVE line \in Seq(Stored) /\ Len(line) <= MaxLine
  <2>1. line \in [1..Len(line) -> Stored] /\ Len(line) \in 0..MaxLine
    BY ConsoleAssumption, LenProperties
  <2> QED BY <2>1 DEF Lines, BoundedSeq, SeqOf
<1> QED BY <1>1, <1>2

\* Where the Nul ends the text, whatever lies behind it.
LEMMA TextUpTo ==
  ASSUME NEW bytes \in [1..MaxLine + 1 -> Stored \cup {Nul}],
         NEW n \in 1..MaxLine + 1, bytes[n] = Nul,
         \A i \in 1..n - 1 : bytes[i] # Nul
  PROVE  /\ Text(bytes) = SubSeq(bytes, 1, n - 1)
         /\ Text(bytes) \in Lines /\ Len(Text(bytes)) = n - 1
         /\ \A i \in 1..n - 1 : Text(bytes)[i] = bytes[i]
<1> DEFINE end == CHOOSE i \in 1..MaxLine + 1 :
                     bytes[i] = Nul /\ \A k \in 1..i - 1 : bytes[k] # Nul
<1>1. end \in 1..MaxLine + 1 /\ bytes[end] = Nul /\ \A k \in 1..end - 1 : bytes[k] # Nul
  OBVIOUS
<1>2. end = n
  <2> HIDE DEF end
  <2>1. end \in 1..n - 1 \/ n \in 1..end - 1 \/ end = n
    BY <1>1, ConsoleAssumption
  <2> QED BY <1>1, <2>1
<1>3. Text(bytes) = SubSeq(bytes, 1, n - 1)
  BY <1>2 DEF Text
<1>4. \A i \in 1..n - 1 : bytes[i] \in Stored
  BY ConsoleAssumption
<1>5. /\ SubSeq(bytes, 1, n - 1) \in Seq(Stored)
      /\ Len(SubSeq(bytes, 1, n - 1)) = n - 1
      /\ \A i \in 1..n - 1 : SubSeq(bytes, 1, n - 1)[i] = bytes[i]
  <2>1. n - 1 \in Int /\ 1 \in Int
    BY ConsoleAssumption
  <2>2. /\ SubSeq(bytes, 1, n - 1) \in Seq(Stored)
        /\ Len(SubSeq(bytes, 1, n - 1)) = IF 1 <= n - 1 THEN n - 1 - 1 + 1 ELSE 0
        /\ \A i \in 1 .. n - 1 - 1 + 1 : SubSeq(bytes, 1, n - 1)[i] = bytes[1 + i - 1]
    BY <1>4, <2>1, SubSeqProperties
  <2> QED BY <2>2, ConsoleAssumption
<1>6. SubSeq(bytes, 1, n - 1) \in Lines
  <2>1. n - 1 <= MaxLine
    BY ConsoleAssumption
  <2>2. PICK text : text = SubSeq(bytes, 1, n - 1)
    OBVIOUS
  <2> QED BY <1>5, <2>1, <2>2, LineIs
<1> QED BY <1>3, <1>5, <1>6, Zenon

\* A Nul at the end is enough for the reader to find some line.
LEMMA TextIsALine ==
  ASSUME NEW bytes \in [1..MaxLine + 1 -> Stored \cup {Nul}], bytes[MaxLine + 1] = Nul
  PROVE  Text(bytes) \in Lines
<1> DEFINE Ends == {i \in 1..MaxLine + 1 : bytes[i] = Nul}
<1>1. MaxLine + 1 \in Ends /\ Ends \subseteq Nat
  BY ConsoleAssumption
<1>2. PICK n \in Ends : \A i \in Ends : n <= i
  BY <1>1, LeastNumber
<1>3. \A i \in 1..n - 1 : bytes[i] # Nul
  BY <1>2, ConsoleAssumption
<1> QED BY <1>3, TextUpTo

LEMMA TextOfHeld ==
  ASSUME ConsoleTypeOK, NEW line \in Lines, Holds(line, Len(line) + 1)
  PROVE  Text(pending_command) = line
<1>1. line \in Seq(Stored) /\ Len(line) \in 0..MaxLine
  BY LineIs, LenProperties
<1>2. pending_command \in [1..MaxLine + 1 -> Stored \cup {Nul}]
  BY DEF ConsoleTypeOK
<1>3. \A i \in 1..Len(line) : line[i] \in Stored /\ pending_command[i] = line[i]
  BY <1>1, ElementOfSeq DEF Holds
<1>4. pending_command[Len(line) + 1] = Nul
  BY <1>1 DEF Holds
<1>5. PICK n \in 1..MaxLine + 1 : n = Len(line) + 1
  BY <1>1, ConsoleAssumption
<1>6. /\ Text(pending_command) \in Lines /\ Len(Text(pending_command)) = n - 1
      /\ \A i \in 1..n - 1 : Text(pending_command)[i] = pending_command[i]
  <2>1. \A i \in 1..n - 1 : pending_command[i] # Nul
    BY <1>1, <1>3, <1>5, NulNotStored
  <2> QED BY <1>2, <1>4, <1>5, <2>1, TextUpTo
<1>7. /\ Text(pending_command) \in Seq(Stored)
      /\ Len(Text(pending_command)) = Len(line)
      /\ \A i \in 1..Len(Text(pending_command)) : Text(pending_command)[i] = line[i]
  BY <1>1, <1>3, <1>5, <1>6, LineIs
<1> QED BY <1>1, <1>7, SeqEqual

-----------------------------------------------------------------------------
LEMMA Sizes == /\ MaxLine \in Nat \ {0} /\ MAX_HISTORY \in Nat \ {0}
               /\ MaxLine >= 1 /\ MAX_HISTORY >= 1
  BY ConsoleAssumption

LEMMA NoLine == << >> \in Lines
<1>1. PICK line : line = << >>
  OBVIOUS
<1>2. line \in Seq(Stored) /\ Len(line) = 0
  BY <1>1, EmptySeq
<1>3. line \in Lines
  <2>1. Len(line) <= MaxLine
    BY <1>2, Sizes
  <2> QED BY <1>2, <2>1, LineIs, Zenon
<1> QED BY <1>1, <1>3

LEMMA EraseLine ==
  ASSUME NEW line \in Lines, line # << >>
  PROVE  Front(line) \in Lines
<1>1. line \in Seq(Stored) /\ Len(line) <= MaxLine /\ Len(line) \in Nat \ {0}
  BY LineIs, EmptySeq
<1>2. PICK n \in Nat : n = Len(line) - 1
  BY <1>1
<1>3. PICK cut : cut = SubSeq(line, 1, n)
  OBVIOUS
<1>4. \A i \in 1..n : line[i] \in Stored
  BY <1>1, <1>2, ElementOfSeq
<1>5. cut \in Seq(Stored) /\ Len(cut) = IF 1 <= n THEN n - 1 + 1 ELSE 0
  BY <1>2, <1>3, <1>4, SubSeqProperties
<1>6. cut \in Lines
  BY <1>1, <1>2, <1>5, LineIs, ConsoleAssumption
<1> QED BY <1>2, <1>3, <1>6 DEF Front

LEMMA InsertKey ==
  ASSUME NEW line \in Lines, NEW k \in Stored, Len(line) < MaxLine
  PROVE  Append(line, k) \in Lines
<1>1. line \in Seq(Stored)
  BY LineIs
<1>2. PICK longer : longer = Append(line, k)
  OBVIOUS
<1>3. longer \in Seq(Stored) /\ Len(longer) = Len(line) + 1
  BY <1>1, <1>2, AppendProperties
<1>4. longer \in Lines
  BY <1>1, <1>3, LineIs, LenProperties, ConsoleAssumption
<1> QED BY <1>2, <1>4

\* Where the history keeps its line number i.
LEMMA SlotInside ==
  ASSUME NEW i \in Nat
  PROVE  HistorySlot(i) \in 0..MAX_HISTORY - 1
<1>1. PICK n \in Nat \ {0} : n = MAX_HISTORY
  BY ConsoleAssumption
<1>2. i % n \in 0..n - 1
  OBVIOUS
<1> QED BY <1>1, <1>2 DEF HistorySlot

\* Of the last MAX_HISTORY lines no two share a place.
LEMMA SlotsApart ==
  ASSUME NEW i \in Nat, NEW k \in Nat, i < k, k - i < MAX_HISTORY
  PROVE  HistorySlot(i) # HistorySlot(k)
<1>1. PICK n \in Nat \ {0} : n = MAX_HISTORY
  BY ConsoleAssumption
<1>2. i = n * (i \div n) + (i % n) /\ k = n * (k \div n) + (k % n)
  OBVIOUS
<1>3. PICK p \in Int, q \in Int : p = i \div n /\ q = k \div n
  OBVIOUS
<1>4. ASSUME i % n = k % n PROVE FALSE
  <2>1. k - i = n * (q - p)
    BY <1>2, <1>3, <1>4
  <2>2. PICK d \in Int : d = q - p
    OBVIOUS
  <2>3. k - i = n * d /\ 0 < k - i /\ k - i < n
    BY <1>1, <2>1, <2>2
  <2>4. CASE d <= 0
    <3>1. n * d <= 0
      BY <2>4
    <3> QED BY <2>3, <3>1
  <2>5. CASE d >= 1
    <3>1. n * d >= n
      BY <2>5
    <3> QED BY <2>3, <3>1
  <2> QED BY <2>4, <2>5
<1> QED BY <1>1, <1>4 DEF HistorySlot

\* A remainder is the only one.
LEMMA RemainderIs ==
  ASSUME NEW n \in Nat \ {0}, NEW a \in Int, NEW b \in Int, NEW c \in 0..n - 1, a = n * b + c
  PROVE  a % n = c
<1>1. PICK q \in Int, t \in 0..n - 1 : a = n * q + t /\ t = a % n
  <2>1. a = n * (a \div n) + (a % n) /\ a % n \in 0..n - 1 /\ a \div n \in Int
    OBVIOUS
  <2> QED BY <2>1
<1>2. PICK d \in Int : d = b - q
  OBVIOUS
<1>3. n * d = t - c
  <2>1. n * d = n * b - n * q
    BY <1>2
  <2>2. PICK x \in Int, y \in Int : x = n * b /\ y = n * q
    OBVIOUS
  <2>3. a = x + c /\ a = y + t
    BY <1>1, <2>2
  <2> QED BY <2>1, <2>2, <2>3
<1>4. CASE d >= 1
  <2>1. n * d >= n
    BY <1>4
  <2> QED BY <1>3, <2>1
<1>5. CASE d <= -1
  <2>1. n * d <= -n
    BY <1>5
  <2> QED BY <1>3, <2>1
<1>6. CASE d = 0
  <2>1. n * d = 0
    BY <1>6
  <2>2. t = c
    BY <1>3, <2>1
  <2> QED BY <1>1, <2>2
<1> QED BY <1>4, <1>5, <1>6

\* Of m commands, the newest one that is kept where the index i points is
\* among the newest MAX_HISTORY.
LEMMA NewestInSlot ==
  ASSUME NEW m \in Nat, NEW i \in Nat, i < m
  PROVE  \E k \in 0..m - 1 :
           /\ k = m - 1 - ((m - 1 - i) % MAX_HISTORY)
           /\ k >= m - MAX_HISTORY
           /\ HistorySlot(k) = HistorySlot(i)
           /\ i >= m - MAX_HISTORY => k = i
<1>1. PICK n \in Nat \ {0} : n = MAX_HISTORY
  BY ConsoleAssumption
<1>2. PICK d \in Nat : d = m - 1 - i
  OBVIOUS
<1>3. PICK q \in Nat, t \in 0..n - 1 : d = n * q + t /\ t = d % n
  <2>1. d = n * (d \div n) + (d % n) /\ d % n \in 0..n - 1 /\ d \div n \in Nat
    OBVIOUS
  <2> QED BY <2>1
<1>4. n * q >= 0
  BY <1>3
<1>5. PICK k \in 0..m - 1 : k = m - 1 - t
  BY <1>2, <1>3, <1>4
<1>6. PICK p \in Nat, c \in 0..n - 1 : i = n * p + c /\ c = i % n
  <2>1. i = n * (i \div n) + (i % n) /\ i % n \in 0..n - 1 /\ i \div n \in Nat
    OBVIOUS
  <2> QED BY <2>1
<1>7. k = n * (p + q) + c
  <2>1. k = i + n * q
    <3>1. PICK y \in Int : y = n * q
      OBVIOUS
    <3>2. d = y + t
      BY <1>3, <3>1
    <3> QED BY <1>2, <1>5, <3>1, <3>2
  <2>2. n * (p + q) = n * p + n * q
    OBVIOUS
  <2>3. PICK x \in Int, y \in Int : x = n * p /\ y = n * q
    OBVIOUS
  <2>4. k = i + y /\ i = x + c
    BY <1>6, <2>1, <2>3
  <2> QED BY <2>2, <2>3, <2>4
<1>8. k % n = c
  BY <1>7, RemainderIs
<1>9. i >= m - n => k = i
  <2> SUFFICES ASSUME i >= m - n PROVE k = i
    OBVIOUS
  <2>1. d \in 0..n - 1 /\ d = n * 0 + d
    BY <1>2
  <2>2. d % n = d
    BY <2>1
  <2>3. t = d
    BY <1>3, <2>2
  <2> QED BY <1>2, <1>5, <2>3
<1>10. k >= m - n
  BY <1>5
<1>11. m - 1 - i = d /\ t = (m - 1 - i) % n
  BY <1>2, <1>3
<1>12. k % n = i % n
  BY <1>6, <1>8
<1> QED BY <1>1, <1>5, <1>9, <1>10, <1>11, <1>12 DEF HistorySlot

-----------------------------------------------------------------------------
LEMMA InitInv == ConsoleInit => ConsoleInv
<1> SUFFICES ASSUME ConsoleInit PROVE ConsoleInv
  OBVIOUS
<1>1. cmd_history \in [0..MAX_HISTORY - 1 -> Lines] /\ user_input \in Lines
  BY NoLine DEF ConsoleInit
<1>2. entered \in Seq(Lines) /\ commands \in Seq(Lines) /\ Len(commands) = 0
  BY EmptySeq DEF ConsoleInit
<1>3. ConsoleTypeOK
  <2>1. pending_command \in [1..MaxLine + 1 -> Stored \cup {Nul}]
    BY DEF ConsoleInit
  <2>2. copied \in 0..MaxLine + 1 /\ history_index \in 0..history_count
    BY Sizes DEF ConsoleInit
  <2>3. key \in Keys \cup {NoKey} /\ last_taken \in Lines \cup {NothingYet}
    BY DEF ConsoleInit
  <2> QED BY <1>1, <1>2, <2>1, <2>2, <2>3 DEF ConsoleInit, ConsoleTypeOK
<1>4. HistoryRecalls
  BY <1>2 DEF ConsoleInit, HistoryRecalls
<1>5. HandOver
  BY ConsoleAssumption DEF ConsoleInit, HandOver
<1> QED BY <1>3, <1>4, <1>5 DEF ConsoleInv

\* What entering a line adds to the histories of the model and of the code.
LEMMA EnterStep ==
  ASSUME ConsoleInv, EnterLine
  PROVE  ConsoleInv'
<1>1. /\ user_input \in Lines /\ user_input' = user_input
      /\ entered \in Seq(Lines) /\ entered' = Append(entered, user_input)
      /\ commands \in Seq(Lines)
      /\ commands' = IF user_input = << >> THEN commands ELSE Append(commands, user_input)
      /\ history_count \in Nat
      /\ cmd_history \in [0..MAX_HISTORY - 1 -> Lines]
  BY DEF ConsoleInv, ConsoleTypeOK, EnterLine, Entered
<1>2. /\ entered' \in Seq(Lines) /\ entered' # << >>
      /\ Last(entered') = user_input
  BY <1>1, AppendProperties DEF Last
<1>3. /\ commands' \in Seq(Lines)
      /\ user_input # << >> =>
           /\ Len(commands') = Len(commands) + 1
           /\ commands'[Len(commands) + 1] = user_input
           /\ \A i \in 1..Len(commands) : commands'[i] = commands[i]
  BY <1>1, AppendProperties
<1>4. /\ cmd_history' \in [0..MAX_HISTORY - 1 -> Lines]
      /\ history_count' \in Nat /\ history_index' \in 0..history_count'
  <2>1. CASE user_input = << >>
    BY <2>1 DEF ConsoleInv, ConsoleTypeOK, EnterLine, Remember, history
  <2>2. CASE user_input # << >>
    <3>1. /\ cmd_history' = [cmd_history EXCEPT ![HistorySlot(history_count)] = user_input]
          /\ history_count' = history_count + 1 /\ history_index' = history_count'
      BY <2>2 DEF EnterLine, Remember
    <3>2. cmd_history' \in [0..MAX_HISTORY - 1 -> Lines]
      BY <1>1, <3>1
    <3>3. history_count' \in Nat /\ history_index' \in 0..history_count'
      BY <1>1, <3>1
    <3> QED BY <3>2, <3>3
  <2> QED BY <2>1, <2>2
<1>5. ConsoleTypeOK'
  BY <1>1, <1>2, <1>3, <1>4 DEF ConsoleInv, ConsoleTypeOK, EnterLine, Entered
<1>6. HistoryRecalls'
  <2>1. CASE user_input = << >>
    BY <1>1, <2>1 DEF ConsoleInv, HistoryRecalls, EnterLine, Remember, history
  <2>2. CASE user_input # << >>
    <3>1. /\ cmd_history' = [cmd_history EXCEPT ![HistorySlot(history_count)] = user_input]
          /\ history_count' = history_count + 1
      BY <2>2 DEF EnterLine, Remember
    <3>2. history_count' = Len(commands')
      BY <1>3, <2>2, <3>1 DEF ConsoleInv, HistoryRecalls
    <3>3. ASSUME NEW i \in 0..history_count' - 1, i >= history_count' - MAX_HISTORY
          PROVE  cmd_history'[HistorySlot(i)] = commands'[i + 1]
      <4>1. i \in Nat /\ HistorySlot(i) \in 0..MAX_HISTORY - 1
        <5>1. i \in Nat
          BY <1>1, <3>1
        <5> QED BY <5>1, SlotInside
      <4>2. CASE i = history_count
        <5>1. cmd_history'[HistorySlot(i)] = user_input
          BY <1>1, <3>1, <4>1, <4>2
        <5>2. i + 1 = Len(commands) + 1
          BY <4>2 DEF ConsoleInv, HistoryRecalls
        <5>3. commands'[i + 1] = user_input
          BY <1>3, <2>2, <5>2, Zenon
        <5> QED BY <5>1, <5>3
      <4>3. CASE i < history_count
        <5>1. HistorySlot(i) # HistorySlot(history_count)
          BY <1>1, <3>1, <3>3, <4>1, <4>3, ConsoleAssumption, SlotsApart
        <5>2. cmd_history'[HistorySlot(i)] = cmd_history[HistorySlot(i)]
          BY <1>1, <3>1, <4>1, <5>1
        <5>3. i \in 0..history_count - 1 /\ i >= history_count - MAX_HISTORY
          BY <1>1, <3>1, <3>3, <4>1, <4>3, ConsoleAssumption
        <5>4. cmd_history[HistorySlot(i)] = commands[i + 1]
          BY <5>3 DEF ConsoleInv, HistoryRecalls
        <5>5. i + 1 \in 1..Len(commands)
          BY <1>1, <5>3 DEF ConsoleInv, HistoryRecalls
        <5> QED BY <1>3, <2>2, <5>2, <5>4, <5>5
      <4>4. i = history_count \/ i < history_count
        <5>1. history_count \in Nat /\ i \in 0..history_count + 1 - 1
          BY <1>1, <3>1
        <5> QED BY <5>1
      <4> QED BY <4>2, <4>3, <4>4
    <3> QED BY <3>2, <3>3 DEF HistoryRecalls
  <2> QED BY <2>1, <2>2
<1>7. HandOver'
  <2>1. copied' = 0 /\ step' = "copy" /\ command_ready' = command_ready
        /\ overtaken' = command_ready /\ pending_command' = pending_command
    BY DEF ConsoleInv, HandOver, EnterLine, Entered
  <2>2. Holds(user_input, copied)'
    BY <2>1 DEF Holds
  <2>3. command_ready' => overtaken'
    BY <2>1
  <2>4. copied' <= Len(user_input') + 1
    BY <1>1, <2>1, LineIs, LenProperties
  <2> QED BY <1>1, <1>2, <2>1, <2>2, <2>3, <2>4 DEF ConsoleInv, HandOver
<1> QED BY <1>5, <1>6, <1>7 DEF ConsoleInv

\* The next byte is the line's, or the Nul behind it.
LEMMA CopyStep ==
  ASSUME ConsoleInv, CopyByte
  PROVE  ConsoleInv'
<1>1. /\ user_input \in Seq(Stored) /\ Len(user_input) \in 0..MaxLine
      /\ copied \in 0..Len(user_input) /\ step = "copy"
      /\ pending_command \in [1..MaxLine + 1 -> Stored \cup {Nul}]
  BY LineIs, LenProperties DEF ConsoleInv, ConsoleTypeOK, HandOver, CopyByte
<1>2. PICK byte \in Stored \cup {Nul} :
        /\ byte = IF copied < Len(user_input) THEN user_input[copied + 1] ELSE Nul
        /\ pending_command' = [pending_command EXCEPT ![copied + 1] = byte]
  <2>1. (IF copied < Len(user_input) THEN user_input[copied + 1] ELSE Nul) \in Stored \cup {Nul}
    <3>1. copied < Len(user_input) => copied + 1 \in 1..Len(user_input)
      BY <1>1
    <3> QED BY <1>1, <3>1, ElementOfSeq
  <2> QED BY <2>1 DEF CopyByte
<1>3. /\ copied' = copied + 1
      /\ UNCHANGED <<key, step, user_input, history, command_ready, observed>>
  BY DEF CopyByte
<1>4. copied + 1 \in 1..MaxLine + 1
  BY <1>1, ConsoleAssumption
<1>5. /\ pending_command'[copied + 1] = byte
      /\ \A b \in 1..MaxLine + 1 : b # copied + 1 => pending_command'[b] = pending_command[b]
  BY <1>1, <1>2, <1>4
<1>6. ConsoleTypeOK'
  <2>1. pending_command' \in [1..MaxLine + 1 -> Stored \cup {Nul}]
    BY <1>1, <1>2, <1>4
  <2>2. copied' \in 0..MaxLine + 1
    BY <1>3, <1>4, ConsoleAssumption
  <2> QED BY <1>3, <2>1, <2>2 DEF ConsoleInv, ConsoleTypeOK, history, observed
<1>7. HistoryRecalls'
  BY <1>3 DEF ConsoleInv, HistoryRecalls, history, observed
<1>8. HandOver'
  <2>1. pending_command'[MaxLine + 1] = Nul
    <3>1. CASE copied + 1 = MaxLine + 1
      BY <1>1, <1>2, <1>5, <3>1, ConsoleAssumption
    <3>2. CASE copied + 1 # MaxLine + 1
      BY <1>5, <3>2, ConsoleAssumption DEF ConsoleInv, HandOver
    <3> QED BY <3>1, <3>2
  <2>2. Holds(user_input, copied)'
    <3> SUFFICES ASSUME NEW b \in 1..copied + 1
                 PROVE  pending_command'[b] = IF b <= Len(user_input) THEN user_input[b] ELSE Nul
      BY <1>3 DEF Holds
    <3>1. CASE b = copied + 1
      BY <1>1, <1>2, <1>5, <3>1
    <3>2. CASE b # copied + 1
      BY <1>1, <1>4, <1>5, <3>2, ConsoleAssumption DEF ConsoleInv, HandOver, Holds
    <3> QED BY <3>1, <3>2
  <2>3. step' = "copy" /\ user_input' = user_input /\ entered' = entered
        /\ command_ready' = command_ready /\ overtaken' = overtaken
    BY <1>1, <1>3 DEF observed
  <2>4. copied' <= Len(user_input') + 1
    BY <1>1, <1>3
  <2>5. /\ command_ready => overtaken
        /\ entered # << >> /\ user_input = Last(entered)
    BY <1>1 DEF ConsoleInv, HandOver
  <2>6. entered' # << >> /\ user_input' = Last(entered')
    BY <2>3, <2>5
  <2>7. command_ready' => overtaken'
    BY <2>3, <2>5
  <2> QED BY <2>1, <2>2, <2>3, <2>4, <2>6, <2>7, Zenon DEF HandOver
<1> QED BY <1>6, <1>7, <1>8 DEF ConsoleInv

\* Editing touches neither the histories nor the hand-over.
LEMMA EditStep ==
  ASSUME ConsoleInv, step # "copy", step' # "copy",
         user_input' \in Lines, key' \in Keys \cup {NoKey},
         step' \in {"idle", "clipboard", "dispatch", "copy"},
         history_index' \in 0..history_count,
         UNCHANGED <<cmd_history, history_count, pending_command, copied, command_ready, observed>>
  PROVE  ConsoleInv'
<1>1. ConsoleTypeOK'
  BY DEF ConsoleInv, ConsoleTypeOK, observed
<1>2. HistoryRecalls'
  BY DEF ConsoleInv, HistoryRecalls, observed
<1>3. HandOver'
  <2>1. \A line, bytes : Holds(line, bytes)' = Holds(line, bytes)
    BY DEF Holds
  <2>2. \A line : (Holds(line, Len(line) + 1))' = Holds(line, Len(line) + 1)
    BY DEF Holds
  <2>3. entered' = entered /\ overtaken' = overtaken
    BY DEF observed
  <2> QED BY <2>1, <2>2, <2>3 DEF ConsoleInv, HandOver, Holds
<1> QED BY <1>1, <1>2, <1>3 DEF ConsoleInv

LEMMA EditLineStep ==
  ASSUME ConsoleInv, EditLine
  PROVE  ConsoleInv'
<1>1. /\ user_input \in Lines
      /\ cmd_history \in [0..MAX_HISTORY - 1 -> Lines]
      /\ history_count \in Nat /\ history_index \in 0..history_count
  BY DEF ConsoleInv, ConsoleTypeOK
<1>2. user_input' \in Lines /\ history_index' \in 0..history_count
  <2>1. CASE ArrowUp
    <3>1. history_index' = history_index - 1 /\ history_index > 0
      BY <2>1 DEF ArrowUp
    <3>2. history_index' \in Nat /\ history_index' \in 0..history_count
      BY <1>1, <3>1
    <3> QED BY <1>1, <2>1, <3>2, SlotInside DEF ArrowUp
  <2>2. CASE ArrowDown
    <3>1. history_index' = history_index + 1 /\ history_index < history_count
      BY <2>2 DEF ArrowDown
    <3>2. history_index' \in Nat /\ history_index' \in 0..history_count
      BY <1>1, <3>1
    <3> QED BY <1>1, <2>2, <3>2, SlotInside, NoLine DEF ArrowDown
  <2>3. CASE Erase
    BY <1>1, <2>3, EraseLine DEF Erase
  <2>4. CASE Insert
    BY <1>1, <2>4, InsertKey DEF Insert, Room
  <2>5. CASE Ignored
    BY <1>1, <2>5 DEF Ignored
  <2> QED BY <2>1, <2>2, <2>3, <2>4, <2>5 DEF EditLine
<1>3. step = "dispatch" /\ step' = "idle" /\ key' = NoKey
  BY DEF EditLine, Handled
<1>4. UNCHANGED <<cmd_history, history_count, pending_command, copied, command_ready, observed>>
  BY DEF EditLine
<1> QED BY <1>2, <1>3, <1>4, EditStep

LEMMA KeyArrives ==
  ASSUME ConsoleInv, (\E k \in Keys : GetKey(k)) \/ PasteChar \/ Clipboard \/ ToWindow
  PROVE  ConsoleInv'
<1>1. user_input' \in Lines
  <2>1. CASE PasteChar
    <3>1. PICK c \in Chars \cup {LineEnd} : user_input' = Pasted(user_input, c)
      BY <2>1 DEF PasteChar
    <3>2. user_input \in Lines /\ Len(user_input) < MaxLine
      BY <2>1 DEF ConsoleInv, ConsoleTypeOK, PasteChar, Room
    <3>3. CASE c = LineEnd
      BY <3>1, <3>2, <3>3 DEF Pasted
    <3>4. CASE c # LineEnd
      <4>1. c \in Stored
        BY <3>4 DEF Stored
      <4> QED BY <3>1, <3>2, <3>4, <4>1, InsertKey DEF Pasted
    <3> QED BY <3>3, <3>4
  <2>2. CASE (\E k \in Keys : GetKey(k)) \/ Clipboard \/ ToWindow
    BY <2>2 DEF ConsoleInv, ConsoleTypeOK, GetKey, Clipboard, ToWindow
  <2> QED BY <2>1, <2>2
<1>2. /\ step # "copy" /\ step' \in {"idle", "clipboard", "dispatch"}
      /\ key' \in Keys \cup {NoKey}
      /\ UNCHANGED <<history, pending_command, copied, command_ready, observed>>
  BY DEF ConsoleInv, ConsoleTypeOK, GetKey, PasteChar, Clipboard, ToWindow, Handled
<1>3. history_index' \in 0..history_count
  BY <1>2 DEF ConsoleInv, ConsoleTypeOK, history
<1>4. UNCHANGED <<cmd_history, history_count, pending_command, copied, command_ready, observed>>
  BY <1>2 DEF history
<1> QED BY <1>1, <1>2, <1>3, <1>4, EditStep

LEMMA ReadyStep ==
  ASSUME ConsoleInv, CommandReady
  PROVE  ConsoleInv'
<1>1. /\ step = "copy" /\ copied = Len(user_input) + 1
      /\ command_ready' = TRUE /\ user_input' = << >> /\ copied' = 0
      /\ step' = "idle" /\ key' = NoKey
      /\ UNCHANGED <<history, pending_command, observed>>
  BY DEF CommandReady, Handled
<1>2. ConsoleTypeOK'
  <2>1. user_input' \in Lines /\ copied' \in 0..MaxLine + 1
    BY <1>1, NoLine, Sizes
  <2> QED BY <1>1, <2>1 DEF ConsoleInv, ConsoleTypeOK, history, observed
<1>3. HistoryRecalls'
  BY <1>1 DEF ConsoleInv, HistoryRecalls, history, observed
<1>4. HandOver'
  <2>1. entered # << >> /\ user_input = Last(entered) /\ Holds(user_input, copied)
    BY <1>1 DEF ConsoleInv, HandOver
  <2>2. entered' = entered
    BY <1>1 DEF observed
  <2>3. Holds(Last(entered), Len(Last(entered)) + 1)'
    BY <1>1, <2>1, <2>2 DEF Holds
  <2> QED BY <1>1, <2>1, <2>2, <2>3 DEF ConsoleInv, HandOver
<1> QED BY <1>2, <1>3, <1>4 DEF ConsoleInv

LEMMA GetStep ==
  ASSUME ConsoleInv, GetCommand
  PROVE  ConsoleInv' /\ (overtaken \/ last_taken' = Last(entered))
<1>1. /\ command_ready /\ last_taken' = Text(pending_command) /\ command_ready' = FALSE
      /\ UNCHANGED <<key, step, user_input, history, pending_command, copied,
                     entered, commands, overtaken>>
  BY DEF GetCommand
<1>2. last_taken' \in Lines
  BY <1>1, TextIsALine DEF ConsoleInv, ConsoleTypeOK, HandOver
<1>3. ConsoleTypeOK'
  BY <1>1, <1>2 DEF ConsoleInv, ConsoleTypeOK, history
<1>4. HistoryRecalls'
  BY <1>1 DEF ConsoleInv, HistoryRecalls, history
<1>5. HandOver'
  BY <1>1 DEF ConsoleInv, HandOver, Holds
<1>6. overtaken \/ last_taken' = Last(entered)
  <2> SUFFICES ASSUME ~overtaken PROVE last_taken' = Last(entered)
    BY Zenon
  <2>1. entered # << >> /\ Holds(Last(entered), Len(Last(entered)) + 1)
    BY <1>1 DEF ConsoleInv, HandOver
  <2>2. Last(entered) \in Lines
    BY <2>1, LenProperties, EmptySeq, ElementOfSeq DEF Last, ConsoleInv, ConsoleTypeOK
  <2> QED BY <1>1, <2>1, <2>2, TextOfHeld DEF ConsoleInv
<1> QED BY <1>3, <1>4, <1>5, <1>6 DEF ConsoleInv

LEMMA ConsoleInvStep == ConsoleInv /\ [ConsoleNext]_consoleVars => ConsoleInv'
<1> SUFFICES ASSUME ConsoleInv, [ConsoleNext]_consoleVars PROVE ConsoleInv'
  OBVIOUS
<1>1. CASE \E k \in Keys : GetKey(k)
  BY <1>1, KeyArrives
<1>2. CASE PasteChar \/ Clipboard \/ ToWindow
  BY <1>2, KeyArrives
<1>3. CASE EnterLine
  BY <1>3, EnterStep
<1>4. CASE CopyByte
  BY <1>4, CopyStep
<1>5. CASE CommandReady
  BY <1>5, ReadyStep
<1>6. CASE EditLine
  BY <1>6, EditLineStep
<1>7. CASE GetCommand
  BY <1>7, GetStep
<1>8. CASE UNCHANGED consoleVars
  BY <1>8 DEF consoleVars, history, observed, ConsoleInv, ConsoleTypeOK, HistoryRecalls, HandOver, Holds
<1> QED BY <1>1, <1>2, <1>3, <1>4, <1>5, <1>6, <1>7, <1>8 DEF ConsoleNext, KeyStep

\* The input line never grows out of its buffer, typed, pasted or recalled,
\* and every variable has its type.
THEOREM ConsoleTypeCorrect == ConsoleSpec => []ConsoleTypeOK
<1>1. ConsoleInit => ConsoleInv
  BY InitInv
<1>2. ConsoleInv /\ [ConsoleNext]_consoleVars => ConsoleInv'
  BY ConsoleInvStep
<1>3. ConsoleInv => ConsoleTypeOK
  BY DEF ConsoleInv
<1> QED BY <1>1, <1>2, <1>3, PTL DEF ConsoleSpec

\* What an arrow shows.
LEMMA ArrowShows ==
  ASSUME ConsoleInv, EditLine, key \in {Up, Down}, history_index' # history_index
  PROVE  LET i == history_index' IN
           /\ i = IF key = Up THEN history_index - 1 ELSE history_index + 1
           /\ IF i = history_count THEN user_input' = << >>
              ELSE /\ user_input' = NewestAt(i)
                   /\ i >= history_count - MAX_HISTORY => user_input' = commands[i + 1]
<1>1. /\ history_count \in Nat /\ history_index \in 0..history_count
      /\ history_count = Len(commands)
      /\ \A k \in 0..history_count - 1 :
           k >= history_count - MAX_HISTORY => cmd_history[HistorySlot(k)] = commands[k + 1]
  BY DEF ConsoleInv, ConsoleTypeOK, HistoryRecalls
<1>2. ArrowUp \/ ArrowDown
  BY DEF EditLine, Erase, Insert, Ignored
<1>3. PICK i \in 0..history_count :
        /\ i = history_index'
        /\ i = IF key = Up THEN history_index - 1 ELSE history_index + 1
        /\ user_input' = IF i = history_count THEN << >> ELSE cmd_history[HistorySlot(i)]
  <2>1. CASE ArrowUp
    BY <1>1, <2>1 DEF ArrowUp
  <2>2. CASE ArrowDown
    BY <1>1, <2>2 DEF ArrowDown, Up, Down
  <2> QED BY <1>2, <2>1, <2>2
<1>4. ASSUME i # history_count
      PROVE  /\ user_input' = NewestAt(i)
             /\ i >= history_count - MAX_HISTORY => user_input' = commands[i + 1]
  <2>1. i \in Nat /\ i < history_count
    BY <1>1, <1>4
  <2>2. PICK k \in 0..history_count - 1 :
          /\ k = history_count - 1 - ((history_count - 1 - i) % MAX_HISTORY)
          /\ k >= history_count - MAX_HISTORY
          /\ HistorySlot(k) = HistorySlot(i)
          /\ i >= history_count - MAX_HISTORY => k = i
    BY <1>1, <2>1, NewestInSlot
  <2>3. user_input' = commands[k + 1]
    BY <1>1, <1>3, <1>4, <2>2
  <2>4. PICK t \in Int : t = (history_count - 1 - i) % MAX_HISTORY
    BY <1>1, <2>1, ConsoleAssumption
  <2>5. k + 1 = history_count - t
    BY <1>1, <2>2, <2>4
  <2> QED BY <2>2, <2>3, <2>4, <2>5 DEF NewestAt
<1> QED BY <1>3, <1>4

\* The arrows of the terminal show the command at the index they move to: the
\* one entered there while it is kept, and further up the newest one that has
\* been stored over it.
THEOREM ArrowsShowCommands == ConsoleSpec => ArrowsRecall
<1> DEFINE Shows ==
      step = "dispatch" /\ key \in {Up, Down} /\ history_index' # history_index =>
        LET i == history_index' IN
          /\ i = IF key = Up THEN history_index - 1 ELSE history_index + 1
          /\ IF i = history_count THEN user_input' = << >>
             ELSE /\ user_input' = NewestAt(i)
                  /\ i >= history_count - MAX_HISTORY => user_input' = commands[i + 1]
<1>1. ConsoleInit => ConsoleInv
  BY InitInv
<1>2. ConsoleInv /\ [ConsoleNext]_consoleVars => ConsoleInv'
  BY ConsoleInvStep
<1>3. ConsoleInv /\ [ConsoleNext]_consoleVars => [Shows]_consoleVars
  <2> SUFFICES ASSUME ConsoleInv, ConsoleNext, step = "dispatch", key \in {Up, Down},
                      history_index' # history_index
               PROVE  Shows
    BY DEF consoleVars
  <2>1. EditLine
    BY DEF ConsoleNext, KeyStep, GetKey, PasteChar, Clipboard, ToWindow, EnterLine, CopyByte,
           CommandReady, GetCommand, Enter, Up, Down, history
  <2> QED BY <2>1, ArrowShows
<1> QED BY <1>1, <1>2, <1>3, PTL DEF ConsoleSpec, ArrowsRecall

\* sys_get_cmd never returns half a line, or another one than the last
\* entered, unless that one was entered over a command that still waited.
THEOREM ShellTakesWholeLine == ConsoleSpec => TakesWholeLine
<1>1. ConsoleInit => ConsoleInv
  BY InitInv
<1>2. ConsoleInv /\ [ConsoleNext]_consoleVars => ConsoleInv'
  BY ConsoleInvStep
<1>3. ConsoleInv /\ [ConsoleNext]_consoleVars => [GetCommand => overtaken \/ last_taken' = Last(entered)]_consoleVars
  BY GetStep
<1> QED BY <1>1, <1>2, <1>3, PTL DEF ConsoleSpec, TakesWholeLine
=============================================================================
