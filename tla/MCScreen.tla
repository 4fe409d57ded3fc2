------------------------------ MODULE MCScreen ------------------------------
(***************************************************************************)
(* Three small instances in one run: the keyboard ring, the terminal's     *)
(* lines and the screen share no variable, and the initial state chooses   *)
(* which one moves.                                                        *)
(*                                                                         *)
(* The keyboard has Shift, Ctrl, the arrow up, C, A and F1 (which has no   *)
(* character), with the tables of keyboard.c for them.  The screen has     *)
(* four by three pixels, a pointer of two by two that it cuts on every     *)
(* side but the top and left, and a window of three by two that is dragged *)
(* over all of its edges.                                                  *)
(***************************************************************************)
EXTENDS KeyboardRing, Terminal, Screen

MCScancodes == {42, 170, 29, 157, 72, 46, 30, 59}
MCKbdUs == (72 :> 0) @@ (46 :> 99) @@ (30 :> 97) @@ (59 :> 0)
MCKbdUsShifted == (72 :> 0) @@ (46 :> 67) @@ (30 :> 65) @@ (59 :> 0)

MCSpots == {<<0, 1>>, <<2, 0>>, <<3, 2>>}
MCFirstSpot == <<0, 1>>
MCFirstWindow == <<1, 0>>

VARIABLE chosen

MCInit ==
  /\ chosen \in {"keyboard", "terminal", "screen"}
  /\ KbdInit /\ TermInit /\ ScreenInit

MCNext ==
  /\ UNCHANGED chosen
  /\ \/ chosen = "keyboard" /\ KbdNext /\ UNCHANGED <<termVars, screenVars>>
     \/ chosen = "terminal" /\ TermNext /\ UNCHANGED <<kbdVars, screenVars>>
     \/ chosen = "screen" /\ ScreenNext /\ UNCHANGED <<kbdVars, termVars>>

MCSpec ==
  /\ MCInit /\ [][MCNext]_<<chosen, kbdVars, termVars, screenVars>>
  /\ ScreenFairness
=============================================================================
