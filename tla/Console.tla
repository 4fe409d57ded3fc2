------------------------------ MODULE Console ------------------------------
(***************************************************************************)
(* The terminal's input line: the line editor and the history in           *)
(* process_keyboard_events (kernel.c), and the hand-over of a command to   *)
(* the shell through pending_command and command_ready.                    *)
(*                                                                         *)
(* The editor runs in the main loop with interrupts on, so the shell, the  *)
(* window manager and every program run between any two of its steps;      *)
(* sys_get_cmd runs with interrupts off and is one step.  What the key     *)
(* does to a focused window (waking its owner, last_game_key) is in Tasks. *)
(* The window manager and the programs may move the focus at any moment,   *)
(* so each time the editor looks it may be on the terminal or on a window. *)
(* A line is what follows the prompt "Arda> "; printing is left out.       *)
(***************************************************************************)
EXTENDS Integers, Sequences, SequencesExt

CONSTANTS
  Chars,       \* characters a user types into a line (Ctrl+C is one of them)
  MaxLine,     \* characters that fit behind the prompt (249)
  MAX_HISTORY, \* length of cmd_history (10)
  MaxEntered   \* bound: lines entered

Nul == "nul"
LineEnd == "line end"

ASSUME ConsoleAssumption ==
  MaxLine \in Nat \ {0} /\ MAX_HISTORY \in Nat \ {0} /\ MaxEntered \in Nat

\* A string in C has no Nul in it.
ASSUME CharsAssumption == Nul \notin Chars

VARIABLES
  key,             \* kbd_char, or NoKey between two calls
  step,            \* where process_keyboard_events is
  user_input,      \* the line behind the prompt
  cmd_history, history_count, history_index,
  pending_command, \* 256 bytes, the ones behind a line included
  copied,          \* bytes that strcpy has stored
  command_ready,
  last_taken,      \* history of the model: what sys_get_cmd returned last,
  entered,         \*   every line entered, in order,
  commands,        \*   the ones among them that are not empty, and whether
  overtaken        \*   the last was entered while an earlier one waited

history == <<cmd_history, history_count, history_index>>
observed == <<last_taken, entered, commands, overtaken>>
consoleVars == <<key, step, user_input, history, pending_command, copied,
          command_ready, observed>>

Enter == "enter"
Up == "up"
Down == "down"
Backspace == "backspace"
CtrlV == "paste"

\* Characters the editor stores; Ctrl+V is stored like any other.
Stored == Chars \cup {CtrlV}
Keys == Stored \cup {Enter, Up, Down, Backspace}
NoKey == "none"
NothingYet == <<Nul>>

Lines == BoundedSeq(Stored, MaxLine)

\* The text that a reader of pending_command finds.
Text(bytes) ==
  LET end == CHOOSE i \in 1..MaxLine + 1 :
               bytes[i] = Nul /\ \A k \in 1..i - 1 : bytes[k] # Nul
  IN  SubSeq(bytes, 1, end - 1)

-----------------------------------------------------------------------------
(* The main loop: process_keyboard_events *)

\* get_keyboard_char returns the next key.
GetKey(k) ==
  /\ step = "idle"
  /\ k = Enter => Len(entered) < MaxEntered
  /\ key' = k /\ step' = "clipboard"
  /\ UNCHANGED <<user_input, history, pending_command, copied,
                 command_ready, observed>>

\* Mutant: a paste does not stop at the end of the line.
AlwaysRoom(line) == TRUE

\* A character fits behind the line.
Room(line) == Len(line) < MaxLine

\* What a paste makes of the next character of the clipboard.
Pasted(line, c) == IF c = LineEnd THEN line ELSE Append(line, c)

\* Ctrl+V on the terminal puts the clipboard behind the line.  Ctrl+C and any
\* program fill the clipboard, also in the middle of the loop: each character
\* may be any, and the text may end anywhere.
PasteChar ==
  /\ step = "clipboard" /\ key = CtrlV /\ Room(user_input)
  /\ \E c \in Chars \cup {LineEnd} : user_input' = Pasted(user_input, c)
  /\ UNCHANGED <<key, step, history, pending_command, copied, command_ready, observed>>

\* The key is then dispatched like every other.
Clipboard ==
  /\ step = "clipboard"
  /\ step' = "dispatch"
  /\ UNCHANGED <<key, user_input, history, pending_command, copied,
                 command_ready, observed>>

Handled == step' = "idle" /\ key' = NoKey

\* The focus is on a window: the key is its owner's.
ToWindow ==
  /\ step = "dispatch"
  /\ Handled
  /\ UNCHANGED <<user_input, history, pending_command, copied,
                 command_ready, observed>>

HistorySlot(i) == i % MAX_HISTORY

\* An entered line that is not empty goes into the history.
Remember(line) ==
  IF line = << >> THEN UNCHANGED history
  ELSE /\ cmd_history' = [cmd_history EXCEPT ![HistorySlot(history_count)] = line]
       /\ history_count' = history_count + 1
       /\ history_index' = history_count'

\* A line counts as entered, whatever becomes of it.
Entered(line) ==
  /\ entered' = Append(entered, line)
  /\ commands' = IF line = << >> THEN commands ELSE Append(commands, line)
  /\ overtaken' = command_ready

\* Mutant: the shell is told before the command is copied.
EnterToldEarly ==
  /\ step = "dispatch" /\ key = Enter
  /\ Remember(user_input)
  /\ Entered(user_input)
  /\ command_ready' = TRUE
  /\ step' = "copy"
  /\ UNCHANGED <<key, user_input, pending_command, copied, last_taken>>

EnterLine ==
  /\ step = "dispatch" /\ key = Enter
  /\ Remember(user_input)
  /\ Entered(user_input)
  /\ step' = "copy"
  /\ UNCHANGED <<key, user_input, pending_command, copied, command_ready,
                 last_taken>>

\* strcpy(pending_command, entered_cmd), a byte at a time.
CopyByte ==
  /\ step = "copy" /\ copied <= Len(user_input)
  /\ pending_command' = [pending_command EXCEPT ![copied + 1] =
                           IF copied < Len(user_input) THEN user_input[copied + 1] ELSE Nul]
  /\ copied' = copied + 1
  /\ UNCHANGED <<key, step, user_input, history, command_ready, observed>>

\* Mutant: an empty line is not handed over.
CommandReadyUnlessEmpty ==
  /\ step = "copy" /\ copied = Len(user_input) + 1
  /\ command_ready' = (command_ready \/ user_input # << >>)
  /\ user_input' = << >>
  /\ copied' = 0
  /\ Handled
  /\ UNCHANGED <<history, pending_command, observed>>

CommandReady ==
  /\ step = "copy" /\ copied = Len(user_input) + 1
  /\ command_ready' = TRUE
  /\ user_input' = << >>
  /\ copied' = 0
  /\ Handled
  /\ UNCHANGED <<history, pending_command, observed>>

\* Mutant: the line is recalled before the index has moved.
ArrowUpLate ==
  /\ key = Up /\ history_count > 0 /\ history_index > 0
  /\ history_index' = history_index - 1
  /\ user_input' = cmd_history[HistorySlot(history_index)]

\* The arrows walk through the history; below its end is the empty line.  The
\* index goes down to 0 whatever the history still holds.
ArrowUp ==
  /\ key = Up /\ history_count > 0 /\ history_index > 0
  /\ history_index' = history_index - 1
  /\ user_input' = cmd_history[HistorySlot(history_index')]

ArrowDown ==
  /\ key = Down /\ history_index < history_count
  /\ history_index' = history_index + 1
  /\ user_input' = IF history_index' = history_count THEN << >>
                   ELSE cmd_history[HistorySlot(history_index')]

Erase ==
  /\ key = Backspace /\ user_input # << >>
  /\ user_input' = Front(user_input)
  /\ UNCHANGED history_index

Insert ==
  /\ key \in Stored /\ Room(user_input)
  /\ user_input' = Append(user_input, key)
  /\ UNCHANGED history_index

Ignored ==
  /\ \/ key = Up /\ history_index = 0
     \/ key = Down /\ history_index = history_count
     \/ key = Backspace /\ user_input = << >>
     \/ key \in Stored /\ ~Room(user_input)
  /\ UNCHANGED <<user_input, history_index>>

EditLine ==
  /\ step = "dispatch"
  /\ ArrowUp \/ ArrowDown \/ Erase \/ Insert \/ Ignored
  /\ Handled
  /\ UNCHANGED <<cmd_history, history_count, pending_command, copied,
                 command_ready, observed>>

-----------------------------------------------------------------------------
(* The shell *)

\* sys_get_cmd.  The shell polls every 10 ms, and later than that while it
\* works on a command.
GetCommand ==
  /\ command_ready
  /\ last_taken' = Text(pending_command)
  /\ command_ready' = FALSE
  /\ UNCHANGED <<key, step, user_input, history, pending_command, copied,
                 entered, commands, overtaken>>

-----------------------------------------------------------------------------
ConsoleInit ==
  /\ key = NoKey /\ step = "idle"
  /\ user_input = << >>
  /\ cmd_history = [i \in 0..MAX_HISTORY - 1 |-> << >>]
  /\ history_count = 0 /\ history_index = 0
  /\ pending_command = [i \in 1..MaxLine + 1 |-> Nul]
  /\ copied = 0
  /\ command_ready = FALSE
  /\ last_taken = NothingYet
  /\ entered = << >> /\ commands = << >> /\ overtaken = FALSE

KeyStep ==
  PasteChar \/ Clipboard \/ ToWindow \/ EnterLine \/ CopyByte \/ CommandReady \/ EditLine

ConsoleNext ==
  \/ \E k \in Keys : GetKey(k)
  \/ KeyStep
  \/ GetCommand

\* The main loop and the shell are scheduled again and again (Tasks,
\* KernelScheduled); nobody has to type.
ConsoleSpec ==
  /\ ConsoleInit /\ [][ConsoleNext]_consoleVars
  /\ WF_consoleVars(KeyStep) /\ WF_consoleVars(GetCommand)

-----------------------------------------------------------------------------
(* Properties *)

\* Types; the line, pasted text and the stored Ctrl+V included, never grows
\* out of the 256 bytes of user_input.
ConsoleTypeOK ==
  /\ command_ready \in BOOLEAN /\ overtaken \in BOOLEAN
  /\ key \in Keys \cup {NoKey}
  /\ step \in {"idle", "clipboard", "dispatch", "copy"}
  /\ user_input \in Lines
  /\ cmd_history \in [0..MAX_HISTORY - 1 -> Lines]
  /\ history_count \in Nat /\ history_index \in 0..history_count
  /\ pending_command \in [1..MaxLine + 1 -> Stored \cup {Nul}]
  /\ copied \in 0..MaxLine + 1
  /\ last_taken \in Lines \cup {NothingYet}
  /\ entered \in Seq(Lines) /\ commands \in Seq(Lines)

\* The newest of the commands that were stored where the index i points.
NewestAt(i) == commands[history_count - ((history_count - 1 - i) % MAX_HISTORY)]

\* An arrow moves the index by one and shows the command it then points to:
\* below the end of the history the one the history keeps at that place.  For
\* the newest MAX_HISTORY commands that is the one entered i-th; further up,
\* where the code lets the index go on, it is a newer one again.
ArrowsRecall ==
  [][ step = "dispatch" /\ key \in {Up, Down} /\ history_index' # history_index =>
        LET i == history_index' IN
          /\ i = IF key = Up THEN history_index - 1 ELSE history_index + 1
          /\ IF i = history_count THEN user_input' = << >>
             ELSE /\ user_input' = NewestAt(i)
                  /\ i >= history_count - MAX_HISTORY => user_input' = commands[i + 1]
    ]_consoleVars

\* The shell runs the line that was entered last, whole, unless that line
\* was entered while an earlier one still waited.
TakesWholeLine ==
  [][GetCommand => overtaken \/ last_taken' = Last(entered)]_consoleVars

\* The newest line is run in the end, even if it overtook another.
NewestLineRuns ==
  \A n \in 1..MaxEntered :
    Len(entered) = n ~>
      \/ Len(entered) > n
      \/ Len(entered) = n /\ last_taken = Last(entered)
=============================================================================
