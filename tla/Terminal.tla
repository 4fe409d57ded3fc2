------------------------------ MODULE Terminal ------------------------------
(***************************************************************************)
(* The lines of the terminal window: terminal_print and api_clear_terminal *)
(* (kernel.c).  Programs, faults and the network card's interrupt print    *)
(* with interrupts off: a line is one step, and nothing else happens until *)
(* the text is out.  The main loop prints the line the user has entered,   *)
(* and a message for Ctrl+C, with interrupts on: every other print, and a  *)
(* clear, can come between two of its steps.                               *)
(*                                                                         *)
(* A text is the sequence of its lines: splitting it at 79 characters and  *)
(* at line ends is left out.  A line is copied in one step.                *)
(***************************************************************************)
EXTENDS Integers, Sequences, SequencesExt

CONSTANTS
  TERMINAL_MAX_LINES,
  PrintedLines,    \* the lines that are printed
  MaxPrinted       \* bound: lines of one text (4 for a full input line)

ASSUME TerminalAssumption ==
  TERMINAL_MAX_LINES \in Nat /\ TERMINAL_MAX_LINES >= 2 /\ MaxPrinted \in Nat \ {0}

VARIABLES
  terminal_lines,
  terminal_line_count,
  sysText,         \* lines that are still to print with interrupts off
  unprinted,       \* lines of its text the main loop has still to print
  printer,         \* where terminal_print of the main loop is
  slot,            \* the index it has computed: the build reads the count once
  j,               \* its loop variable
  printed,         \* history: the last lines printed since the last clear
  disturbed        \* history: lines to print until a line misplaced has scrolled out

terminal == <<terminal_lines, terminal_line_count>>
termVars == <<terminal, sysText, unprinted, printer, slot, j, printed, disturbed>>

LineSlots == 0..TERMINAL_MAX_LINES - 1
BlankLine == <<>>

TermInit ==
  /\ terminal_lines = [i \in LineSlots |-> BlankLine]
  /\ terminal_line_count = 0
  /\ sysText = <<>> /\ unprinted = <<>> /\ printer = "idle" /\ slot = 0 /\ j = 1
  /\ printed = <<>> /\ disturbed = 0

PrintedTexts == BoundedSeq(PrintedLines, MaxPrinted) \ {<<>>}

\* What a reader of the terminal should find: as many lines as fit, the
\* newest last.
Latest(lines) == IF Len(lines) > TERMINAL_MAX_LINES THEN Tail(lines) ELSE lines

-----------------------------------------------------------------------------
(* terminal_print with interrupts off *)

\* Mutant: one line too many.
FullTooLate(count) == count > TERMINAL_MAX_LINES

Full(count) == count >= TERMINAL_MAX_LINES

\* Mutant: the lines are kept when they are full, the last is overwritten.
ScrolledNot(t) == [lines |-> t.lines, count |-> TERMINAL_MAX_LINES - 1]

\* Every line one place up; the last one stays where it is, too.
Scrolled(t) ==
  [lines |-> [i \in LineSlots |-> IF i + 1 \in LineSlots THEN t.lines[i + 1] ELSE t.lines[i]],
   count |-> TERMINAL_MAX_LINES - 1]

AddLine(t, line) ==
  LET r == IF Full(t.count) THEN Scrolled(t) ELSE t
  IN  [lines |-> [r.lines EXCEPT ![r.count] = line], count |-> r.count + 1]

\* The first line of a text; the rest is still to print.
FirstLine(text) ==
  LET t == AddLine([lines |-> terminal_lines, count |-> terminal_line_count], Head(text))
  IN  /\ terminal_lines' = t.lines
      /\ terminal_line_count' = t.count
      /\ printed' = Latest(Append(printed, Head(text)))
      /\ disturbed' = IF printer # "idle" THEN TERMINAL_MAX_LINES
                     ELSE IF disturbed > 0 THEN disturbed - 1 ELSE 0
      /\ sysText' = Tail(text)
      /\ UNCHANGED <<unprinted, printer, slot, j>>

SysPrint(text) == sysText = <<>> /\ FirstLine(text)

SysPrintOn == sysText # <<>> /\ FirstLine(sysText)

\* api_clear_terminal makes a fresh start.
SysClear ==
  /\ sysText = <<>>
  /\ terminal_line_count' = 0
  /\ printed' = <<>>
  /\ disturbed' = IF printer # "idle" THEN TERMINAL_MAX_LINES ELSE 0
  /\ UNCHANGED <<terminal_lines, sysText, unprinted, printer, slot, j>>

-----------------------------------------------------------------------------
(* terminal_print in the main loop *)

MainPrint(text) ==
  /\ sysText = <<>> /\ printer = "idle"
  /\ unprinted' = text /\ printer' = "look"
  /\ UNCHANGED <<terminal, sysText, slot, j, printed, disturbed>>

\* Is there room for the line?
LookForRoom ==
  /\ printer = "look"
  /\ IF Full(terminal_line_count)
     THEN printer' = "scroll" /\ j' = 1 /\ UNCHANGED slot
     ELSE printer' = "store" /\ slot' = terminal_line_count /\ UNCHANGED j
  /\ UNCHANGED <<terminal, sysText, unprinted, printed, disturbed>>

ScrollLine ==
  /\ printer = "scroll" /\ j < TERMINAL_MAX_LINES
  /\ terminal_lines' = [terminal_lines EXCEPT ![j - 1] = terminal_lines[j]]
  /\ j' = j + 1
  /\ UNCHANGED <<terminal_line_count, sysText, unprinted, printer, slot, printed, disturbed>>

ScrollEnd ==
  /\ printer = "scroll" /\ j = TERMINAL_MAX_LINES
  /\ terminal_line_count' = TERMINAL_MAX_LINES - 1
  /\ slot' = TERMINAL_MAX_LINES - 1
  /\ printer' = "store"
  /\ UNCHANGED <<terminal_lines, sysText, unprinted, j, printed, disturbed>>

StoreLine ==
  /\ printer = "store"
  /\ terminal_lines' = [terminal_lines EXCEPT ![slot] = Head(unprinted)]
  /\ printer' = "count"
  /\ UNCHANGED <<terminal_line_count, sysText, unprinted, slot, j, printed, disturbed>>

CountLine ==
  /\ printer = "count"
  /\ terminal_line_count' = terminal_line_count + 1
  /\ printed' = Latest(Append(printed, Head(unprinted)))
  /\ unprinted' = Tail(unprinted)
  /\ printer' = IF Len(unprinted) > 1 THEN "look" ELSE "idle"
  /\ UNCHANGED <<terminal_lines, sysText, slot, j, disturbed>>

-----------------------------------------------------------------------------
MainPrinting ==
  /\ sysText = <<>>
  /\ LookForRoom \/ ScrollLine \/ ScrollEnd \/ StoreLine \/ CountLine

TermNext ==
  \/ \E text \in PrintedTexts : SysPrint(text) \/ MainPrint(text)
  \/ SysPrintOn
  \/ SysClear
  \/ MainPrinting

TermSpec == TermInit /\ [][TermNext]_termVars

-----------------------------------------------------------------------------
(* Properties *)

\* The terminal shows the last lines printed, in order, when the main loop
\* does not print.  A print of the main loop that was overtaken may lose or
\* misplace lines; they are gone with a clear, or as soon as system calls have
\* printed as many lines as the terminal holds.
ShowsLastLines ==
  (printer = "idle" /\ disturbed = 0)
    => printed = [i \in 1..terminal_line_count |-> terminal_lines[i - 1]]

\* Overtaken or not, no line is stored behind the last one, and the count,
\* which lies behind it in memory, exceeds the lines by one at most.
LinesStayInside ==
  /\ printer = "store" => slot \in LineSlots
  /\ terminal_line_count \in 0..TERMINAL_MAX_LINES + 1
=============================================================================
