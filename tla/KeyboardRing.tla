---------------------------- MODULE KeyboardRing ----------------------------
(***************************************************************************)
(* The keyboard driver (keyboard.c): the handler of IRQ1 turns scancodes   *)
(* into characters and stores them in a ring; the kernel's main loop takes *)
(* them out with interrupts on, so that the handler runs between its read  *)
(* of the slot and its store of kbd_tail.  Codes and characters are the    *)
(* numbers of the code.                                                    *)
(***************************************************************************)
EXTENDS ByteRing

CONSTANTS
    BufferSize,     \* BUFFER_SIZE
    Scancodes,      \* the codes the keyboard sends
    KbdUs,          \* kbd_us on the make codes among them
    KbdUsShifted    \* kbd_us_shifted

ShiftMake  == {42, 54}
ShiftBreak == {170, 182}
CtrlMake   == 29
CtrlBreak  == 157
Char == 1 .. 127

\* The make codes that the tables translate.
Make == {sc \in Scancodes : sc < 128} \ (ShiftMake \cup {CtrlMake})

ASSUME KbdSizeAssumption == BufferSize \in Nat /\ BufferSize >= 2
ASSUME ScancodeAssumption == Scancodes \subseteq 0 .. 255
ASSUME TableAssumption ==
    /\ KbdUs \in [Make -> 0 .. 127]
    /\ KbdUsShifted \in [Make -> 0 .. 127]

VARIABLES
    kbdBuffer,
    kbdHead,        \* the handler's index
    kbdTail,        \* the main loop's index
    shiftPressed,
    ctrlPressed,
    kbdPc,          \* the main loop: outside get_keyboard_char or in it
    kbdC,           \* its local c
    kbdChar         \* what the last call returned

kbdRing == <<kbdBuffer, kbdHead, kbdTail>>
kbdVars == <<kbdRing, shiftPressed, ctrlPressed, kbdPc, kbdC, kbdChar>>

KbdSlot == 0 .. BufferSize - 1

KbdInit ==
    /\ kbdBuffer = [i \in KbdSlot |-> 0]
    /\ kbdHead = 0
    /\ kbdTail = 0
    /\ shiftPressed = FALSE
    /\ ctrlPressed = FALSE
    /\ kbdPc = "outside"
    /\ kbdC = 0
    /\ kbdChar = 0

\* (i + 1) % BUFFER_SIZE
After(i) == (i + 1) % BufferSize

-----------------------------------------------------------------------------
(* keyboard_handler_main, one step: interrupts are off in it.              *)

\* The character of a make code; 0 for keys without one.
Translated(sc) ==
    CASE sc = 72 -> 17
      [] sc = 80 -> 18
      [] sc = 46 /\ ctrlPressed -> 3
      [] sc = 47 /\ ctrlPressed -> 22
      [] OTHER -> IF shiftPressed THEN KbdUsShifted[sc] ELSE KbdUs[sc]

ShiftKey(sc) ==
    /\ sc \in ShiftMake \cup ShiftBreak
    /\ shiftPressed' = (sc \in ShiftMake)
    /\ UNCHANGED <<kbdRing, ctrlPressed, kbdPc, kbdC, kbdChar>>

CtrlKey(sc) ==
    /\ sc \in {CtrlMake, CtrlBreak}
    /\ ctrlPressed' = (sc = CtrlMake)
    /\ UNCHANGED <<kbdRing, shiftPressed, kbdPc, kbdC, kbdChar>>

\* A ring that takes all of its slots: full looks like empty.
AlwaysRoom == TRUE

\* next_head != kbd_tail
Room == After(kbdHead) # kbdTail

\* A character is stored, or dropped when the ring is full.
CharKey(sc) ==
    /\ sc \in Make
    /\ Translated(sc) # 0
    /\ Room
    /\ kbdBuffer' = [kbdBuffer EXCEPT ![kbdHead] = Translated(sc)]
    /\ kbdHead' = After(kbdHead)
    /\ UNCHANGED <<kbdTail, shiftPressed, ctrlPressed, kbdPc, kbdC, kbdChar>>

-----------------------------------------------------------------------------
(* get_keyboard_char, called from process_keyboard_events.                 *)

\* Nothing in the ring: it returns 0.
Empty ==
    /\ kbdPc = "outside"
    /\ kbdHead = kbdTail
    /\ kbdChar' = 0
    /\ UNCHANGED <<kbdRing, shiftPressed, ctrlPressed, kbdPc, kbdC>>

\* c = kbd_buffer[kbd_tail]
Load ==
    /\ kbdPc = "outside"
    /\ kbdHead # kbdTail
    /\ kbdC' = kbdBuffer[kbdTail]
    /\ kbdPc' = "loaded"
    /\ UNCHANGED <<kbdRing, shiftPressed, ctrlPressed, kbdChar>>

\* kbd_tail moves on and c is returned.
Advance ==
    /\ kbdPc = "loaded"
    /\ kbdTail' = After(kbdTail)
    /\ kbdChar' = kbdC
    /\ kbdPc' = "outside"
    /\ UNCHANGED <<kbdBuffer, kbdHead, shiftPressed, ctrlPressed, kbdC>>

-----------------------------------------------------------------------------
KeyboardHandler == \E sc \in Scancodes : ShiftKey(sc) \/ CtrlKey(sc) \/ CharKey(sc)

KbdNext == KeyboardHandler \/ Empty \/ Load \/ Advance

KbdSpec == KbdInit /\ [][KbdNext]_kbdVars

-----------------------------------------------------------------------------
(* Properties.                                                             *)

\* The indices stay inside the buffer and everything in it is a byte of the
\* tables (keyboard.c).
KbdTypeOK ==
    /\ kbdBuffer \in [KbdSlot -> 0 .. 127]
    /\ kbdHead \in KbdSlot
    /\ kbdTail \in KbdSlot
    /\ shiftPressed \in BOOLEAN
    /\ ctrlPressed \in BOOLEAN
    /\ kbdPc \in {"outside", "loaded"}
    /\ kbdC \in 0 .. 127
    /\ kbdChar \in 0 .. 127

\* How many characters wait, and which, oldest first.
KbdUsed == (kbdHead - kbdTail) % BufferSize
KbdContents == Slice(kbdBuffer, BufferSize, kbdTail, KbdUsed)

Fifo == INSTANCE BoundedFifo WITH
            Capacity <- BufferSize - 1,
            Offers <- {<<ch>> : ch \in Char},
            Requests <- {1},
            items <- KbdContents,
            delivered <- IF kbdChar = 0 THEN <<>> ELSE <<kbdChar>>

\* The ring is a first-in first-out queue of BUFFER_SIZE - 1 characters: with
\* the handler striking anywhere in get_keyboard_char no character is lost
\* once stored, none is read twice, out of order or half replaced, and a
\* character is dropped only when the ring is full.
ImplementsFifo == Fifo!Spec
=============================================================================
