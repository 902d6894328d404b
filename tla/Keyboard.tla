------------------------------ MODULE Keyboard ------------------------------
(***************************************************************************)
(* What keyboard_interrupt_handler makes of a scancode: Modifiers says how *)
(* the flags change, Meaning what is done with the key.  Both are used     *)
(* with the flags as they are before the scancode.                         *)
(***************************************************************************)
EXTENDS Integers, Sequences

ESCAPE_OPCODE == 1
TAB_OPCODE == 15
ENTER_PRESSED == 28
CTRL_PRESSED == 29
OPCODE_L == 38
LEFT_SHIFT_PRESSED == 42
RIGHT_SHIFT_PRESSED == 54
ALT_PRESSED == 56
END_OF_PRINTABLE == 57
CAPS_LOCK_PRESSED == 58
F1 == 59

\* The scancode of a key released is that of the key pressed plus 128.
Released(key) == key + 128

\* The character of scancode c is entry c + 1.
keyboard_mapping_lowercase ==
    <<0, 27, 49, 50, 51, 52, 53, 54, 55, 56, 57, 48, 45,
      61, 8, 9, 113, 119, 101, 114, 116, 121, 117, 105, 111, 112,
      91, 93, 19, 0, 97, 115, 100, 102, 103, 104, 106, 107, 108,
      59, 39, 96, 0, 92, 122, 120, 99, 118, 98, 110, 109, 44,
      46, 47, 0, 42, 0, 32>>
keyboard_mapping_capital ==
    <<0, 27, 33, 64, 35, 36, 37, 94, 38, 42, 40, 41, 95,
      43, 8, 9, 81, 87, 69, 82, 84, 89, 85, 73, 79, 80,
      123, 125, 19, 0, 65, 83, 68, 70, 71, 72, 74, 75, 76,
      58, 34, 126, 0, 124, 90, 88, 67, 86, 66, 78, 77, 60,
      62, 63, 0, 42, 0, 32>>

\* One key too few is a symbol.
is_letter_Mutant(c) == c \notin 1 .. 13 \cup {26, 27} \cup 40 .. 43 \cup 51 .. 53

\* A key that Caps Lock changes.
is_letter(c) == c \notin 1 .. 13 \cup {26, 27} \cup 39 .. 43 \cup 51 .. 53

(***************************************************************************)
(* The flags.  caps_lock_flag is set while the key is down, so that the    *)
(* repeated scancodes of a key held down do not change caps_lock_counter.  *)
(***************************************************************************)
Flags == {"caps_lock_flag", "caps_lock_counter", "right_shift_flag", "left_shift_flag",
          "control_flag", "alt_flag"}
NoFlags == [f \in Flags |-> 0]

FlagOf == [key \in {ALT_PRESSED, RIGHT_SHIFT_PRESSED, LEFT_SHIFT_PRESSED, CTRL_PRESSED} |->
             CASE key = ALT_PRESSED -> "alt_flag"
               [] key = RIGHT_SHIFT_PRESSED -> "right_shift_flag"
               [] key = LEFT_SHIFT_PRESSED -> "left_shift_flag"
               [] key = CTRL_PRESSED -> "control_flag"]

\* The counter counts the presses.
CapsLock_Counts(m) ==
    IF m.caps_lock_flag = 1 THEN m
    ELSE [m EXCEPT !.caps_lock_flag = 1, !.caps_lock_counter = @ + 1]

CapsLock(m) ==
    IF m.caps_lock_flag = 1 THEN m
    ELSE [m EXCEPT !.caps_lock_flag = 1, !.caps_lock_counter = 1 - @]

Modifiers(m, c) ==
    CASE c \in DOMAIN FlagOf -> [m EXCEPT ![FlagOf[c]] = 1]
      [] c \in {Released(k) : k \in DOMAIN FlagOf} -> [m EXCEPT ![FlagOf[c - 128]] = 0]
      [] c = CAPS_LOCK_PRESSED -> CapsLock(m)
      [] c = Released(CAPS_LOCK_PRESSED) -> [m EXCEPT !.caps_lock_flag = 0]
      [] OTHER -> m

(***************************************************************************)
(* The key.                                                                *)
(***************************************************************************)
Nothing == [does |-> "nothing"]
Types(ascii) == [does |-> "char", ascii |-> ascii]
ClearsScreen == [does |-> "clear"]
Shows(t) == [does |-> "show", terminal |-> t]

\* The scancodes with a branch of their own, before those of characters.
Captured == {ENTER_PRESSED, TAB_OPCODE, ESCAPE_OPCODE, CAPS_LOCK_PRESSED} \cup DOMAIN FlagOf

Character(m, c) ==
    LET shift == m.right_shift_flag = 1 \/ m.left_shift_flag = 1
        capital == IF m.caps_lock_counter = 1 /\ is_letter(c) THEN ~shift ELSE shift
    IN  IF capital THEN keyboard_mapping_capital[c + 1] ELSE keyboard_mapping_lowercase[c + 1]

Meaning(m, c) ==
    CASE c = ENTER_PRESSED -> Types(10)
      [] c \in 1 .. END_OF_PRINTABLE \ Captured /\ m.control_flag = 0 /\ m.alt_flag = 0 ->
            Types(Character(m, c))
      [] c = OPCODE_L /\ m.control_flag = 1 -> ClearsScreen
      [] c \in F1 .. F1 + 2 /\ m.alt_flag = 1 -> Shows(c - F1)
      [] OTHER -> Nothing
============================================================================
