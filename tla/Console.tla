------------------------------ MODULE Console ------------------------------
(***************************************************************************)
(* What printing a character does to a screen: putc of lib.c and its twin  *)
(* putc_keyboard, which differ only in the page they write and in whose    *)
(* cursor they move.  A screen is a record of its text, one character per  *)
(* cell counted row by row, and the cursor x, y.                           *)
(***************************************************************************)
EXTENDS Integers, Sequences

CONSTANTS NUM_ROWS, NUM_COLS

ASSUME ScreenAssumption == NUM_ROWS \in Nat \ {0} /\ NUM_COLS \in Nat \ {0}

NL == "newline"
BS == "backspace"
Blank == "blank"

Cells == 0 .. NUM_ROWS * NUM_COLS - 1
BlankText == [i \in Cells |-> Blank]

\* The cell at the cursor.  After a backspace in column 0 the column is
\* negative and the cell is the last one of the row above.
Position(s) == NUM_COLS * s.y + s.x

\* scroll_the_page: every row moves up and the bottom row becomes blank.
Scrolled(text) ==
    [i \in Cells |-> IF i + NUM_COLS \in Cells THEN text[i + NUM_COLS] ELSE Blank]

\* The last row is left like any other.
NextRow_NoScroll(s) == [text |-> s.text, x |-> 0, y |-> s.y + 1]

\* To the start of the next row; the last row scrolls instead.
NextRow(s) ==
    IF s.y + 1 = NUM_ROWS
    THEN [text |-> Scrolled(s.text), x |-> 0, y |-> s.y]
    ELSE [text |-> s.text, x |-> 0, y |-> s.y + 1]

\* A store outside the cells leaves the screen as it is.
Stored(text, i, c) == IF i \in Cells THEN [text EXCEPT ![i] = c] ELSE text

\* A full row is left before the next character is written, not after.
Put(s, c) ==
    CASE c = NL -> NextRow(s)
      [] c = BS -> [text |-> Stored(s.text, Position(s) - 1, Blank), x |-> s.x - 1, y |-> s.y]
      [] OTHER ->
            LET r == IF s.x = NUM_COLS THEN NextRow(s) ELSE s
            IN  [text |-> Stored(r.text, Position(r), c), x |-> r.x + 1, y |-> r.y]

\* puts: the characters of a text one after the other.
PutAll(s, chars) ==
    LET after[n \in 0 .. Len(chars)] ==
            IF n = 0 THEN s ELSE Put(after[n - 1], chars[n])
    IN  after[Len(chars)]
============================================================================
