------------------------------- MODULE Video -------------------------------
(***************************************************************************)
(* How three terminals share one display: the page tables of paging.c, the *)
(* functions of lib.c that print through them, and the copying of screens  *)
(* when another terminal is shown.                                         *)
(*                                                                         *)
(* The kernel prints at the virtual page of the VGA memory, VIDEO_MEMORY.  *)
(* term_page_switch points that page, and the page vidmap gives programs,  *)
(* at the VGA memory while the running terminal is the visible one and at  *)
(* a backup page of the running terminal otherwise.  The keyboard          *)
(* interrupt echoes at a page that always is the VGA memory.               *)
(*                                                                         *)
(* terminal_write and the handlers of interrupts and exceptions run with   *)
(* interrupts off: one step each.  The model starts at the first turn of   *)
(* terminal 0.                                                             *)
(***************************************************************************)
EXTENDS Console

CONSTANTS
    NUM_OF_TERMINAL,
    Texts,         \* what programs write
    Inks,          \* the characters that are typed and drawn
    MAX_BUF_LENGTH,  \* size of a keyboard_buffer
    ClearAnywhere  \* may Ctrl-L be pressed while a hidden terminal runs?

ASSUME TerminalsAssumption == NUM_OF_TERMINAL \in Nat \ {0}
ASSUME TextsAssumption == \A chars \in Texts : chars \in Seq(Inks \cup {NL})
ASSUME InksAssumption == Inks \cap {NL, BS, Blank} = {}
ASSUME LineAssumption == MAX_BUF_LENGTH \in 1 .. (NUM_ROWS - 1) * NUM_COLS + 1
ASSUME ClearAnywhereAssumption == ClearAnywhere \in BOOLEAN

Terminals == 0 .. NUM_OF_TERMINAL - 1

VARIABLES
    current_visible,    \* the terminal shown
    terminal_num,       \* the terminal that runs
    video_page_table,   \* the physical page of each page of the first 4 MB, or NotPresent
    vidmap_page_table,  \* the same for the pages of vidmap
    memory,             \* the text in each physical page
    screen_x, screen_y, \* terminal[t].screen_x and screen_y
    buf_position,       \* terminal[t].buf_position: the length of the line typed
    stopped             \* an exception handler loops

vars == <<current_visible, terminal_num, video_page_table, vidmap_page_table, memory,
          screen_x, screen_y, buf_position, stopped>>
tables == <<video_page_table, vidmap_page_table>>
cursors == <<screen_x, screen_y>>

(***************************************************************************)
(* The page tables.  VIDEO_MEMORY is the number of the VGA page, virtual   *)
(* and physical; the backups follow it, then the page of the keyboard.     *)
(***************************************************************************)
NotPresent == -1
VIDEO_MEMORY == 184
term_zero_entry == VIDEO_MEMORY + 1
back_door_entry == term_zero_entry + NUM_OF_TERMINAL
Pages == VIDEO_MEMORY .. back_door_entry
Backup(t) == term_zero_entry + t

video_table_init == [p \in Pages |-> NotPresent]
vidmap_page_initialization == [p \in {0} |-> NotPresent]

\* The page of the keyboard is mapped to itself.
term_page_int_Identity(table) ==
    [p \in Pages |-> IF p = VIDEO_MEMORY THEN table[p] ELSE p]

\* The backups are mapped to themselves, the page of the keyboard to the VGA memory.
term_page_int(table) ==
    [p \in Pages |-> IF p = VIDEO_MEMORY THEN table[p]
                     ELSE IF p = back_door_entry THEN VIDEO_MEMORY ELSE p]

\* paging_init maps both windows to the VGA memory.
paging_init ==
    /\ video_page_table = [term_page_int(video_table_init) EXCEPT ![VIDEO_MEMORY] = VIDEO_MEMORY]
    /\ vidmap_page_table = [vidmap_page_initialization EXCEPT ![0] = VIDEO_MEMORY]

\* page_directory: page 0 is the kernel's window, the last one that of vidmap.
Window == {"kernel", "vidmap"}
page_directory == [w \in Window |-> IF w = "kernel" THEN video_page_table ELSE vidmap_page_table]
Translate(w, p) == page_directory[w][p]

Init ==
    /\ current_visible = 0
    /\ terminal_num = 0
    /\ paging_init
    /\ memory = [p \in Pages |-> BlankText]
    /\ screen_x = [t \in Terminals |-> 0]
    /\ screen_y = [t \in Terminals |-> 0]
    /\ buf_position = [t \in Terminals |-> 0]
    /\ stopped = FALSE

\* The screen of terminal t as the page behind w, p shows it.
ScreenAt(w, p, t) == [text |-> memory[Translate(w, p)], x |-> screen_x[t], y |-> screen_y[t]]

\* The text goes to the page behind w, p, the cursor is terminal t's.
SetScreen(w, p, t, s) ==
    /\ memory' = [memory EXCEPT ![Translate(w, p)] = s.text]
    /\ screen_x' = [screen_x EXCEPT ![t] = s.x]
    /\ screen_y' = [screen_y EXCEPT ![t] = s.y]

(***************************************************************************)
(* Programs of the running terminal.                                       *)
(***************************************************************************)
\* putc, for each character.
Prints(chars) ==
    /\ SetScreen("kernel", VIDEO_MEMORY, terminal_num,
                 PutAll(ScreenAt("kernel", VIDEO_MEMORY, terminal_num), chars))
    /\ UNCHANGED <<current_visible, terminal_num, tables, buf_position>>

\* terminal_write
Write(chars) == Prints(chars) /\ UNCHANGED stopped

\* The handler of an exception prints its message and loops with interrupts
\* off.  The message is on the screen of the program at fault, shown or not.
Exception(message) == Prints(message) /\ stopped' = TRUE

\* A store at the address vidmap returned.
VidmapStore(i, c) ==
    /\ memory' = [memory EXCEPT ![Translate("vidmap", 0)][i] = c]
    /\ UNCHANGED <<current_visible, terminal_num, tables, cursors, buf_position, stopped>>

(***************************************************************************)
(* The keyboard interrupt.                                                 *)
(***************************************************************************)
\* putc_keyboard; n is the length of the line typed afterwards.
Echo(c, n) ==
    /\ SetScreen("kernel", back_door_entry, current_visible,
                 Put(ScreenAt("kernel", back_door_entry, current_visible), c))
    /\ buf_position' = [buf_position EXCEPT ![current_visible] = n]
    /\ UNCHANGED <<current_visible, terminal_num, tables, stopped>>

\* A backspace is echoed even when the line is empty.
add_to_buffer_Unguarded(c) ==
    LET n == buf_position[current_visible]
    IN  \/ c = NL /\ Echo(c, 0)
        \/ c = BS /\ Echo(c, IF n = 0 THEN 0 ELSE n - 1)
        \/ c \in Inks /\ n # MAX_BUF_LENGTH - 1 /\ Echo(c, n + 1)

\* Enter, a backspace in a line that is not empty, a character that fits.
add_to_buffer(c) ==
    LET n == buf_position[current_visible]
    IN  \/ c = NL /\ Echo(c, 0)
        \/ c = BS /\ n # 0 /\ Echo(c, n - 1)
        \/ c \in Inks /\ n # MAX_BUF_LENGTH - 1 /\ Echo(c, n + 1)

\* Ctrl-L: clear blanks the page the kernel prints at, which is the running
\* terminal's, and homes the cursor of the visible one; clear_buffer.
Clear ==
    /\ ClearAnywhere \/ current_visible = terminal_num
    /\ SetScreen("kernel", VIDEO_MEMORY, current_visible, [text |-> BlankText, x |-> 0, y |-> 0])
    /\ buf_position' = [buf_position EXCEPT ![current_visible] = 0]
    /\ UNCHANGED <<current_visible, terminal_num, tables, stopped>>

\* The window of vidmap stays where it is.
term_page_switch_NoVidmap(visible, running) ==
    LET page == IF visible = running THEN VIDEO_MEMORY ELSE Backup(running)
    IN  /\ video_page_table' = [video_page_table EXCEPT ![VIDEO_MEMORY] = page]
        /\ UNCHANGED vidmap_page_table

\* Both windows are pointed at the screen of the running terminal.
term_page_switch(visible, running) ==
    LET page == IF visible = running THEN VIDEO_MEMORY ELSE Backup(running)
    IN  /\ video_page_table' = [video_page_table EXCEPT ![VIDEO_MEMORY] = page]
        /\ vidmap_page_table' = [vidmap_page_table EXCEPT ![0] = page]

\* The copies of term_visible_switch: the screen shown goes to its backup,
\* then the backup of dest to the VGA memory.
Swapped(dest) ==
    LET vga == Translate("kernel", back_door_entry)
        saved == [memory EXCEPT ![Translate("kernel", Backup(current_visible))] = memory[vga]]
    IN  [saved EXCEPT ![vga] = saved[Translate("kernel", Backup(dest))]]

\* Alt-F1 to Alt-F3, the terminal already shown too.
term_visible_switch(dest) ==
    /\ memory' = Swapped(dest)
    /\ current_visible' = dest
    /\ term_page_switch(dest, terminal_num)
    /\ UNCHANGED <<terminal_num, cursors, buf_position, stopped>>

(***************************************************************************)
(* The timer interrupt: the next terminal runs.                            *)
(***************************************************************************)
Tick ==
    LET next == (terminal_num + 1) % NUM_OF_TERMINAL
    IN  /\ terminal_num' = next
        /\ term_page_switch(current_visible, next)
        /\ UNCHANGED <<current_visible, memory, cursors, buf_position, stopped>>

Key ==
    \/ \E c \in Inks \cup {NL, BS} : add_to_buffer(c)
    \/ Clear
    \/ \E t \in Terminals : term_visible_switch(t)

Program ==
    \/ \E chars \in Texts : Write(chars) \/ Exception(chars)
    \/ \E i \in Cells, c \in Inks : VidmapStore(i, c)

Next == ~stopped /\ (Program \/ Key \/ Tick)

Spec == Init /\ [][Next]_vars

----------------------------------------------------------------------------
\* Every variable has a value of its type.
TypeOK ==
    /\ current_visible \in Terminals
    /\ terminal_num \in Terminals
    /\ video_page_table \in [Pages -> Pages]
    /\ vidmap_page_table \in [{0} -> Pages]
    /\ memory \in [Pages -> [Cells -> Inks \cup {Blank}]]
    /\ screen_x \in [Terminals -> 1 - MAX_BUF_LENGTH .. NUM_COLS]
    /\ screen_y \in [Terminals -> 0 .. NUM_ROWS - 1]
    /\ buf_position \in [Terminals -> 0 .. MAX_BUF_LENGTH - 1]
    /\ stopped \in BOOLEAN

\* The line being typed at a terminal can be erased without leaving the
\* screen: putc_keyboard moves the cursor back once for each backspace that
\* add_to_buffer lets through, over rows and with programs printing and
\* scrolling in between, and never checks that a cell is left.
LineOnScreen ==
    \A t \in Terminals :
        buf_position[t] <= Position([x |-> screen_x[t], y |-> screen_y[t]])

\* The terminals keep their screens apart: the screen of the visible
\* terminal is in the VGA memory, that of another one in its backup, and
\* printing, echoing, drawing and switching change them as Screens says.
Promised == INSTANCE Screens WITH
    screen <- [t \in Terminals |->
                  [text |-> memory[IF t = current_visible THEN VIDEO_MEMORY ELSE Backup(t)],
                   x |-> screen_x[t], y |-> screen_y[t]]],
    shown <- current_visible,
    running <- terminal_num
KeepsScreens == Promised!Spec
============================================================================
