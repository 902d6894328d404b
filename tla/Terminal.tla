------------------------------ MODULE Terminal ------------------------------
(***************************************************************************)
(* The line discipline of terminal_driver.c: the keyboard interrupt edits  *)
(* the keyboard_buffer of the visible terminal; Enter moves it to the end  *)
(* of command_buf, one buffer for all terminals, and sets the terminal's   *)
(* command_ready_flag; terminal_read waits for its own terminal's flag and *)
(* takes bytes from the start of command_buf.                              *)
(*                                                                         *)
(* The keyboard interrupt and the part of terminal_read after its cli run  *)
(* with interrupts off: one step each.  A terminal that waits in           *)
(* terminal_read spins, in the turns scheduler gives it.                   *)
(***************************************************************************)
EXTENDS Integers, Sequences, FiniteSets

CONSTANTS
    Terminals,    \* the terminals
    Chars,        \* the characters of the keyboard, Enter and Backspace apart
    MAX_BUF_LENGTH,    \* size of a keyboard_buffer
    MAX_NUM_COMMANDS,  \* size of command_buf
    NBytes,       \* the sizes programs read
    TypeAhead     \* may Enter be pressed while an entered line is unread?

NL == "newline"
NUL == "nul"

ASSUME BufferAssumption ==
    MAX_BUF_LENGTH \in Nat \ {0} /\ MAX_NUM_COMMANDS \in Nat /\ MAX_NUM_COMMANDS >= MAX_BUF_LENGTH
ASSUME CharsAssumption == NL \notin Chars /\ NUL \notin Chars
ASSUME NBytesAssumption == NBytes \subseteq Nat
ASSUME TypeAheadAssumption == TypeAhead \in BOOLEAN

KeyIndex == 0 .. MAX_BUF_LENGTH - 1
CommandIndex == 0 .. MAX_NUM_COMMANDS - 1

VARIABLES
    current_visible,     \* the terminal the keyboard types into
    keyboard_buffer,     \* terminal[t].keyboard_buffer
    buf_position,        \* terminal[t].buf_position
    command_buf,         \* the bytes of entered lines
    command_position,    \* where the next entered line goes
    command_ready_flag,  \* terminal[t].command_ready_flag, 1 or -1
    waiting,             \* nbytes of the read a terminal's program is in, or NULL
    got,                 \* the terminal and the bytes of the last read
    entered              \* history: the lines entered at a terminal and not yet read

vars == <<current_visible, keyboard_buffer, buf_position, command_buf, command_position,
          command_ready_flag, waiting, got, entered>>
keyVars == <<keyboard_buffer, buf_position>>
commandVars == <<command_buf, command_position, command_ready_flag, entered>>

NULL == -1

Init ==
    /\ current_visible \in Terminals
    /\ keyboard_buffer = [t \in Terminals |-> [i \in KeyIndex |-> NUL]]
    /\ buf_position = [t \in Terminals |-> 0]
    /\ command_buf = [i \in CommandIndex |-> NUL]
    /\ command_position = 0
    /\ command_ready_flag = [t \in Terminals |-> -1]
    /\ waiting = [t \in Terminals |-> NULL]
    /\ got = [term |-> NULL, bytes |-> <<>>]
    /\ entered = [t \in Terminals |-> <<>>]

(***************************************************************************)
(* The keyboard interrupt; v is the visible terminal.                      *)
(***************************************************************************)
\* The bytes of a buffer from its start up to position n.
Prefix(buffer, n) == [i \in 1 .. n |-> buffer[i - 1]]

\* clear_buffer: the bytes up to buf_position become NUL.
Cleared(buffer, n) == [i \in KeyIndex |-> IF i < n THEN NUL ELSE buffer[i]]

\* copy_command_buffer: the line goes to command_buf from command_position on;
\* what falls outside the array is lost to the model.
CopyCommand(text) ==
    [i \in CommandIndex |->
        IF i - command_position \in 0 .. Len(text) - 1 THEN text[i - command_position + 1]
        ELSE command_buf[i]]

\* The full buffer is noticed one character late.
AddChar_Late(v, c) ==
    /\ buf_position[v] # MAX_BUF_LENGTH
    /\ keyboard_buffer' = [keyboard_buffer EXCEPT ![v][buf_position[v]] = c]
    /\ buf_position' = [buf_position EXCEPT ![v] = @ + 1]
    /\ UNCHANGED <<current_visible, commandVars, waiting, got>>

AddChar(v, c) ==
    /\ buf_position[v] # MAX_BUF_LENGTH - 1
    /\ keyboard_buffer' = [keyboard_buffer EXCEPT ![v][buf_position[v]] = c]
    /\ buf_position' = [buf_position EXCEPT ![v] = @ + 1]
    /\ UNCHANGED <<current_visible, commandVars, waiting, got>>

Backspace(v) ==
    /\ buf_position[v] # 0
    /\ buf_position' = [buf_position EXCEPT ![v] = @ - 1]
    /\ keyboard_buffer' = [keyboard_buffer EXCEPT ![v][buf_position[v] - 1] = NUL]
    /\ UNCHANGED <<current_visible, commandVars, waiting, got>>

\* Enter: the newline is added, the line copied, the flag set, the buffer cleared.
Enter(v) ==
    LET n == buf_position[v] + 1
        full == [keyboard_buffer[v] EXCEPT ![buf_position[v]] = NL]
    IN  /\ TypeAhead \/ command_position = 0
        /\ command_buf' = CopyCommand(Prefix(full, n))
        /\ command_position' = command_position + n
        /\ command_ready_flag' = [command_ready_flag EXCEPT ![v] = 1]
        /\ keyboard_buffer' = [keyboard_buffer EXCEPT ![v] = Cleared(full, n)]
        /\ buf_position' = [buf_position EXCEPT ![v] = 0]
        /\ entered' = [entered EXCEPT ![v] = Append(@, Prefix(full, n))]
        /\ UNCHANGED <<current_visible, waiting, got>>

\* Ctrl-L clears the screen, which is not part of this module, and the line.
ClearLine(v) ==
    /\ keyboard_buffer' = [keyboard_buffer EXCEPT ![v] = Cleared(@, buf_position[v])]
    /\ buf_position' = [buf_position EXCEPT ![v] = 0]
    /\ UNCHANGED <<current_visible, commandVars, waiting, got>>

\* Alt-F1 to Alt-F3.
SwitchVisible(t) ==
    /\ current_visible' = t
    /\ UNCHANGED <<keyVars, commandVars, waiting, got>>

Key ==
    \/ \E c \in Chars : AddChar(current_visible, c)
    \/ Backspace(current_visible)
    \/ Enter(current_visible)
    \/ ClearLine(current_visible)
    \/ \E t \in Terminals : SwitchVisible(t)

(***************************************************************************)
(* terminal_read                                                           *)
(***************************************************************************)
CallRead(t) ==
    /\ waiting[t] = NULL
    /\ \E n \in NBytes : waiting' = [waiting EXCEPT ![t] = n]
    /\ UNCHANGED <<current_visible, keyVars, commandVars, got>>

\* Past the end of command_buf other variables follow.
CommandByte(i) == IF i \in CommandIndex THEN command_buf[i] ELSE NUL

\* The newline is left behind.
ReadLength_NoNewline(n) ==
    IF \E i \in 0 .. n - 1 : CommandByte(i) = NL
    THEN CHOOSE i \in 0 .. n - 1 :
             CommandByte(i) = NL /\ \A j \in 0 .. i - 1 : CommandByte(j) # NL
    ELSE n

\* The bytes copied: up to the first newline or nbytes.
ReadLength(n) ==
    IF \E i \in 0 .. n - 1 : CommandByte(i) = NL
    THEN 1 + CHOOSE i \in 0 .. n - 1 :
                 CommandByte(i) = NL /\ \A j \in 0 .. i - 1 : CommandByte(j) # NL
    ELSE n

\* The loop moves as many bytes down as it has taken, and no more.
ShiftDown(n) == [i \in CommandIndex |-> IF i < n THEN CommandByte(i + n) ELSE command_buf[i]]

\* command_position is left where it was.
FinishRead_Stays(t) ==
    LET n == ReadLength(waiting[t])
    IN  /\ waiting[t] # NULL
        /\ command_ready_flag[t] # -1
        /\ got' = [term |-> t, bytes |-> [i \in 1 .. n |-> CommandByte(i - 1)]]
        /\ command_buf' = ShiftDown(n)
        /\ command_ready_flag' = [command_ready_flag EXCEPT ![t] = -1]
        /\ waiting' = [waiting EXCEPT ![t] = NULL]
        /\ entered' = [entered EXCEPT ![t] = Tail(@)]
        /\ UNCHANGED <<current_visible, keyVars, command_position>>

FinishRead(t) ==
    LET n == ReadLength(waiting[t])
    IN  /\ waiting[t] # NULL
        /\ command_ready_flag[t] # -1
        /\ got' = [term |-> t, bytes |-> [i \in 1 .. n |-> CommandByte(i - 1)]]
        /\ command_buf' = ShiftDown(n)
        /\ command_position' = command_position - n
        /\ command_ready_flag' = [command_ready_flag EXCEPT ![t] = -1]
        /\ waiting' = [waiting EXCEPT ![t] = NULL]
        /\ entered' = [entered EXCEPT ![t] = Tail(@)]
        /\ UNCHANGED <<current_visible, keyVars>>

Read == \E t \in Terminals : CallRead(t) \/ FinishRead(t)

Next == Key \/ Read

\* Every terminal gets its turns, so a read whose flag is set goes on.
Spec == Init /\ [][Next]_vars /\ \A t \in Terminals : WF_vars(FinishRead(t))

----------------------------------------------------------------------------
\* Every variable has a value of its type.
TypeOK ==
    /\ current_visible \in Terminals
    /\ keyboard_buffer \in [Terminals -> [KeyIndex -> Chars \cup {NL, NUL}]]
    /\ buf_position \in [Terminals -> KeyIndex]
    /\ command_buf \in [CommandIndex -> Chars \cup {NL, NUL}]
    /\ command_position \in 0 .. MAX_NUM_COMMANDS
    /\ command_ready_flag \in [Terminals -> {1, -1}]
    /\ waiting \in [Terminals -> NBytes \cup {NULL}]

\* The flags and command_buf agree: at most one terminal has a line ready,
\* and then the bytes before command_position are that line, ended by its
\* only newline; with no line ready nothing is left in front of the next one.
FlagsMatchBuffer ==
    /\ \A t, u \in Terminals : command_ready_flag[t] = 1 /\ command_ready_flag[u] = 1 => t = u
    /\ command_position > 0 <=> \E t \in Terminals : command_ready_flag[t] = 1
    /\ \A i \in 0 .. command_position - 1 :
           command_buf[i] = NL <=> i = command_position - 1

\* terminal_read returns a line that was entered at the terminal of its caller.
ReadsOwnLine ==
    [][got' # got => \E i \in DOMAIN entered[got'.term] :
                         got'.bytes = entered[got'.term][i]]_vars

\* The line discipline implements the service of LineService: the line being
\* typed is the keyboard_buffer up to buf_position, and the line that waits
\* at the terminal whose flag is set is command_buf up to command_position.
Lines == INSTANCE LineService WITH
    LineMax <- MAX_BUF_LENGTH - 1,
    line <- [t \in Terminals |-> Prefix(keyboard_buffer[t], buf_position[t])],
    pending <- [t \in Terminals |->
                   IF command_ready_flag[t] = 1
                   THEN <<Prefix(command_buf, command_position)>> ELSE <<>>],
    reading <- {t \in Terminals : waiting[t] # NULL}
ServesLines == Lines!Spec
============================================================================
