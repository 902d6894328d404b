--------------------------- MODULE TerminalProofs ---------------------------
(***************************************************************************)
(* Proofs about Terminal, for any terminals, characters and buffer sizes:  *)
(* when Enter is pressed only after the last line has been read, and every *)
(* read asks for at least a whole line, as the shell does, the one         *)
(* command_buf serves all terminals.                                       *)
(***************************************************************************)
EXTENDS Terminal, SequenceTheorems, TLAPS

Orderly == ~TypeAhead /\ \A n \in NBytes : n >= MAX_BUF_LENGTH

(***************************************************************************)
(* The inductive invariant.  A line being typed has no newline in it; the  *)
(* line that waits is no longer than a keyboard_buffer, so that a read     *)
(* takes all of it; and it is the line entered at the terminal whose flag  *)
(* is set.                                                                 *)
(***************************************************************************)
TypedChars ==
    \A t \in Terminals : \A i \in 0 .. buf_position[t] - 1 : keyboard_buffer[t][i] \in Chars

FitsOneRead == command_position <= MAX_BUF_LENGTH

EnteredWaits ==
    /\ entered \in [Terminals -> Seq(Seq(Chars \cup {NL, NUL}))]
    /\ \A t \in Terminals :
          entered[t] = IF command_ready_flag[t] = 1
                       THEN <<Prefix(command_buf, command_position)>> ELSE <<>>

IInv == TypeOK /\ FlagsMatchBuffer /\ TypedChars /\ FitsOneRead /\ EnteredWaits

(***************************************************************************)
(* Facts about the helpers.                                                *)
(***************************************************************************)
\* A buffer up to n is a sequence of n bytes.
LEMMA PrefixIsSeq ==
    ASSUME NEW S, NEW b, NEW n \in Nat, \A i \in 0 .. n - 1 : b[i] \in S
    PROVE  /\ Prefix(b, n) \in Seq(S)
           /\ Len(Prefix(b, n)) = n
           /\ \A i \in 1 .. n : Prefix(b, n)[i] = b[i - 1]
  BY DEF Prefix

\* Buffers that agree up to n have the same bytes there.
LEMMA PrefixEqual ==
    ASSUME NEW b, NEW c, NEW n \in Nat, \A i \in 0 .. n - 1 : b[i] = c[i]
    PROVE  Prefix(b, n) = Prefix(c, n)
  <1>1. \A i \in 1 .. n : i - 1 \in 0 .. n - 1
    OBVIOUS
  <1> QED  BY <1>1 DEF Prefix

\* A buffer up to 0 is the empty line.
LEMMA PrefixEmpty == ASSUME NEW b PROVE Prefix(b, 0) = << >>
  BY DEF Prefix

\* A byte stored at n makes the line one byte longer.
LEMMA PrefixAppend ==
    ASSUME NEW b, NEW d, NEW n \in Nat, NEW m, m = n + 1, \A i \in 0 .. n - 1 : d[i] = b[i]
    PROVE  Prefix(d, m) = Append(Prefix(b, n), d[n])
  <1> DEFINE S == {d[i] : i \in 0 .. n}
  <1>0. \A i \in 0 .. n - 1 : b[i] \in S
    OBVIOUS
  <1>1. m \in Nat /\ \A i \in 0 .. m - 1 : d[i] \in S
    OBVIOUS
  <1>2. d[n] \in S
    OBVIOUS
  <1> HIDE DEF S
  <1>3. Prefix(b, n) \in Seq(S) /\ Len(Prefix(b, n)) = n
    BY <1>0, PrefixIsSeq
  <1>4. Prefix(d, m) \in Seq(S) /\ Len(Prefix(d, m)) = m
    BY <1>1, PrefixIsSeq
  <1>5. \A i \in 1 .. m : Prefix(d, m)[i] = Append(Prefix(b, n), d[n])[i]
    BY <1>3 DEF Prefix
  <1> QED  BY <1>3, <1>4, <1>5, <1>2, AppendProperties, SeqEqual

\* Without its last byte a line is one byte shorter.
LEMMA PrefixShorten ==
    ASSUME NEW b, NEW d, NEW m \in Nat, \A i \in 0 .. m - 1 : d[i] = b[i]
    PROVE  Prefix(d, m) = SubSeq(Prefix(b, m + 1), 1, m)
  <1> DEFINE n == m + 1
             S == {b[i] : i \in 0 .. n - 1}
  <1>0. \A i \in 0 .. n - 1 : b[i] \in S
    OBVIOUS
  <1>1. m \in Nat /\ \A i \in 0 .. m - 1 : d[i] \in S
    OBVIOUS
  <1> HIDE DEF S
  <1>2. Prefix(b, n) \in Seq(S) /\ Len(Prefix(b, n)) = n
    BY <1>0, PrefixIsSeq
  <1>3. Prefix(d, m) \in Seq(S) /\ Len(Prefix(d, m)) = m
    BY <1>1, PrefixIsSeq
  <1>4. \A i \in 1 .. m : Prefix(d, m)[i] = Prefix(b, n)[i]
    BY DEF Prefix
  <1>5. /\ SubSeq(Prefix(b, n), 1, m) \in Seq(S)
        /\ Len(SubSeq(Prefix(b, n), 1, m)) = m
        /\ \A i \in 1 .. m : SubSeq(Prefix(b, n), 1, m)[i] = Prefix(b, n)[i]
    BY <1>2, <1>1
  <1> QED  BY <1>3, <1>4, <1>5, SeqEqual

\* With a line ready, a read of at least MAX_BUF_LENGTH bytes takes just that
\* line: its newline is the first one in command_buf.
LEMMA ReadsWholeLine ==
    ASSUME Orderly, IInv, NEW t \in Terminals, waiting[t] # NULL, command_ready_flag[t] # -1
    PROVE  /\ command_ready_flag[t] = 1
           /\ ReadLength(waiting[t]) = command_position
           /\ [i \in 1 .. command_position |-> CommandByte(i - 1)]
                 = Prefix(command_buf, command_position)
           /\ command_position > 0
  <1> DEFINE n == waiting[t]
             last == command_position - 1
  <1>1. command_ready_flag[t] = 1
    BY DEF IInv, TypeOK
  <1>2. command_position > 0 /\ command_position \in Nat /\ command_position <= MAX_NUM_COMMANDS
    BY <1>1, BufferAssumption DEF IInv, FlagsMatchBuffer, TypeOK
  <1>3. n \in Nat /\ command_position <= n
    <2>1. n \in NBytes
      BY DEF IInv, TypeOK
    <2>2. n \in Nat /\ n >= MAX_BUF_LENGTH
      BY <2>1, NBytesAssumption DEF Orderly
    <2>3. command_position <= MAX_BUF_LENGTH
      BY DEF IInv, FitsOneRead
    <2> QED  BY <2>2, <2>3, <1>2, BufferAssumption
  <1>4. \A i \in 0 .. last : CommandByte(i) = command_buf[i]
    BY <1>2, BufferAssumption DEF CommandByte, CommandIndex
  <1>5. \A i \in 0 .. last : CommandByte(i) = NL <=> i = last
    BY <1>2, <1>4 DEF IInv, FlagsMatchBuffer
  <1>6. last \in 0 .. n - 1 /\ CommandByte(last) = NL /\ \A j \in 0 .. last - 1 : CommandByte(j) # NL
    BY <1>2, <1>3, <1>5
  <1>7. ASSUME NEW i \in 0 .. n - 1, CommandByte(i) = NL, \A j \in 0 .. i - 1 : CommandByte(j) # NL
        PROVE  i = last
    BY <1>2, <1>5, <1>6, <1>7
  <1>8. (CHOOSE i \in 0 .. n - 1 : CommandByte(i) = NL /\ \A j \in 0 .. i - 1 : CommandByte(j) # NL)
            = last
    BY <1>6, <1>7
  <1>9. ReadLength(n) = command_position
    BY <1>2, <1>6, <1>8 DEF ReadLength
  <1>10. [i \in 1 .. command_position |-> CommandByte(i - 1)] = Prefix(command_buf, command_position)
    BY <1>2, <1>4 DEF Prefix
  <1> QED  BY <1>1, <1>2, <1>9, <1>10

(***************************************************************************)
(* The invariant is preserved, action by action.                           *)
(***************************************************************************)
Bytes == Chars \cup {NL, NUL}

\* At boot nothing is typed, nothing waits and no flag is set.
LEMMA InitInv == Init => IInv
  <1> SUFFICES ASSUME Init PROVE IInv
    OBVIOUS
  <1>1. 0 \in KeyIndex /\ 0 \in 0 .. MAX_NUM_COMMANDS
    BY BufferAssumption DEF KeyIndex
  <1>2. TypeOK
    BY <1>1 DEF Init, TypeOK
  <1>3. FlagsMatchBuffer /\ TypedChars /\ FitsOneRead
    BY BufferAssumption DEF Init, FlagsMatchBuffer, TypedChars, FitsOneRead
  <1>4. EnteredWaits
    BY EmptySeq DEF Init, EnteredWaits
  <1> QED  BY <1>2, <1>3, <1>4 DEF IInv

\* An action that leaves the entered lines alone keeps what is said of them.
LEMMA CommandsKept ==
    ASSUME IInv, UNCHANGED commandVars
    PROVE  FlagsMatchBuffer' /\ FitsOneRead' /\ EnteredWaits'
  <1>1. FlagsMatchBuffer' /\ FitsOneRead'
    BY DEF IInv, commandVars, FlagsMatchBuffer, FitsOneRead
  <1>2. EnteredWaits'
    BY DEF IInv, commandVars, EnteredWaits, Prefix
  <1> QED  BY <1>1, <1>2

\* handle_keypress stops one byte before the end of the buffer, so the
\* character and the newline after it both have a place.
LEMMA AddCharInv ==
    ASSUME IInv, NEW c \in Chars, AddChar(current_visible, c)
    PROVE  IInv'
  <1> DEFINE v == current_visible
  <1>0. v \in Terminals /\ buf_position[v] \in KeyIndex /\ buf_position[v] # MAX_BUF_LENGTH - 1
    BY DEF IInv, TypeOK, AddChar
  <1>1. v \in Terminals /\ buf_position[v] \in KeyIndex /\ buf_position[v] + 1 \in KeyIndex
    BY <1>0, BufferAssumption DEF KeyIndex
  <1>2. TypeOK'
    BY <1>1 DEF IInv, TypeOK, AddChar, commandVars
  <1>3. TypedChars'
    <2> SUFFICES ASSUME NEW t \in Terminals, NEW i \in 0 .. buf_position'[t] - 1
                 PROVE  keyboard_buffer'[t][i] \in Chars
      BY DEF TypedChars
    <2>1. CASE t = v
      <3>1. buf_position'[t] = buf_position[t] + 1
        BY <2>1, <1>1 DEF IInv, TypeOK, AddChar
      <3>2. CASE i = buf_position[t]
        BY <3>2, <2>1, <1>1 DEF IInv, TypeOK, AddChar
      <3>3. CASE i # buf_position[t]
        <4>1. i \in 0 .. buf_position[t] - 1
          BY <3>1, <3>3, <2>1, <1>1 DEF KeyIndex
        <4>2. keyboard_buffer'[t][i] = keyboard_buffer[t][i]
          BY <3>3, <2>1, <1>1 DEF IInv, TypeOK, AddChar
        <4> QED  BY <4>1, <4>2 DEF IInv, TypedChars
      <3> QED  BY <3>2, <3>3
    <2>2. CASE t # v
      BY <2>2 DEF IInv, TypeOK, AddChar, TypedChars
    <2> QED  BY <2>1, <2>2
  <1>4. FlagsMatchBuffer' /\ FitsOneRead' /\ EnteredWaits'
    BY CommandsKept DEF AddChar
  <1> QED  BY <1>2, <1>3, <1>4 DEF IInv

\* A backspace at the start of the line is ignored, so the position stays in
\* the buffer.
LEMMA BackspaceInv ==
    ASSUME IInv, Backspace(current_visible)
    PROVE  IInv'
  <1> DEFINE v == current_visible
  <1>1. v \in Terminals /\ buf_position[v] \in KeyIndex /\ buf_position[v] - 1 \in KeyIndex
    BY BufferAssumption DEF IInv, TypeOK, Backspace, KeyIndex
  <1>2. TypeOK'
    BY <1>1 DEF IInv, TypeOK, Backspace, commandVars
  <1>3. TypedChars'
    <2> SUFFICES ASSUME NEW t \in Terminals, NEW i \in 0 .. buf_position'[t] - 1
                 PROVE  keyboard_buffer'[t][i] \in Chars
      BY DEF TypedChars
    <2>1. CASE t = v
      <3>1. buf_position'[t] = buf_position[t] - 1
        BY <2>1, <1>1 DEF IInv, TypeOK, Backspace
      <3>2. i \in 0 .. buf_position[t] - 1 /\ i # buf_position[t] - 1
        BY <3>1, <2>1, <1>1 DEF KeyIndex
      <3>3. keyboard_buffer'[t][i] = keyboard_buffer[t][i]
        BY <3>2, <2>1, <1>1 DEF IInv, TypeOK, Backspace
      <3> QED  BY <3>2, <3>3 DEF IInv, TypedChars
    <2>2. CASE t # v
      BY <2>2 DEF IInv, TypeOK, Backspace, TypedChars
    <2> QED  BY <2>1, <2>2
  <1>4. FlagsMatchBuffer' /\ FitsOneRead' /\ EnteredWaits'
    BY CommandsKept DEF Backspace
  <1> QED  BY <1>2, <1>3, <1>4 DEF IInv

\* Ctrl-L empties the line being typed and nothing else.
LEMMA ClearLineInv ==
    ASSUME IInv, ClearLine(current_visible)
    PROVE  IInv'
  <1> DEFINE v == current_visible
  <1>1. v \in Terminals /\ 0 \in KeyIndex
    BY BufferAssumption DEF IInv, TypeOK, KeyIndex
  <1>2. Cleared(keyboard_buffer[v], buf_position[v]) \in [KeyIndex -> Bytes]
    BY <1>1 DEF IInv, TypeOK, Cleared, Bytes
  <1>3. TypeOK'
    BY <1>1, <1>2 DEF IInv, TypeOK, ClearLine, commandVars, Bytes
  <1>4. TypedChars'
    <2> SUFFICES ASSUME NEW t \in Terminals, NEW i \in 0 .. buf_position'[t] - 1
                 PROVE  keyboard_buffer'[t][i] \in Chars
      BY DEF TypedChars
    <2>1. t # v
      BY <1>1 DEF IInv, TypeOK, ClearLine
    <2> QED  BY <2>1 DEF IInv, TypeOK, ClearLine, TypedChars
  <1>5. FlagsMatchBuffer' /\ FitsOneRead' /\ EnteredWaits'
    BY CommandsKept DEF ClearLine
  <1> QED  BY <1>3, <1>4, <1>5 DEF IInv

\* Alt-F1 to Alt-F3 only choose whose buffer the next key goes to.
LEMMA SwitchVisibleInv ==
    ASSUME IInv, NEW t \in Terminals, SwitchVisible(t)
    PROVE  IInv'
  <1>1. TypeOK' /\ TypedChars'
    BY DEF IInv, TypeOK, TypedChars, SwitchVisible, keyVars, commandVars
  <1>2. FlagsMatchBuffer' /\ FitsOneRead' /\ EnteredWaits'
    BY CommandsKept DEF SwitchVisible
  <1> QED  BY <1>1, <1>2 DEF IInv

\* Asking for a line changes no buffer.
LEMMA CallReadInv ==
    ASSUME IInv, NEW t \in Terminals, CallRead(t)
    PROVE  IInv'
  <1>1. TypeOK' /\ TypedChars'
    BY DEF IInv, TypeOK, TypedChars, CallRead, keyVars, commandVars
  <1>2. FlagsMatchBuffer' /\ FitsOneRead' /\ EnteredWaits'
    BY CommandsKept DEF CallRead
  <1> QED  BY <1>1, <1>2 DEF IInv

\* What Enter finds and leaves: no line waits, and the line typed, with its
\* newline, becomes the start of command_buf.
LEMMA EnterFacts ==
    ASSUME Orderly, IInv, Enter(current_visible)
    PROVE  LET v == current_visible
               n == buf_position[v] + 1
               full == [keyboard_buffer[v] EXCEPT ![buf_position[v]] = NL]
           IN  /\ v \in Terminals /\ n \in 1 .. MAX_BUF_LENGTH
               /\ command_position = 0
               /\ \A t \in Terminals : command_ready_flag[t] = -1
               /\ full \in [KeyIndex -> Bytes]
               /\ \A i \in 0 .. n - 1 : i \in KeyIndex /\ (full[i] = NL <=> i = n - 1)
               /\ command_buf' \in [CommandIndex -> Bytes]
               /\ \A i \in 0 .. n - 1 : command_buf'[i] = full[i]
               /\ Prefix(full, n) \in Seq(Bytes)
               /\ Prefix(command_buf', n) = Prefix(full, n)
  <1> DEFINE v == current_visible
             n == buf_position[v] + 1
             full == [keyboard_buffer[v] EXCEPT ![buf_position[v]] = NL]
  <1>1. v \in Terminals /\ buf_position[v] \in KeyIndex /\ keyboard_buffer[v] \in [KeyIndex -> Bytes]
    BY DEF IInv, TypeOK, Bytes
  <1>2. n \in 1 .. MAX_BUF_LENGTH /\ n \in Nat /\ n - 1 = buf_position[v]
    BY <1>1, BufferAssumption DEF KeyIndex
  <1>3. command_position = 0
    BY DEF Enter, Orderly
  <1>4. \A t \in Terminals : command_ready_flag[t] = -1
    BY <1>3 DEF IInv, TypeOK, FlagsMatchBuffer
  <1>5. full \in [KeyIndex -> Bytes]
    BY <1>1 DEF Bytes
  <1>6. ASSUME NEW i \in 0 .. n - 1
        PROVE  i \in KeyIndex /\ (full[i] = NL <=> i = n - 1)
    <2>1. i \in KeyIndex
      BY <1>1, <1>2, BufferAssumption DEF KeyIndex
    <2>2. CASE i = n - 1
      BY <2>1, <2>2, <1>1, <1>2
    <2>3. CASE i # n - 1
      <3>1. i \in 0 .. buf_position[v] - 1 /\ i # buf_position[v]
        BY <2>3, <1>1 DEF KeyIndex
      <3>2. full[i] = keyboard_buffer[v][i] /\ keyboard_buffer[v][i] \in Chars
        BY <3>1, <2>1, <1>1 DEF IInv, TypedChars
      <3> QED  BY <3>2, <2>1, <2>3, CharsAssumption
    <2> QED  BY <2>2, <2>3
  <1>7. command_buf' = CopyCommand(Prefix(full, n))
    BY DEF Enter
  <1> HIDE DEF full, n
  <1>8. Prefix(full, n) \in Seq(Bytes) /\ Len(Prefix(full, n)) = n
        /\ \A i \in 1 .. n : Prefix(full, n)[i] = full[i - 1]
    <2>1. \A i \in 0 .. n - 1 : full[i] \in Bytes
      BY <1>5, <1>6
    <2>2. n \in Nat
      BY <1>2
    <2>3. PICK b : b = full
      OBVIOUS
    <2>4. PICK k : k = n
      OBVIOUS
    <2>5. /\ Prefix(b, k) \in Seq(Bytes) /\ Len(Prefix(b, k)) = k
          /\ \A i \in 1 .. k : Prefix(b, k)[i] = b[i - 1]
      <3>1. k \in Nat /\ \A i \in 0 .. k - 1 : b[i] \in Bytes
        BY <2>1, <2>2, <2>3, <2>4
      <3>2. Prefix(b, k) \in Seq(Bytes) /\ Len(Prefix(b, k)) = k
        BY ONLY <3>1, PrefixIsSeq
      <3>3. \A i \in 1 .. k : Prefix(b, k)[i] = b[i - 1]
        BY ONLY <3>1 DEF Prefix
      <3> QED  BY <3>2, <3>3
    <2> QED  BY <2>3, <2>4, <2>5
  <1>9. command_buf' = [i \in CommandIndex |-> IF i \in 0 .. n - 1 THEN full[i] ELSE command_buf[i]]
    <2>1. ASSUME NEW i \in CommandIndex
          PROVE  CopyCommand(Prefix(full, n))[i] = IF i \in 0 .. n - 1 THEN full[i] ELSE command_buf[i]
      <3>1. CopyCommand(Prefix(full, n))[i] =
                IF i \in 0 .. n - 1 THEN Prefix(full, n)[i + 1] ELSE command_buf[i]
        BY <1>3, <1>8, BufferAssumption DEF CopyCommand, CommandIndex
      <3>2. i \in 0 .. n - 1 => i + 1 \in 1 .. n /\ (i + 1) - 1 = i
        BY <1>2
      <3> QED  BY <3>1, <3>2, <1>8
    <2> QED  BY <2>1, <1>7 DEF CopyCommand
  <1>10. command_buf' \in [CommandIndex -> Bytes]
    <2>1. \A i \in 0 .. n - 1 : full[i] \in Bytes
      BY <1>5, <1>6
    <2>2. command_buf \in [CommandIndex -> Bytes]
      BY DEF IInv, TypeOK, Bytes
    <2> QED  BY <2>1, <2>2, <1>9
  <1>11. \A i \in 0 .. n - 1 : command_buf'[i] = full[i]
    <2>1. \A i \in 0 .. n - 1 : i \in CommandIndex
      BY <1>2, BufferAssumption DEF CommandIndex
    <2> QED  BY <2>1, <1>9
  <1>12. Prefix(command_buf', n) = Prefix(full, n)
    BY <1>2, <1>11, PrefixEqual
  <1> QED  BY <1>1, <1>2, <1>3, <1>4, <1>5, <1>6, <1>8, <1>10, <1>11, <1>12 DEF full, n

\* Enter makes the line typed the one that waits, at the terminal whose flag
\* it sets.
LEMMA EnterInv ==
    ASSUME Orderly, IInv, Enter(current_visible)
    PROVE  IInv'
  <1> DEFINE v == current_visible
             n == buf_position[v] + 1
             full == [keyboard_buffer[v] EXCEPT ![buf_position[v]] = NL]
  <1>1. /\ v \in Terminals /\ n \in 1 .. MAX_BUF_LENGTH
        /\ command_position = 0
        /\ \A t \in Terminals : command_ready_flag[t] = -1
        /\ full \in [KeyIndex -> Bytes]
        /\ \A i \in 0 .. n - 1 : i \in KeyIndex /\ (full[i] = NL <=> i = n - 1)
        /\ command_buf' \in [CommandIndex -> Bytes]
        /\ \A i \in 0 .. n - 1 : command_buf'[i] = full[i]
        /\ Prefix(full, n) \in Seq(Bytes)
        /\ Prefix(command_buf', n) = Prefix(full, n)
    BY EnterFacts
  <1>2. command_position' = n
    BY <1>1 DEF Enter
  <1>3. command_ready_flag' = [command_ready_flag EXCEPT ![v] = 1]
    BY DEF Enter
  <1>4. /\ keyboard_buffer' = [keyboard_buffer EXCEPT ![v] = Cleared(full, n)]
        /\ buf_position' = [buf_position EXCEPT ![v] = 0]
        /\ UNCHANGED <<current_visible, waiting>>
    BY DEF Enter
  <1>5. entered' = [entered EXCEPT ![v] = Append(@, Prefix(full, n))]
    BY DEF Enter
  <1> HIDE DEF full, n
  <1>6. TypeOK'
    <2>1. Cleared(full, n) \in [KeyIndex -> Bytes]
      BY <1>1 DEF Cleared, Bytes
    <2>2. 0 \in KeyIndex /\ n \in 0 .. MAX_NUM_COMMANDS
      BY <1>1, BufferAssumption DEF KeyIndex
    <2> QED  BY <2>1, <2>2, <1>1, <1>2, <1>3, <1>4 DEF IInv, TypeOK, Bytes
  <1>7. \A t \in Terminals : command_ready_flag'[t] = IF t = v THEN 1 ELSE -1
    BY <1>1, <1>3 DEF IInv, TypeOK
  <1>8. FlagsMatchBuffer'
    BY <1>1, <1>2, <1>7 DEF FlagsMatchBuffer
  <1>9. TypedChars'
    <2> SUFFICES ASSUME NEW t \in Terminals, NEW i \in 0 .. buf_position'[t] - 1
                 PROVE  keyboard_buffer'[t][i] \in Chars
      BY DEF TypedChars
    <2>1. t # v
      BY <1>1, <1>4 DEF IInv, TypeOK
    <2> QED  BY <2>1, <1>4 DEF IInv, TypeOK, TypedChars
  <1>10. FitsOneRead'
    BY <1>1, <1>2, BufferAssumption DEF FitsOneRead
  <1>11. EnteredWaits'
    <2>0. \A t \in Terminals : command_ready_flag[t] # 1
      BY <1>1
    <2>1. \A t \in Terminals : entered[t] = << >>
      BY <2>0 DEF IInv, EnteredWaits
    <2>2. Append(<< >>, Prefix(full, n)) = <<Prefix(full, n)>>
      OBVIOUS
    <2>3. entered' = [t \in Terminals |-> IF t = v THEN <<Prefix(full, n)>> ELSE << >>]
      BY <2>1, <2>2, <1>5 DEF IInv, EnteredWaits
    <2>4. entered' \in [Terminals -> Seq(Seq(Bytes))]
      BY <2>3, <1>1
    <2> QED  BY <2>3, <2>4, <1>1, <1>2, <1>7 DEF EnteredWaits, Bytes
  <1> QED  BY <1>6, <1>8, <1>9, <1>10, <1>11 DEF IInv

\* A read takes the whole line that waits and clears the one flag that is set.
LEMMA FinishReadInv ==
    ASSUME Orderly, IInv, NEW t \in Terminals, FinishRead(t)
    PROVE  IInv'
  <1>1. /\ command_ready_flag[t] = 1
        /\ ReadLength(waiting[t]) = command_position
        /\ command_position > 0
    BY ReadsWholeLine DEF FinishRead
  <1>2. command_position \in Nat
    BY BufferAssumption DEF IInv, TypeOK
  <1>3. /\ command_position' = 0
        /\ command_buf' = ShiftDown(command_position)
        /\ command_ready_flag' = [command_ready_flag EXCEPT ![t] = -1]
        /\ waiting' = [waiting EXCEPT ![t] = NULL]
        /\ entered' = [entered EXCEPT ![t] = Tail(@)]
        /\ UNCHANGED <<current_visible, keyVars>>
    BY <1>1, <1>2 DEF FinishRead
  <1>4. \A u \in Terminals : command_ready_flag'[u] = -1
    BY <1>1, <1>3 DEF IInv, TypeOK, FlagsMatchBuffer
  <1>5. TypeOK'
    <2>1. \A i \in CommandIndex : ShiftDown(command_position)[i] \in Bytes
      BY DEF IInv, TypeOK, ShiftDown, CommandByte, Bytes
    <2>2. command_buf' \in [CommandIndex -> Bytes]
      BY <2>1, <1>3 DEF ShiftDown
    <2> QED  BY <2>2, <1>3, BufferAssumption DEF IInv, TypeOK, keyVars, Bytes
  <1>6. TypedChars'
    BY <1>3 DEF IInv, TypedChars, keyVars
  <1>7. FlagsMatchBuffer' /\ FitsOneRead'
    BY <1>3, <1>4, BufferAssumption DEF FlagsMatchBuffer, FitsOneRead
  <1>8. EnteredWaits'
    <2>1. entered[t] = <<Prefix(command_buf, command_position)>>
      BY <1>1 DEF IInv, EnteredWaits
    <2>2. \A u \in Terminals \ {t} : entered[u] = << >>
      BY <1>1 DEF IInv, TypeOK, FlagsMatchBuffer, EnteredWaits
    <2>3. Tail(entered[t]) = << >>
      BY <2>1
    <2>4. entered' = [u \in Terminals |-> << >>]
      BY <2>2, <2>3, <1>3 DEF IInv, EnteredWaits
    <2> QED  BY <2>4, <1>4 DEF EnteredWaits
  <1> QED  BY <1>5, <1>6, <1>7, <1>8 DEF IInv

\* Every step keeps the invariant.
LEMMA NextInv == Orderly /\ IInv /\ [Next]_vars => IInv'
  <1> SUFFICES ASSUME Orderly, IInv, [Next]_vars PROVE IInv'
    OBVIOUS
  <1>1. CASE Key
    BY <1>1, AddCharInv, BackspaceInv, EnterInv, ClearLineInv, SwitchVisibleInv DEF Key
  <1>2. CASE Read
    BY <1>2, CallReadInv, FinishReadInv DEF Read
  <1>3. CASE UNCHANGED vars
    <2>1. FlagsMatchBuffer' /\ FitsOneRead' /\ EnteredWaits'
      BY <1>3, CommandsKept DEF vars, commandVars
    <2> QED  BY <2>1, <1>3 DEF vars, IInv, TypeOK, TypedChars
  <1> QED  BY <1>1, <1>2, <1>3 DEF Next

\* The invariant holds in every state of the line discipline.
THEOREM Invariance == ASSUME Orderly PROVE Spec => []IInv
  <1>1. Init => IInv
    BY InitInv
  <1>2. IInv /\ [Next]_vars => IInv'
    BY NextInv
  <1> QED  BY <1>1, <1>2, PTL DEF Spec

\* Every variable keeps its type: no key writes outside a keyboard_buffer,
\* and the entered line never runs past command_buf.
THEOREM TypeCorrect == ASSUME Orderly PROVE Spec => []TypeOK
  <1>1. IInv => TypeOK
    BY DEF IInv
  <1> QED  BY <1>1, Invariance, PTL

\* The flags and the one command_buf agree: at most one line waits, and it is
\* all that is before command_position.
THEOREM FlagsCorrect == ASSUME Orderly PROVE Spec => []FlagsMatchBuffer
  <1>1. IInv => FlagsMatchBuffer
    BY DEF IInv
  <1> QED  BY <1>1, Invariance, PTL

\* A read returns a line that was entered at its own terminal.
THEOREM OwnLines == ASSUME Orderly PROVE Spec => ReadsOwnLine
  <1> DEFINE Own == got' # got => \E i \in DOMAIN entered[got'.term] :
                                      got'.bytes = entered[got'.term][i]
  <1>1. IInv /\ [Next]_vars => [Own]_vars
    <2> SUFFICES ASSUME IInv, [Next]_vars PROVE Own
      OBVIOUS
    <2>1. CASE Key \/ UNCHANGED vars
      BY <2>1 DEF Key, vars, AddChar, Backspace, Enter, ClearLine, SwitchVisible
    <2>2. ASSUME NEW t \in Terminals, CallRead(t) PROVE Own
      BY <2>2 DEF CallRead
    <2>3. ASSUME NEW t \in Terminals, FinishRead(t) PROVE Own
      <3>1. command_ready_flag[t] = 1
            /\ got' = [term |-> t, bytes |-> Prefix(command_buf, command_position)]
        BY <2>3, ReadsWholeLine DEF FinishRead
      <3>2. entered[t] = <<Prefix(command_buf, command_position)>>
        BY <3>1 DEF IInv, EnteredWaits
      <3>3. 1 \in DOMAIN entered[t] /\ entered[t][1] = Prefix(command_buf, command_position)
        BY <3>2
      <3> QED  BY <3>1, <3>3
    <2> QED  BY <2>1, <2>2, <2>3 DEF Next, Read
  <1>2. Spec => []IInv
    BY Invariance
  <1> QED  BY <1>1, <1>2, PTL DEF Spec, ReadsOwnLine

(***************************************************************************)
(* What holds without Orderly, whatever is entered and read.               *)
(***************************************************************************)
KeysOK ==
    /\ current_visible \in Terminals
    /\ keyboard_buffer \in [Terminals -> [KeyIndex -> Bytes]]
    /\ buf_position \in [Terminals -> KeyIndex]

\* The keyboard buffers need no discipline of the readers: no key, however many
\* lines are entered and left unread, moves buf_position out of its buffer,
\* and Enter always finds a place for its newline.
THEOREM KeyBuffersInBounds == Spec => []KeysOK
  <1>1. Init => KeysOK
    BY BufferAssumption DEF Init, KeysOK, KeyIndex, Bytes
  <1>2. KeysOK /\ [Next]_vars => KeysOK'
    <2> SUFFICES ASSUME KeysOK, [Next]_vars PROVE KeysOK'
      OBVIOUS
    <2> DEFINE v == current_visible
    <2>0. v \in Terminals /\ buf_position[v] \in KeyIndex /\ keyboard_buffer[v] \in [KeyIndex -> Bytes]
          /\ 0 \in KeyIndex
      BY BufferAssumption DEF KeysOK, KeyIndex
    <2>1. ASSUME NEW c \in Chars, AddChar(current_visible, c) PROVE KeysOK'
      <3>1. buf_position[v] + 1 \in KeyIndex
        BY <2>0, <2>1, BufferAssumption DEF AddChar, KeyIndex
      <3> QED  BY <2>0, <2>1, <3>1 DEF AddChar, KeysOK, Bytes
    <2>2. CASE Backspace(current_visible)
      <3>1. buf_position[v] - 1 \in KeyIndex
        BY <2>0, <2>2, BufferAssumption DEF Backspace, KeyIndex
      <3> QED  BY <2>0, <2>2, <3>1 DEF Backspace, KeysOK, Bytes
    <2>3. CASE Enter(current_visible)
      <3> DEFINE full == [keyboard_buffer[v] EXCEPT ![buf_position[v]] = NL]
      <3>1. Cleared(full, buf_position[v] + 1) \in [KeyIndex -> Bytes]
        BY <2>0 DEF Cleared, Bytes
      <3> QED  BY <2>0, <2>3, <3>1 DEF Enter, KeysOK
    <2>4. CASE ClearLine(current_visible)
      <3>1. Cleared(keyboard_buffer[v], buf_position[v]) \in [KeyIndex -> Bytes]
        BY <2>0 DEF Cleared, Bytes
      <3> QED  BY <2>0, <2>4, <3>1 DEF ClearLine, KeysOK
    <2>5. ASSUME NEW t \in Terminals, SwitchVisible(t) PROVE KeysOK'
      BY <2>5 DEF SwitchVisible, keyVars, KeysOK
    <2>6. CASE Read \/ UNCHANGED vars
      BY <2>6 DEF Read, CallRead, FinishRead, keyVars, vars, KeysOK
    <2> QED  BY <2>1, <2>2, <2>3, <2>4, <2>5, <2>6 DEF Next, Key
  <1> QED  BY <1>1, <1>2, PTL DEF Spec

(***************************************************************************)
(* The refinement of LineService.                                          *)
(***************************************************************************)
line == [t \in Terminals |-> Prefix(keyboard_buffer[t], buf_position[t])]
pending == [t \in Terminals |-> IF command_ready_flag[t] = 1
                                THEN <<Prefix(command_buf, command_position)>> ELSE << >>]
reading == {t \in Terminals : waiting[t] # NULL}

\* The line typed at a terminal, as a sequence of characters.
LEMMA LineFacts ==
    ASSUME IInv, NEW t \in Terminals
    PROVE  /\ buf_position[t] \in Nat /\ buf_position[t] <= MAX_BUF_LENGTH - 1
           /\ \A i \in 0 .. buf_position[t] - 1 : keyboard_buffer[t][i] \in Chars /\ i \in KeyIndex
           /\ line[t] = Prefix(keyboard_buffer[t], buf_position[t])
           /\ line[t] \in Seq(Chars) /\ Len(line[t]) = buf_position[t]
  <1>1. buf_position[t] \in Nat /\ buf_position[t] <= MAX_BUF_LENGTH - 1
    BY BufferAssumption DEF IInv, TypeOK, KeyIndex
  <1>2. \A i \in 0 .. buf_position[t] - 1 : keyboard_buffer[t][i] \in Chars /\ i \in KeyIndex
    BY <1>1, BufferAssumption DEF IInv, TypedChars, KeyIndex
  <1>3. line[t] = Prefix(keyboard_buffer[t], buf_position[t])
    BY DEF line
  <1>4. \A i \in 0 .. buf_position[t] - 1 : keyboard_buffer[t][i] \in Chars
    BY <1>2
  <1>5. /\ Prefix(keyboard_buffer[t], buf_position[t]) \in Seq(Chars)
        /\ Len(Prefix(keyboard_buffer[t], buf_position[t])) = buf_position[t]
    <2>1. PICK b : b = keyboard_buffer[t]
      OBVIOUS
    <2>2. PICK k : k = buf_position[t]
      OBVIOUS
    <2>3. k \in Nat /\ \A i \in 0 .. k - 1 : b[i] \in Chars
      BY <1>1, <1>4, <2>1, <2>2
    <2>4. Prefix(b, k) \in Seq(Chars) /\ Len(Prefix(b, k)) = k
      BY ONLY <2>3, PrefixIsSeq
    <2> QED  BY <2>1, <2>2, <2>4
  <1> QED  BY <1>1, <1>2, <1>3, <1>5

\* At boot the mapped variables are those of a service nobody has used.
LEMMA LineInit == Init => Lines!Init
  <1> SUFFICES ASSUME Init PROVE Lines!Init
    OBVIOUS
  <1>1. line = [t \in Terminals |-> << >>]
    BY PrefixEmpty DEF Init, line
  <1>2. pending = [t \in Terminals |-> << >>] /\ reading = {}
    BY DEF Init, pending, reading
  <1>3. got = [term |-> -1, bytes |-> << >>]
    BY DEF Init, NULL
  <1> QED  BY <1>1, <1>2, <1>3 DEF Lines!Init, line, pending, reading

\* The mapped variables of an action that leaves what they depend on alone.
LEMMA MappingKept ==
    /\ UNCHANGED keyVars => UNCHANGED line
    /\ UNCHANGED commandVars => UNCHANGED pending
    /\ UNCHANGED waiting => UNCHANGED reading
  BY DEF keyVars, commandVars, line, pending, reading

\* A step in which only the line of the visible terminal changes is an Edit.
LEMMA EditStep ==
    ASSUME NEW v \in Terminals, UNCHANGED <<commandVars, waiting, got>>,
           \/ \E c \in Chars : Len(line[v]) < MAX_BUF_LENGTH - 1
                               /\ line' = [line EXCEPT ![v] = Append(@, c)]
           \/ line[v] # << >> /\ line' = [line EXCEPT ![v] = SubSeq(@, 1, Len(@) - 1)]
           \/ line' = [line EXCEPT ![v] = << >>]
    PROVE  Lines!Next
  <1>1. UNCHANGED <<pending, reading, got>>
    BY MappingKept
  <1>2. Lines!Edit(v)
    BY <1>1 DEF Lines!Edit, line, pending, reading
  <1> QED  BY <1>2 DEF Lines!Next

\* So is one that makes the line of a terminal pending an EnterLine.
LEMMA EnterLineStep ==
    ASSUME NEW v \in Terminals, UNCHANGED <<reading, got>>,
           line' = [line EXCEPT ![v] = << >>],
           pending' = [pending EXCEPT ![v] = Append(@, Append(line[v], NL))]
    PROVE  Lines!Next
  <1>1. Lines!EnterLine(v)
    BY DEF Lines!EnterLine, line, pending, reading
  <1> QED  BY <1>1 DEF Lines!Next

\* A character typed is appended to the line.
LEMMA AddCharLine ==
    ASSUME IInv, NEW c \in Chars, AddChar(current_visible, c)
    PROVE  Lines!Next
  <1> DEFINE v == current_visible
             n == buf_position[v]
  <1>1. v \in Terminals
    BY DEF IInv, TypeOK
  <1>2. /\ n \in Nat /\ n <= MAX_BUF_LENGTH - 1
        /\ \A i \in 0 .. n - 1 : keyboard_buffer[v][i] \in Chars /\ i \in KeyIndex
        /\ line[v] = Prefix(keyboard_buffer[v], n)
        /\ Len(line[v]) = n
    BY <1>1, LineFacts
  <1>3. n \in KeyIndex /\ n # MAX_BUF_LENGTH - 1
    BY <1>1 DEF IInv, TypeOK, AddChar
  <1>4. /\ keyboard_buffer' = [keyboard_buffer EXCEPT ![v][n] = c]
        /\ buf_position' = [buf_position EXCEPT ![v] = n + 1]
        /\ UNCHANGED <<commandVars, waiting, got>>
    BY DEF AddChar
  <1> HIDE DEF n
  <1>5. keyboard_buffer'[v][n] = c /\ \A i \in 0 .. n - 1 : keyboard_buffer'[v][i] = keyboard_buffer[v][i]
    BY <1>1, <1>2, <1>3, <1>4 DEF IInv, TypeOK
  <1>6. Prefix(keyboard_buffer'[v], n + 1) = Append(line[v], c)
    <2> DEFINE b == keyboard_buffer[v]
               d == keyboard_buffer'[v]
    <2>1. n \in Nat /\ d[n] = c /\ \A i \in 0 .. n - 1 : d[i] = b[i]
      BY <1>2, <1>5
    <2>2. line[v] = Prefix(b, n)
      BY <1>2
    <2> HIDE DEF b, d
    <2> DEFINE m == n + 1
    <2>3. m = n + 1
      OBVIOUS
    <2> HIDE DEF m
    <2>4. Prefix(d, m) = Append(Prefix(b, n), c)
      BY <2>1, <2>3, PrefixAppend
    <2> QED  BY <2>2, <2>4 DEF d, m
  <1>7. line' = [line EXCEPT ![v] = Append(@, c)]
    BY <1>1, <1>4, <1>6 DEF line, IInv, TypeOK
  <1>8. Len(line[v]) < MAX_BUF_LENGTH - 1
    BY <1>2, <1>3, BufferAssumption
  <1> QED  BY <1>1, <1>4, <1>7, <1>8, EditStep

\* A backspace takes the last character from the line.
LEMMA BackspaceLine ==
    ASSUME IInv, Backspace(current_visible)
    PROVE  Lines!Next
  <1> DEFINE v == current_visible
             n == buf_position[v]
  <1>1. v \in Terminals
    BY DEF IInv, TypeOK
  <1>2. /\ n \in Nat
        /\ \A i \in 0 .. n - 1 : keyboard_buffer[v][i] \in Chars /\ i \in KeyIndex
        /\ line[v] = Prefix(keyboard_buffer[v], n)
        /\ Len(line[v]) = n
    BY <1>1, LineFacts
  <1>3. /\ n # 0
        /\ keyboard_buffer' = [keyboard_buffer EXCEPT ![v][n - 1] = NUL]
        /\ buf_position' = [buf_position EXCEPT ![v] = n - 1]
        /\ UNCHANGED <<commandVars, waiting, got>>
    BY DEF Backspace
  <1> HIDE DEF n
  <1>4. \A i \in 0 .. n - 2 : keyboard_buffer'[v][i] = keyboard_buffer[v][i]
    BY <1>1, <1>2, <1>3 DEF IInv, TypeOK
  <1>5. Prefix(keyboard_buffer'[v], n - 1) = SubSeq(line[v], 1, n - 1)
    <2> DEFINE b == keyboard_buffer[v]
               d == keyboard_buffer'[v]
               m == n - 1
    <2>1. n \in Nat \ {0}
      BY <1>2, <1>3
    <2>2. m = n - 1
      OBVIOUS
    <2>3. \A i \in 0 .. m - 1 : d[i] = b[i]
      BY <1>2, <1>4
    <2>4. line[v] = Prefix(b, n)
      BY <1>2
    <2> HIDE DEF b, d, m
    <2>5. Prefix(d, m) = SubSeq(Prefix(b, n), 1, m)
      <3>1. PICK b0 : b0 = b
        OBVIOUS
      <3>2. PICK d0 : d0 = d
        OBVIOUS
      <3>3. PICK m0 : m0 = m
        OBVIOUS
      <3>4. m0 \in Nat /\ n = m0 + 1 /\ \A i \in 0 .. m0 - 1 : d0[i] = b0[i]
        BY <2>1, <2>2, <2>3, <3>1, <3>2, <3>3
      <3>5. Prefix(d0, m0) = SubSeq(Prefix(b0, m0 + 1), 1, m0)
        BY ONLY <3>4, PrefixShorten
      <3> QED  BY <3>1, <3>2, <3>3, <3>4, <3>5
    <2> QED  BY <2>4, <2>5 DEF d, m
  <1>6. line' = [line EXCEPT ![v] = SubSeq(@, 1, Len(@) - 1)]
    BY <1>1, <1>2, <1>3, <1>5 DEF line, IInv, TypeOK
  <1>7. line[v] # << >>
    BY <1>2, <1>3
  <1> QED  BY <1>1, <1>3, <1>6, <1>7, EditStep

\* Ctrl-L empties the line.
LEMMA ClearLineLine ==
    ASSUME IInv, ClearLine(current_visible)
    PROVE  Lines!Next
  <1> DEFINE v == current_visible
  <1>1. v \in Terminals
    BY DEF IInv, TypeOK
  <1>2. line' = [line EXCEPT ![v] = << >>]
    BY <1>1, PrefixEmpty DEF line, IInv, TypeOK, ClearLine
  <1> QED  BY <1>1, <1>2, EditStep DEF ClearLine

\* Enter makes the line, ended by a newline, pending.
LEMMA EnterLine ==
    ASSUME Orderly, IInv, Enter(current_visible)
    PROVE  Lines!Next
  <1> DEFINE v == current_visible
             n == buf_position[v] + 1
             full == [keyboard_buffer[v] EXCEPT ![buf_position[v]] = NL]
  <1>1. /\ v \in Terminals
        /\ command_position = 0
        /\ \A t \in Terminals : command_ready_flag[t] = -1
        /\ Prefix(command_buf', n) = Prefix(full, n)
    BY EnterFacts
  <1>2. /\ buf_position[v] \in Nat
        /\ \A i \in 0 .. buf_position[v] - 1 : keyboard_buffer[v][i] \in Chars /\ i \in KeyIndex
        /\ line[v] = Prefix(keyboard_buffer[v], buf_position[v])
    BY <1>1, LineFacts
  <1>3. buf_position[v] \in KeyIndex /\ keyboard_buffer[v] \in [KeyIndex -> Bytes]
    BY <1>1 DEF IInv, TypeOK, Bytes
  <1>4. Prefix(full, n) = Append(line[v], NL)
    <2>1. full[buf_position[v]] = NL
      BY <1>3
    <2>2. \A i \in 0 .. buf_position[v] - 1 : full[i] = keyboard_buffer[v][i]
                                              /\ keyboard_buffer[v][i] \in Bytes
      BY <1>2, <1>3 DEF Bytes
    <2>3. NL \in Bytes
      BY DEF Bytes
    <2> DEFINE m == buf_position[v]
               b == keyboard_buffer[v]
    <2>4. m \in Nat /\ full[m] = NL /\ \A i \in 0 .. m - 1 : b[i] \in Bytes /\ full[i] = b[i]
      BY <2>1, <2>2, <1>2
    <2>5. line[v] = Prefix(b, m) /\ n = m + 1
      BY <1>2
    <2> HIDE DEF full, m, b, n
    <2>6. Prefix(full, n) = Append(Prefix(b, m), NL)
      BY <2>3, <2>4, <2>5, PrefixAppend
    <2> QED  BY <2>5, <2>6
  <1>5. /\ command_position' = n
        /\ command_ready_flag' = [command_ready_flag EXCEPT ![v] = 1]
        /\ buf_position' = [buf_position EXCEPT ![v] = 0]
        /\ keyboard_buffer' = [keyboard_buffer EXCEPT ![v] = Cleared(full, n)]
        /\ UNCHANGED <<waiting, got>>
    BY <1>1, <1>2 DEF Enter
  <1> HIDE DEF full, n
  <1>6. line' = [line EXCEPT ![v] = << >>]
    BY <1>1, <1>5, PrefixEmpty DEF line, IInv, TypeOK
  <1>7. pending = [t \in Terminals |-> << >>]
    <2>1. \A t \in Terminals : command_ready_flag[t] # 1
      BY <1>1
    <2> QED  BY <2>1 DEF pending
  <1>8. pending' = [t \in Terminals |-> IF t = v THEN <<Append(line[v], NL)>> ELSE << >>]
    <2>1. \A t \in Terminals : command_ready_flag'[t] = IF t = v THEN 1 ELSE -1
      BY <1>1, <1>5 DEF IInv, TypeOK
    <2>2. Prefix(command_buf', command_position') = Append(line[v], NL)
      BY <1>1, <1>4, <1>5
    <2>3. pending' = [t \in Terminals |-> IF command_ready_flag'[t] = 1
                                THEN <<Prefix(command_buf', command_position')>> ELSE << >>]
      BY DEF pending
    <2> QED  BY <2>1, <2>2, <2>3
  <1>9. pending' = [pending EXCEPT ![v] = Append(@, Append(line[v], NL))]
    <2>1. Append(<< >>, Append(line[v], NL)) = <<Append(line[v], NL)>>
      OBVIOUS
    <2> QED  BY <2>1, <1>7, <1>8
  <1>10. UNCHANGED reading
    BY <1>5, MappingKept
  <1> QED  BY <1>1, <1>5, <1>6, <1>9, <1>10, EnterLineStep

\* A call of terminal_read is an Ask.
LEMMA CallReadLine ==
    ASSUME IInv, NEW t \in Terminals, CallRead(t)
    PROVE  Lines!Next
  <1>1. UNCHANGED <<line, pending, got>>
    BY MappingKept DEF CallRead
  <1>2. t \notin reading /\ reading' = reading \cup {t}
    <2>1. PICK n \in NBytes : waiting' = [waiting EXCEPT ![t] = n]
      BY DEF CallRead
    <2>2. n # NULL
      BY NBytesAssumption DEF NULL
    <2> QED  BY <2>1, <2>2 DEF reading, CallRead, IInv, TypeOK
  <1>3. Lines!Ask(t)
    BY <1>1, <1>2 DEF Lines!Ask, line, pending, reading
  <1> QED  BY <1>3 DEF Lines!Next

\* The end of terminal_read delivers the oldest pending line of its terminal.
LEMMA FinishReadLine ==
    ASSUME Orderly, IInv, NEW t \in Terminals, FinishRead(t)
    PROVE  Lines!Next
  <1> DEFINE ready == Prefix(command_buf, command_position)
  <1>1. command_ready_flag[t] = 1 /\ got' = [term |-> t, bytes |-> ready]
    BY ReadsWholeLine DEF FinishRead
  <1>2. UNCHANGED line
    BY MappingKept DEF FinishRead
  <1>3. t \in reading /\ reading' = reading \ {t}
    BY DEF reading, FinishRead, IInv, TypeOK
  <1>4. pending = [u \in Terminals |-> IF u = t THEN <<ready>> ELSE << >>]
    BY <1>1 DEF pending, IInv, TypeOK, FlagsMatchBuffer
  <1>5. pending' = [u \in Terminals |-> << >>]
    <2>1. \A u \in Terminals : command_ready_flag'[u] # 1
      BY <1>1 DEF IInv, TypeOK, FlagsMatchBuffer, FinishRead
    <2> QED  BY <2>1 DEF pending
  <1> HIDE DEF ready
  <1>6. pending[t] = <<ready>> /\ pending[t] # << >> /\ Head(pending[t]) = ready /\ Tail(pending[t]) = << >>
    BY <1>4
  <1>7. pending' = [pending EXCEPT ![t] = Tail(@)]
    BY <1>4, <1>5, <1>6
  <1>8. Lines!Deliver(t)
    BY <1>1, <1>2, <1>3, <1>6, <1>7 DEF Lines!Deliver, line, pending, reading
  <1> QED  BY <1>8 DEF Lines!Next

\* Every step of the line discipline is a step of the service or leaves it as it is.
LEMMA LineStep == Orderly /\ IInv /\ [Next]_vars => [Lines!Next]_(Lines!lineVars)
  <1> SUFFICES ASSUME Orderly, IInv, [Next]_vars
               PROVE  Lines!Next \/ UNCHANGED <<line, pending, reading, got>>
    BY DEF Lines!lineVars, line, pending, reading
  <1>1. CASE UNCHANGED vars
    BY <1>1, MappingKept DEF vars, keyVars, commandVars
  <1>2. ASSUME NEW t \in Terminals, SwitchVisible(t)
        PROVE  UNCHANGED <<line, pending, reading, got>>
    BY <1>2, MappingKept DEF SwitchVisible
  <1>3. CASE Key
    BY <1>2, <1>3, AddCharLine, BackspaceLine, ClearLineLine, EnterLine DEF Key
  <1>4. CASE Read
    BY <1>4, CallReadLine, FinishReadLine DEF Read
  <1> QED  BY <1>1, <1>3, <1>4 DEF Next

\* The driver does nothing that LineService does not allow: lines are returned
\* whole, in order and once each, by the reads of the terminal they were
\* entered at.  (The safety part of ServesLines.)
THEOREM LineServiceSafety ==
    ASSUME Orderly PROVE Spec => Lines!Init /\ [][Lines!Next]_(Lines!lineVars)
  <1>1. Init => Lines!Init
    BY LineInit
  <1>2. IInv /\ [Next]_vars => [Lines!Next]_(Lines!lineVars)
    BY LineStep
  <1>3. Spec => []IInv
    BY Invariance
  <1> QED  BY <1>1, <1>2, <1>3, PTL DEF Spec
=============================================================================
