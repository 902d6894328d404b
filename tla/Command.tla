------------------------------ MODULE Command ------------------------------
(***************************************************************************)
(* How execute takes a command apart: the name of the program, and the     *)
(* argument that getargs will give it.                                     *)
(***************************************************************************)
EXTENDS Integers, Sequences, FiniteSetsExt

CONSTANTS
    file_length,  \* the longest name of a program
    cmd_length    \* how much of a command is looked at for the argument

ASSUME CommandAssumption == file_length \in Nat /\ cmd_length \in Nat

SPACE == " "
NUL == "nul"
Ends == {NUL, "newline", "tab", "return"}

\* The character at position i of a string, which ends with NUL.
CharAt(s, i) == IF i <= Len(s) THEN s[i] ELSE NUL

\* A string: characters other than the one that ends it.
IsText(s) == s \in Seq(STRING) /\ \A i \in DOMAIN s : s[i] # NUL

\* The first position of command from i on that holds a character of chars.
FirstFrom(command, i, chars) == Min({k \in i .. Len(command) + 1 : CharAt(command, k) \in chars})
SkipSpaces(command, i) ==
    Min({k \in i .. Len(command) + 1 : CharAt(command, k) # SPACE})

NameStart(command) == SkipSpaces(command, 1)
NameEnd(command) == FirstFrom(command, NameStart(command), Ends \cup {SPACE})
FileName(command) == SubSeq(command, NameStart(command), NameEnd(command) - 1)

\* The spaces before the argument stay in it.
Argument_Untrimmed(command) ==
    LET i == NameEnd(command)
    IN  SubSeq(command, i, Min({FirstFrom(command, i, Ends) - 1, cmd_length}))

\* Up to the end of the line, spaces included.
Argument(command) ==
    LET i == SkipSpaces(command, NameEnd(command))
    IN  SubSeq(command, i, Min({FirstFrom(command, i, Ends) - 1, cmd_length}))

\* A command is spaces, a name, spaces, an argument, and the end of the line.
Consists(line, name, arg) ==
    \E n, a \in 1 .. Len(line) + 1 :
        /\ n + Len(name) <= a /\ a + Len(arg) <= Len(line) + 1
        /\ name = SubSeq(line, n, n + Len(name) - 1)
        /\ arg = SubSeq(line, a, a + Len(arg) - 1)
        /\ \A k \in (1 .. n - 1) \cup (n + Len(name) .. a - 1) : line[k] = SPACE
        /\ CharAt(line, a + Len(arg)) \in Ends
        /\ \A k \in DOMAIN name : name[k] \notin Ends \cup {SPACE}
        /\ \A k \in DOMAIN arg : arg[k] \notin Ends
        /\ arg # <<>> => name # <<>> /\ n + Len(name) < a /\ arg[1] # SPACE

\* There is a name, and it is not too long.
WellFormed(command) ==
    /\ CharAt(command, 1) \notin Ends
    /\ CharAt(command, NameStart(command)) \notin Ends
    /\ Len(FileName(command)) <= file_length
============================================================================
