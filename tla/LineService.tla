---------------------------- MODULE LineService ----------------------------
(***************************************************************************)
(* What a terminal promises the programs that read from it: the lines      *)
(* entered at a terminal are returned, whole, in order and once each, by   *)
(* the reads of that terminal's programs.                                  *)
(***************************************************************************)
EXTENDS Sequences, Integers

CONSTANTS Terminals, Chars, LineMax, NL

VARIABLES
    line,     \* the line being typed at each terminal
    pending,  \* the lines entered at each terminal and not read yet
    reading,  \* the terminals whose program is inside a read
    got       \* the result of the last read: its terminal and its bytes

lineVars == <<line, pending, reading, got>>

Init ==
    /\ line = [t \in Terminals |-> <<>>]
    /\ pending = [t \in Terminals |-> <<>>]
    /\ reading = {}
    /\ got = [term |-> -1, bytes |-> <<>>]

Edit(t) ==
    /\ \/ \E c \in Chars : Len(line[t]) < LineMax /\ line' = [line EXCEPT ![t] = Append(@, c)]
       \/ line[t] # <<>> /\ line' = [line EXCEPT ![t] = SubSeq(@, 1, Len(@) - 1)]
       \/ line' = [line EXCEPT ![t] = <<>>]
    /\ UNCHANGED <<pending, reading, got>>

EnterLine(t) ==
    /\ line' = [line EXCEPT ![t] = <<>>]
    /\ pending' = [pending EXCEPT ![t] = Append(@, Append(line[t], NL))]
    /\ UNCHANGED <<reading, got>>

Ask(t) ==
    /\ t \notin reading
    /\ reading' = reading \cup {t}
    /\ UNCHANGED <<line, pending, got>>

Deliver(t) ==
    /\ t \in reading
    /\ pending[t] # <<>>
    /\ got' = [term |-> t, bytes |-> Head(pending[t])]
    /\ pending' = [pending EXCEPT ![t] = Tail(@)]
    /\ reading' = reading \ {t}
    /\ UNCHANGED line

Next == \E t \in Terminals : Edit(t) \/ EnterLine(t) \/ Ask(t) \/ Deliver(t)

\* A program that reads gets the line that is there.
Spec == Init /\ [][Next]_lineVars /\ \A t \in Terminals : WF_lineVars(Deliver(t))
============================================================================
