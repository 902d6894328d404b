------------------------------ MODULE Screens ------------------------------
(***************************************************************************)
(* What the user may expect of the terminals: each has a screen of its     *)
(* own, on which only its programs and the keys typed at it print.  The    *)
(* keyboard belongs to the terminal shown, programs print while their      *)
(* terminal runs; showing or running another one changes no screen.        *)
(***************************************************************************)
EXTENDS Console

CONSTANTS Terminals, Texts, Inks

VARIABLES
    screen,  \* the screen of each terminal
    shown,   \* the terminal on the monitor
    running  \* the terminal whose program runs

vars == <<screen, shown, running>>

Init ==
    /\ screen = [t \in Terminals |-> [text |-> BlankText, x |-> 0, y |-> 0]]
    /\ shown \in Terminals
    /\ running \in Terminals

\* A program writes to its terminal.
ProgramPrints(chars) ==
    /\ screen' = [screen EXCEPT ![running] = PutAll(@, chars)]
    /\ UNCHANGED <<shown, running>>

\* A key typed at the terminal shown is echoed there.
Echo(c) ==
    /\ screen' = [screen EXCEPT ![shown] = Put(@, c)]
    /\ UNCHANGED <<shown, running>>

\* Ctrl-L empties the screen shown.
Clear ==
    /\ screen' = [screen EXCEPT ![shown] = [text |-> BlankText, x |-> 0, y |-> 0]]
    /\ UNCHANGED <<shown, running>>

\* A program stores into its screen through vidmap; the cursor stays.
Draw(i, c) ==
    /\ screen' = [screen EXCEPT ![running].text[i] = c]
    /\ UNCHANGED <<shown, running>>

Show(t) ==
    /\ shown' = t
    /\ UNCHANGED <<screen, running>>

Run(t) ==
    /\ running' = t
    /\ UNCHANGED <<screen, shown>>

Next ==
    \/ \E chars \in Texts : ProgramPrints(chars)
    \/ \E c \in Inks \cup {NL, BS} : Echo(c)
    \/ Clear
    \/ \E i \in Cells, c \in Inks : Draw(i, c)
    \/ \E t \in Terminals : Show(t) \/ Run(t)

Spec == Init /\ [][Next]_vars
============================================================================
