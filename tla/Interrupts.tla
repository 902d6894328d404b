----------------------------- MODULE Interrupts -----------------------------
(***************************************************************************)
(* The three devices that interrupt the machine, the two interrupt         *)
(* controllers of i8259.c they reach it through, and the handlers.  A line *)
(* is requested (irr), in service (isr) from the start of its handler to   *)
(* its send_eoi, or neither; a line in service holds back itself and every *)
(* line of lower priority.                                                 *)
(*                                                                         *)
(* The handlers of the timer and of the clock run with interrupts off: one *)
(* step each.  keyboard_interrupt_handler enables interrupts between its   *)
(* entry and the reading of the key: the timer, which has priority, can    *)
(* interrupt it there and run other terminals while line 1 is in service.  *)
(* It is in the interrupt table itself, not through keyboard_wrapper, and  *)
(* returns with ret: only the address of the instruction is taken from     *)
(* what the interrupt pushed.                                              *)
(***************************************************************************)
EXTENDS Keyboard, FiniteSets

CONSTANTS
    NUM_OF_TERMINAL,
    Keys,        \* the keys pressed, by the scancode of their press
    QueueLength, \* how many scancodes the keyboard keeps
    KeysAtBoot,  \* may keys be pressed before the first timer interrupt?
    Watched      \* the terminals whose programs' privilege level is recorded

ASSUME TerminalsAssumption == NUM_OF_TERMINAL \in Nat \ {0}
ASSUME KeysAssumption == Keys \subseteq 1 .. 83
ASSUME QueueAssumption == QueueLength \in Nat \ {0}
ASSUME KeysAtBootAssumption == KeysAtBoot \in BOOLEAN
ASSUME WatchedAssumption == Watched \subseteq 0 .. NUM_OF_TERMINAL - 1

Terminals == 0 .. NUM_OF_TERMINAL - 1
Boot == -1    \* terminal_num while the kernel starts
None == -2

PIT == 0
KEYBOARD == 1
SLAVE == 2    \* the line of the master controller the slave is connected to
RTC == 8

VARIABLES
    boot,          \* what the kernel initialises next
    mask,          \* the lines masked in the controllers
    irr, isr,      \* the lines requested and in service
    enabled,       \* the interrupt flag of the processor
    terminal_num,  \* the terminal that runs
    section,       \* the running program is between cli and sti
    handler,       \* the terminal in which the keyboard handler is, or None
    flags,         \* the flags of the keyboard handler
    queue,         \* the scancodes in the keyboard, each with what it should do
    down,          \* the modifier keys held down
    caps,          \* Caps Lock is on, to the user
    regC,          \* register C of the clock is still to be read
    level          \* the privilege level of the program of a watched terminal

pic == <<mask, irr, isr>>
keyboard == <<flags, queue, down, caps>>
vars == <<boot, pic, enabled, terminal_num, section, handler, keyboard, regC, level>>

(***************************************************************************)
(* The controllers: lines 0 to 7 are the master's, 8 to 15 the slave's.    *)
(***************************************************************************)
OnMaster(i) == IF i >= 8 THEN SLAVE ELSE i

\* The processor takes the line: nothing of its priority is in service and
\* nothing more urgent is waiting.
Deliverable(i) ==
    /\ enabled
    /\ i \in irr
    /\ {i, OnMaster(i)} \cap mask = {}
    /\ \A j \in isr : OnMaster(j) > OnMaster(i)
    /\ \A j \in irr \ mask : OnMaster(j) >= OnMaster(i)

\* The processor takes a line it can take before its next instruction.
Settled == \A i \in irr : ~Deliverable(i)

InService(i) == isr \cup {i, OnMaster(i)}

\* Only the slave is told.
send_eoi_SlaveOnly(lines, i) == lines \ {i}

\* send_eoi: the slave's lines are acknowledged at both controllers.
send_eoi(lines, i) == lines \ {i, OnMaster(i)}

enable_irq(i) == mask' = mask \ {i}

----------------------------------------------------------------------------
Init ==
    /\ boot = "pic"
    /\ mask = 0 .. 15
    /\ irr = {}
    /\ isr = {}
    /\ enabled = FALSE
    /\ terminal_num = Boot
    /\ section = FALSE
    /\ handler = None
    /\ flags = NoFlags
    /\ queue = <<>>
    /\ down = {}
    /\ caps = FALSE
    /\ regC = FALSE
    /\ level = [t \in Watched |-> 3]

\* The initialisations of kernel.c; i8259_init leaves only the slave's line open.
BootStep(from, to) ==
    /\ Settled
    /\ handler # Boot
    /\ boot = from
    /\ boot' = to
    /\ UNCHANGED <<irr, isr, terminal_num, section, handler, keyboard, regC, level>>
BootPic ==
    /\ BootStep("pic", "keyboard")
    /\ mask' = 0 .. 15 \ {SLAVE}
    /\ UNCHANGED enabled
BootKeyboard == BootStep("keyboard", "sti") /\ enable_irq(KEYBOARD) /\ UNCHANGED enabled
BootSti == BootStep("sti", "pit") /\ enabled' = TRUE /\ UNCHANGED mask
BootPit == BootStep("pit", "done") /\ enable_irq(PIT) /\ UNCHANGED enabled

(***************************************************************************)
(* The devices.  They are slow: what the processor can take it has taken   *)
(* before the next request comes.                                          *)
(***************************************************************************)
TimerRaises ==
    /\ Settled
    /\ irr' = irr \cup {PIT}
    /\ UNCHANGED <<boot, mask, isr, enabled, terminal_num, section, handler, keyboard, regC, level>>

\* The clock waits until register C has been read.
ClockRaises ==
    /\ Settled
    /\ RTC \notin mask
    /\ ~regC
    /\ regC' = TRUE
    /\ irr' = irr \cup {RTC}
    /\ UNCHANGED <<boot, mask, isr, enabled, terminal_num, section, handler, keyboard, level>>

\* What the user means by a key, from the keys held down.
Meant(key) ==
    LET c == keyboard_mapping_lowercase[key + 1]
        shift == down \cap {LEFT_SHIFT_PRESSED, RIGHT_SHIFT_PRESSED} # {}
    IN  IF key = ENTER_PRESSED THEN Types(10)
        ELSE IF key = OPCODE_L /\ CTRL_PRESSED \in down THEN ClearsScreen
        ELSE IF key \in F1 .. F1 + 2 THEN IF ALT_PRESSED \in down THEN Shows(key - F1) ELSE Nothing
        ELSE IF key \in Captured \/ key > END_OF_PRINTABLE
                \/ down \cap {CTRL_PRESSED, ALT_PRESSED} # {} THEN Nothing
        ELSE IF c \in 97 .. 122 THEN Types(IF shift # caps THEN c - 32 ELSE c)
        ELSE Types(IF shift THEN keyboard_mapping_capital[key + 1] ELSE c)

\* The keyboard sends a scancode; it interrupts when its buffer was empty.
Sends(code, meant) ==
    /\ Settled
    /\ KeysAtBoot \/ terminal_num # Boot
    /\ Len(queue) < QueueLength
    /\ queue' = Append(queue, [code |-> code, meant |-> meant])
    /\ irr' = IF queue = <<>> THEN irr \cup {KEYBOARD} ELSE irr
    /\ UNCHANGED <<boot, mask, isr, enabled, terminal_num, section, handler, flags, regC, level>>

\* The keys for which it matters how long they are down.
Holdable == DOMAIN FlagOf \cup {CAPS_LOCK_PRESSED}

\* A key is pressed, or held down long enough to repeat.
Press(key) ==
    /\ Sends(key, Meant(key))
    /\ down' = down \cup ({key} \cap Holdable)
    /\ caps' = IF key = CAPS_LOCK_PRESSED /\ key \notin down THEN ~caps ELSE caps

Release(key) ==
    /\ key \in down
    /\ Sends(Released(key), Nothing)
    /\ down' = down \ {key}
    /\ UNCHANGED caps

(***************************************************************************)
(* The handlers.                                                           *)
(***************************************************************************)
\* pit_wrapper and scheduler: the next terminal goes on where it was
\* interrupted, which was with interrupts enabled.
PitHandler ==
    /\ Deliverable(PIT)
    /\ irr' = irr \ {PIT}
    /\ isr' = send_eoi(InService(PIT), PIT)
    /\ terminal_num' = (terminal_num + 1) % NUM_OF_TERMINAL
    /\ UNCHANGED <<boot, mask, enabled, section, handler, keyboard, regC, level>>

\* rtc_wrapper and RTC_interrupt_handler
RtcHandler ==
    /\ Deliverable(RTC)
    /\ irr' = irr \ {RTC}
    /\ isr' = send_eoi(InService(RTC), RTC)
    /\ regC' = FALSE
    /\ UNCHANGED <<boot, mask, enabled, terminal_num, section, handler, keyboard, level>>

\* keyboard_interrupt_handler up to its sti.
KeyboardEnters ==
    /\ Deliverable(KEYBOARD)
    /\ irr' = irr \ {KEYBOARD}
    /\ isr' = InService(KEYBOARD)
    /\ handler' = terminal_num
    /\ UNCHANGED <<boot, mask, enabled, terminal_num, section, keyboard, regC, level>>

\* ret from an interrupt in a program leaves it in the kernel's segment; in
\* the kernel the level is the same.
Returned(t) == level' \in {level, [u \in Watched |-> IF u = t THEN 0 ELSE level[u]]}

\* Without the sti the flags saved have interrupts off.
FlagSaved_NoSti == FALSE

\* cli_and_save comes after sti.
FlagSaved == TRUE

\* The handler ends without send_eoi.
KeyAcknowledged_Never == isr

KeyAcknowledged == send_eoi(isr, KEYBOARD)

\* From its cli on: the key is read and acted on, the line acknowledged, the
\* flags restored.  The next key in the buffer interrupts again.
KeyboardReads ==
    /\ handler = terminal_num
    /\ Settled
    /\ flags' = Modifiers(flags, Head(queue).code)
    /\ queue' = Tail(queue)
    /\ isr' = KeyAcknowledged
    /\ irr' = IF Len(queue) > 1 THEN irr \cup {KEYBOARD} ELSE irr
    /\ enabled' = FlagSaved
    /\ handler' = None
    /\ Returned(terminal_num)
    /\ UNCHANGED <<boot, mask, terminal_num, section, down, caps, regC>>

(***************************************************************************)
(* The program of the running terminal.                                    *)
(***************************************************************************)
ProgramRuns == Settled /\ terminal_num # Boot /\ handler # terminal_num

\* A system call with interrupts off.
EnterSection ==
    /\ ProgramRuns
    /\ ~section
    /\ section' = TRUE
    /\ enabled' = FALSE
    /\ UNCHANGED <<boot, pic, terminal_num, handler, keyboard, regC, level>>

LeaveSection ==
    /\ section
    /\ section' = FALSE
    /\ enabled' = TRUE
    /\ UNCHANGED <<boot, pic, terminal_num, handler, keyboard, regC, level>>

\* The last step of RTC_open.
OpenClock ==
    /\ ProgramRuns
    /\ enable_irq(RTC)
    /\ UNCHANGED <<boot, irr, isr, enabled, terminal_num, section, handler, keyboard, regC, level>>

BootNext == BootPic \/ BootKeyboard \/ BootSti \/ BootPit
Devices == TimerRaises \/ ClockRaises \/ \E key \in Keys : Press(key) \/ Release(key)
Handlers == PitHandler \/ RtcHandler \/ KeyboardEnters \/ KeyboardReads
Program == EnterSection \/ LeaveSection \/ OpenClock

Next == BootNext \/ Devices \/ Handlers \/ Program

(***************************************************************************)
(* Fairness.  The kernel starts; the timer and the clock, once enabled,    *)
(* keep interrupting; the processor takes an interrupt it can take again   *)
(* and again; a system call leaves its section; and in the turns of its    *)
(* terminal the keyboard handler goes on.  Nobody need press a key.        *)
(***************************************************************************)
Fairness ==
    /\ WF_vars(BootNext)
    /\ SF_vars(TimerRaises)
    /\ SF_vars(PitHandler)
    /\ SF_vars(RtcHandler)
    /\ SF_vars(KeyboardEnters)
    /\ SF_vars(KeyboardReads)
    /\ WF_vars(LeaveSection)

Spec == Init /\ [][Next]_vars /\ Fairness

----------------------------------------------------------------------------
Codes == Keys \cup {Released(k) : k \in Keys}

\* Every variable has a value of its type.
TypeOK ==
    /\ boot \in {"pic", "keyboard", "sti", "pit", "done"}
    /\ mask \subseteq 0 .. 15
    /\ irr \subseteq {PIT, KEYBOARD, RTC}
    /\ isr \subseteq 0 .. 15
    /\ enabled \in BOOLEAN
    /\ terminal_num \in Terminals \cup {Boot}
    /\ section \in BOOLEAN
    /\ handler \in Terminals \cup {Boot, None}
    /\ flags \in [Flags -> {0, 1}]
    /\ Len(queue) <= QueueLength /\ \A i \in DOMAIN queue : queue[i].code \in Codes
    /\ down \subseteq Holdable
    /\ caps \in BOOLEAN
    /\ regC \in BOOLEAN
    /\ level \in [Watched -> {0, 3}]

\* Every interrupt is acknowledged, once and at the right controller: between
\* handlers the only line in service is the keyboard's, while its handler is
\* suspended, and then there is a key to read.
Acknowledged ==
    /\ isr = IF handler = None THEN {} ELSE {KEYBOARD}
    /\ handler # None => queue # <<>>

\* The key read next does what its user meant when it was pressed, however
\* late it is read and whatever was held down or repeated by then.
ActsAsMeant == queue # <<>> => Meaning(flags, Head(queue).code) = Head(queue).meant

\* The scheduler gives every terminal its turns: no handler and no section
\* leaves the interrupts off or the timer's line in service.
TurnsGoRound == \A t \in Terminals : []<>(terminal_num = t)

\* Keys are read as long as there are any, also when the handler was
\* interrupted and has to wait for the turn of its terminal.
KeysAreRead == []<>(queue = <<>>) \/ []<><<Len(queue') < Len(queue)>>_vars

\* An interrupt of the clock is served, though every other line goes first,
\* provided that the keyboard has no key left again and again.
ClockIsServed == []<>(queue = <<>>) => (RTC \in irr ~> RTC \notin irr)

\* The code that the keyboard interrupted goes on as it was: at its own
\* privilege level (keyboard_wrapper "restores all registers and flags").
ResumesAsInterrupted ==
    [][\A t \in Watched : handler = t /\ handler' # t => level'[t] = level[t]]_vars
============================================================================
