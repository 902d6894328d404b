-------------------------------- MODULE Rtc --------------------------------
(***************************************************************************)
(* The real-time clock driver of RTC_driver.c.  The chip has one index port*)
(* and one data port: a register is selected, then read or written.        *)
(* RTC_open and RTC_write do so inside a system call, with interrupts      *)
(* enabled, and the handler of the RTC interrupt, which runs with them     *)
(* disabled, selects register C.  RTC_read sets the RTC_flag of its        *)
(* terminal and spins until an interrupt has cleared it.                   *)
(***************************************************************************)
EXTENDS Integers

CONSTANTS
    NUM_OF_TERMINAL,
    Frequencies,    \* the values programs write
    PortInterrupts  \* may an interrupt arrive between two port accesses?

ASSUME TerminalsAssumption == NUM_OF_TERMINAL \in Nat \ {0}
ASSUME FrequenciesAssumption == Frequencies \subseteq Nat
ASSUME PortInterruptsAssumption == PortInterrupts \in BOOLEAN

Terminals == 0 .. NUM_OF_TERMINAL - 1

VARIABLES
    index,         \* the register selected in the chip
    reg,           \* the contents of registers A and B; C is 0 once read
    irq_enabled,   \* IRQ8 is unmasked in the PIC
    terminal_num,  \* the running terminal
    RTC_flag,      \* terminal[t].RTC_flag
    thread,        \* where the program of each terminal is in the driver
    opened,        \* the terminals whose program has an RTC file
    asked,         \* history: the frequency last asked for, 0 before
    fresh          \* history: the reads an interrupt has come for

vars == <<index, reg, irq_enabled, terminal_num, RTC_flag, thread, opened, asked, fresh>>

(***************************************************************************)
(* "selectB" to "storeB" are the accesses that enable the interrupt,       *)
(* "selectA" to "storeA" those that set the rate.                          *)
(***************************************************************************)
PortStages == {"fetchB", "reselectB", "storeB", "fetchA", "reselectA", "storeA"}
Stages == PortStages \cup {"idle", "selectA", "unmask", "read"}
Idle == [stage |-> "idle", opening |-> FALSE, prev |-> 0, freq |-> 2]

\* The firmware leaves 0x26 in register A and 2 in B.
Init ==
    /\ index = "A"
    /\ reg = [A |-> 38, B |-> 2]
    /\ irq_enabled = FALSE
    /\ terminal_num \in Terminals
    /\ RTC_flag = [t \in Terminals |-> 0]
    /\ thread = [t \in Terminals |-> Idle]
    /\ opened = {}
    /\ asked = 0
    /\ fresh = {}

----------------------------------------------------------------------------
\* Only powers of two from 2 to 1024.
Valid(f) == \E k \in 1 .. 10 : f = 2 ^ k

\* The rate starts one too low.
Rate_Mutant(f) ==
    LET rate[g \in {2 ^ k : k \in 1 .. 10}] == IF g = 2 THEN 14 ELSE rate[g \div 2] - 1
    IN  rate[f]

\* The loop halves the frequency down to 2 and takes one off the rate each time.
Rate(f) ==
    LET rate[g \in {2 ^ k : k \in 1 .. 10}] == IF g = 2 THEN 15 ELSE rate[g \div 2] - 1
    IN  rate[f]

\* The rate is added to the old value, whose low bits are kept.
WithRate_Mutant(prev, rate) == prev + rate

\* (prev & 0xF0) | rate, and prev | 0x40.
WithRate(prev, rate) == 16 * (prev \div 16) + rate
WithBit6(prev) == IF (prev \div 64) % 2 = 1 THEN prev ELSE prev + 64

Bit6(byte) == (byte \div 64) % 2 = 1

(***************************************************************************)
(* Port accesses of the running terminal's program.                        *)
(***************************************************************************)
At(stage) == thread[terminal_num].stage = stage
Goto(stage) == thread' = [thread EXCEPT ![terminal_num].stage = stage]

Select(from, r, to) ==
    /\ At(from)
    /\ index' = r
    /\ Goto(to)
    /\ UNCHANGED <<reg, irq_enabled, terminal_num, RTC_flag, opened, asked, fresh>>

Fetch(from, to) ==
    /\ At(from)
    /\ thread' = [thread EXCEPT ![terminal_num].stage = to,
                                ![terminal_num].prev = IF index = "C" THEN 0 ELSE reg[index]]
    /\ UNCHANGED <<index, reg, irq_enabled, terminal_num, RTC_flag, opened, asked, fresh>>

\* Register C cannot be written.
Store(from, value, to) ==
    /\ At(from)
    /\ reg' = IF index = "C" THEN reg ELSE [reg EXCEPT ![index] = value]
    /\ Goto(to)
    /\ UNCHANGED <<index, irq_enabled, terminal_num, RTC_flag, opened, fresh>>

(***************************************************************************)
(* RTC_open: enable the interrupt, set 2 Hz, unmask IRQ8.                  *)
(***************************************************************************)
Open ==
    /\ At("idle")
    /\ index' = "B"
    /\ thread' = [thread EXCEPT ![terminal_num] =
                     [stage |-> "fetchB", opening |-> TRUE, prev |-> 0, freq |-> 2]]
    /\ UNCHANGED <<reg, irq_enabled, terminal_num, RTC_flag, opened, asked, fresh>>

EnableInterrupt ==
    \/ Fetch("fetchB", "reselectB")
    \/ Select("reselectB", "B", "storeB")
    \/ Store("storeB", WithBit6(thread[terminal_num].prev), "selectA") /\ UNCHANGED asked

SetRate ==
    LET me == thread[terminal_num]
    IN  \/ Select("selectA", "A", "fetchA")
        \/ Fetch("fetchA", "reselectA")
        \/ Select("reselectA", "A", "storeA")
        \/ /\ Store("storeA", WithRate(me.prev, Rate(me.freq)), IF me.opening THEN "unmask" ELSE "idle")
           /\ asked' = me.freq

Unmask ==
    /\ At("unmask")
    /\ irq_enabled' = TRUE
    /\ opened' = opened \cup {terminal_num}
    /\ thread' = [thread EXCEPT ![terminal_num] = Idle]
    /\ UNCHANGED <<index, reg, terminal_num, RTC_flag, asked, fresh>>

(***************************************************************************)
(* RTC_write: a frequency out of range or no power of two is refused.      *)
(***************************************************************************)
Write ==
    /\ At("idle")
    /\ terminal_num \in opened
    /\ \E f \in Frequencies :
          thread' = [thread EXCEPT ![terminal_num] =
                        IF Valid(f)
                        THEN [stage |-> "selectA", opening |-> FALSE, prev |-> 0, freq |-> f]
                        ELSE Idle]
    /\ UNCHANGED <<index, reg, irq_enabled, terminal_num, RTC_flag, opened, asked, fresh>>

(***************************************************************************)
(* RTC_read                                                                *)
(***************************************************************************)
\* The flag is left as it was.
ReadStart_NoFlag ==
    /\ At("idle")
    /\ terminal_num \in opened
    /\ fresh' = fresh \ {terminal_num}
    /\ Goto("read")
    /\ UNCHANGED <<index, reg, irq_enabled, terminal_num, RTC_flag, opened, asked>>

ReadStart ==
    /\ At("idle")
    /\ terminal_num \in opened
    /\ RTC_flag' = [RTC_flag EXCEPT ![terminal_num] = 1]
    /\ fresh' = fresh \ {terminal_num}
    /\ Goto("read")
    /\ UNCHANGED <<index, reg, irq_enabled, terminal_num, opened, asked>>

ReadEnd ==
    /\ At("read")
    /\ RTC_flag[terminal_num] = 0
    /\ thread' = [thread EXCEPT ![terminal_num] = Idle]
    /\ UNCHANGED <<index, reg, irq_enabled, terminal_num, RTC_flag, opened, asked, fresh>>

----------------------------------------------------------------------------
Interruptible == PortInterrupts \/ thread[terminal_num].stage \notin PortStages

\* Only the running terminal's flag is cleared.
Interrupt_OneFlag ==
    /\ Interruptible
    /\ irq_enabled
    /\ Bit6(reg["B"])
    /\ index' = "C"
    /\ RTC_flag' = [RTC_flag EXCEPT ![terminal_num] = 0]
    /\ fresh' = fresh \cup {terminal_num}
    /\ UNCHANGED <<reg, irq_enabled, terminal_num, thread, opened, asked>>

\* RTC_interrupt_handler: register C is selected and read, every flag cleared.
Interrupt ==
    /\ Interruptible
    /\ irq_enabled
    /\ Bit6(reg["B"])
    /\ index' = "C"
    /\ RTC_flag' = [t \in Terminals |-> 0]
    /\ fresh' = Terminals
    /\ UNCHANGED <<reg, irq_enabled, terminal_num, thread, opened, asked>>

\* The PIT interrupt: the next terminal goes on.
Tick ==
    /\ Interruptible
    /\ terminal_num' = (terminal_num + 1) % NUM_OF_TERMINAL
    /\ UNCHANGED <<index, reg, irq_enabled, RTC_flag, thread, opened, asked, fresh>>

Access == EnableInterrupt \/ SetRate \/ Unmask

Next == Open \/ Access \/ Write \/ ReadStart \/ ReadEnd \/ Interrupt \/ Tick

(***************************************************************************)
(* Fairness.  The clock interrupts periodically while it is enabled, the   *)
(* PIT ticks, and the program of a terminal takes many steps in each turn. *)
(* Programs need not call the driver.                                      *)
(***************************************************************************)
Fairness ==
    /\ SF_vars(Interrupt)
    /\ SF_vars(Tick)
    /\ \A t \in Terminals : SF_vars((Access \/ ReadEnd) /\ terminal_num = t)

Spec == Init /\ [][Next]_vars /\ Fairness

----------------------------------------------------------------------------
\* Every variable has a value of its type; the registers are bytes.
TypeOK ==
    /\ index \in {"A", "B", "C"}
    /\ reg \in [{"A", "B"} -> 0 .. 255]
    /\ irq_enabled \in BOOLEAN
    /\ terminal_num \in Terminals
    /\ RTC_flag \in [Terminals -> {0, 1}]
    /\ thread \in [Terminals -> [stage : Stages, opening : BOOLEAN, prev : 0 .. 255, freq : Nat]]
    /\ opened \subseteq Terminals
    /\ asked \in Nat
    /\ fresh \subseteq Terminals

\* While no terminal is changing it, register A holds the rate that makes the
\* chip interrupt at the frequency of the RTC_open or RTC_write that ended
\* last, 32768 divided by 2 ^ (rate - 1), and the divider bits it had at boot.
RateAsAsked ==
    asked # 0 /\ (\A t \in Terminals : thread[t].stage \notin {"fetchA", "reselectA", "storeA"}) =>
        /\ 32768 \div 2 ^ ((reg["A"] % 16) - 1) = asked
        /\ reg["A"] \div 16 = 2

\* RTC_read returns only after an interrupt that came after its call.
ReadWaits == [][\A t \in Terminals :
                   thread[t].stage = "read" /\ thread'[t].stage = "idle" => t \in fresh]_vars

\* Every RTC_read returns, whatever the other terminals do with the clock.
ReadReturns == \A t \in Terminals : thread[t].stage = "read" ~> thread[t].stage = "idle"
============================================================================
