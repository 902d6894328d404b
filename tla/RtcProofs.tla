------------------------------ MODULE RtcProofs ------------------------------
(***************************************************************************)
(* Proofs about Rtc, for any number of terminals and any frequencies that  *)
(* programs write.  Types, and that RTC_read waits, need no assumption on  *)
(* the interrupts; the rate in the chip does: an interrupt between two     *)
(* port accesses leaves register C selected.                               *)
(***************************************************************************)
EXTENDS Rtc, TLAPS

----------------------------------------------------------------------------
ValidFrequencies == {2, 4, 8, 16, 32, 64, 128, 256, 512, 1024}

\* The powers of two that RTC_write lets through.
LEMMA PowersOfTwo == {2 ^ k : k \in 1 .. 10} = ValidFrequencies
  <1>1. ASSUME NEW k \in 1 .. 10 PROVE 2 ^ k \in ValidFrequencies
    <2>1. CASE k = 1  BY <2>1 DEF ValidFrequencies
    <2>2. CASE k = 2  BY <2>2 DEF ValidFrequencies
    <2>3. CASE k = 3  BY <2>3 DEF ValidFrequencies
    <2>4. CASE k = 4  BY <2>4 DEF ValidFrequencies
    <2>5. CASE k = 5  BY <2>5 DEF ValidFrequencies
    <2>6. CASE k = 6  BY <2>6 DEF ValidFrequencies
    <2>7. CASE k = 7  BY <2>7 DEF ValidFrequencies
    <2>8. CASE k = 8  BY <2>8 DEF ValidFrequencies
    <2>9. CASE k = 9  BY <2>9 DEF ValidFrequencies
    <2>10. CASE k = 10  BY <2>10 DEF ValidFrequencies
    <2> QED  BY <2>1, <2>2, <2>3, <2>4, <2>5, <2>6, <2>7, <2>8, <2>9, <2>10
  <1>2. ASSUME NEW f \in ValidFrequencies PROVE \E k \in 1 .. 10 : f = 2 ^ k
    <2>1. 2 ^ 1 = 2  OBVIOUS
    <2>2. 2 ^ 2 = 4  OBVIOUS
    <2>3. 2 ^ 3 = 8  OBVIOUS
    <2>4. 2 ^ 4 = 16  OBVIOUS
    <2>5. 2 ^ 5 = 32  OBVIOUS
    <2>6. 2 ^ 6 = 64  OBVIOUS
    <2>7. 2 ^ 7 = 128  OBVIOUS
    <2>8. 2 ^ 8 = 256  OBVIOUS
    <2>9. 2 ^ 9 = 512  OBVIOUS
    <2>10. 2 ^ 10 = 1024  OBVIOUS
    <2> QED  BY <2>1, <2>2, <2>3, <2>4, <2>5, <2>6, <2>7, <2>8, <2>9, <2>10 DEF ValidFrequencies
  <1> QED  BY <1>1, <1>2

\* What the loop of RTC_write computes: the rate is 15 at 2 Hz and one less
\* for each doubling, so that the chip divides 32768 down to the frequency.
LEMMA RateIs ==
    ASSUME NEW f \in ValidFrequencies
    PROVE  Rate(f) \in 6 .. 15 /\ 32768 \div 2 ^ (Rate(f) - 1) = f
  <1> DEFINE Is(r) == r = [g \in ValidFrequencies |-> IF g = 2 THEN 15 ELSE r[g \div 2] - 1]
             rate == CHOOSE r : Is(r)
             Log(g) == CASE g = 2 -> 15 [] g = 4 -> 14 [] g = 8 -> 13 [] g = 16 -> 12 [] g = 32 -> 11
                         [] g = 64 -> 10 [] g = 128 -> 9 [] g = 256 -> 8 [] g = 512 -> 7 [] g = 1024 -> 6
             log == [g \in ValidFrequencies |-> Log(g)]
  <1>1. Is(log)
    <2>1. ASSUME NEW g \in ValidFrequencies
          PROVE  log[g] = IF g = 2 THEN 15 ELSE log[g \div 2] - 1
      BY DEF ValidFrequencies
    <2> HIDE DEF Log
    <2>2. log = [g \in ValidFrequencies |-> log[g]]
      OBVIOUS
    <2> HIDE DEF log
    <2> QED  BY <2>1, <2>2
  <1>2. Is(rate)
    BY <1>1
  <1>3. Rate(f) = rate[f]
    BY PowersOfTwo DEF Rate
  <1> HIDE DEF rate
  <1>4. \A g \in ValidFrequencies : rate[g] = IF g = 2 THEN 15 ELSE rate[g \div 2] - 1
    BY <1>2
  <1>5. rate[2] = 15 /\ rate[4] = 14 /\ rate[8] = 13 /\ rate[16] = 12 /\ rate[32] = 11
    BY <1>4 DEF ValidFrequencies
  <1>6. rate[64] = 10 /\ rate[128] = 9 /\ rate[256] = 8 /\ rate[512] = 7 /\ rate[1024] = 6
    BY <1>4, <1>5 DEF ValidFrequencies
  <1>7. /\ 32768 \div 2 ^ 14 = 2 /\ 32768 \div 2 ^ 13 = 4 /\ 32768 \div 2 ^ 12 = 8
        /\ 32768 \div 2 ^ 11 = 16 /\ 32768 \div 2 ^ 10 = 32 /\ 32768 \div 2 ^ 9 = 64
        /\ 32768 \div 2 ^ 8 = 128 /\ 32768 \div 2 ^ 7 = 256 /\ 32768 \div 2 ^ 6 = 512
        /\ 32768 \div 2 ^ 5 = 1024
    OBVIOUS
  <1>8. rate[f] \in 6 .. 15
    BY <1>5, <1>6 DEF ValidFrequencies
  <1>9. 32768 \div 2 ^ (rate[f] - 1) = f
    <2>1. CASE f = 2  BY <2>1, <1>5, <1>7
    <2>2. CASE f = 4  BY <2>2, <1>5, <1>7
    <2>3. CASE f = 8  BY <2>3, <1>5, <1>7
    <2>4. CASE f = 16  BY <2>4, <1>5, <1>7
    <2>5. CASE f = 32  BY <2>5, <1>5, <1>7
    <2>6. CASE f = 64  BY <2>6, <1>6, <1>7
    <2>7. CASE f = 128  BY <2>7, <1>6, <1>7
    <2>8. CASE f = 256  BY <2>8, <1>6, <1>7
    <2>9. CASE f = 512  BY <2>9, <1>6, <1>7
    <2>10. CASE f = 1024  BY <2>10, <1>6, <1>7
    <2> QED  BY <2>1, <2>2, <2>3, <2>4, <2>5, <2>6, <2>7, <2>8, <2>9, <2>10 DEF ValidFrequencies
  <1> QED  BY <1>3, <1>8, <1>9

(***************************************************************************)
(* What holds wherever interrupts arrive.  TypeOK needs that only          *)
(* frequencies RTC_write lets through are ever turned into a rate: of      *)
(* another one Rate says nothing.                                          *)
(***************************************************************************)
Accepted == \A t \in Terminals : thread[t].freq \in ValidFrequencies

\* A read whose flag is down again has been woken by an interrupt.
Woken == \A t \in Terminals : thread[t].stage = "read" /\ RTC_flag[t] = 0 => t \in fresh

BaseInv == TypeOK /\ Accepted /\ Woken

\* What the driver writes to registers A and B is a byte.
LEMMA Bytes ==
    ASSUME NEW prev \in 0 .. 255, NEW f \in ValidFrequencies
    PROVE  /\ WithBit6(prev) \in 0 .. 255
           /\ WithRate(prev, Rate(f)) \in 0 .. 255
           /\ WithRate(prev, Rate(f)) \div 16 = prev \div 16
           /\ WithRate(prev, Rate(f)) % 16 = Rate(f)
  <1>1. Rate(f) \in 0 .. 15
    BY RateIs
  <1>2. WithBit6(prev) \in 0 .. 255
    BY DEF WithBit6
  <1>3. PICK r \in 0 .. 15 : r = Rate(f)
    BY <1>1
  <1>4. PICK q \in 0 .. 15 : q = prev \div 16
    OBVIOUS
  <1>5. WithRate(prev, Rate(f)) = 16 * q + r
    BY <1>3, <1>4 DEF WithRate
  <1>6. 16 * q + r \in 0 .. 255 /\ (16 * q + r) \div 16 = q /\ (16 * q + r) % 16 = r
    OBVIOUS
  <1> QED  BY <1>2, <1>3, <1>4, <1>5, <1>6

\* At boot every thread is idle, with a valid frequency at hand.
LEMMA InitBase == Init => BaseInv
  <1> SUFFICES ASSUME Init PROVE BaseInv
    OBVIOUS
  <1>1. TypeOK
    <2>1. [A |-> 38, B |-> 2] \in [{"A", "B"} -> 0 .. 255]
      OBVIOUS
    <2>2. Idle \in [stage : Stages, opening : BOOLEAN, prev : 0 .. 255, freq : Nat]
      BY DEF Idle, Stages
    <2> QED  BY <2>1, <2>2 DEF Init, TypeOK
  <1>2. Accepted /\ Woken
    BY DEF Init, Accepted, Woken, Idle, ValidFrequencies
  <1> QED  BY <1>1, <1>2 DEF BaseInv

\* The frequency of a write that is not refused is one of the ten.
LEMMA ValidIsOneOf == ASSUME NEW f, Valid(f) PROVE f \in ValidFrequencies
  BY PowersOfTwo DEF Valid

\* One step of the program of the running terminal that leaves its read alone.
LEMMA ThreadStep ==
    ASSUME BaseInv, NEW n \in Terminals, NEW r,
           r \in [stage : Stages, opening : BOOLEAN, prev : 0 .. 255, freq : Nat],
           r.freq \in ValidFrequencies, r.stage # "read",
           thread' = [thread EXCEPT ![n] = r], UNCHANGED <<RTC_flag, fresh, terminal_num>>
    PROVE  /\ thread' \in [Terminals -> [stage : Stages, opening : BOOLEAN, prev : 0 .. 255, freq : Nat]]
           /\ RTC_flag' \in [Terminals -> {0, 1}] /\ fresh' \subseteq Terminals /\ terminal_num' \in Terminals
           /\ Accepted' /\ Woken'
  BY DEF BaseInv, TypeOK, Accepted, Woken

\* Every step keeps the types, the frequencies and the meaning of the flags.
LEMMA NextBase == BaseInv /\ [Next]_vars => BaseInv'
  <1> SUFFICES ASSUME BaseInv, [Next]_vars PROVE BaseInv'
    OBVIOUS
  <1> DEFINE n == terminal_num
             me == thread[n]
  <1>1. /\ n \in Terminals
        /\ me \in [stage : Stages, opening : BOOLEAN, prev : 0 .. 255, freq : Nat]
        /\ me.freq \in ValidFrequencies
    BY DEF BaseInv, TypeOK, Accepted
  <1>2. CASE UNCHANGED vars
    BY <1>2 DEF vars, BaseInv, TypeOK, Accepted, Woken
  <1>3. ASSUME NEW from, NEW r \in {"A", "B"}, NEW to \in Stages \ {"read"}, Select(from, r, to)
        PROVE  BaseInv'
    <2>1. thread' = [thread EXCEPT ![n] = [me EXCEPT !.stage = to]]
      BY <1>1, <1>3 DEF Select, Goto, BaseInv, TypeOK
    <2>2. Accepted' /\ Woken' /\ TypeOK'
      BY <1>1, <1>3, <2>1, ThreadStep DEF Select, BaseInv, TypeOK
    <2> QED  BY <2>2 DEF BaseInv
  <1>4. ASSUME NEW from, NEW to \in Stages \ {"read"}, Fetch(from, to) PROVE BaseInv'
    <2> DEFINE v == IF index = "C" THEN 0 ELSE reg[index]
               r == [me EXCEPT !.stage = to, !.prev = v]
    <2>1. v \in 0 .. 255
      BY DEF BaseInv, TypeOK
    <2> HIDE DEF v
    <2>2. thread' = [thread EXCEPT ![n] = r]
      BY <1>1, <1>4 DEF Fetch, v, BaseInv, TypeOK
    <2>3. /\ r \in [stage : Stages, opening : BOOLEAN, prev : 0 .. 255, freq : Nat]
          /\ r.freq \in ValidFrequencies /\ r.stage # "read"
      BY <1>1, <2>1
    <2> HIDE DEF r
    <2>4. Accepted' /\ Woken' /\ TypeOK'
      BY <1>1, <1>4, <2>2, <2>3, ThreadStep DEF Fetch, BaseInv, TypeOK
    <2> QED  BY <2>4 DEF BaseInv
  <1>5. ASSUME NEW from, NEW v \in 0 .. 255, NEW to \in Stages \ {"read"}, Store(from, v, to), asked' \in Nat
        PROVE  BaseInv'
    <2>1. thread' = [thread EXCEPT ![n] = [me EXCEPT !.stage = to]]
      BY <1>1, <1>5 DEF Store, Goto, BaseInv, TypeOK
    <2>2. reg' \in [{"A", "B"} -> 0 .. 255]
      BY <1>5 DEF Store, BaseInv, TypeOK
    <2>3. Accepted' /\ Woken' /\ TypeOK'
      BY <1>1, <1>5, <2>1, <2>2, ThreadStep DEF Store, BaseInv, TypeOK
    <2> QED  BY <2>3 DEF BaseInv
  <1>6. WithBit6(me.prev) \in 0 .. 255 /\ WithRate(me.prev, Rate(me.freq)) \in 0 .. 255
    BY <1>1, Bytes
  <1>7. CASE EnableInterrupt
    <2>1. "reselectB" \in Stages \ {"read"} /\ "storeB" \in Stages \ {"read"} /\ "selectA" \in Stages \ {"read"}
      BY DEF Stages, PortStages
    <2>2. CASE Fetch("fetchB", "reselectB")
      BY <1>4, <2>1, <2>2
    <2>3. CASE Select("reselectB", "B", "storeB")
      BY <1>3, <2>1, <2>3
    <2>4. CASE Store("storeB", WithBit6(me.prev), "selectA") /\ UNCHANGED asked
      <3>1. asked' \in Nat
        BY <2>4 DEF BaseInv, TypeOK
      <3> QED  BY <1>5, <1>6, <2>1, <2>4, <3>1
    <2> QED  BY <1>7, <2>2, <2>3, <2>4 DEF EnableInterrupt
  <1>8. CASE SetRate
    BY <1>1, <1>3, <1>4, <1>5, <1>6, <1>8 DEF SetRate, Stages, PortStages
  <1>9. ASSUME NEW r, r \in [stage : Stages, opening : BOOLEAN, prev : 0 .. 255, freq : Nat],
               r.freq \in ValidFrequencies, r.stage # "read",
               thread' = [thread EXCEPT ![n] = r], UNCHANGED <<RTC_flag, fresh, terminal_num, reg, asked>>,
               index' \in {"A", "B", "C"}, irq_enabled' \in BOOLEAN, opened' \subseteq Terminals
        PROVE  BaseInv'
    BY <1>1, <1>9, ThreadStep DEF BaseInv, TypeOK
  <1>10. /\ Idle \in [stage : Stages, opening : BOOLEAN, prev : 0 .. 255, freq : Nat]
         /\ Idle.freq \in ValidFrequencies /\ Idle.stage # "read"
    BY DEF Idle, Stages, ValidFrequencies
  <1>11. CASE Unmask \/ ReadEnd
    <2>1. thread' = [thread EXCEPT ![n] = Idle] /\ UNCHANGED <<RTC_flag, fresh, terminal_num, reg, asked>>
      BY <1>11 DEF Unmask, ReadEnd
    <2>2. index' \in {"A", "B", "C"} /\ irq_enabled' \in BOOLEAN /\ opened' \subseteq Terminals
      BY <1>1, <1>11 DEF Unmask, ReadEnd, BaseInv, TypeOK
    <2> QED  BY ONLY <1>9, <1>10, <2>1, <2>2
  <1>12. CASE Open
    <2> DEFINE r == [stage |-> "fetchB", opening |-> TRUE, prev |-> 0, freq |-> 2]
    <2>1. /\ r \in [stage : Stages, opening : BOOLEAN, prev : 0 .. 255, freq : Nat]
          /\ r.freq \in ValidFrequencies /\ r.stage # "read"
      BY DEF Stages, PortStages, ValidFrequencies
    <2> QED  BY <1>9, <1>12, <2>1 DEF Open, BaseInv, TypeOK
  <1>13. CASE Write
    <2>1. PICK f \in Frequencies :
             thread' = [thread EXCEPT ![n] =
                           IF Valid(f) THEN [stage |-> "selectA", opening |-> FALSE, prev |-> 0, freq |-> f]
                           ELSE Idle]
      BY <1>13 DEF Write
    <2> DEFINE r == IF Valid(f) THEN [stage |-> "selectA", opening |-> FALSE, prev |-> 0, freq |-> f]
                    ELSE Idle
    <2>2. /\ r \in [stage : Stages, opening : BOOLEAN, prev : 0 .. 255, freq : Nat]
          /\ r.freq \in ValidFrequencies /\ r.stage # "read"
      BY <1>10, ValidIsOneOf, FrequenciesAssumption DEF Stages
    <2> HIDE DEF r
    <2>3. thread' = [thread EXCEPT ![n] = r]
      BY <2>1 DEF r
    <2> QED  BY <1>9, <1>13, <2>2, <2>3 DEF Write, BaseInv, TypeOK
  <1>14. CASE ReadStart
    <2>1. TypeOK'
      BY <1>1, <1>14 DEF ReadStart, Goto, BaseInv, TypeOK, Stages
    <2>2. Accepted' /\ Woken'
      BY <1>1, <1>14 DEF ReadStart, Goto, BaseInv, TypeOK, Accepted, Woken
    <2> QED  BY <2>1, <2>2 DEF BaseInv
  <1>15. CASE Interrupt
    BY <1>15 DEF Interrupt, BaseInv, TypeOK, Accepted, Woken
  <1>16. CASE Tick
    <2>1. terminal_num' \in Terminals
      BY <1>1, <1>16, TerminalsAssumption DEF Tick, Terminals
    <2> QED  BY <2>1, <1>16 DEF Tick, BaseInv, TypeOK, Accepted, Woken
  <1> QED  BY <1>2, <1>7, <1>8, <1>11, <1>12, <1>13, <1>14, <1>15, <1>16 DEF Next, Access

\* The types, the frequencies and the meaning of the flags hold throughout.
THEOREM BaseInvariance == Spec => []BaseInv
  BY InitBase, NextBase, PTL DEF Spec

\* Every variable keeps its type: whatever RTC_open and RTC_write compute from
\* a register fits the register.
THEOREM TypeCorrect == Spec => []TypeOK
  <1>1. BaseInv => TypeOK
    BY DEF BaseInv
  <1> QED  BY <1>1, BaseInvariance, PTL

\* RTC_read returns only after an interrupt that came after its call.
THEOREM ReadsWait == Spec => ReadWaits
  <1> DEFINE Waits == \A t \in Terminals :
                         thread[t].stage = "read" /\ thread'[t].stage = "idle" => t \in fresh
  <1>1. BaseInv /\ [Next]_vars => [Waits]_vars
    <2> SUFFICES ASSUME BaseInv, [Next]_vars, NEW t \in Terminals,
                        thread[t].stage = "read", thread'[t].stage = "idle"
                 PROVE  t \in fresh
      OBVIOUS
    <2>1. CASE ReadEnd
      BY <2>1 DEF ReadEnd, BaseInv, TypeOK, Woken
    <2>2. CASE EnableInterrupt \/ SetRate \/ Unmask
      BY <2>2 DEF EnableInterrupt, SetRate, Unmask, Select, Fetch, Store, At, Goto, BaseInv, TypeOK
    <2>3. CASE Open \/ Write \/ ReadStart
      BY <2>3 DEF Open, Write, ReadStart, At, Goto, BaseInv, TypeOK
    <2>4. CASE Interrupt \/ Tick \/ UNCHANGED vars
      BY <2>4 DEF Interrupt, Tick, vars
    <2> QED  BY <2>1, <2>2, <2>3, <2>4 DEF Next, Access
  <1> QED  BY <1>1, BaseInvariance, PTL DEF Spec, ReadWaits

(***************************************************************************)
(* The rate, when no interrupt comes between two port accesses.            *)
(***************************************************************************)
\* A terminal in the middle of its port accesses is the running one.
OnlyRunning == \A t \in Terminals : thread[t].stage \in PortStages => t = terminal_num

\* The register it is about to read or write is still the one it selected.
Selected ==
    \A t \in Terminals :
        /\ thread[t].stage \in {"fetchB", "storeB"} => index = "B"
        /\ thread[t].stage \in {"fetchA", "storeA"} => index = "A"

\* The divider bits are those the firmware set, in the chip and in the copy a
\* program is about to write back.
DividerKept ==
    /\ reg["A"] \div 16 = 2
    /\ \A t \in Terminals : thread[t].stage \in {"reselectA", "storeA"} => thread[t].prev \div 16 = 2

\* The rate in the chip is that of the last frequency asked for, even while a
\* program is on its way to change it.
RateKept == asked # 0 => 32768 \div 2 ^ ((reg["A"] % 16) - 1) = asked

RateInv == BaseInv /\ OnlyRunning /\ Selected /\ DividerKept /\ RateKept

\* At boot no port access is under way and no frequency has been asked for.
LEMMA InitRate == Init => RateInv
  <1> SUFFICES ASSUME Init PROVE RateInv
    OBVIOUS
  <1>1. OnlyRunning /\ Selected
    BY DEF Init, Idle, OnlyRunning, Selected, PortStages
  <1>2. DividerKept /\ RateKept
    <2>1. reg["A"] = 38 /\ 38 \div 16 = 2
      BY DEF Init
    <2> QED  BY <2>1 DEF Init, Idle, DividerKept, RateKept
  <1> QED  BY <1>1, <1>2, InitBase DEF RateInv

\* A step of the running terminal's program that writes neither register A nor
\* asked keeps the invariant if what it leaves in the thread fits what the
\* chip has selected.
LEMMA AccessStep ==
    ASSUME RateInv, BaseInv', NEW r, thread' = [thread EXCEPT ![terminal_num] = r],
           UNCHANGED <<terminal_num, asked>>, reg'["A"] = reg["A"],
           r.stage \in {"fetchB", "storeB"} => index' = "B",
           r.stage \in {"fetchA", "storeA"} => index' = "A",
           r.stage \in {"reselectA", "storeA"} => r.prev \div 16 = 2
    PROVE  RateInv'
  <1>1. terminal_num \in Terminals /\ DOMAIN thread = Terminals
    BY DEF RateInv, BaseInv, TypeOK
  <1>2. \A t \in Terminals : thread'[t] = IF t = terminal_num THEN r ELSE thread[t]
    BY <1>1 DEF RateInv, BaseInv, TypeOK
  <1>3. \A t \in Terminals : t # terminal_num => thread[t].stage \notin PortStages
    BY DEF RateInv, OnlyRunning
  <1>4. OnlyRunning' /\ Selected'
    BY <1>2, <1>3 DEF OnlyRunning, Selected, PortStages
  <1>5. DividerKept' /\ RateKept'
    BY <1>2, <1>3 DEF RateInv, DividerKept, RateKept, PortStages
  <1> QED  BY <1>4, <1>5 DEF RateInv

\* The step of RTC_open and RTC_write that stores the rate: register A is
\* selected, and the byte stored has the old divider bits and the rate asked
\* for.
LEMMA StoreRate ==
    ASSUME RateInv, BaseInv', NEW to \in {"unmask", "idle"},
           Store("storeA", WithRate(thread[terminal_num].prev, Rate(thread[terminal_num].freq)), to),
           asked' = thread[terminal_num].freq
    PROVE  RateInv'
  <1> DEFINE me == thread[terminal_num]
             byte == WithRate(me.prev, Rate(me.freq))
  <1>1. /\ terminal_num \in Terminals /\ me.stage = "storeA"
        /\ me.prev \in 0 .. 255 /\ me.freq \in ValidFrequencies
    BY DEF RateInv, BaseInv, TypeOK, Accepted, Store, At
  <1>2. index = "A" /\ me.prev \div 16 = 2
    BY <1>1 DEF RateInv, Selected, DividerKept
  <1> HIDE DEF me
  <1>3. byte \div 16 = me.prev \div 16 /\ byte % 16 = Rate(me.freq)
        /\ 32768 \div 2 ^ (Rate(me.freq) - 1) = me.freq
    <2>1. byte \div 16 = me.prev \div 16 /\ byte % 16 = Rate(me.freq)
      BY <1>1, Bytes
    <2>2. 32768 \div 2 ^ (Rate(me.freq) - 1) = me.freq
      BY <1>1, RateIs
    <2> QED  BY <2>1, <2>2
  <1> HIDE DEF byte
  <1>4. reg'["A"] = byte
    BY <1>2 DEF Store, byte, me, RateInv, BaseInv, TypeOK
  <1>5. \A t \in Terminals : thread'[t].stage \notin PortStages
    <2>1. thread' = [thread EXCEPT ![terminal_num].stage = to]
      BY DEF Store, Goto
    <2>2. thread \in [Terminals -> [stage : Stages, opening : BOOLEAN, prev : 0 .. 255, freq : Nat]]
      BY DEF RateInv, BaseInv, TypeOK
    <2>3. thread'[terminal_num].stage = to /\ \A t \in Terminals : t # terminal_num => thread'[t] = thread[t]
      BY <1>1, <2>1, <2>2
    <2>4. \A t \in Terminals : t # terminal_num => thread[t].stage \notin PortStages
      BY DEF RateInv, OnlyRunning
    <2>5. to \notin PortStages
      BY DEF PortStages
    <2> QED  BY ONLY <2>3, <2>4, <2>5
  <1>6. OnlyRunning' /\ Selected'
    BY <1>5 DEF OnlyRunning, Selected, PortStages
  <1>7. DividerKept'
    BY <1>2, <1>3, <1>4, <1>5 DEF DividerKept, PortStages
  <1>8. RateKept'
    BY <1>3, <1>4 DEF RateKept, me
  <1> QED  BY <1>6, <1>7, <1>8 DEF RateInv

\* Every step keeps the invariant.
LEMMA NextRate == ~PortInterrupts /\ RateInv /\ [Next]_vars => RateInv'
  <1> SUFFICES ASSUME ~PortInterrupts, RateInv, [Next]_vars PROVE RateInv'
    OBVIOUS
  <1> DEFINE n == terminal_num
             me == thread[n]
  <1>1. BaseInv'
    BY NextBase DEF RateInv
  <1>2. n \in Terminals /\ me \in [stage : Stages, opening : BOOLEAN, prev : 0 .. 255, freq : Nat]
        /\ reg \in [{"A", "B"} -> 0 .. 255] /\ thread \in [Terminals -> [stage : Stages, opening : BOOLEAN, prev : 0 .. 255, freq : Nat]]
    BY DEF RateInv, BaseInv, TypeOK
  <1>3. CASE UNCHANGED vars
    BY <1>1, <1>3 DEF vars, RateInv, OnlyRunning, Selected, DividerKept, RateKept
  <1>4. CASE Open
    BY <1>1, <1>4, AccessStep DEF Open
  <1>5. CASE EnableInterrupt
    <2>1. ASSUME NEW r, thread' = [thread EXCEPT ![n] = r], r.stage = "reselectB",
                 UNCHANGED <<terminal_num, asked, reg>>
          PROVE  RateInv'
      BY <1>1, <2>1, AccessStep
    <2>2. CASE Fetch("fetchB", "reselectB")
      <3> DEFINE r == [me EXCEPT !.stage = "reselectB", !.prev = IF index = "C" THEN 0 ELSE reg[index]]
      <3>1. thread' = [thread EXCEPT ![n] = r] /\ r.stage = "reselectB"
        BY <1>2, <2>2 DEF Fetch
      <3> HIDE DEF r
      <3> QED  BY <2>1, <2>2, <3>1 DEF Fetch
    <2>3. CASE Select("reselectB", "B", "storeB")
      <3> DEFINE r == [me EXCEPT !.stage = "storeB"]
      <3>1. thread' = [thread EXCEPT ![n] = r] /\ r.stage = "storeB"
        BY <1>2, <2>3 DEF Select, Goto
      <3> HIDE DEF r
      <3> QED  BY <1>1, <2>3, <3>1, AccessStep DEF Select
    <2>4. CASE Store("storeB", WithBit6(me.prev), "selectA") /\ UNCHANGED asked
      <3> DEFINE r == [me EXCEPT !.stage = "selectA"]
      <3>1. thread' = [thread EXCEPT ![n] = r] /\ r.stage = "selectA"
        BY <1>2, <2>4 DEF Store, Goto
      <3>2. index = "B"
        BY <1>2, <2>4 DEF Store, At, RateInv, Selected
      <3>3. reg'["A"] = reg["A"]
        BY <1>2, <2>4, <3>2 DEF Store
      <3> HIDE DEF r
      <3> QED  BY <1>1, <2>4, <3>1, <3>3, AccessStep DEF Store
    <2> QED  BY <1>5, <2>2, <2>3, <2>4 DEF EnableInterrupt
  <1>6. CASE SetRate
    <2>1. CASE Select("selectA", "A", "fetchA")
      <3> DEFINE r == [me EXCEPT !.stage = "fetchA"]
      <3>1. thread' = [thread EXCEPT ![n] = r] /\ r.stage = "fetchA"
        BY <1>2, <2>1 DEF Select, Goto
      <3> HIDE DEF r
      <3> QED  BY <1>1, <2>1, <3>1, AccessStep DEF Select
    <2>2. CASE Fetch("fetchA", "reselectA")
      <3> DEFINE r == [me EXCEPT !.stage = "reselectA", !.prev = reg["A"]]
      <3>1. index = "A"
        BY <1>2, <2>2 DEF Fetch, At, RateInv, Selected
      <3>2. thread' = [thread EXCEPT ![n] = r] /\ r.stage = "reselectA" /\ r.prev = reg["A"]
        BY <1>2, <2>2, <3>1 DEF Fetch
      <3>3. reg["A"] \div 16 = 2
        BY DEF RateInv, DividerKept
      <3> HIDE DEF r
      <3> QED  BY <1>1, <2>2, <3>2, <3>3, AccessStep DEF Fetch
    <2>3. CASE Select("reselectA", "A", "storeA")
      <3> DEFINE r == [me EXCEPT !.stage = "storeA"]
      <3>1. thread' = [thread EXCEPT ![n] = r] /\ r.stage = "storeA" /\ r.prev = me.prev
        BY <1>2, <2>3 DEF Select, Goto
      <3>2. me.prev \div 16 = 2
        BY <1>2, <2>3 DEF Select, At, RateInv, DividerKept
      <3> HIDE DEF r
      <3> QED  BY <1>1, <2>3, <3>1, <3>2, AccessStep DEF Select
    <2>4. ASSUME Store("storeA", WithRate(me.prev, Rate(me.freq)), IF me.opening THEN "unmask" ELSE "idle"),
                 asked' = me.freq
          PROVE  RateInv'
      BY <1>1, <2>4, StoreRate
    <2> QED  BY <1>6, <2>1, <2>2, <2>3, <2>4 DEF SetRate
  <1>7. CASE Unmask \/ ReadEnd
    BY <1>1, <1>7, AccessStep DEF Unmask, ReadEnd, Idle
  <1>8. CASE Write
    <2>1. PICK f \in Frequencies :
             thread' = [thread EXCEPT ![n] =
                           IF Valid(f) THEN [stage |-> "selectA", opening |-> FALSE, prev |-> 0, freq |-> f]
                           ELSE Idle]
      BY <1>8 DEF Write
    <2> DEFINE r == IF Valid(f) THEN [stage |-> "selectA", opening |-> FALSE, prev |-> 0, freq |-> f]
                    ELSE Idle
    <2>2. thread' = [thread EXCEPT ![n] = r] /\ r.stage \in {"selectA", "idle"}
      BY <2>1 DEF Idle
    <2> HIDE DEF r
    <2> QED  BY <1>1, <1>8, <2>2, AccessStep DEF Write
  <1>9. CASE ReadStart
    <2> DEFINE r == [me EXCEPT !.stage = "read"]
    <2>1. thread' = [thread EXCEPT ![n] = r] /\ r.stage = "read"
      BY <1>2, <1>9 DEF ReadStart, Goto
    <2> HIDE DEF r
    <2> QED  BY <1>1, <1>9, <2>1, AccessStep DEF ReadStart
  <1>10. CASE Interrupt \/ Tick
    <2>1. UNCHANGED <<thread, reg, asked>> /\ me.stage \notin PortStages
      BY <1>10 DEF Interrupt, Tick, Interruptible
    <2>2. \A t \in Terminals : thread[t].stage \notin PortStages
      BY <2>1 DEF RateInv, OnlyRunning
    <2> QED  BY <1>1, <2>1, <2>2 DEF RateInv, OnlyRunning, Selected, DividerKept, RateKept, PortStages
  <1> QED  BY <1>3, <1>4, <1>5, <1>6, <1>7, <1>8, <1>9, <1>10 DEF Next, Access

\* While no terminal is changing it, register A holds the rate of the frequency
\* asked for last and the divider bits of boot, whichever terminals open and
\* write the clock, in whichever order.
THEOREM RateCorrect == ASSUME ~PortInterrupts PROVE Spec => []RateAsAsked
  <1>1. Init => RateInv
    BY InitRate
  <1>2. RateInv /\ [Next]_vars => RateInv'
    BY NextRate
  <1>3. RateInv => RateAsAsked
    BY DEF RateInv, DividerKept, RateKept, RateAsAsked
  <1> QED  BY <1>1, <1>2, <1>3, PTL DEF Spec
=============================================================================
