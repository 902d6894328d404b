--------------------------- MODULE ProcessProofs ---------------------------
(***************************************************************************)
(* Proofs about Process, for every number of slots and every set of halt   *)
(* statuses: while commands come after boot, only the first shell of       *)
(* terminal 0 is left and halt is not interrupted once it has begun to     *)
(* restore its parent, the terminals stay apart.                           *)
(***************************************************************************)
EXTENDS Process, TLAPS

Orderly == PreemptHalt \subseteq {"closing"} /\ ExitRoots \subseteq {0} /\ ~BootCommands

(***************************************************************************)
(* The inductive invariant, in parts.                                      *)
(***************************************************************************)
Booting == term_esp[0] = NULL

\* Until the second round starts, the shells of the terminals that have had
\* a turn are the only processes, in the slots with the terminals' numbers.
BootInv ==
    /\ cpu.stage = "boot" <=> terminal_num = NULL
    /\ cpu.stage = "boot" => Booting
    /\ Booting =>
          /\ cpu.stage \in {"boot", "user", "exception"}
          /\ \A p \in Pids : parent_pcb[p] = NULL
          /\ \A p \in Pids : pid_array[p] = IF p <= terminal_num THEN 1 ELSE 0
          /\ \A t \in Terminals : active_process[t] = IF t <= terminal_num THEN t ELSE NULL
    /\ ~Booting =>
          \A t \in Terminals : active_process[t] = NULL =>
              cpu.stage = "orphan" /\ t = terminal_num

\* A process that waits for a child is inside execute, on its own stack.
WaitInv ==
    \A p \in Live : parent_pcb[p] # NULL =>
        /\ pcb_esp[p] = parent_pcb[p]
        /\ stack[parent_pcb[p]].stage = "wait"
        /\ stack[parent_pcb[p]].prog = parent_pcb[p]
        /\ stack[parent_pcb[p]].term = owner[p]
        /\ active_process[owner[p]] # parent_pcb[p]

\* An interrupted halt runs on the stack of the process that halts; only
\* terminal 0 halts a root shell.
FrameInv ==
    \A t \in Terminals :
        /\ t # terminal_num /\ active_process[t] # NULL
        /\ stack[active_process[t]].stage \in HaltStages
        => /\ stack[active_process[t]].stk = active_process[t]
           /\ parent_pcb[active_process[t]] = NULL => t = 0

\* What each stage of the running context has established.
CpuInv ==
    /\ cpu.stage \notin {"none", "wait", "crashed"}
    /\ cpu.stage # "boot" => cpu.term = terminal_num
    /\ cpu.stage \notin {"boot", "orphan"} => Active # NULL /\ cpu.prog = Active
    /\ cpu.stage \in {"user", "exception", "closing"} => page = Active /\ tss = Active
    /\ cpu.stage \in ParentStages => cpu.stk = Active
    /\ cpu.stage = "closing" /\ Parent = NULL => terminal_num = 0
    /\ cpu.stage = "paged" => Parent # NULL /\ page = Parent /\ tss = Active
    /\ cpu.stage \in {"tss", "freed"} => Parent # NULL /\ page = Parent /\ tss = Parent
    /\ cpu.stage = "freed" => pid_array[Active] = 0
    /\ cpu.stage = "rootfreed" => terminal_num = 0 /\ Active = 0 /\ pid_array[0] = 0
    /\ cpu.stage = "orphan" => terminal_num = 0 /\ Active = NULL /\ pid_array[0] = 0

\* Slot 0 belongs to the first shell of terminal 0.
RootInv ==
    /\ parent_pcb[0] = NULL
    /\ ~Booting /\ cpu.stage \notin RootStages => pid_array[0] = 1
    /\ 0 \in Live => owner[0] = 0
    /\ \A p \in Live : owner[p] = 0 /\ parent_pcb[p] = NULL => p = 0

IInv ==
    /\ TypeOK /\ BootInv /\ PcbExclusive /\ WaitInv /\ ParentIsCaller
    /\ NoSlotLost /\ FramesIntact /\ FrameInv /\ CpuInv /\ RootInv

(***************************************************************************)
(* Facts about the helpers and about what the invariant says of a running  *)
(* program.                                                                *)
(***************************************************************************)
\* NULL is no slot and there are slots 0, 1 and 2.
LEMMA PidsFacts ==
    /\ Pids \subseteq Int
    /\ 0 \in Pids /\ 1 \in Pids /\ 2 \in Pids
    /\ NULL \notin Pids /\ NULL \notin Terminals
    /\ \A t \in Terminals \cup {NULL} : Following(t) \in Terminals /\ Following(t) # t
  BY ProcessMaxAssumption DEF Pids, NULL, Terminals, Following

\* Only slots are live.
LEMMA LiveFacts == Live \subseteq Pids
  BY DEF Live

\* A step that only moves the running context between stages in which its
\* process is in use, and changes page, tss or ret_val, keeps every part of
\* the invariant that is about slots and saved frames.
QuietStages == {"user", "exception", "closing", "paged", "tss"}

\* A step that changes only cpu, page, tss and ret_val, outside the stages
\* Live looks at, disturbs no fact about slots and frames.
LEMMA QuietStep ==
    ASSUME IInv, cpu.stage \in QuietStages, cpu'.stage \in QuietStages,
           UNCHANGED <<procVars, active_process, term_esp, terminal_num, stack>>
    PROVE  /\ PcbExclusive' /\ WaitInv' /\ ParentIsCaller'
           /\ NoSlotLost' /\ FramesIntact' /\ FrameInv'
           /\ Live' = Live
  <1>1. Live' = {p \in Pids : pid_array[p] = 1}
    BY DEF QuietStages, Live, procVars
  <1>2. Live = {p \in Pids : pid_array[p] = 1}
    BY DEF QuietStages, Live
  <1>3. PcbExclusive'
    <2>1. \A t \in Terminals : active_process[t] # NULL => active_process[t] \in Pids
      BY DEF IInv, TypeOK
    <2>2. \A p \in Pids : parent_pcb[p] # NULL => parent_pcb[p] \in Pids
      BY DEF IInv, TypeOK
    <2> QED  BY <1>1, <1>2, <2>1, <2>2 DEF IInv, PcbExclusive, procVars
  <1>4. WaitInv'
    BY <1>1, <1>2 DEF IInv, WaitInv, procVars
  <1>5. ParentIsCaller' /\ NoSlotLost'
    BY <1>1, <1>2 DEF IInv, ParentIsCaller, NoSlotLost, procVars
  <1>6. FramesIntact' /\ FrameInv'
    BY DEF IInv, FramesIntact, FrameInv, procVars
  <1> QED  BY <1>1, <1>2, <1>3, <1>4, <1>5, <1>6

\* The state before the first tick satisfies the invariant.
LEMMA InitInv == Init => IInv
  <1> SUFFICES ASSUME Init PROVE IInv
    OBVIOUS
  <1>1. TypeOK
    BY PidsFacts DEF Init, TypeOK, Context, NoContext, Stages, HaltStages, ParentStages,
       RootStages, Terminals
  <1>2. Live = {}
    BY DEF Init, Live, NoContext
  <1>3. \A t \in Terminals : active_process[t] = NULL
    BY DEF Init
  <1>4. PcbExclusive /\ WaitInv /\ ParentIsCaller /\ NoSlotLost /\ FramesIntact /\ FrameInv
    BY <1>2, <1>3 DEF PcbExclusive, WaitInv, ParentIsCaller, NoSlotLost, FramesIntact, FrameInv
  <1>5. BootInv
    BY PidsFacts, ProcessMaxAssumption
    DEF Init, BootInv, Booting, NoContext, Terminals, NULL, Pids
  <1>6. CpuInv
    BY DEF Init, CpuInv, NoContext, ParentStages
  <1>7. RootInv
    BY <1>2, PidsFacts DEF Init, RootInv, Booting, Terminals
  <1> QED  BY <1>1, <1>4, <1>5, <1>6, <1>7 DEF IInv

\* The process of the running terminal is live, its own, and nobody's
\* parent.
LEMMA RunningFacts ==
    ASSUME IInv, cpu.stage \notin {"boot", "orphan"}
    PROVE  /\ terminal_num \in Terminals /\ cpu.term = terminal_num
           /\ Active \in Pids /\ cpu.prog = Active
           /\ Active \in Live /\ owner[Active] = terminal_num
           /\ \A t \in Terminals : t # terminal_num => active_process[t] # Active
           /\ \A p \in Live : parent_pcb[p] # Active
  <1>1. terminal_num \in Terminals /\ cpu.term = terminal_num
    BY DEF IInv, BootInv, TypeOK, CpuInv
  <1>2. Active \in Pids /\ Active # NULL /\ cpu.prog = Active
    BY <1>1, PidsFacts DEF IInv, CpuInv, TypeOK, Active
  <1>3. Active \in Live /\ owner[Active] = terminal_num
    BY <1>1, <1>2 DEF IInv, PcbExclusive, Active
  <1>4. \A t \in Terminals : t # terminal_num => active_process[t] # Active
    BY <1>2, <1>3 DEF IInv, PcbExclusive
  <1>5. ASSUME NEW p \in Live, parent_pcb[p] = Active
        PROVE  FALSE
    <2>1. owner[p] = terminal_num
      BY <1>2, <1>3, <1>5 DEF IInv, PcbExclusive
    <2> QED  BY <1>2, <1>5, <2>1 DEF IInv, WaitInv, Active
  <1> QED  BY <1>1, <1>2, <1>3, <1>4, <1>5

(***************************************************************************)
(* The actions that leave the slots alone.                                 *)
(***************************************************************************)
\* An exception handler changes no process.
LEMMA ExceptionInv == IInv /\ Exception => IInv'
  <1> SUFFICES ASSUME IInv, Exception PROVE IInv'
    OBVIOUS
  <1>1. cpu.stage = "user" /\ cpu' = [cpu EXCEPT !.stage = "exception"]
    BY DEF Exception
  <1>2. UNCHANGED <<procVars, active_process, term_esp, terminal_num, page, tss, ret_val, stack>>
    BY DEF Exception
  <1>3. cpu' \in Context /\ cpu'.stage = "exception" /\ cpu'.prog = cpu.prog
           /\ cpu'.term = cpu.term /\ cpu'.stk = cpu.stk
    BY <1>1 DEF IInv, TypeOK, Context, Stages
  <1>4. TypeOK'
    BY <1>2, <1>3 DEF IInv, TypeOK, procVars
  <1>5. /\ PcbExclusive' /\ WaitInv' /\ ParentIsCaller' /\ NoSlotLost'
        /\ FramesIntact' /\ FrameInv' /\ Live' = Live
    BY <1>1, <1>2, <1>3, QuietStep DEF QuietStages
  <1>6. BootInv'
    BY <1>1, <1>2, <1>3 DEF IInv, BootInv, Booting, procVars
  <1>7. CpuInv'
    BY <1>1, <1>2, <1>3 DEF IInv, CpuInv, Active, Parent, ParentStages, procVars
  <1>8. RootInv'
    BY <1>1, <1>2, <1>3, <1>5, PidsFacts DEF IInv, RootInv, Booting, RootStages, procVars
  <1> QED  BY <1>4, <1>5, <1>6, <1>7, <1>8 DEF IInv

\* A failing execute changes only the value it returns.
LEMMA ExecuteFailsInv == IInv /\ ExecuteFails => IInv'
  <1> SUFFICES ASSUME IInv, ExecuteFails PROVE IInv'
    OBVIOUS
  <1>1. cpu.stage = "user" /\ cpu' = [cpu EXCEPT !.eax = -1]
    BY DEF ExecuteFails, Commanded
  <1>2. UNCHANGED <<procVars, active_process, term_esp, terminal_num, page, tss, ret_val, stack>>
    BY DEF ExecuteFails
  <1>3. cpu' \in Context /\ cpu'.stage = "user" /\ cpu'.prog = cpu.prog
           /\ cpu'.term = cpu.term /\ cpu'.stk = cpu.stk
    BY <1>1 DEF IInv, TypeOK, Context, Stages
  <1>4. TypeOK'
    BY <1>2, <1>3 DEF IInv, TypeOK, procVars
  <1>5. /\ PcbExclusive' /\ WaitInv' /\ ParentIsCaller' /\ NoSlotLost'
        /\ FramesIntact' /\ FrameInv' /\ Live' = Live
    BY <1>1, <1>2, <1>3, QuietStep DEF QuietStages
  <1>6. BootInv'
    BY <1>1, <1>2, <1>3 DEF IInv, BootInv, Booting, procVars
  <1>7. CpuInv'
    BY <1>1, <1>2, <1>3 DEF IInv, CpuInv, Active, Parent, ParentStages, procVars
  <1>8. RootInv'
    BY <1>1, <1>2, <1>3, <1>5, PidsFacts DEF IInv, RootInv, Booting, RootStages, procVars
  <1> QED  BY <1>4, <1>5, <1>6, <1>7, <1>8 DEF IInv

\* halt: the status is stored.
LEMMA HaltStartInv == Orderly /\ IInv /\ HaltStart => IInv'
  <1> SUFFICES ASSUME Orderly, IInv, HaltStart PROVE IInv'
    OBVIOUS
  <1>1. PICK s \in Statuses : ret_val' = s
                /\ cpu' = [cpu EXCEPT !.stage = "closing", !.arg = s, !.stk = tss]
    BY DEF HaltStart
  <1>2. /\ UNCHANGED <<procVars, active_process, term_esp, terminal_num, page, tss, stack>>
        /\ cpu.stage = "user" /\ ~Booting
        /\ Parent = NULL => terminal_num = 0
    BY DEF HaltStart, Commanded, Orderly, Booting
  <1>3. cpu' \in Context /\ cpu'.stage = "closing" /\ cpu'.prog = cpu.prog
           /\ cpu'.term = cpu.term /\ cpu'.stk = tss
    <2>1. cpu \in Context /\ tss \in Pids \cup {NULL}
      BY DEF IInv, TypeOK
    <2>2. s \in 0 .. 255 /\ "closing" \in Stages
      BY StatusesAssumption DEF Stages, HaltStages, ParentStages
    <2> QED  BY <1>1, <2>1, <2>2, ZenonT(60) DEF Context
  <1>4. TypeOK'
    BY <1>1, <1>2, <1>3, StatusesAssumption DEF IInv, TypeOK, procVars
  <1>5. /\ PcbExclusive' /\ WaitInv' /\ ParentIsCaller' /\ NoSlotLost'
        /\ FramesIntact' /\ FrameInv' /\ Live' = Live
    BY <1>2, <1>3, QuietStep DEF QuietStages
  <1>6. BootInv'
    BY <1>2, <1>3 DEF IInv, BootInv, Booting, procVars
  <1>7. CpuInv'
    BY <1>2, <1>3 DEF IInv, CpuInv, Active, Parent, ParentStages, procVars
  <1>8. RootInv'
    BY <1>2, <1>3, <1>5, PidsFacts DEF IInv, RootInv, Booting, RootStages, procVars
  <1> QED  BY <1>4, <1>5, <1>6, <1>7, <1>8 DEF IInv

\* halt: the parent's page is mapped.
LEMMA HaltPagingInv == IInv /\ HaltPaging => IInv'
  <1> SUFFICES ASSUME IInv, HaltPaging PROVE IInv'
    OBVIOUS
  <1>1. cpu.stage = "closing" /\ cpu' = [cpu EXCEPT !.stage = "paged"]
    BY DEF HaltPaging, HaltStep
  <1>2. /\ UNCHANGED <<procVars, active_process, term_esp, terminal_num, tss, ret_val, stack>>
        /\ page' = Parent /\ Parent # NULL
    BY DEF HaltPaging, HaltStep, procVars
  <1>3. cpu' \in Context /\ cpu'.stage = "paged" /\ cpu'.prog = cpu.prog
           /\ cpu'.term = cpu.term /\ cpu'.stk = cpu.stk
    BY <1>1 DEF IInv, TypeOK, Context, Stages, HaltStages, ParentStages
  <1>4. TypeOK'
    BY <1>1, <1>2, <1>3, RunningFacts DEF IInv, TypeOK, procVars, Parent
  <1>5. /\ PcbExclusive' /\ WaitInv' /\ ParentIsCaller' /\ NoSlotLost'
        /\ FramesIntact' /\ FrameInv' /\ Live' = Live
    BY <1>1, <1>2, <1>3, QuietStep DEF QuietStages
  <1>6. BootInv'
    BY <1>1, <1>2, <1>3 DEF IInv, BootInv, Booting, procVars
  <1>7. CpuInv'
    BY <1>1, <1>2, <1>3 DEF IInv, CpuInv, Active, Parent, ParentStages, procVars
  <1>8. RootInv'
    BY <1>1, <1>2, <1>3, <1>5, PidsFacts DEF IInv, RootInv, Booting, RootStages, procVars
  <1> QED  BY <1>4, <1>5, <1>6, <1>7, <1>8 DEF IInv

\* halt: tss.esp0 is the parent's.
LEMMA HaltTssInv == IInv /\ HaltTss => IInv'
  <1> SUFFICES ASSUME IInv, HaltTss PROVE IInv'
    OBVIOUS
  <1>1. cpu.stage = "paged" /\ cpu' = [cpu EXCEPT !.stage = "tss"]
    BY DEF HaltTss, HaltStep
  <1>2. /\ UNCHANGED <<procVars, active_process, term_esp, terminal_num, page, ret_val, stack>>
        /\ tss' = Parent
    BY DEF HaltTss, HaltStep, procVars
  <1>3. cpu' \in Context /\ cpu'.stage = "tss" /\ cpu'.prog = cpu.prog
           /\ cpu'.term = cpu.term /\ cpu'.stk = cpu.stk
    BY <1>1 DEF IInv, TypeOK, Context, Stages, HaltStages, ParentStages
  <1>4. TypeOK'
    BY <1>1, <1>2, <1>3, RunningFacts DEF IInv, TypeOK, procVars, Parent
  <1>5. /\ PcbExclusive' /\ WaitInv' /\ ParentIsCaller' /\ NoSlotLost'
        /\ FramesIntact' /\ FrameInv' /\ Live' = Live
    BY <1>1, <1>2, <1>3, QuietStep DEF QuietStages
  <1>6. BootInv'
    BY <1>1, <1>2, <1>3 DEF IInv, BootInv, Booting, procVars
  <1>7. CpuInv'
    BY <1>1, <1>2, <1>3 DEF IInv, CpuInv, Active, Parent, ParentStages, procVars
  <1>8. RootInv'
    BY <1>1, <1>2, <1>3, <1>5, PidsFacts DEF IInv, RootInv, Booting, RootStages, procVars
  <1> QED  BY <1>4, <1>5, <1>6, <1>7, <1>8 DEF IInv

(***************************************************************************)
(* The end of halt for a process with a parent.                            *)
(***************************************************************************)
\* halt: the slot is freed while active_process still points to it.
LEMMA HaltFreeInv == IInv /\ HaltFree => IInv'
  <1> SUFFICES ASSUME IInv, HaltFree PROVE IInv'
    OBVIOUS
  <1>1. cpu.stage = "tss" /\ cpu' = [cpu EXCEPT !.stage = "freed"]
    BY DEF HaltFree, HaltStep
  <1>2. /\ UNCHANGED <<parent_pcb, pcb_esp, owner, caller, active_process, term_esp,
                       terminal_num, page, tss, ret_val, stack>>
        /\ pid_array' = [pid_array EXCEPT ![Active] = 0]
    BY DEF HaltFree, HaltStep
  <1>3. cpu' \in Context /\ cpu'.stage = "freed" /\ cpu'.prog = cpu.prog
           /\ cpu'.term = cpu.term /\ cpu'.stk = cpu.stk
    BY <1>1 DEF IInv, TypeOK, Context, Stages, HaltStages, ParentStages
  <1>4. Active \in Pids /\ Active \in Live /\ Active' = Active /\ Parent # NULL
    BY <1>1, <1>2, RunningFacts DEF Active, IInv, CpuInv
  <1>5. TypeOK'
    BY <1>2, <1>3, <1>4 DEF IInv, TypeOK
  \* The slot stays live until HaltReturn.
  <1>6. Live' = Live
    BY <1>1, <1>2, <1>3, <1>4 DEF Live, IInv, TypeOK
  <1>7. \A t \in Terminals : active_process[t] # NULL => active_process[t] \in Pids
    BY DEF IInv, TypeOK
  <1>8. \A p \in Pids : parent_pcb[p] # NULL => parent_pcb[p] \in Pids
    BY DEF IInv, TypeOK
  <1>9. PcbExclusive'
    BY <1>2, <1>6, <1>7, <1>8 DEF IInv, PcbExclusive
  <1>10. WaitInv' /\ ParentIsCaller' /\ NoSlotLost'
    BY <1>2, <1>6 DEF IInv, WaitInv, ParentIsCaller, NoSlotLost
  <1>11. FramesIntact' /\ FrameInv'
    BY <1>2 DEF IInv, FramesIntact, FrameInv
  <1>12. BootInv'
    BY <1>1, <1>2, <1>3 DEF IInv, BootInv, Booting
  <1>13. CpuInv'
    BY <1>1, <1>2, <1>3, <1>4 DEF IInv, TypeOK, CpuInv, Active, Parent, ParentStages
  <1>14. Active # 0
    BY <1>4 DEF IInv, RootInv, Parent
  <1>15. RootInv'
    BY <1>1, <1>2, <1>3, <1>4, <1>6, <1>14, PidsFacts DEF IInv, TypeOK, RootInv, Booting, RootStages
  <1> QED  BY <1>5, <1>9, <1>10, <1>11, <1>12, <1>13, <1>15 DEF IInv

\* halt: the parent is resumed in the execute on its own stack.
LEMMA HaltReturnInv == IInv /\ HaltReturn => IInv' /\ cpu'.prog = Parent
                                                  /\ cpu'.term = cpu.term /\ cpu'.stage = "user"
  <1> SUFFICES ASSUME IInv, HaltReturn
               PROVE  IInv' /\ cpu'.prog = Parent /\ cpu'.term = cpu.term /\ cpu'.stage = "user"
    OBVIOUS
  <1> DEFINE q == Parent
             frame == stack[pcb_esp[Active]]
  <1>1. /\ cpu.stage = "freed"
        /\ active_process' = [active_process EXCEPT ![terminal_num] = q]
        /\ UNCHANGED <<procVars, term_esp, terminal_num, page, tss, ret_val, stack>>
    BY DEF HaltReturn
  <1>2. /\ terminal_num \in Terminals /\ cpu.term = terminal_num
        /\ Active \in Pids /\ Active \in Live /\ owner[Active] = terminal_num
        /\ \A p \in Live : parent_pcb[p] # Active
        /\ pid_array[Active] = 0
    BY <1>1, RunningFacts DEF IInv, CpuInv
  <1>3. q \in Pids /\ q # NULL /\ q # Active /\ q = parent_pcb[Active]
    BY <1>1, <1>2 DEF IInv, TypeOK, CpuInv, Parent
  <1>4. q \in Live /\ owner[q] = terminal_num
    BY <1>2, <1>3 DEF IInv, PcbExclusive
  <1>5. pcb_esp[Active] = q /\ frame.stage = "wait" /\ frame.prog = q /\ frame.term = terminal_num
    BY <1>2, <1>3 DEF IInv, WaitInv
  <1>6. frame \in Context
    BY <1>3, <1>5 DEF IInv, TypeOK
  <1>7. cpu' = [frame EXCEPT !.stage = "user", !.eax = ret_val]
    BY <1>5 DEF HaltReturn, Pop
  <1>8. cpu' \in Context /\ cpu'.stage = "user" /\ cpu'.prog = q /\ cpu'.term = terminal_num
    <2>1. ret_val \in -1 .. 255
      BY DEF IInv, TypeOK
    <2> HIDE DEF q, frame
    <2> QED  BY <1>5, <1>6, <1>7, <2>1, ZenonT(60) DEF Context, Stages
  <1>9. TypeOK'
    BY <1>1, <1>2, <1>3, <1>8 DEF IInv, TypeOK, procVars
  <1>10. Live' = Live \ {Active} /\ Live \subseteq Pids
    BY <1>1, <1>2, <1>8 DEF Live, procVars, IInv, TypeOK
  <1>11. Active' = q /\ active_process' \in [Terminals -> Pids \cup {NULL}]
    BY <1>1, <1>2, <1>9 DEF Active, IInv, TypeOK
  <1>12. \A t \in Terminals : active_process'[t] = IF t = terminal_num THEN q ELSE active_process[t]
    BY <1>1, <1>2, <1>3 DEF IInv, TypeOK
  <1>13. PcbExclusive'
    <2>1. ASSUME NEW t \in Terminals, active_process'[t] # NULL
          PROVE  active_process'[t] \in Live' /\ owner'[active_process'[t]] = t
      <3>1. CASE t = terminal_num
        <4>1. active_process'[t] = q
          BY <3>1, <1>12
        <4>2. q \in Live' /\ owner'[q] = t
          BY <3>1, <1>1, <1>3, <1>4, <1>10 DEF procVars
        <4> QED  BY <4>1, <4>2
      <3>2. CASE t # terminal_num
        <4>1. active_process'[t] = active_process[t] /\ active_process[t] \in Pids
          BY <3>2, <2>1, <1>12 DEF IInv, TypeOK
        <4>2. active_process[t] \in Live /\ owner[active_process[t]] = t
          BY <4>1, <2>1 DEF IInv, PcbExclusive
        <4>3. active_process[t] # Active
          BY <4>2, <1>2, <3>2
        <4> QED  BY <4>1, <4>2, <4>3, <1>1, <1>10 DEF procVars
      <3> QED  BY <3>1, <3>2
    <2>2. ASSUME NEW p \in Live', parent_pcb[p] # NULL
          PROVE  /\ parent_pcb[p] \in Live' /\ owner[parent_pcb[p]] = owner[p]
                 /\ \A r \in Live' : parent_pcb[r] = parent_pcb[p] => r = p
      <3>1. p \in Live /\ parent_pcb[p] \in Pids
        BY <2>2, <1>10 DEF IInv, TypeOK
      <3>2. parent_pcb[p] # Active
        BY <3>1, <1>2
      <3> QED  BY <3>1, <3>2, <2>2, <1>10 DEF IInv, PcbExclusive
    <2> QED  BY <2>1, <2>2, <1>1 DEF PcbExclusive, procVars
  <1>14. WaitInv'
    <2> SUFFICES ASSUME NEW p \in Live', parent_pcb[p] # NULL
                 PROVE  /\ pcb_esp[p] = parent_pcb[p]
                        /\ stack[parent_pcb[p]].stage = "wait"
                        /\ stack[parent_pcb[p]].prog = parent_pcb[p]
                        /\ stack[parent_pcb[p]].term = owner[p]
                        /\ active_process'[owner[p]] # parent_pcb[p]
      BY <1>1 DEF WaitInv, procVars
    <2>1. p \in Live /\ p # Active /\ owner[p] \in Terminals
      BY <1>10 DEF IInv, TypeOK
    <2>2. parent_pcb[p] # q
      BY <2>1, <1>2, <1>3 DEF IInv, PcbExclusive
    <2> QED  BY <2>1, <2>2, <1>12 DEF IInv, WaitInv
  <1>15. ParentIsCaller'
    BY <1>1, <1>10 DEF IInv, ParentIsCaller, procVars
  <1>16. NoSlotLost'
    <2> SUFFICES ASSUME NEW p \in Live'
                 PROVE  \/ active_process'[owner[p]] = p
                        \/ \E r \in Live' : parent_pcb[r] = p
      BY <1>1 DEF NoSlotLost, procVars
    <2>1. p \in Live /\ p # Active /\ owner[p] \in Terminals
      BY <1>10 DEF IInv, TypeOK
    <2>2. CASE p = q
      BY <2>2, <1>4, <1>12, <1>2
    <2>3. CASE p # q
      BY <2>1, <2>3, <1>2, <1>3, <1>10, <1>12 DEF IInv, NoSlotLost, Active
    <2> QED  BY <2>2, <2>3
  <1>17. FramesIntact' /\ FrameInv'
    BY <1>1, <1>12 DEF IInv, FramesIntact, FrameInv, procVars
  <1>18. BootInv'
    BY <1>1, <1>2, <1>3, <1>8, <1>12, PidsFacts DEF IInv, BootInv, Booting, procVars
  <1>19. CpuInv'
    BY <1>1, <1>3, <1>8, <1>11 DEF IInv, CpuInv, ParentStages
  <1>20. RootInv'
    BY <1>1, <1>8, <1>10, PidsFacts DEF IInv, RootInv, Booting, RootStages, procVars
  <1> QED
    BY <1>2, <1>8, <1>9, <1>13, <1>14, <1>15, <1>16, <1>17, <1>18, <1>19, <1>20 DEF IInv

(***************************************************************************)
(* The end of halt for the first shell of terminal 0.                      *)
(***************************************************************************)
\* halt of a root shell: entry 0 is terminal 0's own slot.
LEMMA HaltRootFreeInv == IInv /\ HaltRootFree => IInv'
  <1> SUFFICES ASSUME IInv, HaltRootFree PROVE IInv'
    OBVIOUS
  <1>1. cpu.stage = "closing" /\ cpu' = [cpu EXCEPT !.stage = "rootfreed"]
    BY DEF HaltRootFree, HaltStep
  <1>2. /\ UNCHANGED <<parent_pcb, pcb_esp, owner, caller, active_process, term_esp,
                       terminal_num, page, tss, ret_val, stack>>
        /\ pid_array' = [pid_array EXCEPT ![0] = 0]
        /\ Parent = NULL
    BY DEF HaltRootFree, HaltStep
  <1>3. cpu' \in Context /\ cpu'.stage = "rootfreed" /\ cpu'.prog = cpu.prog
           /\ cpu'.term = cpu.term /\ cpu'.stk = cpu.stk
    BY <1>1 DEF IInv, TypeOK, Context, Stages, HaltStages, RootStages
  \* The shell that halts is the one in slot 0.
  <1>4. /\ terminal_num = 0 /\ Active' = Active /\ Active \in Pids
        /\ Active \in Live /\ owner[Active] = 0
    BY <1>1, <1>2, RunningFacts DEF IInv, CpuInv, Active
  <1>5. Active = 0
    BY <1>2, <1>4 DEF IInv, RootInv, Parent
  <1>6. TypeOK'
    BY <1>2, <1>3, PidsFacts DEF IInv, TypeOK
  <1>7. Live' = Live
    BY <1>1, <1>2, <1>3, <1>4, <1>5, PidsFacts DEF Live, IInv, TypeOK
  <1>8. PcbExclusive'
    BY <1>2, <1>7 DEF IInv, PcbExclusive
  <1>9. WaitInv' /\ ParentIsCaller' /\ NoSlotLost'
    BY <1>2, <1>7 DEF IInv, WaitInv, ParentIsCaller, NoSlotLost
  <1>10. FramesIntact' /\ FrameInv'
    BY <1>2 DEF IInv, FramesIntact, FrameInv
  <1>11. BootInv'
    BY <1>1, <1>2, <1>3 DEF IInv, BootInv, Booting
  <1>12. CpuInv'
    BY <1>1, <1>2, <1>3, <1>4, <1>5, PidsFacts DEF IInv, TypeOK, CpuInv, ParentStages
  <1>13. RootInv'
    BY <1>2, <1>3, <1>7 DEF IInv, RootInv, Booting, RootStages
  <1> QED  BY <1>6, <1>8, <1>9, <1>10, <1>11, <1>12, <1>13 DEF IInv

\* halt of a root shell: the terminal has no process, and no tick sees it.
LEMMA HaltRootOrphanInv == IInv /\ HaltRootOrphan => IInv'
  <1> SUFFICES ASSUME IInv, HaltRootOrphan PROVE IInv'
    OBVIOUS
  <1>1. cpu.stage = "rootfreed" /\ cpu' = [cpu EXCEPT !.stage = "orphan"]
    BY DEF HaltRootOrphan, HaltStep
  <1>2. /\ UNCHANGED <<procVars, term_esp, terminal_num, page, tss, ret_val, stack>>
        /\ active_process' = [active_process EXCEPT ![terminal_num] = NULL]
    BY DEF HaltRootOrphan, HaltStep, procVars
  <1>3. cpu' \in Context /\ cpu'.stage = "orphan" /\ cpu'.term = cpu.term /\ cpu'.stk = cpu.stk
    BY <1>1 DEF IInv, TypeOK, Context, Stages, HaltStages, RootStages
  <1>4. /\ terminal_num = 0 /\ Active = 0 /\ pid_array[0] = 0 /\ 0 \in Terminals
        /\ active_process[0] = 0
        /\ \A p \in Live : parent_pcb[p] # 0
    BY <1>1, RunningFacts DEF IInv, CpuInv, Active
  <1>5. TypeOK'
    BY <1>2, <1>3, <1>4 DEF IInv, TypeOK, procVars
  <1>6. Live' = Live \ {0} /\ Live \subseteq Pids
    BY <1>1, <1>2, <1>3, <1>4 DEF Live, procVars
  <1>7. \A t \in Terminals : active_process'[t] = IF t = 0 THEN NULL ELSE active_process[t]
    BY <1>2, <1>4 DEF IInv, TypeOK
  <1>8. parent_pcb \in [Pids -> Pids \cup {NULL}]
    BY DEF IInv, TypeOK
  <1>9. PcbExclusive'
    <2>1. ASSUME NEW t \in Terminals, active_process'[t] # NULL
          PROVE  active_process'[t] \in Live' /\ owner[active_process'[t]] = t
      <3>1. t # 0 /\ active_process'[t] = active_process[t]
        BY <2>1, <1>7
      <3>2. active_process[t] \in Live /\ owner[active_process[t]] = t
        BY <2>1, <3>1 DEF IInv, PcbExclusive
      <3>3. active_process[t] # 0
        BY <3>1, <1>4, RunningFacts, <1>1
      <3> QED  BY <3>1, <3>2, <3>3, <1>6
    <2>2. ASSUME NEW p \in Live', parent_pcb[p] # NULL
          PROVE  /\ parent_pcb[p] \in Live' /\ owner[parent_pcb[p]] = owner[p]
                 /\ \A r \in Live' : parent_pcb[r] = parent_pcb[p] => r = p
      BY <2>2, <1>4, <1>6, <1>8 DEF IInv, PcbExclusive
    <2> QED  BY <2>1, <2>2, <1>2 DEF PcbExclusive, procVars
  <1>10. WaitInv'
    <2> SUFFICES ASSUME NEW p \in Live', parent_pcb[p] # NULL
                 PROVE  /\ pcb_esp[p] = parent_pcb[p]
                        /\ stack[parent_pcb[p]].stage = "wait"
                        /\ stack[parent_pcb[p]].prog = parent_pcb[p]
                        /\ stack[parent_pcb[p]].term = owner[p]
                        /\ active_process'[owner[p]] # parent_pcb[p]
      BY <1>2 DEF WaitInv, procVars
    <2>1. p \in Live /\ owner[p] \in Terminals
      BY <1>6 DEF IInv, TypeOK
    <2> QED  BY <2>1, <1>7 DEF IInv, WaitInv
  <1>11. ParentIsCaller'
    BY <1>2, <1>6 DEF IInv, ParentIsCaller, procVars
  <1>12. NoSlotLost'
    <2> SUFFICES ASSUME NEW p \in Live'
                 PROVE  \/ active_process'[owner[p]] = p
                        \/ \E r \in Live' : parent_pcb[r] = p
      BY <1>2 DEF NoSlotLost, procVars
    <2>1. p \in Live /\ p # 0 /\ owner[p] \in Terminals
      BY <1>6 DEF IInv, TypeOK
    <2>2. parent_pcb[0] # p
      BY <2>1, <1>6, PidsFacts DEF IInv, RootInv
    <2> QED  BY <2>1, <2>2, <1>4, <1>6, <1>7 DEF IInv, NoSlotLost
  <1>13. FramesIntact' /\ FrameInv'
    BY <1>2, <1>4, <1>7 DEF IInv, FramesIntact, FrameInv, procVars
  <1>14. BootInv'
    BY <1>1, <1>2, <1>3, <1>4, <1>7, PidsFacts DEF IInv, BootInv, Booting, procVars
  <1>15. CpuInv'
    BY <1>1, <1>2, <1>3, <1>4, <1>7 DEF IInv, CpuInv, Active, ParentStages, procVars
  <1>16. RootInv'
    BY <1>2, <1>3, <1>6 DEF IInv, RootInv, Booting, RootStages, procVars
  <1> QED
    BY <1>5, <1>9, <1>10, <1>11, <1>12, <1>13, <1>14, <1>15, <1>16 DEF IInv

(***************************************************************************)
(* execute.                                                                *)
(***************************************************************************)
\* execute gives the running terminal a slot that no process uses.
LEMMA ExecuteInv == Orderly /\ IInv /\ Execute => IInv'
  <1> SUFFICES ASSUME Orderly, IInv, Execute PROVE IInv'
    OBVIOUS
  <1> DEFINE A == Active
  <1>1. cpu.stage = "user" /\ ~Booting
    BY DEF Execute, Commanded, Orderly, Booting
  <1>2. /\ terminal_num \in Terminals /\ cpu.term = terminal_num
        /\ A \in Pids /\ A # NULL /\ cpu.prog = A
        /\ A \in Live /\ owner[A] = terminal_num
        /\ \A t \in Terminals : t # terminal_num => active_process[t] # A
        /\ \A p \in Live : parent_pcb[p] # A
        /\ page = A /\ tss = A
    BY <1>1, RunningFacts, PidsFacts DEF IInv, CpuInv
  <1>3. A = active_process[terminal_num]
    BY DEF Active
  <1> HIDE DEF A
  <1>4. PICK p \in Pids : NewProcess(terminal_num, p, tss)
    BY DEF Execute
  <1>5. /\ pid_array[p] = 0
        /\ pid_array' = [pid_array EXCEPT ![p] = 1]
        /\ parent_pcb' = [parent_pcb EXCEPT ![p] = A]
        /\ pcb_esp' = [pcb_esp EXCEPT ![p] = A]
        /\ active_process' = [active_process EXCEPT ![terminal_num] = p]
        /\ page' = p /\ tss' = p
        /\ cpu' = UserContext(terminal_num, p)
        /\ owner' = [owner EXCEPT ![p] = terminal_num]
        /\ caller' = [caller EXCEPT ![p] = A]
    BY <1>2, <1>3, <1>4 DEF NewProcess, FirstFree
  <1>6. /\ stack' = [stack EXCEPT ![A] = [cpu EXCEPT !.stage = "wait"]]
        /\ UNCHANGED <<term_esp, terminal_num, ret_val>>
    BY <1>2 DEF Execute
  <1>7. /\ cpu' \in Context /\ cpu'.stage = "user" /\ cpu'.prog = p /\ cpu'.term = terminal_num
        /\ [cpu EXCEPT !.stage = "wait"] \in Context
    BY <1>2, <1>5 DEF UserContext, Context, Stages, IInv, TypeOK
  <1>8. TypeOK'
    BY <1>2, <1>5, <1>6, <1>7 DEF IInv, TypeOK
  <1>9. Live = {x \in Pids : pid_array[x] = 1}
    BY <1>1 DEF Live
  <1>10. Live' = Live \cup {p} /\ p \notin Live /\ Live \subseteq Pids
    <2>1. Live' = {x \in Pids : pid_array'[x] = 1}
      BY <1>7 DEF Live
    <2> QED  BY <1>5, <1>9, <2>1 DEF IInv, TypeOK
  <1>11. p # 0 /\ p # A
    BY <1>1, <1>2, <1>5, <1>9, <1>10 DEF IInv, RootInv, RootStages
  <1>12. /\ \A x \in Live : parent_pcb'[x] = parent_pcb[x] /\ pcb_esp'[x] = pcb_esp[x]
                              /\ owner'[x] = owner[x] /\ caller'[x] = caller[x]
         /\ parent_pcb'[p] = A /\ pcb_esp'[p] = A /\ owner'[p] = terminal_num /\ caller'[p] = A
    BY <1>5, <1>10 DEF IInv, TypeOK
  <1>13. \A t \in Terminals : active_process'[t] = IF t = terminal_num THEN p ELSE active_process[t]
    BY <1>2, <1>5 DEF IInv, TypeOK
  <1>14. /\ \A x \in Pids : x # A => stack'[x] = stack[x]
         /\ stack'[A].stage = "wait" /\ stack'[A].prog = A /\ stack'[A].term = terminal_num
    BY <1>2, <1>6, <1>7 DEF IInv, TypeOK, Context
  <1>15. \A x \in Live : parent_pcb[x] # NULL => parent_pcb[x] \in Live
    BY DEF IInv, PcbExclusive
  <1>16. PcbExclusive'
    <2>1. ASSUME NEW t \in Terminals, active_process'[t] # NULL
          PROVE  active_process'[t] \in Live' /\ owner'[active_process'[t]] = t
      <3>1. CASE t = terminal_num
        BY <3>1, <1>10, <1>12, <1>13
      <3>2. CASE t # terminal_num
        BY <3>2, <2>1, <1>10, <1>12, <1>13 DEF IInv, PcbExclusive
      <3> QED  BY <3>1, <3>2
    <2>2. ASSUME NEW x \in Live', parent_pcb'[x] # NULL
          PROVE  /\ parent_pcb'[x] \in Live' /\ owner'[parent_pcb'[x]] = owner'[x]
                 /\ \A y \in Live' : parent_pcb'[y] = parent_pcb'[x] => y = x
      <3>1. CASE x = p
        BY <3>1, <1>2, <1>10, <1>12
      <3>2. CASE x \in Live
        BY <3>2, <2>2, <1>2, <1>10, <1>12, <1>15 DEF IInv, PcbExclusive
      <3> QED  BY <3>1, <3>2, <1>10
    <2> QED  BY <2>1, <2>2, <1>6 DEF PcbExclusive
  <1>17. WaitInv'
    <2> SUFFICES ASSUME NEW x \in Live', parent_pcb'[x] # NULL
                 PROVE  /\ pcb_esp'[x] = parent_pcb'[x]
                        /\ stack'[parent_pcb'[x]].stage = "wait"
                        /\ stack'[parent_pcb'[x]].prog = parent_pcb'[x]
                        /\ stack'[parent_pcb'[x]].term = owner'[x]
                        /\ active_process'[owner'[x]] # parent_pcb'[x]
      BY DEF WaitInv
    <2>1. CASE x = p
      BY <2>1, <1>2, <1>11, <1>12, <1>13, <1>14
    <2>2. CASE x \in Live
      <3>1. parent_pcb'[x] = parent_pcb[x] /\ parent_pcb[x] \in Live /\ parent_pcb[x] # A
               /\ parent_pcb[x] # p
        BY <2>2, <1>2, <1>10, <1>12, <1>15
      <3>2. owner[x] \in Terminals /\ parent_pcb[x] \in Pids
        BY <2>2, <3>1, <1>10 DEF IInv, TypeOK
      <3> QED  BY <2>2, <3>1, <3>2, <1>12, <1>13, <1>14 DEF IInv, WaitInv
    <2> QED  BY <2>1, <2>2, <1>10
  <1>18. ParentIsCaller'
    BY <1>10, <1>12 DEF IInv, ParentIsCaller
  <1>19. NoSlotLost'
    <2> SUFFICES ASSUME NEW x \in Live'
                 PROVE  \/ active_process'[owner'[x]] = x
                        \/ \E y \in Live' : parent_pcb'[y] = x
      BY DEF NoSlotLost
    <2>1. CASE x = p
      BY <2>1, <1>2, <1>12, <1>13
    <2>2. CASE x = A
      BY <2>2, <1>10, <1>12
    <2>3. CASE x \in Live /\ x # A
      <3>1. owner[x] \in Terminals
        BY <2>3, <1>10 DEF IInv, TypeOK
      <3> QED  BY <2>3, <3>1, <1>3, <1>10, <1>12, <1>13 DEF IInv, NoSlotLost
    <2> QED  BY <2>1, <2>2, <2>3, <1>10
  <1>20. FramesIntact' /\ FrameInv'
    <2>1. ASSUME NEW t \in Terminals, t # terminal_num, active_process'[t] # NULL
          PROVE  /\ active_process'[t] = active_process[t]
                 /\ stack'[active_process[t]] = stack[active_process[t]]
                 /\ parent_pcb'[active_process[t]] = parent_pcb[active_process[t]]
      <3>1. active_process'[t] = active_process[t] /\ active_process[t] \in Live
        BY <2>1, <1>13 DEF IInv, PcbExclusive
      <3> QED  BY <3>1, <2>1, <1>2, <1>10, <1>12, <1>14
    <2>2. terminal_num' = terminal_num /\ term_esp' = term_esp
      BY <1>6
    <2>3. ASSUME NEW t \in Terminals, t # terminal_num, active_process'[t] # NULL
          PROVE  /\ term_esp'[Following(t)] = active_process'[t]
                 /\ stack'[active_process'[t]].term = t
                 /\ stack'[active_process'[t]].prog = active_process'[t]
                 /\ stack'[active_process'[t]].stage \in {"user"} \cup PreemptHalt
      BY <2>1, <2>2, <2>3 DEF IInv, FramesIntact
    <2>4. ASSUME NEW t \in Terminals, t # terminal_num, active_process'[t] # NULL,
                 stack'[active_process'[t]].stage \in HaltStages
          PROVE  /\ stack'[active_process'[t]].stk = active_process'[t]
                 /\ parent_pcb'[active_process'[t]] = NULL => t = 0
      BY <2>1, <2>4 DEF IInv, FrameInv
    <2>5. FramesIntact'
      BY <2>2, <2>3 DEF FramesIntact
    <2>6. FrameInv'
      BY <2>2, <2>4 DEF FrameInv
    <2> QED  BY <2>5, <2>6
  <1>21. BootInv'
    BY <1>1, <1>2, <1>6, <1>7, <1>13, PidsFacts DEF IInv, BootInv, Booting
  <1>22. CpuInv'
    BY <1>2, <1>5, <1>6, <1>7, <1>13, PidsFacts DEF CpuInv, Active, ParentStages
  <1>23. RootInv'
    <2>1. parent_pcb'[0] = NULL /\ pid_array'[0] = pid_array[0]
      BY <1>5, <1>11, PidsFacts DEF IInv, RootInv, TypeOK
    <2>2. 0 \in Live' => owner'[0] = 0
      BY <1>10, <1>11, <1>12 DEF IInv, RootInv
    <2>3. \A x \in Live' : owner'[x] = 0 /\ parent_pcb'[x] = NULL => x = 0
      BY <1>2, <1>10, <1>12 DEF IInv, RootInv
    <2> QED  BY <2>1, <2>2, <2>3, <1>1, <1>6 DEF IInv, RootInv, Booting, RootStages
  <1> QED
    BY <1>8, <1>16, <1>17, <1>18, <1>19, <1>20, <1>21, <1>22, <1>23 DEF IInv

\* The restarted root shell takes the slot that was freed.
LEMMA HaltRestartInv == IInv /\ HaltRestart => IInv'
  <1> SUFFICES ASSUME IInv, HaltRestart PROVE IInv'
    OBVIOUS
  <1>1. /\ cpu.stage = "orphan" /\ ~Booting /\ terminal_num = 0
        /\ active_process[0] = NULL /\ pid_array[0] = 0
    BY PidsFacts DEF HaltRestart, IInv, CpuInv, BootInv, Active
  <1>2. PICK p \in Pids : NewProcess(0, p, cpu.stk)
    BY <1>1, PidsFacts DEF HaltRestart, TableFull
  \* The lowest free slot is the one the shell had.
  <1>3. p = 0
    <2>1. p # 0 => pid_array[0] = 1
      BY <1>2, PidsFacts DEF NewProcess, FirstFree, Pids
    <2> QED  BY <2>1, <1>1
  <1>4. /\ pid_array' = [pid_array EXCEPT ![0] = 1]
        /\ parent_pcb' = [parent_pcb EXCEPT ![0] = NULL]
        /\ pcb_esp' = [pcb_esp EXCEPT ![0] = pcb_esp[0]]
        /\ active_process' = [active_process EXCEPT ![0] = 0]
        /\ page' = 0 /\ tss' = 0
        /\ cpu' = UserContext(0, 0)
        /\ owner' = [owner EXCEPT ![0] = 0]
        /\ caller' = [caller EXCEPT ![0] = NULL]
    BY <1>1, <1>2, <1>3 DEF NewProcess, IInv, RootInv
  <1>5. UNCHANGED <<term_esp, terminal_num, ret_val, stack>>
    BY DEF HaltRestart
  <1>6. cpu' \in Context /\ cpu'.stage = "user" /\ cpu'.prog = 0 /\ cpu'.term = 0
    BY <1>4, PidsFacts DEF UserContext, Context, Stages, Terminals
  <1>7. 0 \in Terminals /\ 0 \in Pids
    BY PidsFacts DEF Terminals
  <1>8. TypeOK'
    BY <1>4, <1>5, <1>6, <1>7 DEF IInv, TypeOK
  <1>9. parent_pcb' = parent_pcb /\ pcb_esp' = pcb_esp
    BY <1>4, <1>7 DEF IInv, TypeOK, RootInv
  <1>10. Live' = Live \cup {0} /\ 0 \notin Live /\ Live \subseteq Pids
    BY <1>1, <1>4, <1>6, <1>7 DEF Live, IInv, TypeOK
  <1>11. /\ \A x \in Live : owner'[x] = owner[x] /\ caller'[x] = caller[x]
         /\ owner'[0] = 0 /\ caller'[0] = NULL /\ parent_pcb[0] = NULL
    BY <1>4, <1>7, <1>10 DEF IInv, TypeOK, RootInv
  <1>12. \A t \in Terminals : active_process'[t] = IF t = 0 THEN 0 ELSE active_process[t]
    BY <1>4 DEF IInv, TypeOK
  <1>13. PcbExclusive'
    BY <1>7, <1>9, <1>10, <1>11, <1>12 DEF IInv, PcbExclusive
  <1>14. WaitInv'
    <2>1. ASSUME NEW x \in Live', parent_pcb[x] # NULL
          PROVE  active_process'[owner'[x]] # parent_pcb[x] /\ owner'[x] = owner[x] /\ x \in Live
      <3>1. x \in Live /\ owner'[x] = owner[x] /\ owner[x] \in Terminals
        BY <2>1, <1>10, <1>11 DEF IInv, TypeOK
      <3>2. parent_pcb[x] \in Live
        BY <3>1, <2>1 DEF IInv, PcbExclusive
      <3> QED  BY <3>1, <3>2, <2>1, <1>10, <1>12 DEF IInv, WaitInv
    <2> QED  BY <2>1, <1>5, <1>9 DEF IInv, WaitInv
  <1>15. ParentIsCaller'
    BY <1>9, <1>10, <1>11 DEF IInv, ParentIsCaller
  <1>16. NoSlotLost'
    <2> SUFFICES ASSUME NEW x \in Live'
                 PROVE  \/ active_process'[owner'[x]] = x
                        \/ \E y \in Live' : parent_pcb[y] = x
      BY <1>9 DEF NoSlotLost
    <2>1. CASE x = 0
      BY <2>1, <1>7, <1>11, <1>12
    <2>2. CASE x \in Live
      <3>1. owner[x] \in Terminals /\ x # NULL
        BY <2>2, <1>10, PidsFacts DEF IInv, TypeOK
      <3> QED  BY <2>2, <3>1, <1>1, <1>10, <1>11, <1>12 DEF IInv, NoSlotLost
    <2> QED  BY <2>1, <2>2, <1>10
  <1>17. FramesIntact' /\ FrameInv'
    BY <1>1, <1>5, <1>9, <1>12 DEF IInv, FramesIntact, FrameInv
  <1>18. BootInv'
    BY <1>1, <1>5, <1>6, <1>12, PidsFacts DEF IInv, BootInv, Booting
  <1>19. CpuInv'
    BY <1>1, <1>4, <1>5, <1>6, <1>7, <1>12, PidsFacts DEF CpuInv, Active, ParentStages
  <1>20. pid_array'[0] = 1
    BY <1>4, <1>7 DEF IInv, TypeOK
  <1>21. RootInv'
    BY <1>9, <1>10, <1>11, <1>20 DEF IInv, RootInv
  <1> QED
    BY <1>8, <1>13, <1>14, <1>15, <1>16, <1>17, <1>18, <1>19, <1>21 DEF IInv

(***************************************************************************)
(* The PIT interrupt.                                                      *)
(***************************************************************************)
\* No two terminals are followed by the same one.
LEMMA FollowingInjective ==
    \A t, u \in Terminals \cup {NULL} : t # NULL /\ u # NULL /\ Following(t) = Following(u) => t = u
  BY DEF Terminals, NULL, Following

\* The scheduler launches the first shell of a terminal.
LEMMA LaunchInv == Orderly /\ IInv /\ Launch => IInv'
  <1> SUFFICES ASSUME Orderly, IInv, Launch PROVE IInv'
    OBVIOUS
  <1> DEFINE t == Following(terminal_num)
  <1>1. terminal_num \in Terminals \cup {NULL} /\ t \in Terminals /\ t # terminal_num
    BY PidsFacts DEF IInv, TypeOK
  <1>2. active_process[t] = NULL /\ cpu.stage \in {"boot", "user", "closing"}
    BY DEF Launch, Interruptible, Orderly
  \* It is the first round: every other terminal has a process.
  <1>3. Booting
    BY <1>1, <1>2 DEF IInv, BootInv
  <1>4. /\ cpu.stage \in {"boot", "user"}
        /\ cpu.stage = "boot" <=> terminal_num = NULL
        /\ \A p \in Pids : parent_pcb[p] = NULL
        /\ \A p \in Pids : pid_array[p] = IF p <= terminal_num THEN 1 ELSE 0
        /\ \A u \in Terminals : active_process[u] = IF u <= terminal_num THEN u ELSE NULL
    BY <1>2, <1>3 DEF IInv, BootInv
  <1>5. terminal_num \in {-1, 0, 1} /\ t = terminal_num + 1
    BY <1>1, <1>2, <1>4 DEF Terminals, NULL, Following
  <1>6. t \in Pids /\ pid_array[t] = 0 /\ ~TableFull
    BY <1>4, <1>5, PidsFacts DEF TableFull
  <1>7. PICK p \in Pids : NewProcess(t, p, FrameStack)
    BY <1>6 DEF Launch
  <1>8. p = t
    <2>1. pid_array[p] = 0 /\ \A q \in Pids : q < p => pid_array[q] = 1
      BY <1>7 DEF NewProcess, FirstFree
    <2>2. ~(p <= terminal_num)
      BY <2>1, <1>4
    <2>3. ~(t < p)
      BY <2>1, <1>6
    <2> QED  BY <2>2, <2>3, <1>5, PidsFacts DEF Pids
  <1>9. /\ pid_array' = [pid_array EXCEPT ![t] = 1]
        /\ parent_pcb' = [parent_pcb EXCEPT ![t] = NULL]
        /\ pcb_esp' = [pcb_esp EXCEPT ![t] = pcb_esp[t]]
        /\ active_process' = [active_process EXCEPT ![t] = t]
        /\ page' = t /\ tss' = t
        /\ cpu' = UserContext(t, t)
        /\ owner' = [owner EXCEPT ![t] = t]
        /\ caller' = [caller EXCEPT ![t] = NULL]
    BY <1>2, <1>4, <1>6, <1>7, <1>8 DEF NewProcess
  <1>10. terminal_num' = t /\ ret_val' = ret_val /\ SaveFrame(t)
    BY DEF Launch
  <1>11. cpu.stage = "user" =>
           /\ terminal_num \in Terminals /\ terminal_num \in Pids
           /\ FrameStack = terminal_num
           /\ active_process[terminal_num] = terminal_num
           /\ cpu.term = terminal_num /\ cpu.prog = terminal_num
    <2>1. ASSUME cpu.stage = "user"
          PROVE  /\ terminal_num \in Terminals /\ terminal_num \in Pids
                 /\ active_process[terminal_num] = terminal_num
      BY <2>1, <1>1, <1>4, <1>5, PidsFacts DEF NULL
    <2> QED
      BY <2>1 DEF IInv, CpuInv, FrameStack, Active, HaltStages, ParentStages, RootStages
  <1> HIDE DEF t
  <1>12. /\ cpu.stage = "boot" => term_esp' = [term_esp EXCEPT ![t] = NULL] /\ stack' = stack
         /\ cpu.stage = "user" => /\ term_esp' = [term_esp EXCEPT ![t] = terminal_num]
                                  /\ stack' = [stack EXCEPT ![terminal_num] = cpu]
    BY <1>10, <1>11 DEF SaveFrame
  <1>13. cpu' \in Context /\ cpu'.stage = "user" /\ cpu'.prog = t /\ cpu'.term = t
    BY <1>1, <1>6, <1>9 DEF UserContext, Context, Stages
  <1>14. TypeOK'
    <2>1. CASE cpu.stage = "boot"
      BY <2>1, <1>1, <1>6, <1>9, <1>10, <1>12, <1>13 DEF IInv, TypeOK
    <2>2. CASE cpu.stage = "user"
      BY <2>2, <1>1, <1>6, <1>9, <1>10, <1>11, <1>12, <1>13 DEF IInv, TypeOK
    <2> QED  BY <2>1, <2>2, <1>4
  <1>15. Live' = {x \in Pids : x <= t} /\ \A x \in Live' : x \in Terminals
    <2>1. Live' = {x \in Pids : pid_array'[x] = 1}
      BY <1>13 DEF Live
    <2>2. \A x \in Pids : pid_array'[x] = IF x <= t THEN 1 ELSE 0
      BY <1>1, <1>4, <1>5, <1>6, <1>9, PidsFacts DEF IInv, TypeOK, Pids
    <2> QED  BY <2>1, <2>2, <1>5 DEF Pids, Terminals
  <1>16. \A u \in Terminals : active_process'[u] = IF u <= t THEN u ELSE NULL
    BY <1>1, <1>4, <1>5, <1>9 DEF IInv, TypeOK, Terminals
  <1>17. \A x \in Pids : x <= terminal_num => owner[x] = x /\ caller[x] = NULL
    <2>1. Live = {x \in Pids : pid_array[x] = 1}
      BY <1>4 DEF Live
    <2> SUFFICES ASSUME NEW x \in Pids, x <= terminal_num
                 PROVE  owner[x] = x /\ caller[x] = NULL
      OBVIOUS
    <2>2. x \in Terminals /\ active_process[x] = x /\ x # NULL /\ x \in Live /\ parent_pcb[x] = NULL
      BY <2>1, <1>4, <1>5, PidsFacts DEF Pids, Terminals, NULL
    <2> QED  BY <2>2 DEF IInv, PcbExclusive, ParentIsCaller
  <1>18. /\ \A x \in Live' : owner'[x] = x /\ caller'[x] = NULL
         /\ \A x \in Pids : parent_pcb'[x] = NULL
    BY <1>4, <1>5, <1>6, <1>9, <1>15, <1>17, PidsFacts DEF IInv, TypeOK, Pids
  <1>19. PcbExclusive' /\ WaitInv' /\ ParentIsCaller' /\ NoSlotLost'
    <2>1. PcbExclusive'
      BY <1>5, <1>15, <1>16, <1>18, PidsFacts DEF PcbExclusive, Terminals, Pids
    <2>2. WaitInv' /\ ParentIsCaller'
      BY <1>15, <1>18 DEF WaitInv, ParentIsCaller
    <2>3. NoSlotLost'
      BY <1>15, <1>16, <1>18 DEF NoSlotLost
    <2> QED  BY <2>1, <2>2, <2>3
  <1>20. ASSUME NEW u \in Terminals, u # t, active_process'[u] # NULL
         PROVE  /\ term_esp'[Following(u)] = u /\ active_process'[u] = u
                /\ stack'[u].term = u /\ stack'[u].prog = u
                /\ stack'[u].stage \in {"user"} \cup PreemptHalt
                /\ stack'[u].stage \in HaltStages => stack'[u].stk = u /\ u = 0
    <2>1. u <= terminal_num /\ active_process'[u] = u /\ active_process[u] = u /\ u # NULL /\ u \in Pids
      BY <1>4, <1>5, <1>16, <1>20, PidsFacts DEF Terminals, Pids, NULL
    <2>2. cpu.stage = "user"
      BY <2>1, <1>4, <1>5 DEF Terminals, NULL
    <2>3. CASE u = terminal_num
      BY <2>1, <2>2, <2>3, <1>1, <1>11, <1>12
      DEF IInv, TypeOK, t, HaltStages, ParentStages, RootStages
    <2>4. CASE u # terminal_num
      <3>1. /\ term_esp[Following(u)] = u /\ stack[u].term = u /\ stack[u].prog = u
            /\ stack[u].stage \in {"user"} \cup PreemptHalt
        BY <2>1, <2>4 DEF IInv, FramesIntact
      <3>2. Following(u) \in Terminals /\ Following(u) # t
        BY <2>2, <2>4, <1>11, PidsFacts, FollowingInjective DEF t
      <3>3. term_esp'[Following(u)] = u /\ stack'[u] = stack[u]
        BY <3>1, <3>2, <2>1, <2>2, <2>4, <1>1, <1>11, <1>12 DEF IInv, TypeOK
      <3>4. stack[u].stage \in HaltStages => stack[u].stk = u /\ u = 0
        BY <2>1, <2>4, <1>4 DEF IInv, FrameInv
      <3> QED  BY <3>1, <3>3, <3>4, <2>1
    <2> QED  BY <2>3, <2>4
  <1>21. FramesIntact' /\ FrameInv'
    BY <1>10, <1>20 DEF FramesIntact, FrameInv
  <1>22. term_esp'[0] = NULL
    BY <1>1, <1>3, <1>4, <1>5, <1>11, <1>12, PidsFacts DEF IInv, TypeOK, Booting, NULL, Terminals
  <1>23. BootInv'
    BY <1>1, <1>10, <1>13, <1>15, <1>16, <1>18, <1>22, PidsFacts, <1>14 DEF BootInv, Booting, Live, TypeOK
  <1>24. CpuInv'
    BY <1>1, <1>6, <1>9, <1>10, <1>13, <1>16, PidsFacts DEF CpuInv, Active, ParentStages, Terminals
  <1>25. RootInv'
    BY <1>15, <1>18, <1>22, PidsFacts DEF RootInv, Booting
  <1> QED  BY <1>14, <1>19, <1>21, <1>23, <1>24, <1>25 DEF IInv

\* The scheduler resumes the thread of the terminal it switches to.
LEMMA SwitchInv == Orderly /\ IInv /\ Switch => IInv'
  <1> SUFFICES ASSUME Orderly, IInv, Switch PROVE IInv'
    OBVIOUS
  <1> DEFINE t == Following(terminal_num)
             A == Active
             B == active_process[t]
  <1>1. B # NULL /\ cpu.stage \in {"boot", "user", "closing"}
    BY DEF Switch, Interruptible, Orderly
  <1>2. terminal_num \in Terminals \cup {NULL} /\ t \in Terminals /\ t # terminal_num
    BY PidsFacts DEF IInv, TypeOK
  \* No terminal has a process at boot, so a program or a halt is interrupted.
  <1>3. cpu.stage \in {"user", "closing"}
    <2>1. ASSUME cpu.stage = "boot" PROVE FALSE
      BY <2>1, <1>1, <1>2 DEF IInv, BootInv, Terminals, NULL
    <2> QED  BY <2>1, <1>1
  <1>4. /\ terminal_num \in Terminals /\ cpu.term = terminal_num
        /\ A \in Pids /\ cpu.prog = A /\ A \in Live /\ owner[A] = terminal_num
        /\ \A u \in Terminals : u # terminal_num => active_process[u] # A
        /\ \A x \in Live : parent_pcb[x] # A
        /\ A = active_process[terminal_num] /\ A # NULL
    BY <1>3, RunningFacts, PidsFacts DEF Active
  <1>5. FrameStack = A
    BY <1>3 DEF IInv, CpuInv, FrameStack, HaltStages, ParentStages, RootStages
  <1>6. B \in Pids /\ B \in Live /\ owner[B] = t /\ B # A
    BY <1>1, <1>2, <1>4 DEF IInv, PcbExclusive, TypeOK
  <1>7. /\ term_esp' = [term_esp EXCEPT ![t] = A]
        /\ stack' = [stack EXCEPT ![A] = cpu]
        /\ terminal_num' = t
        /\ page' = B /\ tss' = B
        /\ UNCHANGED <<procVars, active_process, ret_val>>
    BY <1>3, <1>5 DEF Switch, SaveFrame
  <1>8. /\ Following(t) \in Terminals /\ Following(t) # t
        /\ term_esp'[Following(t)] = B /\ stack'[B] = stack[B]
    <2>1. Following(t) \in Terminals /\ Following(t) # t
      BY <1>2, PidsFacts
    <2>2. term_esp[Following(t)] = B
      BY <1>1, <1>2 DEF IInv, FramesIntact
    <2> QED  BY <2>1, <2>2, <1>2, <1>4, <1>6, <1>7 DEF IInv, TypeOK
  <1>9. stack[B].term = t /\ stack[B].prog = B /\ stack[B].stage \in {"user"} \cup PreemptHalt
    BY <1>1, <1>2 DEF IInv, FramesIntact
  <1>10. cpu' = stack[B]
    BY <1>8, <1>9 DEF Switch, Pop
  <1>11. /\ cpu' \in Context /\ cpu'.stage \in {"user", "closing"}
         /\ cpu'.term = t /\ cpu'.prog = B
    BY <1>6, <1>9, <1>10 DEF IInv, TypeOK, Orderly
  <1>12. cpu'.stage = "closing" => cpu'.stk = B /\ (parent_pcb[B] = NULL => t = 0)
    BY <1>1, <1>2, <1>10 DEF IInv, FrameInv, HaltStages, ParentStages
  <1> HIDE DEF t, A, B
  <1>13. TypeOK'
    BY <1>2, <1>4, <1>6, <1>7, <1>11 DEF IInv, TypeOK, procVars
  <1>14. Live' = Live /\ Live = {x \in Pids : pid_array[x] = 1}
    BY <1>3, <1>7, <1>11 DEF Live, procVars
  <1>15. PcbExclusive' /\ ParentIsCaller' /\ NoSlotLost'
    BY <1>7, <1>14 DEF IInv, PcbExclusive, ParentIsCaller, NoSlotLost, procVars
  <1>16. \A x \in Pids : x # A => stack'[x] = stack[x]
    BY <1>4, <1>7 DEF IInv, TypeOK
  <1>17. WaitInv'
    <2>1. \A x \in Live : parent_pcb[x] # NULL => parent_pcb[x] \in Pids /\ parent_pcb[x] # A
      BY <1>4, <1>14 DEF IInv, TypeOK
    <2> QED  BY <2>1, <1>7, <1>14, <1>16 DEF IInv, WaitInv, procVars
  <1>18. ASSUME NEW u \in Terminals, u # t, active_process[u] # NULL
         PROVE  /\ term_esp'[Following(u)] = active_process[u]
                /\ stack'[active_process[u]].term = u
                /\ stack'[active_process[u]].prog = active_process[u]
                /\ stack'[active_process[u]].stage \in {"user"} \cup PreemptHalt
                /\ stack'[active_process[u]].stage \in HaltStages =>
                     /\ stack'[active_process[u]].stk = active_process[u]
                     /\ parent_pcb[active_process[u]] = NULL => u = 0
    <2>1. CASE u = terminal_num
      <3>1. term_esp'[Following(u)] = A /\ active_process[u] = A /\ stack'[A] = cpu
        BY <2>1, <1>2, <1>4, <1>7 DEF IInv, TypeOK, t
      <3>2. cpu.stage \in {"user"} \cup PreemptHalt
        BY <1>3 DEF Switch, Interruptible
      <3>3. cpu.stage \in HaltStages => cpu.stk = A /\ (parent_pcb[A] = NULL => u = 0)
        BY <2>1, <1>3 DEF IInv, CpuInv, Parent, A, HaltStages, ParentStages, RootStages
      <3> QED  BY <2>1, <3>1, <3>2, <3>3, <1>4
    <2>2. CASE u # terminal_num
      <3>1. active_process[u] \in Pids /\ active_process[u] # A
        BY <2>2, <1>4, <1>18 DEF IInv, TypeOK
      <3>2. Following(u) \in Terminals /\ Following(u) # t
        BY <2>2, <1>4, PidsFacts, FollowingInjective DEF t
      <3>3. term_esp'[Following(u)] = term_esp[Following(u)]
        BY <3>2, <1>2, <1>7 DEF IInv, TypeOK
      <3>4. stack'[active_process[u]] = stack[active_process[u]]
        BY <3>1, <1>16
      <3> QED  BY <2>2, <3>3, <3>4, <1>18 DEF IInv, FramesIntact, FrameInv
    <2> QED  BY <2>1, <2>2
  <1>19. FramesIntact'
    BY <1>7, <1>18 DEF FramesIntact
  <1>20. FrameInv'
    BY <1>7, <1>18 DEF FrameInv, procVars
  \* The first round ends with the switch from terminal 2 to terminal 0.
  <1>21. Booting => t = 0 /\ terminal_num = 2
    BY <1>1, <1>4 DEF IInv, BootInv, Terminals, NULL, Following, t, B
  <1>22. /\ \A u \in Terminals : active_process[u] # NULL
         /\ pid_array[0] = 1 /\ term_esp'[0] # NULL
    <2>1. CASE Booting
      BY <2>1, <1>2, <1>4, <1>7, <1>21, PidsFacts DEF IInv, TypeOK, BootInv, Terminals, NULL
    <2>2. CASE ~Booting
      BY <2>2, <1>2, <1>3, <1>4, <1>7 DEF IInv, TypeOK, BootInv, Booting, RootInv, RootStages, Terminals
    <2> QED  BY <2>1, <2>2
  <1>23. BootInv'
    BY <1>2, <1>7, <1>11, <1>22, PidsFacts DEF BootInv, Booting
  <1>24. Active' = B
    BY <1>7 DEF Active, B
  <1>25. CpuInv'
    BY <1>1, <1>7, <1>11, <1>12, <1>24 DEF CpuInv, Parent, ParentStages, procVars, B
  <1>26. RootInv'
    BY <1>7, <1>14, <1>22 DEF IInv, RootInv, procVars
  <1> QED  BY <1>13, <1>15, <1>17, <1>19, <1>20, <1>23, <1>25, <1>26 DEF IInv

(***************************************************************************)
(* The theorems.                                                           *)
(***************************************************************************)
\* Every step preserves the invariant.
LEMMA NextInv == Orderly /\ IInv /\ [Next]_vars => IInv'
  <1> SUFFICES ASSUME Orderly, IInv, [Next]_vars PROVE IInv'
    OBVIOUS
  <1>1. CASE Launch
    BY <1>1, LaunchInv
  <1>2. CASE Switch
    BY <1>2, SwitchInv
  <1>3. CASE Execute
    BY <1>3, ExecuteInv
  <1>4. CASE ExecuteFails
    BY <1>4, ExecuteFailsInv
  <1>5. CASE HaltStart
    BY <1>5, HaltStartInv
  <1>6. CASE Halt
    BY <1>6, HaltPagingInv, HaltTssInv, HaltFreeInv, HaltReturnInv, HaltRootFreeInv,
       HaltRootOrphanInv, HaltRestartInv DEF Halt
  <1>7. CASE Exception
    BY <1>7, ExceptionInv
  <1>8. CASE UNCHANGED vars
    <2>1. Live' = Live
      BY <1>8 DEF Live, vars, Active
    <2>2. TypeOK' /\ BootInv' /\ FramesIntact' /\ FrameInv'
      BY <1>8 DEF IInv, TypeOK, BootInv, Booting, FramesIntact, FrameInv, vars
    <2>3. PcbExclusive' /\ WaitInv' /\ ParentIsCaller' /\ NoSlotLost'
      BY <1>8, <2>1 DEF IInv, PcbExclusive, WaitInv, ParentIsCaller, NoSlotLost, vars
    <2>4. CpuInv' /\ RootInv'
      BY <1>8, <2>1 DEF IInv, CpuInv, RootInv, Booting, Active, Parent, vars
    <2> QED  BY <2>2, <2>3, <2>4 DEF IInv
  <1> QED
    BY <1>1, <1>2, <1>3, <1>4, <1>5, <1>6, <1>7, <1>8 DEF Next, Tick

\* The inductive invariant holds of every behaviour of scheduler, execute and
\* halt in an orderly environment.
THEOREM Invariance == ASSUME Orderly PROVE Spec => []IInv
  <1>1. Init => IInv
    BY InitInv
  <1>2. IInv /\ [Next]_vars => IInv'
    BY NextInv
  <1> QED  BY <1>1, <1>2, PTL DEF Spec

\* Every variable keeps its type: in particular neither scheduler nor halt
\* ever reads the PCB of a NULL active_process.
THEOREM TypeCorrect == ASSUME Orderly PROVE Spec => []TypeOK
  <1>1. IInv => TypeOK
    BY DEF IInv
  <1> QED  BY <1>1, Invariance, PTL

\* execute and halt never let two terminals share a process, a kernel stack
\* or a page, whatever the number of slots.
THEOREM TerminalsApart == ASSUME Orderly PROVE Spec => [](PcbExclusive /\ OwnProcess)
  <1>1. IInv => PcbExclusive
    BY DEF IInv
  <1>2. IInv => OwnProcess
    BY DEF IInv, PcbExclusive, OwnProcess
  <1> QED  BY <1>1, <1>2, Invariance, PTL

\* No slot of pid_array is lost.
THEOREM SlotsKept == ASSUME Orderly PROVE Spec => []NoSlotLost
  <1>1. IInv => NoSlotLost
    BY DEF IInv
  <1> QED  BY <1>1, Invariance, PTL

\* A program always runs in its own page and on its own kernel stack.
THEOREM MemoryIsolation == ASSUME Orderly PROVE Spec => []RunsOnOwnMemory
  <1>1. IInv => RunsOnOwnMemory
    BY RunningFacts DEF IInv, CpuInv, RunsOnOwnMemory
  <1> QED  BY <1>1, Invariance, PTL

\* The frame that scheduler has kept for a terminal, in the entry of another,
\* is still on the stack of that terminal's process when it is loaded.
THEOREM FramesKept == ASSUME Orderly PROVE Spec => []FramesIntact
  <1>1. IInv => FramesIntact
    BY DEF IInv
  <1> QED  BY <1>1, Invariance, PTL

\* The parent halt returns to is the process that called execute.
THEOREM ParentsCorrect == ASSUME Orderly PROVE Spec => []ParentIsCaller
  <1>1. IInv => ParentIsCaller
    BY DEF IInv
  <1> QED  BY <1>1, Invariance, PTL

\* The jump at the end of halt resumes the execute that started the process.
THEOREM HaltResumesCaller == ASSUME Orderly PROVE Spec => ReturnsToCaller
  <1> DEFINE Resumes == cpu.stage = "freed" =>
                 cpu'.stage = "user" /\ cpu'.prog = caller[cpu.prog] /\ cpu'.term = cpu.term
  <1>1. IInv /\ [Next]_vars => [Resumes]_vars
    <2> SUFFICES ASSUME IInv, Next, cpu.stage = "freed"
                 PROVE  cpu'.stage = "user" /\ cpu'.prog = caller[cpu.prog] /\ cpu'.term = cpu.term
      OBVIOUS
    <2>1. HaltReturn
      BY DEF Next, Tick, Launch, Switch, Interruptible, Orderly, Execute, ExecuteFails, HaltStart,
         Commanded, Halt, HaltPaging, HaltTss, HaltFree, HaltRootFree, HaltRootOrphan, HaltStep,
         HaltRestart, Exception
    <2>2. cpu'.stage = "user" /\ cpu'.prog = Parent /\ cpu'.term = cpu.term
      BY <2>1, HaltReturnInv
    <2>3. cpu.prog \in Live /\ Parent = parent_pcb[cpu.prog]
      BY RunningFacts DEF Parent
    <2> QED  BY <2>2, <2>3 DEF IInv, ParentIsCaller
  <1> QED  BY <1>1, Invariance, PTL DEF Spec, ReturnsToCaller
============================================================================
