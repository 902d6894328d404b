------------------------------ MODULE Process ------------------------------
(***************************************************************************)
(* Processes, terminals and the round-robin scheduler of the kernel:       *)
(* execute and halt (systemcall.c), scheduler (scheduler.c), user_page_init*)
(* (paging.c) and the exception handlers (initialize_idt.c).               *)
(*                                                                         *)
(* Each of the three terminals runs one thread of control: the program its *)
(* active_process runs, or the kernel code that program called.  The PIT   *)
(* interrupt switches to the next terminal.  int 0x80 is a trap gate, so a *)
(* system call runs with interrupts enabled and the PIT may interrupt it;  *)
(* execute starts with cli and is one step, halt disables interrupts only  *)
(* at its end and is one step per shared location it writes.               *)
(*                                                                         *)
(* A process is named by its slot in pid_array, which fixes its PCB, its   *)
(* 8 KB kernel stack and its 4 MB user page.  A saved esp is therefore the *)
(* slot whose kernel stack it points into, and stack[p] is the context     *)
(* last saved on the stack of slot p.  The stack the kernel booted on is   *)
(* never returned to; an esp into it is NULL.                              *)
(***************************************************************************)
EXTENDS Integers

CONSTANTS
    PROCESS_MAX,   \* entries of pid_array
    Statuses,      \* the statuses programs pass to halt
    ExitRoots,     \* terminals whose first shell may be left with "exit"
    PreemptHalt,   \* stages of halt at which a PIT interrupt may arrive
    BootCommands,  \* may a command be typed before each shell has run once?
    Exceptions     \* may a program raise a processor exception?

NULL == -1
Pids == 0 .. PROCESS_MAX - 1
Terminals == 0 .. 2

\* The points of halt between two writes that another terminal can see.
ParentStages == {"closing", "paged", "tss", "freed"}
RootStages == {"rootfreed", "orphan"}
HaltStages == ParentStages \cup RootStages

ASSUME ProcessMaxAssumption == PROCESS_MAX \in Nat /\ PROCESS_MAX >= 3
ASSUME StatusesAssumption == Statuses \subseteq 0 .. 255
ASSUME ExitRootsAssumption == ExitRoots \subseteq Terminals
ASSUME PreemptHaltAssumption == PreemptHalt \subseteq HaltStages
ASSUME FlagsAssumption == BootCommands \in BOOLEAN /\ Exceptions \in BOOLEAN

VARIABLES
    pid_array,       \* 1 for a slot in use
    parent_pcb,      \* PCB: the process halt returns to, NULL for a root shell
    pcb_esp,         \* PCB: the stack halt returns to
    active_process,  \* terminal[t].active_process
    term_esp,        \* terminal[t].esp: the stack of the terminal before t
    terminal_num,    \* the terminal being run, NULL before the first tick
    page,            \* the process whose 4 MB page is mapped at 128 MB
    tss,             \* the process whose kernel stack tss.esp0 points to
    ret_val,         \* the static variable execute returns
    cpu,             \* the context being executed
    stack,           \* the context last saved on each kernel stack
    owner,           \* history: the terminal a slot was last executed for
    caller           \* history: the process that called execute for a slot

vars == <<pid_array, parent_pcb, pcb_esp, active_process, term_esp, terminal_num,
          page, tss, ret_val, cpu, stack, owner, caller>>
procVars == <<pid_array, parent_pcb, pcb_esp, owner, caller>>

(***************************************************************************)
(* A context: the terminal whose thread it is, the process whose program   *)
(* it runs, how far it is ("user": in the program; "wait": inside execute, *)
(* until a child halts; a stage of halt), the kernel stack it uses inside  *)
(* halt, the argument of halt, and what the last execute returned.         *)
(***************************************************************************)
Stages == HaltStages \cup {"none", "boot", "user", "wait", "exception", "crashed"}
Context == [term : Terminals \cup {NULL}, prog : Pids \cup {NULL}, stage : Stages,
            stk : Pids \cup {NULL}, arg : 0 .. 255, eax : -1 .. 255]

NoContext(s) == [term |-> NULL, prog |-> NULL, stage |-> s, stk |-> NULL,
                 arg |-> 0, eax |-> 0]
UserContext(t, p) == [term |-> t, prog |-> p, stage |-> "user", stk |-> NULL,
                      arg |-> 0, eax |-> 0]

Init ==
    /\ pid_array = [p \in Pids |-> 0]
    /\ parent_pcb = [p \in Pids |-> NULL]
    /\ pcb_esp = [p \in Pids |-> NULL]
    /\ active_process = [t \in Terminals |-> NULL]
    /\ term_esp = [t \in Terminals |-> NULL]
    /\ terminal_num = NULL
    /\ page = NULL
    /\ tss = NULL
    /\ ret_val = 0
    /\ cpu = NoContext("boot")
    /\ stack = [p \in Pids |-> NoContext("none")]
    /\ owner = [p \in Pids |-> 0]
    /\ caller = [p \in Pids |-> NULL]

(***************************************************************************)
(* Helpers                                                                 *)
(***************************************************************************)
Following_Mutant(t) == IF t >= 1 THEN 0 ELSE t + 1

\* terminal_num++ and % NUM_OF_TERMINAL; the first tick makes -1 into 0.
Following(t) == IF t = 2 THEN 0 ELSE t + 1

\* The scan of pid_array stops at its first entry that is not 1.
FirstFree(p) == pid_array[p] = 0 /\ \A q \in Pids : q < p => pid_array[q] = 1
TableFull == \A p \in Pids : pid_array[p] = 1

Active == active_process[terminal_num]
Parent == parent_pcb[Active]

\* An interrupt taken in user mode pushes its frame on the stack of the tss,
\* one taken inside halt on the stack halt is running on.
FrameStack == IF cpu.stage \in HaltStages THEN cpu.stk ELSE tss

\* A command can be typed once the shell of each terminal has run: the tick
\* that starts the second round replaces the boot stack in terminal[0].
Commanded == cpu.stage = "user" /\ (BootCommands \/ term_esp[0] # NULL)

\* Popping a frame that is not the one the code left there is the end of
\* everything the model can say.
Pop(c, ok) == IF ok THEN c ELSE [c EXCEPT !.stage = "crashed"]

\* parent_pcb is set only in a slot that has none.
NewProcess_ParentOnce(t, p, s) ==
    LET parent == IF active_process[t] = NULL \/ parent_pcb[p] # NULL
                  THEN parent_pcb[p] ELSE active_process[t]
    IN  /\ FirstFree(p)
        /\ pid_array' = [pid_array EXCEPT ![p] = 1]
        /\ parent_pcb' = [parent_pcb EXCEPT ![p] = parent]
        /\ pcb_esp' = [pcb_esp EXCEPT ![p] = IF parent = NULL THEN pcb_esp[p] ELSE s]
        /\ active_process' = [active_process EXCEPT ![t] = p]
        /\ page' = p
        /\ tss' = p
        /\ cpu' = UserContext(t, p)
        /\ owner' = [owner EXCEPT ![p] = t]
        /\ caller' = [caller EXCEPT ![p] = active_process[t]]

\* The esp kept for halt is one of the new process's stack.
NewProcess_OwnStack(t, p, s) ==
    LET parent == IF active_process[t] = NULL THEN parent_pcb[p] ELSE active_process[t]
    IN  /\ FirstFree(p)
        /\ pid_array' = [pid_array EXCEPT ![p] = 1]
        /\ parent_pcb' = [parent_pcb EXCEPT ![p] = parent]
        /\ pcb_esp' = [pcb_esp EXCEPT ![p] = IF parent = NULL THEN pcb_esp[p] ELSE p]
        /\ active_process' = [active_process EXCEPT ![t] = p]
        /\ page' = p
        /\ tss' = p
        /\ cpu' = UserContext(t, p)
        /\ owner' = [owner EXCEPT ![p] = t]
        /\ caller' = [caller EXCEPT ![p] = active_process[t]]

(***************************************************************************)
(* execute, once the command names an executable file: from the search of  *)
(* pid_array to the iret into the new program.  It runs on kernel stack s  *)
(* for terminal t and takes slot p.  A root shell keeps the parent_pcb     *)
(* that the slot's memory holds.                                           *)
(***************************************************************************)
NewProcess(t, p, s) ==
    LET parent == IF active_process[t] = NULL THEN parent_pcb[p] ELSE active_process[t]
    IN  /\ FirstFree(p)
        /\ pid_array' = [pid_array EXCEPT ![p] = 1]
        /\ parent_pcb' = [parent_pcb EXCEPT ![p] = parent]
        /\ pcb_esp' = [pcb_esp EXCEPT ![p] = IF parent = NULL THEN pcb_esp[p] ELSE s]
        /\ active_process' = [active_process EXCEPT ![t] = p]
        /\ page' = p
        /\ tss' = p
        /\ cpu' = UserContext(t, p)
        /\ owner' = [owner EXCEPT ![p] = t]
        /\ caller' = [caller EXCEPT ![p] = active_process[t]]

\* A program (a shell) calls execute; its context stays inside the call.
Execute ==
    /\ Commanded
    /\ \E p \in Pids : NewProcess(terminal_num, p, tss)
    /\ stack' = [stack EXCEPT ![tss] = [cpu EXCEPT !.stage = "wait"]]
    /\ UNCHANGED <<term_esp, terminal_num, ret_val>>

\* execute fails and returns -1: the command is empty, too long or names no
\* executable file, or every slot is in use.  Nothing else has changed.
ExecuteFails ==
    /\ Commanded
    /\ \E reason \in {"bad command", "too many processes"} :
          reason = "too many processes" => TableFull
    /\ cpu' = [cpu EXCEPT !.eax = -1]
    /\ UNCHANGED <<procVars, active_process, term_esp, terminal_num, page, tss,
                   ret_val, stack>>

(***************************************************************************)
(* halt.  Interrupts are enabled until the cli before HaltReturn, and      *)
(* active_process and parent_pcb are read again at each step.              *)
(***************************************************************************)
\* The status is taken for a signed byte.
HaltStart_Signed ==
    /\ Commanded
    /\ Parent = NULL => terminal_num \in ExitRoots
    /\ \E s \in Statuses :
          /\ ret_val' = IF s > 127 THEN s - 256 ELSE s
          /\ cpu' = [cpu EXCEPT !.stage = "closing", !.arg = s, !.stk = tss]
    /\ UNCHANGED <<procVars, active_process, term_esp, terminal_num, page, tss, stack>>

\* The status goes into ret_val and the open files are closed.
HaltStart ==
    /\ Commanded
    /\ Parent = NULL => terminal_num \in ExitRoots
    /\ \E s \in Statuses :
          /\ ret_val' = s
          /\ cpu' = [cpu EXCEPT !.stage = "closing", !.arg = s, !.stk = tss]
    /\ UNCHANGED <<procVars, active_process, term_esp, terminal_num, page, tss, stack>>

HaltStep(from, to) ==
    /\ cpu.stage = from
    /\ cpu' = [cpu EXCEPT !.stage = to]
    /\ UNCHANGED <<parent_pcb, pcb_esp, owner, caller, term_esp, terminal_num,
                   ret_val, stack>>

\* user_page_init(parent_pcb->pid)
HaltPaging ==
    /\ HaltStep("closing", "paged")
    /\ Parent # NULL
    /\ page' = Parent
    /\ UNCHANGED <<pid_array, active_process, tss>>

\* tss.esp0 = parent_pcb->esp0
HaltTss ==
    /\ HaltStep("paged", "tss")
    /\ tss' = Parent
    /\ UNCHANGED <<pid_array, active_process, page>>

\* The parent's slot is freed instead, or none.
HaltFree_Parent ==
    /\ HaltStep("tss", "freed")
    /\ pid_array' = [pid_array EXCEPT ![Parent] = 0]
    /\ UNCHANGED <<active_process, page, tss>>
HaltFree_Kept ==
    /\ HaltStep("tss", "freed")
    /\ UNCHANGED <<pid_array, active_process, page, tss>>

\* pid_array[active_process->pid] = 0
HaltFree ==
    /\ HaltStep("tss", "freed")
    /\ pid_array' = [pid_array EXCEPT ![Active] = 0]
    /\ UNCHANGED <<active_process, page, tss>>

\* With interrupts off: active_process becomes the parent, esp is loaded from
\* the PCB of the halting process and the jump to EXECUTE_RETURN continues
\* the execute whose frame is found there, which returns ret_val.
HaltReturn ==
    LET frame == stack[pcb_esp[Active]]
    IN  /\ cpu.stage = "freed"
        /\ active_process' = [active_process EXCEPT ![terminal_num] = Parent]
        /\ cpu' = Pop([frame EXCEPT !.stage = "user", !.eax = ret_val], frame.stage = "wait")
        /\ UNCHANGED <<procVars, term_esp, terminal_num, page, tss, ret_val, stack>>

\* The slot of the shell is not freed before the new one is started.
HaltRootFree_Kept ==
    /\ HaltStep("closing", "rootfreed")
    /\ Parent = NULL
    /\ UNCHANGED <<pid_array, active_process, page, tss>>

\* A root shell frees entry 0 of pid_array, whatever slot it is in itself.
HaltRootFree ==
    /\ HaltStep("closing", "rootfreed")
    /\ Parent = NULL
    /\ pid_array' = [pid_array EXCEPT ![0] = 0]
    /\ UNCHANGED <<active_process, page, tss>>

HaltRootOrphan ==
    /\ HaltStep("rootfreed", "orphan")
    /\ active_process' = [active_process EXCEPT ![terminal_num] = NULL]
    /\ UNCHANGED <<pid_array, page, tss>>

\* execute("shell") from within halt.  When it fails, halt goes on to read
\* the PCB of a NULL active_process.
HaltRestart ==
    /\ cpu.stage = "orphan"
    /\ IF TableFull
       THEN /\ cpu' = [cpu EXCEPT !.stage = "crashed"]
            /\ UNCHANGED <<procVars, active_process, page, tss>>
       ELSE \E p \in Pids : NewProcess(terminal_num, p, cpu.stk)
    /\ UNCHANGED <<term_esp, terminal_num, ret_val, stack>>

Halt == HaltPaging \/ HaltTss \/ HaltFree \/ HaltReturn
            \/ HaltRootFree \/ HaltRootOrphan \/ HaltRestart

(***************************************************************************)
(* The PIT interrupt: scheduler() with interrupts off.                     *)
(***************************************************************************)
\* The frame is kept in the terminal that was interrupted.
SaveFrame_Unshifted(t) ==
    IF cpu.stage = "boot"
    THEN /\ term_esp' = [term_esp EXCEPT ![t] = NULL]
         /\ UNCHANGED stack
    ELSE /\ term_esp' = [term_esp EXCEPT ![terminal_num] = FrameStack]
         /\ stack' = [stack EXCEPT ![FrameStack] = cpu]

\* The frame of the interrupted thread, kept in the terminal t that follows.
SaveFrame(t) ==
    IF cpu.stage = "boot"
    THEN /\ term_esp' = [term_esp EXCEPT ![t] = NULL]
         /\ UNCHANGED stack
    ELSE /\ term_esp' = [term_esp EXCEPT ![t] = FrameStack]
         /\ stack' = [stack EXCEPT ![FrameStack] = cpu]

Interruptible == cpu.stage \in {"boot", "user"} \cup PreemptHalt

\* A terminal with no process gets a shell; when execute fails here, the
\* scheduler goes on to read the PCB of a NULL active_process.
Launch ==
    LET t == Following(terminal_num)
    IN  /\ Interruptible
        /\ active_process[t] = NULL
        /\ terminal_num' = t
        /\ SaveFrame(t)
        /\ IF TableFull
           THEN /\ cpu' = [cpu EXCEPT !.stage = "crashed"]
                /\ UNCHANGED <<procVars, active_process, page, tss>>
           ELSE \E p \in Pids : NewProcess(t, p, FrameStack)
        /\ UNCHANGED ret_val

\* The page of the terminal is not mapped.
Switch_NoPaging ==
    LET t == Following(terminal_num)
        frame == stack'[term_esp'[Following(t)]]
    IN  /\ Interruptible
        /\ active_process[t] # NULL
        /\ terminal_num' = t
        /\ SaveFrame(t)
        /\ tss' = active_process[t]
        /\ cpu' = Pop(frame, frame.stage \in {"user"} \cup PreemptHalt)
        /\ UNCHANGED <<procVars, active_process, page, ret_val>>

\* Otherwise its page and stack are installed and its thread goes on from the
\* frame that is kept in the terminal after it.
Switch ==
    LET t == Following(terminal_num)
        frame == stack'[term_esp'[Following(t)]]
    IN  /\ Interruptible
        /\ active_process[t] # NULL
        /\ terminal_num' = t
        /\ SaveFrame(t)
        /\ page' = active_process[t]
        /\ tss' = active_process[t]
        /\ cpu' = Pop(frame, frame.stage \in {"user"} \cup PreemptHalt)
        /\ UNCHANGED <<procVars, active_process, ret_val>>

Tick == Launch \/ Switch

\* The handlers of exceptions 0 to 19 print a message and loop, with the
\* interrupts that the interrupt gate disabled still disabled.
Exception ==
    /\ Exceptions
    /\ cpu.stage = "user"
    /\ cpu' = [cpu EXCEPT !.stage = "exception"]
    /\ UNCHANGED <<procVars, active_process, term_esp, terminal_num, page, tss,
                   ret_val, stack>>

Next == Tick \/ Execute \/ ExecuteFails \/ HaltStart \/ Halt \/ Exception

Spec == Init /\ [][Next]_vars

(***************************************************************************)
(* Fairness.  The PIT keeps interrupting, and the PIC holds a request that *)
(* comes while interrupts are off until they are on again: strong fairness *)
(* for Tick.  A quantum is far longer than the few instructions between    *)
(* two stages of halt, which waits for nothing, so a terminal that runs    *)
(* again and again inside halt gets past each stage: strong fairness for   *)
(* its halt.  Nothing is assumed about the programs.                       *)
(***************************************************************************)
Fairness == /\ SF_vars(Tick)
            /\ \A t \in Terminals : SF_vars(Halt /\ terminal_num = t)

FairSpec == Spec /\ Fairness

----------------------------------------------------------------------------
(***************************************************************************)
(* Properties                                                              *)
(***************************************************************************)
\* Every variable has a value of its type.
TypeOK ==
    /\ pid_array \in [Pids -> {0, 1}]
    /\ parent_pcb \in [Pids -> Pids \cup {NULL}]
    /\ pcb_esp \in [Pids -> Pids \cup {NULL}]
    /\ active_process \in [Terminals -> Pids \cup {NULL}]
    /\ term_esp \in [Terminals -> Pids \cup {NULL}]
    /\ terminal_num \in Terminals \cup {NULL}
    /\ page \in Pids \cup {NULL}
    /\ tss \in Pids \cup {NULL}
    /\ ret_val \in 0 .. 255
    /\ cpu \in Context
    /\ stack \in [Pids -> Context]
    /\ owner \in [Pids -> Terminals]
    /\ caller \in [Pids -> Pids \cup {NULL}]

\* The slots whose process has not finished halting: HaltFree and HaltRootFree
\* clear the entry while active_process still points to it.
Live == {p \in Pids : \/ pid_array[p] = 1
                      \/ cpu.stage = "freed" /\ p = Active
                      \/ cpu.stage = "rootfreed" /\ p = 0}

\* execute and halt never give the PCB, stack and page of one terminal's
\* process to another: the process a terminal runs is live and was executed
\* for that terminal, and so is the chain of processes waiting for it, in
\* which each process waits for one child.
PcbExclusive ==
    /\ \A t \in Terminals : active_process[t] # NULL =>
          active_process[t] \in Live /\ owner[active_process[t]] = t
    /\ \A p \in Live : parent_pcb[p] # NULL =>
          /\ parent_pcb[p] \in Live
          /\ owner[parent_pcb[p]] = owner[p]
          /\ \A q \in Live : parent_pcb[q] = parent_pcb[p] => q = p

\* The terminals run different processes.
OwnProcess ==
    \A t, u \in Terminals :
        active_process[t] = active_process[u] /\ active_process[t] # NULL => t = u

\* No slot of pid_array is lost: each one in use belongs to the process its
\* terminal runs or to a process that waits for a child.
NoSlotLost ==
    \A p \in Live :
        \/ active_process[owner[p]] = p
        \/ \E q \in Live : parent_pcb[q] = p

\* Whenever a program runs, the page mapped at 128 MB and the kernel stack
\* in the tss are its own, and it is the process of the running terminal:
\* what user_page_init and the tss updates of execute, halt and scheduler
\* are there for.
RunsOnOwnMemory ==
    cpu.stage = "user" =>
        /\ page = cpu.prog
        /\ tss = cpu.prog
        /\ Active = cpu.prog
        /\ cpu.term = terminal_num

\* The parent a live process will return to is the process that executed it
\* (NULL for a root shell): no parent_pcb is left over from an earlier use.
ParentIsCaller == \A p \in Live : parent_pcb[p] = caller[p]

\* The frames that scheduler keeps one terminal further on are intact: the
\* one it will load for a terminal is that terminal's own thread, on the
\* stack of its own process.
FramesIntact ==
    \A t \in Terminals : t # terminal_num /\ active_process[t] # NULL =>
        /\ term_esp[Following(t)] = active_process[t]
        /\ stack[active_process[t]].term = t
        /\ stack[active_process[t]].prog = active_process[t]
        /\ stack[active_process[t]].stage \in {"user"} \cup PreemptHalt

\* A call of execute is continued by the halt of the process it started: a
\* program is resumed in the execute that started the halting process.
ReturnsToCaller ==
    [][cpu.stage = "freed" => cpu'.stage = "user" /\ cpu'.prog = caller[cpu.prog]
                                /\ cpu'.term = cpu.term]_vars

\* The value execute returns is the status the child passed to halt.
ReturnsOwnStatus ==
    [][cpu.stage = "freed" /\ cpu'.stage = "user" => cpu'.eax = cpu.arg]_vars

\* An exception stops the machine.
Stopped == cpu.stage = "exception"

\* scheduler() gives each terminal a turn again and again, until a program
\* raises an exception.
EveryTerminalRuns == \A t \in Terminals : []<>(terminal_num = t \/ Stopped)

\* A halt that has begun is finished, unless a program raises an exception:
\* the terminal gets back to a program, the parent or a new shell.
HaltCompletes ==
    \A t \in Terminals :
        (terminal_num = t /\ cpu.stage = "closing") ~>
            ((terminal_num = t /\ cpu.stage = "user") \/ Stopped)
============================================================================
