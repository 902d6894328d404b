------------------------------- MODULE Files -------------------------------
(***************************************************************************)
(* Open files and arguments: the file_descriptor_table and arg in the PCB  *)
(* of each process (open, close, read, getargs, execute and halt of        *)
(* systemcall.c) and the directory and file reads of filesystem.c.         *)
(*                                                                         *)
(* A PCB is memory that belongs to a slot: what a process leaves in it is  *)
(* what the next process in that slot finds.  Names are looked up and read *)
(* with interrupts enabled, and fname_length is one variable for all of    *)
(* them, so open and directory_file_read are one step for each of its      *)
(* uses.                                                                   *)
(***************************************************************************)
EXTENDS Command, Image

CONSTANTS
    Terminals,      \* the terminals
    PROCESS_MAX,    \* slots
    FD_MAX,         \* the last entry of a file_descriptor_table
    FILENAME_MAX,   \* the longest name in the directory
    Directory,      \* the directory entries: [name, type, inode]
    Commands,       \* what is executed: [line, name, arg], the line and its parts
    Names,          \* the names programs open
    NBytes,         \* the sizes programs read
    Overlap         \* may a call be interrupted by another terminal's?

NULL == -1
Pids == 0 .. PROCESS_MAX - 1
Fds == 0 .. FD_MAX
GARBAGE == "?"     \* a byte of the stack that was never written

ASSUME PidsAssumption == PROCESS_MAX \in Nat /\ \A t \in Terminals : t \in Pids
ASSUME FdsAssumption == FD_MAX \in Nat /\ FD_MAX >= 2
ASSUME NBytesAssumption == FILENAME_MAX \in Nat /\ NBytes \subseteq Nat /\ Overlap \in BOOLEAN
ASSUME DirectoryAssumption ==
    /\ Directory \in Seq([name : Seq(STRING), type : {"rtc", "dir", "file"}, inode : Nat])
    /\ \A i \in DOMAIN Directory :
          /\ IsText(Directory[i].name) /\ Len(Directory[i].name) \in 1 .. FILENAME_MAX
          /\ Directory[i].type = "file" => Directory[i].inode \in DOMAIN length_in_b
    /\ \A i, j \in DOMAIN Directory : Directory[i].name = Directory[j].name => i = j
ASSUME NamesAssumption == \A name \in Names : IsText(name)
ASSUME CommandsAssumption ==
    \A c \in Commands : /\ IsText(c.line) /\ IsText(c.name) /\ IsText(c.arg)
                          /\ Consists(c.line, c.name, c.arg)

VARIABLES
    chain,         \* the processes of each terminal, the running one last
    fds,           \* the file_descriptor_table of each slot
    fname_length,  \* the static variable of filesystem.c
    call,          \* where a terminal's program is in open or a directory read
    arg,           \* the arg of each slot
    result,        \* what the call that returned in the last step gave its caller
    delivered,     \* history: bytes or names read since an entry was opened
    given          \* history: the argument each process was started with, until its child ends

vars == <<chain, fds, fname_length, call, arg, result, delivered, given>>

None == [stage |-> "none", fd |-> NULL, name |-> <<>>, n |-> 0, dentry |-> <<>>]
NoResult == [what |-> "nothing"]
Closed == [f_op |-> "none", inode |-> 0, f_offset |-> 0, active |-> 0]

\* Entries 0 and 1 become stdin and stdout, the others stay as they are.
WithStandard(table) ==
    [table EXCEPT ![0].f_op = "stdin", ![0].active = 1,
                  ![1].f_op = "stdout", ![1].active = 1]

\* A shell runs in each terminal.
Init ==
    /\ chain = [t \in Terminals |-> <<t>>]
    /\ fds = [p \in Pids |->
                 LET empty == [fd \in Fds |-> Closed]
                 IN  IF p \in Terminals THEN WithStandard(empty) ELSE empty]
    /\ fname_length = 5
    /\ call = [t \in Terminals |-> None]
    /\ arg = [p \in Pids |-> <<>>]
    /\ result = NoResult
    /\ delivered = [p \in Pids |-> [fd \in Fds |-> 0]]
    /\ given = [p \in Pids |-> <<>>]

----------------------------------------------------------------------------
Running(t) == chain[t][Len(chain[t])]
InUse == UNION {{chain[t][i] : i \in DOMAIN chain[t]} : t \in Terminals}
Waiting == UNION {{chain[t][i] : i \in 1 .. Len(chain[t]) - 1} : t \in Terminals}

\* A program calls the kernel; its call is interrupted only if Overlap says so.
MayStep(t) == Overlap \/ \A u \in Terminals \ {t} : call[u] = None
Calls(t) == call[t] = None /\ MayStep(t)

\* A slot whose process waits is taken for a free one.
FreeSlots_Mutant == Pids \ {Running(t) : t \in Terminals}
FreeSlots == Pids \ InUse

(***************************************************************************)
(* execute finds the program by name, with interrupts off, copies the      *)
(* argument into the PCB and reads the file into the page of the process.  *)
(* halt clears the argument of the parent, not that of the process.        *)
(***************************************************************************)
CharsMatch(name, length, d) == \A i \in 1 .. length : CharAt(name, i) = CharAt(d.name, i)

\* The lengths are not compared.
Matches_Mutant(name, length, d) == CharsMatch(name, length, d)

\* An entry of another length is skipped; strncmp compares fname_length bytes.
Matches(name, length, d) ==
    /\ length = Len(d.name) \/ length = FILENAME_MAX
    /\ CharsMatch(name, length, d)

\* The entries read_dentry_by_name can find.
Found(name, length) == {i \in DOMAIN Directory : Matches(name, length, Directory[i])}

\* The file found is a program.
IsProgram(name) ==
    Found(name, Len(name)) # {} /\ Directory[Min(Found(name, Len(name)))].type = "file"

\* A read of a file, as its caller sees it.
Data(inode, offset, n) ==
    [what |-> "data", inode |-> inode, offset |-> offset, n |-> n,
     bytes |-> read_data(inode, offset, n)]

PAGE == 1000   \* room for a program: longer than any file

Execute(t) ==
    /\ Calls(t)
    /\ FreeSlots # {}
    /\ \E c \in Commands :
          LET name == FileName(c.line)
              p == Min(FreeSlots)
          IN  /\ WellFormed(c.line)
              /\ IsProgram(name)
              /\ fname_length' = Len(name)
              /\ chain' = [chain EXCEPT ![t] = Append(@, p)]
              /\ fds' = [fds EXCEPT ![p] = WithStandard(@)]
              /\ arg' = [arg EXCEPT ![p] = Argument(c.line)]
              /\ result' = Data(Directory[Min(Found(name, Len(name)))].inode, 0, PAGE)
              /\ given' = [given EXCEPT ![p] = c.arg]
    /\ UNCHANGED <<call, delivered>>

\* No name, a name looked up in vain, a file that is no program, every slot in use.
ExecuteFails(t) ==
    /\ Calls(t)
    /\ \E c \in Commands :
          LET name == FileName(c.line)
          IN  \/ ~WellFormed(c.line) /\ UNCHANGED fname_length
              \/ /\ WellFormed(c.line)
                 /\ FreeSlots = {} \/ ~IsProgram(name)
                 /\ fname_length' = Len(name)
    /\ result' = NoResult
    /\ UNCHANGED <<chain, fds, call, arg, delivered, given>>

\* halt closes the entries from 2 on, up to the first that is not active.
Halt(t) ==
    LET p == Running(t)
        parent == chain[t][Len(chain[t]) - 1]
    IN  /\ Calls(t)
        /\ Len(chain[t]) > 1
        /\ fds' = [fds EXCEPT ![p] = [fd \in Fds |->
                      IF fd >= 2 /\ \A e \in 2 .. fd : fds[p][e].active = 1
                      THEN [fds[p][fd] EXCEPT !.active = 0] ELSE fds[p][fd]]]
        /\ chain' = [chain EXCEPT ![t] = SubSeq(@, 1, Len(@) - 1)]
        /\ arg' = [arg EXCEPT ![parent] = <<>>]
        /\ given' = [given EXCEPT ![p] = <<>>, ![parent] = <<>>]
        /\ result' = NoResult
        /\ UNCHANGED <<fname_length, call, delivered>>

\* getargs: -1 without an argument, otherwise as much of it as fits, and its
\* NUL when all of it does.
getargs(t) ==
    LET p == Running(t)
    IN  /\ Calls(t)
        /\ \E n \in NBytes :
              result' = [what |-> "args", pid |-> p, n |-> n,
                         bytes |-> IF Len(arg[p]) = 0 \/ n = 0 THEN <<>>
                                   ELSE IF Len(arg[p]) <= n THEN Append(arg[p], NUL)
                                   ELSE SubSeq(arg[p], 1, n)]
        /\ UNCHANGED <<chain, fds, fname_length, call, arg, delivered, given>>

(***************************************************************************)
(* open: the first inactive entry, then read_dentry_by_name, which refuses *)
(* an empty or too long name.  The search for an entry of a full table     *)
(* goes on through the rest of the PCB, and open fails where it ends.      *)
(***************************************************************************)
\* The bound of the table is not checked.
Inactive_Mutant(p) == {fd \in 0 .. FD_MAX + 1 : fd \in Fds => fds[p][fd].active = 0}

Inactive(p) == {fd \in Fds : fds[p][fd].active = 0}

OpenStart(t) ==
    /\ Calls(t)
    /\ Inactive(Running(t)) # {}
    /\ \E name \in Names :
          /\ fname_length' = Len(name)
          /\ call' = [call EXCEPT ![t] =
                         IF Len(name) = 0 \/ Len(name) > FILENAME_MAX THEN None
                         ELSE [None EXCEPT !.stage = "open", !.name = name,
                                           !.fd = Min(Inactive(Running(t)))]]
    /\ result' = NoResult
    /\ UNCHANGED <<chain, fds, arg, delivered, given>>

\* f_offset is not set.
Opened_Mutant(entry, d) ==
    [entry EXCEPT !.f_op = d.type, !.active = 1,
                  !.inode = IF d.type = "file" THEN d.inode ELSE 0]

Opened(entry, d) ==
    [f_op |-> d.type, f_offset |-> 0, active |-> 1,
     inode |-> IF d.type = "file" THEN d.inode ELSE 0]

OpenFind(t) ==
    LET p == Running(t)
        fd == call[t].fd
        found == Found(call[t].name, fname_length)
    IN  /\ call[t].stage = "open"
        /\ MayStep(t)
        /\ IF found = {}
           THEN UNCHANGED <<fds, delivered>>
           ELSE /\ fds' = [fds EXCEPT ![p][fd] = Opened(@, Directory[Min(found)])]
                /\ delivered' = [delivered EXCEPT ![p][fd] = 0]
        /\ call' = [call EXCEPT ![t] = None]
        /\ result' = NoResult
        /\ UNCHANGED <<chain, fname_length, arg, given>>

\* close: entries 0 and 1 and inactive ones are refused.
Close(t) ==
    /\ Calls(t)
    /\ \E fd \in 2 .. FD_MAX :
          /\ fds[Running(t)][fd].active # 0
          /\ fds' = [fds EXCEPT ![Running(t)][fd].active = 0]
    /\ result' = NoResult
    /\ UNCHANGED <<chain, fname_length, call, arg, delivered, given>>

(***************************************************************************)
(* regular_file_read: as many bytes as are asked for and left.             *)
(***************************************************************************)
ReadFile(t) ==
    LET p == Running(t)
    IN  /\ Calls(t)
        /\ \E fd \in Fds, n \in NBytes :
              LET e == fds[p][fd]
                  data == Data(e.inode, e.f_offset, n)
              IN  /\ e.active = 1 /\ e.f_op = "file"
                  /\ result' = data
                  /\ fds' = [fds EXCEPT ![p][fd].f_offset = @ + Len(data.bytes)]
                  /\ delivered' = [delivered EXCEPT ![p][fd] = @ + Len(data.bytes)]
        /\ UNCHANGED <<chain, fname_length, call, arg, given>>

(***************************************************************************)
(* directory_file_read.  read_dentry_by_index measures the name and copies *)
(* that many bytes to an uninitialized local; then the length returned is  *)
(* bounded by fname_length once more.  After the last entry there is an    *)
(* empty one, at which the read returns 0.                                 *)
(***************************************************************************)
\* The first entry is skipped.
NameAt_Mutant(offset) == IF offset + 1 < Len(Directory) THEN Directory[offset + 2].name ELSE <<>>

NameAt(offset) == IF offset < Len(Directory) THEN Directory[offset + 1].name ELSE <<>>

DirStart(t) ==
    /\ Calls(t)
    /\ \E fd \in Fds, n \in NBytes :
          LET e == fds[Running(t)][fd]
          IN  /\ e.active = 1 /\ e.f_op = "dir"
              /\ fname_length' = Min({Len(NameAt(e.f_offset)), FILENAME_MAX})
              /\ call' = [call EXCEPT ![t] = [None EXCEPT !.stage = "measured", !.fd = fd, !.n = n]]
    /\ result' = NoResult
    /\ UNCHANGED <<chain, fds, arg, delivered, given>>

DirCopy(t) ==
    LET name == NameAt(fds[Running(t)][call[t].fd].f_offset)
    IN  /\ call[t].stage = "measured"
        /\ MayStep(t)
        /\ call' = [call EXCEPT ![t].stage = "copied",
                                ![t].dentry = [i \in 1 .. fname_length |-> CharAt(name, i)]]
        /\ result' = NoResult
        /\ UNCHANGED <<chain, fds, fname_length, arg, delivered, given>>

DirReturn(t) ==
    LET p == Running(t)
        e == fds[p][call[t].fd]
        n == Min({call[t].n, FILENAME_MAX, fname_length})
        copied == call[t].dentry
    IN  /\ call[t].stage = "copied"
        /\ MayStep(t)
        /\ IF e.f_offset >= Len(Directory)
           THEN result' = NoResult /\ UNCHANGED <<fds, delivered>>
           ELSE /\ result' = [what |-> "name", index |-> e.f_offset, n |-> call[t].n,
                              bytes |-> [i \in 1 .. n |->
                                            IF i <= Len(copied) THEN copied[i] ELSE GARBAGE]]
                /\ fds' = [fds EXCEPT ![p][call[t].fd].f_offset = @ + 1]
                /\ delivered' = [delivered EXCEPT ![p][call[t].fd] = @ + 1]
        /\ call' = [call EXCEPT ![t] = None]
        /\ UNCHANGED <<chain, fname_length, arg, given>>

Next ==
    \E t \in Terminals :
        \/ Execute(t) \/ ExecuteFails(t) \/ Halt(t) \/ getargs(t) \/ OpenStart(t) \/ OpenFind(t) \/ Close(t)
        \/ ReadFile(t) \/ DirStart(t) \/ DirCopy(t) \/ DirReturn(t)

Spec == Init /\ [][Next]_vars

----------------------------------------------------------------------------
\* Every variable has a value of its type.
TypeOK ==
    /\ \A t \in Terminals : chain[t] \in Seq(Pids) /\ chain[t] # <<>>
    /\ fds \in [Pids -> [Fds -> [f_op : {"none", "stdin", "stdout", "rtc", "dir", "file"},
                                 inode : Nat, f_offset : Nat, active : {0, 1}]]]
    /\ fname_length \in Nat
    /\ \A t \in Terminals : /\ call[t].stage \in {"none", "open", "measured", "copied"}
                            /\ call[t].fd \in Fds \cup {NULL}
    /\ \A p \in Pids : Len(arg[p]) <= cmd_length

\* Successive reads of an open file continue where the one before ended: the
\* f_offset of an entry is what was read since it was opened, never what an
\* earlier file or process left there, and never past the end.
ReadsInOrder ==
    \A p \in InUse, fd \in Fds :
        LET e == fds[p][fd]
        IN  e.active = 1 /\ e.f_op \in {"dir", "file"} =>
                /\ e.f_offset = delivered[p][fd]
                /\ e.f_offset <= IF e.f_op = "file" THEN length_in_b[e.inode] ELSE Len(Directory)

\* open opens the file whose name it was given.
OpensNamedFile ==
    [][\A t \in Terminals :
          call[t].stage = "open" /\ call'[t].stage = "none" =>
              LET e == fds'[Running(t)][call[t].fd]
              IN  IF \E i \in DOMAIN Directory : Directory[i].name = call[t].name
                  THEN \E i \in DOMAIN Directory :
                          /\ Directory[i].name = call[t].name
                          /\ e.active = 1 /\ e.f_op = Directory[i].type
                          /\ e.f_op = "file" => e.inode = Directory[i].inode
                  ELSE e.active = 0]_vars

\* A directory read returns the name of the entry it is at, cut to the length
\* the caller asked for.
NamesWhole ==
    result.what = "name" =>
        LET name == Directory[result.index + 1].name
        IN  result.bytes = SubSeq(name, 1, Min({result.n, Len(name)}))

\* A read of a file, and the loading of a program, returns the bytes of that
\* file from the offset on, in order, as many as were asked for and are left:
\* also where the read goes from one data block to the next.
DataWhole ==
    result.what = "data" =>
        LET left == length_in_b[result.inode] - result.offset
        IN  result.bytes = [k \in 1 .. Min({result.n, left}) |->
                               ByteOf(result.inode, result.offset + k - 1)]

\* getargs gives a program the argument it was started with, never one that
\* an earlier process left in the PCB, and fails only when there was none,
\* after the halt of a child has cleared it, or when no byte is asked for.
GetsOwnArgument ==
    result.what = "args" =>
        LET argument == given[result.pid]
            n == Min({result.n, Len(argument)})
        IN  /\ result.bytes = <<>> <=> argument = <<>> \/ result.n = 0
            /\ SubSeq(result.bytes, 1, n) = SubSeq(argument, 1, n)

\* While a process waits for its child nobody touches its open files, and only
\* the end of the child its argument.
WaitingUntouched == [][\A p \in Waiting : fds'[p] = fds[p] /\ arg'[p] \in {arg[p], <<>>}]_vars

\* A process starts with stdin and stdout open and nothing else.
StartsFresh ==
    [][\A t \in Terminals : Len(chain'[t]) > Len(chain[t]) =>
          \A fd \in 2 .. FD_MAX : fds'[chain'[t][Len(chain'[t])]][fd].active = 0]_vars
============================================================================
