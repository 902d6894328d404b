# A TLA+ model of the FlipitSystem kernel

FlipitSystem is a small x86 kernel (`student-distrib/`): three text terminals,
up to eight processes, a round-robin scheduler driven by the PIT, a read-only
file system in memory, and drivers for the keyboard, the terminals and the
real-time clock. This directory holds TLA+ models of its parts, the TLC
configurations that check them, and TLAPS proofs about each of them.

Tools: `tlc -config X.cfg M` checks a run, `tlapm M.tla` the proofs of a module
`...Proofs` or `SetInduction`.

## 1. Inventory

| Part | State | Operations | Talks to |
|---|---|---|---|
| processes (`systemcall.c`) | `pid_array`, a PCB per slot (`parent_pcb`, `esp`, `esp0`, descriptors, `arg`), `ret_val` | `execute` with the parsing of its command, `halt`, `getargs` | paging, tss, terminals, file system |
| scheduler (`scheduler.c`) | `terminal[3]`, `terminal_num` | `scheduler` on IRQ0 | processes, paging, tss |
| terminal driver (`terminal_driver.c`) | `keyboard_buffer` and `buf_position` per terminal, one `command_buf` and `command_position`, `command_ready_flag` per terminal | `terminal_read`, `terminal_write`, `add_to_buffer` | keyboard handler, console |
| keyboard handler (`keyboard_handler.c`) | one flag for each kind of modifier key | IRQ1 handler: modifiers, characters, Ctrl-L, Alt-F1 to F3 | terminal driver, paging, PIC |
| descriptors (`systemcall.c`) | `file_descriptor_table[8]` in each PCB | `open`, `close`, `read`, `write` | file system, drivers |
| file system (`filesystem.c`) | the image, `fname_length` | look-ups by name and index, directory reads, `read_data` block by block | descriptors |
| RTC driver (`RTC_driver.c`) | the chip's registers and index, `RTC_flag` per terminal | `RTC_open/read/write`, IRQ8 handler | PIC |
| paging, screens (`paging.c`, `lib.c`) | the user page, the page tables of the screens, `current_visible`, a backup page and a cursor per terminal | `user_page_init`, `term_page_switch`, `term_visible_switch`, `putc`, `putc_keyboard`, scrolling, `clear` | everything that prints |
| exceptions, entry (`initialize_idt.c`, `sys_handler.S`) | IDT | gates, dispatch | system calls |
| PIC, PIT (`i8259.c`, `pit.c`) | masks, requests and lines in service of two controllers | `i8259_init`, `enable_irq`, `send_eoi`, `pit_init` | all interrupt handlers |
| boot (`kernel.c`) | none of its own | initialises the others in order, `sti`, waits for the first tick | PIC, PIT, paging |
| tests, user programs | none in the kernel | | |

What is hard here. `int 0x80` is a trap gate: a system call runs with
interrupts enabled unless it disables them, so `halt`, `open`, the directory
read and the RTC calls can be interrupted between any two instructions, and
the PIT may run another terminal's calls in between. Several variables that
look like locals are shared by all terminals (`ret_val`, `command_buf`,
`fname_length`, the RTC index). PCBs and stacks are memory tied to a slot, so
what one process leaves the next one finds. The scheduler saves the context of
one terminal in the structure of the next. Where a character goes depends on
two variables, the running and the visible terminal, that two interrupts
change. The keyboard handler enables interrupts before it reads its key, so the
timer may leave it half done for two turns of other terminals. `PROJECT.json` lists the hazards at
their lines.

What makes each part correct:

* processes and scheduler: no two terminals in one slot, no slot lost, a
  program always on its own page and stack, frames kept until they are loaded,
  halt returns to the caller, every terminal has its turns;
* terminal driver: a line goes whole, once and in order to a reader of the
  terminal it was typed at;
* screens: what a terminal prints or echoes is on that terminal's screen and on
  no other, shown or not, and a line being typed can be erased on the screen;
* keyboard and interrupts: a key does what was meant when it was pressed, every
  interrupt is acknowledged at the right controllers, and turns, keys and clock
  go on being served;
* files: a descriptor reads its own file in order, with the bytes and names of
  the image; a process gets its own argument and its predecessor's nothing;
* clock: it runs at the frequency set last, and a read waits for an interrupt
  and returns.

## 2. Modules

| Module | Models | Checked by | Proofs |
|---|---|---|---|
| `Process` | execute, halt, scheduler, exceptions, `user_page_init` | `MCProcess`, four cfgs | `ProcessProofs` |
| `LineService` | abstract: what a terminal promises its readers | as a property of `Terminal` | in `TerminalProofs` |
| `Terminal` | terminal driver, keyboard interrupt | `MCTerminal`, two cfgs | `TerminalProofs` |
| `Console` | one character printed on a screen | in `Screens` and `Video` | in `VideoProofs` |
| `Screens` | abstract: a screen for each terminal | as a property of `Video` | in `VideoProofs` |
| `Video` | the page tables of the screens, printing, echo, vidmap, switching | `MCVideo` | `VideoProofs` |
| `Keyboard` | scancodes: modifier flags and what a key does | in `Interrupts` | in `InterruptsProofs` |
| `Interrupts` | PIC, PIT, boot order, the three handlers | `MCInterrupts`, two cfgs | `InterruptsProofs` |
| `Command` | the parsing of a command | in `Files` | in `FilesProofs` |
| `Image` | `read_data` over the blocks of a file | in `Files` | `ImageProofs` |
| `Files` | descriptors, look-ups, directory and file reads, arguments | `MCFiles`, two cfgs | `FilesProofs` |
| `Rtc` | RTC driver and its interrupt | `MCRtc` | `RtcProofs` |
| `SetInduction` | induction over sets of numbers, for the proofs | | itself |

`Console`, `Keyboard`, `Command` and `Image` are operators without state. The
other modules that model code are composed by what they share: `Process` and
`Files` take the same steps of execute and halt, once for memory and control
and once for descriptors and arguments; `Terminal`, `Video` and `Interrupts` see
the same key, as a character of a line, on the screen, and as an interrupt.

An operator whose name is that of another one followed by `_` and a word
(`HaltFree_Kept`, `LastBlock_Short`) is a faulty variant of it. No specification
uses these; they are put in place of the original to see that a property
notices the fault.

### Process

A process is named by its slot, which fixes its PCB, kernel stack and user
page. The three terminals are three threads of control; `cpu` is the context
being executed, `stack[p]` the context last saved on the kernel stack of slot
`p`, and a saved `esp` is the slot whose stack it points into. A program inside
a system call other than execute and halt is on its own kernel stack, as is an
interrupt taken in user mode, so such calls count as running the program.

* `Execute`, `ExecuteFails`: `execute` starts with `cli` and is one step. The
  slot is the first free one; a root shell keeps whatever `parent_pcb` its slot
  holds, as the code does.
* `HaltStart` ... `HaltReturn`, `HaltRootFree` ... `HaltRestart`: `halt` enables
  interrupts, so it is one step for each shared location it writes, and each
  step reads `active_process` and `parent_pcb` again.
* `Tick` (`Launch`, `Switch`): `scheduler()`, which runs with interrupts off.
  The frame is saved in the entry of the terminal that comes next, and the one
  to go on with is taken from the entry after that.
* `Exception`: handlers that loop with interrupts disabled.

`owner` and `caller` are history variables for the properties.

Three constants say which environments are looked at. `PreemptHalt` are the
stages of halt at which the PIT may interrupt it; `ExitRoots` the terminals
whose first shell may be left; `BootCommands` whether a command can be entered
before each terminal has run once (30 ms after boot). The code tolerates a tick
only before it starts to change shared state (`"closing"`), an `exit` only of
terminal 0's shell, and no commands during boot. The violation runs show what
happens outside each limit, and the passing runs and the theorems cover what is
inside. With `BootCommands = TRUE`, `ParentIsCaller` fails: a root shell
launched in a slot that a finished command has used inherits its `parent_pcb`.
With `"orphan"` in `PreemptHalt`, `HaltCompletes` fails: other terminals can
fill the table while a root shell is being restarted.

### Terminal and LineService

`LineService` is the promise: lines entered at a terminal are returned whole,
in order and once each, by that terminal's reads. `Terminal` is the driver with
its one `command_buf`. Under `TypeAhead = FALSE` (Enter is pressed only when
the last line has been read) `Terminal` implements `LineService` under the
refinement mapping at its end, fairness included. Under `TypeAhead = TRUE` it
does not.

### Console, Screens and Video

A screen is a record of its text and its cursor; `Put` is `putc`. A full row is
left when the next character comes, and a backspace at the start of a row makes
the column negative, as in the code.

`Screens` gives each terminal a screen of its own. `Video` is how `paging.c`
does it: the kernel prints at one virtual page, a program draws at another,
and `term_page_switch` points both at the VGA memory if the running terminal is
the visible one and at its backup page otherwise; the keyboard echoes at a page
that is always the VGA memory; `term_visible_switch` copies the visible screen
to its backup and the backup of the new one to the VGA memory. Under the
mapping at the end of `Video` (a terminal's screen is the VGA memory if it is
visible, else its backup) every step is a step of `Screens`.

* `Write`, `Exception`, `VidmapStore`: programs. A message of an exception goes
  to the running terminal's screen even when that one is not shown.
* `add_to_buffer`, `Clear`, `term_visible_switch`: the keyboard.
* `Tick`: the scheduler's `term_page_switch`.

`ClearAnywhere` says whether Ctrl-L may be pressed during a hidden terminal's
turn. The code clears the page of the running terminal and the cursor and line
of the visible one, so that with `TRUE` `KeepsScreens` fails. `Texts` holds no
backspaces: `putc` does not check that a cell is left, and no program of the
repository writes one.

### Keyboard and Interrupts

`Keyboard` translates a scancode with the flags before it: `Modifiers` gives
the flags afterwards and `Meaning` what is done. The right Ctrl and Alt send a
prefix and the code of the left ones, and so share their flags.

`Interrupts` has the two controllers as the sets `mask`, `irr` and `isr`, the
interrupt flag, and the keyboard as a queue of scancodes with what each was
meant to do. `Meant` is written from the keys held down and the Caps Lock of
the user, independently of the code's flags and tables of ranges; a key beyond
the printable ones is meant to do nothing.

* `BootPic` ... `BootPit`: the order of `entry` in `kernel.c`.
* `PitHandler`, `RtcHandler`: run with interrupts off, one step each.
* `KeyboardEnters`, `KeyboardReads`: the handler before and after the window
  that its `sti` opens. The key is read after the window.
* `EnterSection`, `LeaveSection`, `OpenClock`: programs, as far as interrupts
  see them.

`Settled` is the processor taking an interrupt before its next instruction, and
devices being slow: nothing else happens while a line can be delivered.
`KeysAtBoot` says whether a key may come between the `sti` of `entry` and the
first tick. That tick abandons the boot stack, and a handler on it, so that
with `TRUE` `KeysAreRead` fails. `Watched` are the terminals for whose program
the privilege level is recorded; the handler is in the table without its
wrapper and ends with `ret`, which leaves it at the kernel's. The other runs
watch none, and take the interrupted program as going on.

### Command, Image and Files

Slots keep their descriptor tables and arguments from process to process.
`Execute` takes a command, finds name and argument in it (`Command`), looks the
program up and fills the new PCB; `Halt` closes descriptors up to the first
inactive one and clears the argument of the parent. `getargs` copies the
argument. `open` and the directory read are split where they use the shared
`fname_length`; with `Overlap = FALSE` they are not interleaved. Names and
commands are short sequences of characters because look-up by length and
prefix, and the cutting of a command, is what is being modelled. Each command
comes with the parts it was put together from (`Consists`), which the code does
not see and `GetsOwnArgument` compares with; the names in the directory are
distinct, not empty and not too long, as in an image that `createfs` makes of a
directory. getargs fails for a read of 0 bytes as it does without an argument.
A command longer than `cmd_length` is cut, so that its program does not get its
whole argument; the lines of the terminal driver are not longer.

`read_data` works block by block with the code's choice of how many bytes to
take from each. A byte of the image is named by its place (`ByteOf`), so that
`DataWhole` can tell which bytes a read delivered. It holds where the blocks of
a file follow each other in the image; the code takes a short read at an offset
into a block as ending in it, and with the blocks `<<1, 3>>` `DataWhole` fails
on such a read. Calls that fail without changing anything are left out. With
`Overlap = TRUE`, `NamesWhole` and `OpensNamedFile` fail.

### Rtc

Each `inb` and `outb` of `RTC_open` and `RTC_write` is a step. The chip is
external: one index, registers A and B as bytes, C reads as 0 once the handler
has read it. `PortInterrupts` says whether interrupts arrive between the
accesses to one register. With `TRUE`, `RateAsAsked` fails: the handler selects
register C between the two accesses of `RTC_write`, which then writes there.
`Rate` is defined for the frequencies that pass the test of `RTC_write`, the
powers of two from 2 to 1024.

## 3. Runs

| Run | Expect | Shows |
|---|---|---|
| `process` | pass | `PcbExclusive`, `NoSlotLost`, `RunsOnOwnMemory`, `ParentIsCaller`, `FramesIntact`, `ReturnsToCaller`, `EveryTerminalRuns`, `HaltCompletes`, `TypeOK` |
| `process_exit_shell` | violation | `pid_array[0] = 0` for any root shell: two terminals, one process |
| `process_preempted_halt` | violation | a tick after line 459 of `systemcall.c`: a parent runs on its child's page |
| `process_status` | violation | `ret_val` of another terminal's halt |
| `terminal_lines` | pass | `ServesLines` (refinement), `FlagsMatchBuffer`, `TypeOK` |
| `terminal_type_ahead` | violation | a read gets another terminal's line |
| `video` | pass | `KeepsScreens` (refinement), `LineOnScreen`, `TypeOK` |
| `interrupts` | pass | `Acknowledged`, `ActsAsMeant`, `TurnsGoRound`, `KeysAreRead`, `ClockIsServed`, `TypeOK` |
| `keyboard_return` | violation | a program goes on at the kernel's privilege level after a key |
| `files` | pass | `ReadsInOrder`, `NamesWhole`, `DataWhole`, `GetsOwnArgument`, `OpensNamedFile`, `WaitingUntouched`, `TypeOK` |
| `files_fresh` | violation | a descriptor behind a gap survives halt |
| `rtc_driver` | pass | `RateAsAsked`, `ReadWaits`, `ReadReturns`, `TypeOK` |

Bounds. `process` has four slots for three root shells, so that the table is
full with one command, and the status 255, the largest byte; that the same
holds for longer chains of processes is what the proofs add, for every number
of slots. `terminal_lines` has two terminals and lines of up to two characters
in a buffer of three: empty, edited and full lines. `video` has three
terminals, so that the running, the visible and a third one differ, on screens
of two rows of one cell, where a row is left or the screen scrolls at every
character, and one character in the line; two terminals with 2 x 2 cells and
lines of two characters give the same result. `interrupts` has two terminals, a
keyboard that holds two scancodes, and Ctrl, L, semicolon, left Shift and Caps
Lock: both modifiers that change characters, a letter and the symbol next to
the letters, and the combination with Ctrl. `files` has two terminals, three slots and
one descriptor besides stdin and stdout, so that a slot and an entry are used
again and the table is full; blocks of three bytes, a file of four and reads of
two, which start and end inside blocks, at their ends and across them; and
commands of up to nine characters, which are not cut.
`files_fresh` has two descriptors, the least that has a gap. `rtc_driver` has
two terminals, the extreme frequencies and two that are refused.

Fairness. The PIT ticks for ever and the PIC holds a request that arrives while
interrupts are off: strong fairness of `Tick`. A quantum (10 ms) is far longer
than the instructions between two stages of halt or two port accesses, none of
which waits: strong fairness of each terminal's own steps inside the kernel.
The RTC interrupts periodically while enabled: strong fairness of `Interrupt`.
A read whose flag is set goes on at its terminal's next turn: weak fairness of
`FinishRead`. In `Interrupts` the kernel starts (weak fairness of `BootNext`), a
section between `cli` and `sti` has no loop that waits (weak fairness of
`LeaveSection`), the timer goes on interrupting, and a line that is deliverable
again and again is taken (strong fairness of `TimerRaises`, `PitHandler`,
`RtcHandler`, `KeyboardEnters`); a suspended keyboard handler goes on in a turn
of its terminal, which is far longer than the handler (strong fairness of
`KeyboardReads`). Nobody need press a key, and nothing is assumed about what
programs do.

`CHECK_DEADLOCK FALSE` is given where an exception may stop the machine
(`process`, `video`), and where only one property is sought
(`terminal_type_ahead`).

## 4. Proofs

Each `...Proofs` module has one inductive invariant `IInv` (in `Rtc` two:
`BaseInv`, `RateInv`), a lemma that `Init` implies it, one lemma per action that
the action keeps it, a theorem `Invariance` that combines them, and the theorems
below, which follow from it. The constants are arbitrary within the `ASSUME`s of
the models, which the runs evaluate. Where the code is right only in some
environments, the theorem has that as an assumption, and the run or the constant
that shows the failure outside is named.

| Component | Theorem | Property | Assumes |
|---|---|---|---|
| `Process` | `TypeCorrect`, `TerminalsApart`, `SlotsKept`, `MemoryIsolation`, `FramesKept`, `ParentsCorrect`, `HaltResumesCaller` | `TypeOK`, `PcbExclusive` and `OwnProcess`, `NoSlotLost`, `RunsOnOwnMemory`, `FramesIntact`, `ParentIsCaller`, `ReturnsToCaller` | `Orderly` of `ProcessProofs` |
| `Terminal` | `TypeCorrect`, `FlagsCorrect`, `OwnLines`, `LineServiceSafety` | `TypeOK`, `FlagsMatchBuffer`, `ReadsOwnLine`, safety of `ServesLines` | `Orderly` of `TerminalProofs` |
| | `KeyBuffersInBounds` | `buf_position` stays in its buffer | nothing |
| `Video` | `TypeCorrect`, `LinesOnScreen` | `TypeOK`, `LineOnScreen` | nothing |
| | `ScreensKept` | `KeepsScreens` | `~ClearAnywhere` |
| `Interrupts` | `TypeCorrect`, `AllAcknowledged`, `KeysActAsMeant` | `TypeOK`, `Acknowledged`, `ActsAsMeant` | nothing |
| `Rtc` | `TypeCorrect`, `ReadsWait` | `TypeOK`, `ReadWaits` | nothing |
| | `RateCorrect` | `RateAsAsked` | `~PortInterrupts` |
| `Files` | `TypeCorrect`, `OffsetsCorrect`, `WaitingKept` | `TypeOK`, `ReadsInOrder`, `WaitingUntouched` | nothing |
| | `LoadsWhole` | `DataWhole` for reads from the start of a block | nothing |
| | `DataCorrect` | `DataWhole` | every file `Contiguous` |
| | `ArgumentsCorrect` | `GetsOwnArgument` | `WholeLines` |
| | `NamesCorrect`, `OpensCorrect` | `NamesWhole`, `OpensNamedFile` | `~Overlap` |
| `Image` | `ReadLength`, `ReadsTheFile` | what `read_data` computes | `Contiguous(inode)` or the start of a block |

**Process.** `Orderly` is `PreemptHalt \subseteq {"closing"}`,
`ExitRoots \subseteq {0}` and `~BootCommands`; the theorems hold for every
`PROCESS_MAX >= 3` and every set of statuses. None of the properties is
inductive alone. `IInv` adds to them: how far boot has come, and that root
shells are launched in order (`BootInv`); that a process that waits for a child
has the context of its execute on its own stack (`WaitInv`); that each switched
out terminal's frame is on the stack of its process (`FramesIntact`,
`FrameInv`); what `page`, `tss` and the running stack are at each stage of halt
(`CpuInv`); and that slot 0 is terminal 0's root shell, which is why clearing
`pid_array[0]` is right there and nowhere else (`RootInv`).

**Terminal.** `Orderly` is `~TypeAhead`, and that every read asks for at least
`MAX_BUF_LENGTH` bytes, as the shell does. `IInv` adds to the flags that a line
being typed has no newline in it, that the line that waits fits one read, and
that it is the line entered at the terminal whose flag is set: together a read
finds the end of just that line. `LineServiceSafety` is the refinement of
`LineService` step by step. The bounds of the keyboard buffers need none of this
and are proved for type-ahead and short reads too.

**Video.** `IInv` says that both windows lead to the page of the running
terminal's screen and the keyboard's page to the VGA memory (`Windows`), and
that every screen is sound for the line typed at it: the cursor is at least as
far from the start of the screen as the line is long. A text that a program
prints is a loop over its characters; that it keeps a screen sound is proved by
induction on its length. From `Windows`, each step is a step of `Screens` or
leaves all screens as they are; only Ctrl-L needs `~ClearAnywhere`.

**Interrupts.** What a key will do depends on the keys in front of it in the
keyboard's buffer. `Foreseen` says that there is a sequence of flags, one for
each of them, that the handler will go through, that with these each key does
what was meant, and that the last ones agree with the keys that are down. A key
pressed extends the sequence and a key read takes its head. `Requested` says
that the keyboard's line is requested only for a key nobody is reading, which
`Acknowledged` needs.

**Rtc.** `BaseInv` is types, that only frequencies `RTC_write` lets through are
turned into rates, and that a read whose flag is down was woken (`Woken`).
`RateInv` adds what no interrupt between accesses guarantees: only the running
terminal is between two accesses, the register it selected is still selected,
and the divider bits and the rate in the chip are the right ones even while a
program is on its way to change them.

**Image and Files.** `ReadsTheFile` is proved by induction over the rounds of the
loop in `read_data`: after each the bytes copied are those of the file so far.
In `Files`, `IInv` says that no slot is twice in the chains (`Apart`), so that a
call changes no table but its own; that the entry a call in progress works on
stays as the call found it; and that every open entry of every slot, in use or
not, is at the offset it was read to: halt leaves entries open behind a gap
(run `files_fresh`), and the next process in the slot reads on from there. For
arguments, the PCB of every process in use holds what it was started with
(`OwnArguments`), and `CommandTakenApart` shows that execute finds the parts of
any command that `Consists` describes. For names, `fname_length` still holds
what the call in progress measured (`MeasuredInv`); this needs `~Overlap`.
`FoundIsNamed` shows that the look-up by length and prefix finds the entry of the
name and no other, also at `FILENAME_MAX`, where the code compares no lengths.

`SetInduction` states induction over the natural numbers for sets instead of
predicates, from the smallest element of a set; a proof by induction defines the
set of numbers for which its claim holds. The recursive definitions that are
proved about (`PutAll`, `Rate`, the rounds of `read_data`) are recursive
functions, and that such a function exists is part of the induction.

Only model-checked: liveness, which is beyond this prover (`EveryTerminalRuns`,
`HaltCompletes`, `ReadReturns`, `TurnsGoRound`, `KeysAreRead`, `ClockIsServed`,
and the fairness in `ServesLines`); and the behaviour outside the assumptions,
where the violation runs show what happens.

## 5. Not modelled

* The formatting of `printf` and `itoa`: once it has booted the system prints
  characters and fixed strings.
* `play_sound` and `nosound`, which only make a noise; `disable_irq`, which
  nobody calls; `pit_handler`, which is empty.
* Setting up the GDT, the LDT, the tss and the first stack: straight-line code
  with interrupts off, whose result is where the models start.
* The dispatch on `eax` in `sys_handler.S`: one bounds check and a table.
* `tests.c`, `print_out_every_file` and the `test_` functions, which only print.
* The user programs: environment, seen through the calls they make.

## 6. Plan

Every invariant and action property of a passing run is now stated by a theorem.
Left for later:

1. `Process`: what of `IInv` holds with any `ExitRoots`, for instance that no
   frame is lost, stated without `Orderly`;
2. `Files`: what a directory read returns when calls overlap: at least that it
   never goes past the entry and that its length is bounded;
3. `Terminal`: which of the bounds of `command_buf` survive type-ahead and reads
   shorter than a line.
