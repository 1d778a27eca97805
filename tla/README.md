# A TLA+ verification of the clOS kernel

clOS is a small x86 teaching kernel: six processes, three text terminals, a
round-robin scheduler driven by the PIT, a real-time clock driver, a keyboard,
a read-only file system and ten system calls. Its code is in
`src/filesIWorkedOn` and `src/filesTeamWorkedOn`; user programs are in
`src/syscalls`. This directory holds TLA+ modules for the parts of it in which
something is hard to test, TLC runs on small instances, and TLAPS proofs.

One fact shapes most of it: exceptions and device interrupts enter through
interrupt gates, but the system call vector 0x80 is a trap gate
(`kernel.c:382`). System calls therefore run with interrupts enabled, and the
timer may suspend one between any two instructions.

## The system and its parts

| part | state | operations | what is hard |
|---|---|---|---|
| process table (`syscalls.c`, `pcb.h`) | `pid_bitmap`, `pcb`, PCB links, saved stack pointers, `whichTerm`, `attemptExit` | `sys_execute`, `sys_halt`, exceptions | ticks and keys inside the two calls; shells that exit; a full table |
| scheduler (`schedule.c`, `pit.c`) | `curProc`, `esp_schedule` | `schedule` | its search loop runs with interrupts off; stack switches |
| paging (`kernel.c`) | CR3, page directories | `setup_paging`, `update_paging`, `add_vidmap` | the directory in force when a program is copied |
| real-time clock (`rtc.c`) | one flag, the chip's registers and index port | `rtc_read`, `rtc_write`, handler | a flag shared by all readers; index and data ports shared with the handler |
| file system (`fs.c`) | boot block, inodes, data blocks | lookup, `read_data`, `dir_read` | block boundaries, ends of files, counts |
| descriptors (`syscalls.c`) | `file_array` | `sys_open`, `sys_read`, `sys_write`, `sys_close` | reuse of descriptors and of pids |
| text screens (`lib.c`) | video memory, pages, cursors, `currentTerminal` | `putc`, `tScroll`, `backspace`, `clear`, `screenChange` | keys and switches inside a `putc`; wrapping and scrolling |
| line buffers (`terminal.c`) | `tbuf`, `idx`, `set` | `insert`, `backspacebuf`, `clearbuf`, `tRead` | keys during a read; full buffers; a polling loop with interrupts off |
| keyboard (`keyboard.c`, `keyhelper.c`) | Caps Lock, the controller's output buffer | `keyboard_init`, `keyboard_handler` | it polls for more keys with interrupts off, and acts on the terminal on display and on the running process |
| interrupt controller (`i8259.c`) | request, service and mask registers | `i8259_init`, `enable_irq`, `send_eoi` | handlers that are left without returning |
| boot (`boot.S`, `kernel.c`) | gates, page directories | `entry` | interrupts are enabled in the middle of it |
| command line (`executehelper.c`, `sys_getargs`) | `pcb->arguments` | `parser`, `checkExe`, `sys_getargs` | strings without terminators |
| user programs (`src/syscalls`) | their buffers | shell, cat, ls, grep, counter, hello, testprint, sigtest, syserr | lines cut by short reads; the status of a program |
| library (`lib.c`) | none | `printf`, `itoa`, strings | only the string functions the rest uses are modelled |

`PROJECT.json` lists these parts with their sources, the hazards with the
lines at which they bite, and the source lines of every definition.

## Modules

| module | models | checked by | proved in |
|---|---|---|---|
| `Process` | process table, scheduler, page directories, kernel stacks | `MCProcess*.cfg` | `ProcessProofs`, with the invariant of `ProcessInv` |
| `Rtc` | rtc driver and chip | `MCRtc*.cfg` | `RtcProofs` |
| `Files` | file system and descriptors of one process | `MCFiles*.cfg` | `FilesProofs` |
| `Streams` | what the descriptors promise: the abstract specification that `Files` implements | `MCFiles.cfg` | `FilesProofs`, `ProgramsProofs` |
| `Programs` | shell, execute's reading of the command, getargs and the user programs, over `Files` | `MCFiles.cfg` | `ProgramsProofs` |
| `CommandTexts` | the reference for `Programs`: what each command is to print | `MCFiles.cfg` | |
| `Screen` | text screens | `MCScreen.cfg` | `ScreenProofs` |
| `Line` | line buffers and terminal reads | `MCLine*.cfg` | `LineProofs` |
| `Pic` | the two 8259s | `MCInterrupts.cfg` | `InterruptsProofs` |
| `Keyboard` | keyboard, its controller and its handler, over `Pic` | `MCInterrupts.cfg` | `InterruptsProofs` |
| `Interrupts` | `entry()`, gates, handlers and page directories, over `Keyboard` | `MCInterrupts.cfg` | `InterruptsProofs` |

`Arithmetic` holds the lemmas about numbers and sequences that several proof
modules use.

An operator commented `(mutant: ...)` is the next definition with a plausible
mistake in it. No specification uses it; it shows that a property can fail.

### Process

`sys_execute` and `sys_halt` are cut at every point where an interrupt can make
a difference. `cpu.pc` names the next step: `map`, `load`, `setpcb`, `link`,
`publish`, `enter` for execute, and `free`, `exit` or `reparent`, `unstack`,
`repage` for halt. `frame` holds, for each kernel stack, the context suspended
on it, so that it matters which stack a process is resumed on: a new process
stays on its parent's stack until its `iret`.

A tick (`pit_handler`) runs `schedule()` as one action with interrupts off. Its
outcomes are the process already running, a switch, a switch to a stack pointer
that nobody saved (`mode = "wild"`), and a search that never ends
(`mode = "hung"`). Alt-Fn either changes the display or starts a shell inside
the keyboard handler, with interrupts off until the shell's `iret`.

`Critical` names the states in which the code does not survive a context
switch: the running PCB or the stack in use is not marked in `pid_bitmap`, or a
pid was chosen and not yet taken. The history variable `raced` records that a
switch happened in one. The safety properties are about behaviours in which
none has; two violation runs show what happens otherwise. After a race the
model is not followed in full: a process table that seems full because
`pid_bitmap` has borrowed into its upper bits is one case left out.

### Rtc

`rtc_write` is cut at each port access, and the handler shares the index port
with it. `masked` names the process between `cli` and `sti`. The chip raises no
further interrupt until register C is read, and the 8259 holds a request while
interrupts are off. `rtc_open` and `rtc_wait` have no callers.

### Files

`read_data` is an operator that goes over the blocks as the code does, with the
code's block count and its unsigned comparison; the reference is the plain
content of the file. System calls on descriptors are atomic here: they touch
only the PCB of their own process. The assumptions about the image
(`ImageAssumption`) are those a well-made image meets: names fill the directory
from the front and leave an empty entry; every entry has an inode; the blocks
of a file are data blocks other than block 0, and a 0 follows them.

`Streams` says what a program may rely on: a descriptor delivers its source
from the start, in order, without gaps, however much each read delivers, and
untouched by the other descriptors. The refinement mapping takes the content
of the open file (or the list of names) as the source and the history `got` as
what was delivered; everything else about blocks and positions is gone.

### Programs

The programs run one at a time, started by the shell, on the descriptors of
`Files`; a second kind of behaviour, `prog = Anything`, is a process that makes
arbitrary calls. Buffers are arrays of characters with what was in them before
and with the byte behind them (`Leftovers`), since the code depends on both.
`sys_getargs` stores no terminator, and first clears the array up to its first
0 byte: if the array has none, it clears what lies behind it. grep looks at the
byte behind its data. `clean` becomes false when such a byte stood in the way.
The history `overrun` names the calls that wrote behind their array, and
`BuffersKept` says that getargs is the only one. What it destroys there is not
followed. `SyserrAssumption` is what the tests of syserr take for granted: the
directory exists, and the names `err_open` makes up do not.

The references are in `CommandTexts`, in terms of the image and not of the steps
of the programs. `Meaning` is what a command is to print; `CommandsPrint`
compares it with what was printed. What grep prints when it has an argument is
compared by `GrepReports`, with the history `hits`. grep does not promise every
line that contains its argument: a read ends with a block, and a line that is at
the start of the buffer is not completed by the next read (`ece391grep.c:33`),
so a line across two blocks may be searched, and printed, in two parts. What
`GrepReports` says is that nothing is printed that is not part of a matching
line, nothing twice or out of order, and every line inside a block exactly when
it matches, and whole.

What `sys_execute` returns depends on registers that nothing saves: `%bl`, which
holds the status (`Clobbered`), and the one the compiler chose for
`program_exception` in the parent (`syscalls.c:217`), which is compared with 1 at
`halt_ret_label` when the child has run. So "terminated by exception" may be
reported for any program, or for none; `HaltValue` has all outcomes, and no
property promises the right one.

Left out: the commands `rtc` and `.`, which
would execute something that is not a file; what syserr prints about a single
call; files of fewer than four bytes as commands, for which `checkExe` looks at
bytes it has not read. (An argument is cut to `ARGSIZE - 1` characters by
`parser`, and `Meaning` goes by what is left.)

### Screen

A `putc` of a process is cut at each access to the cursor, and at the decision
and the effect of `tScroll`. The keyboard handler is atomic, and runs while any
process `r` is the one `pcb` names. `expected` is the reference: the screen
that the output and the keys of a terminal ask for. `disturbed` records that a
key has hit one of the windows listed above `InPutc` in the module; the
properties are about behaviours without such a hit. "Already in terminal" is
kept as a newline and one character. The hardware cursor, the attribute bytes
and writes through vidmap are left out.

### Line

The buffers of all terminals lie one after the other, as in memory, so that an
access before the beginning of one reaches the byte it reaches in the kernel.
`tRead` is cut at each test and assignment that a key can come between; its
final copy is one step. The history `line` is what the user of a terminal has
typed and edited. Ctrl-L and Alt-Fn clear the line of the running process,
which need not be the one on display; both lines are then `astray`, until they
are empty again. `copied` is the number of characters that a read has copied
and is about to report. `scancode` is not initialized in `tRead`, so the loop
for a full buffer may be skipped. Characters and newlines are what
distinguishes keys; the translation of scan codes is in `Keyboard`. All
terminals have been started.

### Pic, Keyboard and Interrupts

`Pic` has the registers of both controllers in the mode `i8259_init` sets: fully
nested, a request remembered once per line, a specific end of interrupt. The
priority resolver and the acknowledge cycle are those of the chips (external).

`Keyboard` has the output buffer of the keyboard controller, which holds back
bytes until the last one is read, repeats the last one when there is none, and
asks for an interrupt for each. `keyboard_handler` is cut at each read of the
port, since it reads bytes whose interrupts come later, and in the Shift loops
some bytes twice. A key stands for its kind: letters (a, l), a symbol with a
shifted form (;), keys without a character (F5), Backspace, the modifiers.
`hurried` records that a byte came when the handler was not waiting for one.
Keys without a shifted form (Space or Enter with Shift insert 0xFF) are left
out of the chords. The reference for a chord is its meaning as the run lists
it; `Strike` gives the same meaning byte by byte, and TLC evaluates that the two
agree (`ChordsAssumption`).

`Interrupts` starts in `entry()` and follows its calls up to the first shell;
interrupts come in from the `sti` of `rtc_init` on. Each interrupt goes through
the controllers and the gates to its handler and back by `iret`, or never back
when `screenChange` starts a shell. Page directories are kept entry by entry.
`sys_execute` and `sys_halt` are cut between the steps that change `pcb`,
`pid_bitmap`, a directory or CR3, and interrupts come in between. The module
does not keep where in its calls each process is, so any of these steps may
follow any other: the running pid, the loaded directory and the bits need not
agree, as they do not in the kernel after an unlucky tick. Which of these states
are reached, and stack pointers that nobody saved, are the subject of `Process`.
`schedule()` chooses any live process; with the running one not in the table its
search may also not end (`searching`). A process whose line is full polls the
keyboard with interrupts off (`tRead`), and drops most of what it reads. Nobody
types before the first screen appears, and devices do not ask during the two
short handlers (`Asks`): such a request is as good as one made right after.

## Runs

| run | states | result |
|---|---|---|
| `process_safety` | 2,054,016 | Outside the critical points: consistent links, one foreground process per terminal, own page directory and stack in user mode, no overwritten program, intact parent frames, a search that ends, no borrow in `pid_bitmap`, no inherited descriptors |
| `process_live` | 446,750 | No runnable process starves; a started terminal gets a runnable program back |
| `process_saved` | violation | Alt-Fn to a new terminal leaves the interrupted process without a saved stack pointer |
| `process_hang` | violation | A tick inside `sys_halt` can leave `schedule()` searching forever |
| `rtc` | 97,514 | Reads wait for a new interrupt and return when they do not overlap; writes change the rate and nothing else, to the value asked for, and accept exactly the powers of two from 2 to 1024 |
| `rtc_notify` | violation | A second reader can erase the interrupt the first one waits for |
| `files` | 250,362 | `Files` implements `Streams`; an empty read means the end; a program is read whole by one call; commands print what they mean and come back to the prompt; grep reports matching lines; syserr's tests pass; no call but getargs writes behind a buffer |
| `files_length` | violation | A read across a block boundary may come back short in the middle of a file |
| `screen` | 296,384 | Each terminal shows what was written and typed there; no process changes another terminal's screen |
| `line` | 409,574 | Indices stay in range, each buffer holds the line typed at its terminal but for three named cases, a read ended by Enter returns |
| `line_count` | violation | A key just before the return changes the number `tRead` returns |
| `interrupts` | 412,110 | Every interrupt reaches its handler, is ended on every way out of it and answered; whatever ticks interrupt, a process runs with the page of a program, and the pages of programs are apart; each chord of keys does what it means |

More facts came up in `Line` and are recorded as hazards. They are the three
exceptions of `LineKept`: `backspacebuf` on an empty line clears the last byte of
the buffer before it; `tRead` wipes the buffer before it resets `idx`, and a key
in between is stored at the old index; and a line may go astray. And a reader can enter the loop for a full
buffer with a line that is neither full nor ended: it tests the terminal on
display, and a key may clear its own line just before the `cli`. It then spins
with interrupts off. That state is a deadlock of the model, and the run leaves
deadlock unchecked because of it.

### Bounds

- `Process`: three pids and two terminals. Three pids are the least with which
  one terminal has a parent and a child while the other has a shell, and with
  which the table fills up. One descriptor besides stdin and stdout. The
  bitmap has one bit more than there are pids, so a borrow shows. The liveness
  run has one program; program names only matter to the image properties.
- `Rtc`: two processes; the frequencies are the boundary values of every test
  in `rtc_write`.
- `Files` and `Programs`: blocks of six bytes; files that end at and inside a
  block, with blocks out of order; counts of zero, one, most of a block and,
  by way of the sign, more than any file; two descriptors to open. `UINT32` is
  64, more than any length. The programs' buffers have five bytes, so that
  lines are cut by the buffer and by the block at different places; three
  contents of an array before it is written; counter counts to 1, 10 and 12.
- `Screen`: two rows, two columns, two terminals: every character is at an edge.
- `Line`: buffers of two bytes and two terminals; the read of two bytes takes
  both ways of copying.
- `Interrupts`: two processes and two terminals, so that the second shell is
  started by Alt-F2 or fails to because the table is full; a controller that
  holds one byte besides the port; five chords, one each for keys that overlap,
  Caps Lock, Shift with a letter and a symbol, Control and Alt.

`NotRaced` and `NotDisturbed` are state constraints that stop the exploration
behind a race or a disturbance, where the properties say nothing.

### Fairness

- `Process`: the CPU goes on executing (`WF` of a kernel step) and ticks
  arrive (`SF`): the PIT repeats and the 8259 holds a request while interrupts
  are off.
- `Rtc`: every process gets the CPU again (the round robin that `process_live`
  checks), the chip ticks, its request is held.
  `SF`, since another process may sit between `cli` and `sti` each time.
- `Line`: every reader gets the CPU again. No key is ever assumed to arrive;
  `EnterReturns` has as a premise that interrupts are not off for good.
- `Programs`: a program that can go on does. Nobody need type.
- `Interrupts`: the CPU goes on in `entry()` and in the handlers; a chord that
  was begun is typed to its end (the handler polls for the release of Shift
  with interrupts off, so nothing can be promised otherwise); a request that is
  presented again and again is taken (`SF` of `Take`): PIT and keyboard leave
  gaps that are long compared to a handler. The RTC, the lowest priority, is
  promised an answer only in a pause of the typing.

## Proofs

`ProcessProofs` proves, for every number of pids, terminals, descriptors and
programs within `ProcessAssumption`, that `IInv` of `ProcessInv` holds always
(`Invariance`), and from it the nine invariants of `process_safety`. None of
them is inductive alone. For example, that the scheduler's search ends needs
one runnable process per terminal; that needs the links to be right in the
middle of `sys_halt`, which needs the locals of the interrupted call on some
other stack. `IInv` therefore has a part for the links (`Families`), for the
terminals and those in transit (`Terminals`), for the contexts of suspended
processes (`Contexts`), for the frames parents wait in (`Waits`), for images
and descriptors, and one conjunct per step of the two calls (`Steps`). There
is one lemma per action, and three (`SameTable`, `SameCore`, `SameFiles`) for
what a step leaves alone.

`RtcProofs` proves `RtcInv`, and from it `ReadsWait`, `OnlyRateChanges` and
`RunsAtRequested`, for any set of processes and of frequencies. `RtcInv` says
for each place in `rtc_write` what the index port and register A hold there,
since only `masked` keeps others away. That `rtc_write` accepts exactly the
powers of two from 2 to 1024 (`AcceptedFrequencies`, over all integers) is an
argument about the loop that divides by two: a number with odd part 1 is one of
the eleven powers up to the limit (`OddPartOne`).

`FilesProofs` proves everything that `files` checks of `Files`, for any image
within `ImageAssumption`, any size of the blocks, any number of descriptors and
any counts. The loop of `read_data` is a recursive function; `Loop` shows that
the function exists and satisfies its equation, by induction with the set of
the numbers for which it does. The invariant of the loop is that after `i`
blocks the buffer holds the bytes that follow the offset, as many as fit into
`i` blocks (`Capacity`) or were asked for. From it come `ShortReads`, which says
what one read delivers exactly, and so by how much it comes up short in
`files_length`; `WholeFile`, for the read of `sys_execute`; and `EmptyAtEnd`.
The invariant of the descriptors, `FilesInv`, adds that each has delivered its
source up to its position (`InStep`). The types alone do not determine what the
next read is to deliver; with `InStep` each call is a step of `Streams` or
leaves it unchanged (`FilesImplementStreams`).

`ProgramsProofs` proves `ProgInv` of `Programs` for any image, any commands,
answers, sizes of the buffers and number of descriptors, and from it
`BuffersKept` and `TestsPass`, and again the properties of
`Files` and the refinement of `Streams` with the programs as clients, halts and
launches included. The arrays may hold anything before they are written, a 0
byte or none. `BuffersKept` (theorem `NoReadOverruns`) needs the positions of grep in its
buffer (`ReadersInv`). `TestsPass` needs, before each call of a test, which
descriptors are open (`InTest`): err_open_lots opens one after the other and
closes them in the same order; all other tests start and end with everything
closed, which in turn needs that a program that ends leaves nothing open
(`AllClosed`).

`LineProofs` proves `TypeOK` and `LineKept` of `Line` for any number of
terminals, any size of the buffers and any reads. The buffers are one array, so
the argument rests on facts about addresses: two places of the buffers have
different addresses (`AddressInjective`), and the byte before a buffer is the
last one of another (`AddressBefore`), which is why `LineKept` lets that one be
0. With the types, `LineKept` is inductive as it stands.

`ScreenProofs` proves `TypeOK`, `ShowsItsOutput` and `OutputStaysHome` of
`Screen` for any number of terminals, rows and columns. That a terminal shows
its output says nothing in the middle of a `putc`, so `ScreenInv` says at each
step what the steps that are left will make of the screen (`Rest`), and that
this is what the output asks for. It also says that a `putc` still writes where
its first step meant to, although each step reads `currentTerminal` again
(`Place`). The arithmetic is in a few lemmas: `DivMod` takes a position apart
into row and column, `SettleAt` says what follows the end of a row and of the
screen, and `PutIsWritten` and `BackIsErased` that the code's wrapping computes
it. Types alone are kept after a disturbance as well.

`InterruptsProofs` proves `IntInv` of `Interrupts` for up to seven processes,
three terminals, any chords and any capacity of the controller, and from it
`InterruptsTypeOK`, `InServiceDrained`, `GatesReady` and `MemoryApart`. `PicInv`
says that what is in service is exactly what is being handled, that handlers
run with interrupts off, and when gates and vectors are in place; `BootInv`
where in `entry()` the machine is and that nobody types before its end;
`PageInv` what the directories map; `UsedInv` that every pid that runs, is live
or has its directory loaded has the page of a program. The last is all that
`MemoryApart` needs of the system calls: it holds at each of their steps,
although `pcb`, CR3 and the table need not agree there. Seven is the bound at which the frames of
programs, 4 MB each from 8 MB on, meet the terminals' pages at 36 MB; the
kernel has six.

The same module proves `KeysTyped`. `ChordsAssumption` has each chord mean what
`Strikes` makes of its bytes: a keyboard without interrupts, port and queue, on
which every byte has its effect at once. The invariant `KeyInv` compares that
keyboard with the handler in the middle of a chord. The keys the handler takes
for held follow from where it is (`Mode`); a byte may be delivered and not read
yet, or read and left to its own interrupt (`Pending`); with that byte's effect
added (`Now`), the rest of the chord leads to what the chord means. `Reading`
is what makes the repeated reads of the Shift and Control loops and the
interrupts that come after them harmless: they find the byte that was read
last, which is a release or a key without a character.

Only model-checked: all liveness properties, which are out of the prover's
reach; `CommandsPrint` and `GrepReports`, whose references are built from
filters, flattened sequences and decimal numbers, or compare a whole file with
what the steps of a loop have printed. All
other invariants and the refinement that the passing runs check are proved.

## Not modelled

- `ece391emulate.c`, which runs programs under Linux, and `ece391pingpong.c`,
  an endless animation at the pace of the rtc.
- `printf`, `itoa` and the memory functions of `lib.c`; the tests and the
  printing of multiboot information in `entry()`; the segment descriptors.
- `disable_irq`, `rtc_open`, `rtc_wait`, `tOpen` and `read_dentry_by_index`,
  which nothing calls.
- The hardware cursor. `updatecursor` selects a register and writes it in two
  port accesses, so the one in `tRead` can be disturbed by a key.
- What programs draw through vidmap. The mapping itself is in `Interrupts`:
  `add_vidmap` is never undone, and a later process of the same pid has it too.
- A directory with all 63 entries in use: the search of `read_dentry_by_name`
  ends at an empty name.
- The saving and restoring of general registers, apart from the two that
  `Programs` needs.
- The size of kernel stacks. `sys_execute` has an array of 252 KB among its
  locals (`syscalls.c:112`), and a kernel stack has 8 KB; the frame lies
  over the stacks of higher pids, and over their frames where they are in
  `sys_execute` themselves. `Process` takes the stacks of different pids to be
  apart, so its results are about loads that write over no context suspended
  there.
