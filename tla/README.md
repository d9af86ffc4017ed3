# MongOS in TLA+

MongOS is a small x86 kernel (`src/student-distrib`): six processes at most, three
terminals on one screen and one keyboard, a round-robin timer, an in-memory
read-only file system, an RTC that is shared by giving every process a virtual clock
of its own, and ten system calls. This directory models its kernel and the user
programs that do more than print (`src/syscalls`, `src/fish`) in TLA+, checks the
models with TLC and proves all of the invariants that TLC checks with TLAPS, for any number
of processes, terminals and descriptors, screens and buffers of any size, all files and disks.

1. [The system](#1-the-system)
2. [Modules](#2-modules)
3. [Runs](#3-runs)
4. [Fairness](#4-fairness)
5. [Proofs](#5-proofs)
6. [Where the code and its comments part](#6-where-the-code-and-its-comments-part)
7. [What is not modelled](#7-what-is-not-modelled)
8. [Plan](#8-plan)

To check: `tlc -config <run>.cfg <module>.tla` for the runs of section 3, and
`tlapm <module>.tla` for the eight modules whose names end with `Proofs` (section 5).

## 1. The system

One CPU; no kernel threads. Everything runs in the context of one of three
terminals, as a program in user mode, as the kernel on behalf of that program, or as
an interrupt handler on the stack of whatever it interrupted. The timer is the only
thing that moves the CPU from one terminal to another. It does so at any instruction
where interrupts are enabled, in the kernel too. There are no locks: the kernel
protects itself with `cli()`/`sti()` where it does.

| Component | State | Operations | Hard behaviour | Correct means |
| --- | --- | --- | --- | --- |
| Processes (`syscall.c`: `execute`, `halt`, `get_pid`, `free_pid`; `idt.c`: `err_handle`) | `pid_st`, `pid_cnt`, the PCB fields `par_pid`, `saved_esp`, `saved_ebp`, `esp0`; `tss.esp0`; the page directory entry of the program image; `running_pid` of each terminal | start a child, end a child and resume its parent, end a base shell and start another, give up before a process exists | `execute` enables interrupts before `tss.esp0` is set and `IRET` executed; a base shell is restarted on the stack of the pid just freed; the same pid is reused | the live processes are one chain per terminal; a parent resumes when and only when its own child ends; no pid is lost or shared; saved frames survive |
| Scheduler (`pit.c`, `syscall.c`: `process_switch`) | `current_tid` | save the interrupted context, resume the next terminal's or start its first shell | preempts user programs, spin loops in the kernel, `RTC_irq`, and the end of `execute` | every program runs in its own memory on its own kernel stack; round robin leaves nobody out |
| Screens (`keyboard.c`: `vid_mem`, `terminal_switch`, `display_putc`; `syscall.c`: `vidmap`, `paging_halt`; `paging.c`) | `display_terminal`, VGA memory and one buffer page per terminal, the page table entries for 0xB8 and for the user's video page, `vidmap` flags of terminals and PCBs | print, echo, switch the display, map the screen for a program, unmap it | mappings are global and moved by the timer, the keyboard and system calls; `vidmap` runs with interrupts enabled | each terminal has its own screen; output reaches the terminal that runs, echo the one that is shown |
| Line discipline (`keyboard.c`: `keyboard_irq`, `get_command_char`, `read_terminal`) | modifier keys; per terminal `keyboard_buffer`, `buffer_size`, `terminal_enable` | a key, a command key, a read | keys go to the displayed terminal and reads to the running one; no queue between them | the echoed line is the line a read returns; each line is returned once; a reader with a finished line returns |
| Console (`lib.c`: `putc`, `scroll_down`, `clear`; `cursor.c`) | cursor of each terminal, that of the monitor, video memory | put a character, scroll, clear | a key is echoed, or the terminal switched, in the middle of a program's `putc`; hidden programs print too and have the one cursor of the monitor at hand | each cursor stays on its screen, which shows the last rows of its own text, and the monitor's follows the displayed terminal |
| RTC and descriptors (`rtc.c`; `syscall.c`: `open`, `close`, `read`, `write`, end of `halt`) | `farray`, `rtc_maxcount`, `rtc_counter`, `rtc_trigger` of each PCB | open, close, set the rate, wait for the next virtual interrupt, the device's interrupt | the timer may interrupt `RTC_irq`; PCB fields are not initialised; the clock belongs to the process, not to the descriptor | readers wake; counters stay in range; nothing survives its process |
| File system (`filesys.c`) | boot block, inodes, data blocks; `inode` and `file_pos` of a descriptor | look a name up, read a file, read the directory | arithmetic at block boundaries and at the end of a file, names of full length | reads deliver the named file, in order, up to its end |
| Commands (`syscall.c`: `handle_command`, `handle_execuable_check`, `getargs`, the values of `execute` and `halt`) | `name`, `args` of the PCB, the image in memory | take a command apart, check and load the program, give the arguments back, report how it ended | lengths and spaces at the limits; one of several checks failing | the named program runs with all its arguments, and the user learns how it ended |
| Interrupt entry (`interrupt.S`, `sys_w.S`, `x86_desc.S`, `idt.c`) | registers on the stack | enter and leave the kernel | overwrites what lies at the top of the stack in `tss.esp0` | (part of the frames that must survive) |
| Interrupt controller (`i8259.c`, with the three handlers and the order of `entry`) | masks, requests, in-service bits; register C of the RTC | unmask, deliver by priority, acknowledge | handlers nest once they enable interrupts, and the timer leaves them unfinished in other contexts | no line is silent for ever |
| Boot (`kernel.c`, `boot.S`, `paging_init`) | page tables | initialise | the order of initialisation against the first interrupts | (part of the above) |
| Shell and `grep` (`src/syscalls`) | their buffers | read a line, run it, tell the outcome; find lines with a string | lines cut by the end of a buffer, unfinished ones | messages and output say what happened |
| `cat`, `ls`, `grep`'s main loop, `syserr` (`src/syscalls`) | a descriptor or two, what they have printed | open, read to the end, close; the error cases of all calls | the kernel replaces descriptors of programs named `gr*`; a read cut anywhere; the end of the directory; descriptors at their limits | everything in the file, or on the disk, is printed or searched once; every bad call fails |
| `fish` (`src/fish`: `fish.c`, `blink.S`) | two files, the list of blinking characters, a page of video memory | read the frames, add, remove, synchronise, tick | two files read in step; rows and files of different lengths; blinkers added at different times | the screen shows one picture at a time, whole |
| `counter`, `pingpong`, `hello`, `testprint`, `sigtest`, kernel tests (`tests.c`), emulation on a host (`ece391emulate.c`) | | print; read a line; wait for the RTC | | |

How they meet. `execute` and `halt` (called with `cli()`) change the process
tables and, for the terminal they run on, the vidmap flag and the descriptors. `pit_irq`
calls `vid_mem` for the next terminal and then `process_switch`, which may call
`execute`. `keyboard_irq` writes the buffer of the *displayed* terminal, echoes through
a mapping it moves there and back, and `terminal_switch` swaps two screens under
whatever runs. `read_terminal` and `rtc_read` spin, with interrupts enabled, on a flag
that an interrupt handler sets. A program reaches all of this by `int 0x80`.

## 2. Modules

| Module | Models | State in the model and in the code |
| --- | --- | --- |
| `JobStacks` | what the process code promises: a stack of jobs per terminal, and turns | abstract; no code of its own |
| `Processes` | `execute`, `halt`, `get_pid`, `free_pid`, `process_switch`, `pit_irq`, `err_handle` | the variables carry the names in the code; `saved` is the pair `saved_esp`/`saved_ebp`, reduced to who saved it and which stack it points into; `ctx`, `cpu` and `kstack` say where the CPU really is, which the code knows only through `esp`, `eip` and the privilege level |
| `ProcessesJobs` | the refinement of `JobStacks` by `Processes`: a terminal's stack is the `par_pid` chain of its running process | |
| `ProcessesProofs`, `JobsProofs`, `TerminalProofs`, `InterruptsProofs`, `ConsoleProofs`, `FilesProofs`, `GrepProofs`, `FishProofs` | the theorems about the module in the name; `JobsProofs` is about `JobStacks` and the two modules over it, `Video` and `Rtc`; `FilesProofs` about `FileSystem`, `Programs` and `Shell` | |
| `Screens` | what the video code promises: a screen per terminal, one of them shown | abstract |
| `Video`, `MCVideo` | `vid_mem`, `terminal_switch`, `display_putc`, `vidmap`, `paging_halt`, over the actions of `JobStacks` | `kmap` is the entry of `page_table` for 0xB8, `umap` and `bgmap` the entries of `page_table_usermapping`; `astray` is history: why `umap` may be wrong |
| `Rtc`, `MCRtc` | `RTC_irq`, `rtc_open`, `rtc_close`, `rtc_read`, `rtc_write`, descriptors, over the actions of `JobStacks` | PCB fields; `mode` is a program's place in `rtc_read` or `rtc_write`, `irq` the place in the loop of `RTC_irq` and the counter it has loaded; `orphans` is history: whose clock runs without a program that started it |
| `Terminal` | `keyboard_irq`, `get_command_char`, `read_terminal` | as in the code; `echo` and `line` record what the user has typed, for the properties |
| `Console`, `MCConsole` | `putc`, `scroll_down`, `clear`, `update_cursor`, `display_putc`, `terminal_switch` and the timer as far as they concern cursors and texts, for several terminals | `screen` is `screen_x`, `screen_y` and the cells of a terminal, wherever its page is, `size` its `buffer_size`; `cursor` is in the VGA registers; `text`, `torn`, `above`, `spilled`, `tested` and `stray` are history for the properties |
| `Disk` | `read_dentry_by_name`, `read_data` | the directory and the inodes; a byte is named by its block and its place there |
| `FileSystem` | `open`, `close`, `read` and `write` of files, the directory and (what they return) the RTC, `read_f`, `read_d`, `mycopy`, the forced descriptors of `gr*`; extends `Disk` | disk and descriptors; `asked`, `log` and `taken` are history for the properties |
| `Programs`, `MCPrograms` | `cat`, `ls`, `main` of `grep`, `syserr`, and a program that makes any calls; extends `FileSystem` | the programs' variables; `out` is what they have printed or searched |
| `Blink` | `blink.S`: add, remove, sync, the tasklet, find; `mp1_malloc`, `mp1_free` | `list` is the linked list from `mp1_list_head`; the free structures are those not in it |
| `Fish`, `MCFish` | `add_frames` and `main` of `fish`; extends `Blink` | `pos`, `c`, `eof` are the pairs `fd0`/`fd1`, `c0`/`c1`, `eof0`/`eof1`; `ticks` counts the reads of the RTC |
| `Shell`, `MCShell` | the shell's loop, `execute` with `handle_command` and `handle_execuable_check`, `getargs`, the value of `halt`; extends `Disk` | the shell's buffer, `name`, `args`, the image, what `execute` returned and the shell printed |
| `Grep`, `MCGrep` | `do_one_file` of `grep` | its local variables; reads as `FileSystem` promises them; `behind` is history: the byte behind the buffer at the start |
| `Interrupts` | the controllers, `i8259_init`, `enable_irq`, `send_eoi`, the skeletons of `pit_irq`, `RTC_irq` and `keyboard_irq`, the order of `entry` | `enabled` is the complement of the masks; `serving` and `pending` are the controllers' own registers; `stack` says which handlers each terminal has not finished |

Composition. `Video` and `Rtc` extend `JobStacks` and not `Processes`: they conjoin its
actions (`Launch`, `Finish`, `Restart`, `Rotate`, `First`) with what `execute`, `halt`
and `pit_irq` do to screens, clocks and descriptors. That is sound because
`Processes` is shown to implement `JobStacks` (run `Processes_jobs`), and it keeps them small enough
to check. `Programs` runs its programs on the actions of `FileSystem` and sees what they
return through operators (`OpenResult`, `ReadResult`, ...) that stand beside them. `Rtc` takes
from `Interrupts` that there is one `RTC_irq` at a time (`ServiceHeld`); `Grep` and `Fish` take from `FileSystem`
that reads deliver a file in order (`FilesReadInOrder`) and that 0 means its end
(`ProgramsDeliver`); `Fish` takes from `Rtc` that its reads return, and from `Video` that its page is its screen.

Atomicity. An action is a piece of code that nothing interrupts: a handler (interrupt
gates disable interrupts) or a stretch between `cli()` and `sti()`. Where the code runs with
interrupts enabled on shared state, it is cut: the end of `execute` (`Execute`, `SetTss`,
`Iret`), `vidmap` (three steps), `rtc_write` (two stores), `RTC_irq` (the test and the load of the
counter, its store, the comparison, and the wake between `cli` and `sti`, since an earlier iteration has
enabled interrupts), `read_terminal` (call, leaving the loop,
copy) and `putc` (at its statements that move the cursor, and between its test for the displayed
terminal and `update_cursor`). `rtc_open` and `rtc_close`, whose stores concern one process and are not
cut, are one step each (`rtc_open` stores the counter first, so that an `RTC_irq` between
its stores finds an old limit that the counter has not reached); so are the
reads of files, which share nothing with a handler.

Undefined behaviour. Entering the kernel at the top of a stack writes over what another
process has further down there, or does not reach it: `Entered(deep)` allows
both. When a frame that was overwritten is popped, the CPU is at an undefined place and
the model of `Processes` stops (`cpu = Undefined`). It also stops when `process_switch`
cannot start a shell because no pid is free, since every later system call would look up a PCB
before the table. `getargs` without arguments reads a byte before its buffer: either
result is possible.

Operators named for a mistake (`FreePidOffByOne`, `FlagKept`, ...) are bugs the code does
not have. `PROJECT.json` names, for every property, the definition that such an operator
replaces and the run in which TLC then finds the property violated.

## 3. Runs

| Run | Module | Shows | Bounds |
| --- | --- | --- | --- |
| `Processes_jobs` | `ProcessesJobs` | `ProcessForest` (one chain per terminal), `PidsCounted`, `OwnContext`, `FramesKept`, the refinement `ImplementsJobStacks`, in every order of calls and ticks; `EveryTerminalRuns`: round robin leaves no terminal out | 4 pids, 2 terminals |
| `Processes_frame` | `Processes` | a tick in the open part of `execute` saves a frame on a stack that another program goes on to use (section 6) | 3 pids, 2 terminals |
| `Video_screens` | `MCVideo` | `ImplementsScreens`, `KernelMapsRunning`, `VidmapRemembered`, `UserPageRight` | 4 jobs, 3 terminals, 2 texts |
| `Rtc_clock` | `MCRtc` | `CounterWithinRate`; `NothingLeftBehind`: exactly what outlives a process; the handler ends (`IrqAcknowledged`) and a reader with a running clock returns (`RunningClockWakes`) | 3 processes, 2 terminals, 3 descriptors, rates 1 and 2, a program and its child per terminal |
| `Interrupts_lines` | `Interrupts` | `ServiceHeld` (a line is in service because of one handler that will go on), `ClockAnswerable`, `KeysAnswered`, `ClockAnswered`, `PreemptionGoesOn` | 3 terminals, no process before the first tick |
| `Terminal_lines` | `Terminal` | `EchoMatches`, `ReadGivesLine` under editing with every kind of key, `LinesReachReaders`, with the display switched and the CPU moved at will | 2 terminals, a line of 2, reads of 2 |
| `Console_text` | `MCConsole` | `CursorOnScreen`, `ScreenShowsText`, for the displayed and the hidden terminal, the running one and the other | 2 terminals of 2 by 2 cells in pages of 5, 4 characters between two clears, a backspace counted for two |
| `Console_race` | `Console` | an echo between two statements of `putc` takes the cursor off the screen (section 6) | 2 by 3 cells, 6 characters |
| `Programs_files` | `MCPrograms` | `FilesReadInOrder`, `DirListsNames`, whatever a program calls; `ProgramsDeliver`: what `cat`, `ls` and `grep` print or search; `SysErrPasses`: the repository's test of the error cases | blocks of 2, up to 2 files of 0, 3 and 6 bytes, 3 descriptors |
| `Fish_pictures` | `MCFish` | `PicturesAlternate`: one picture at a time, whole, changing every 15 ticks; `HandInStep`: the synchronised blinker with it | 2 by 3 cells, all pairs of 43 files, missing ones among them, 20 ticks between the steps of `main` |
| `Shell_commands` | `MCShell` | `ArgumentsReachProgram`; `RunsNamedProgram` and `MessageTellsOutcome`: exactly which program a line runs and which outcomes a message stands for | all lines up to 6 characters, names up to 3, commands up to 5; one disk with every kind of file |
| `Grep_lines` | `MCGrep` | `GrepFindsLines`, `GrepEnds` | all files up to 7 characters, NULs among them, a buffer of 3 |

Why the bounds are enough.

- *Processes.* A terminal needs a base shell, and a child on it, to exercise every branch;
  four pids over two terminals give a chain of four beside a terminal never started, two
  chains of two, and a table that fills up from the timer and from `execute`. Two terminals are
  enough for a starting program to be set aside and the owner of its stack to run; the safety
  properties, which the proofs cover for every number, were also checked with three.
- *Video.* Three terminals are one displayed, one running and one neither. Four
  jobs let a terminal have a child, so that `paging_halt` and `VidmapFlags` occur, beside
  any other state of the rest. `Video` compares jobs and texts for equality and does nothing else with them, so
  TLC takes states that differ by exchanging two jobs or two texts for one (`Exchanges`); the run has
  no liveness property, for which that would not be sound.
- *Rtc.* Rates 1 and 2 are the one at which a counter wraps in the same
  interrupt and the first at which it does not. Three descriptors let a process hold its clock twice and a program
  `gr*` keep one open above descriptor 3. Requests lie in, below and above the range. `MaxDepth = 2`: the
  base shell of a terminal and a child, which is where descriptors are opened. The PCBs' memory at boot
  (`PcbMemory`) is zero, or the second PCB's clock runs, past its limit: it becomes the shell of the other
  terminal, a program that opens the RTC itself, or nobody's.
- *Terminal.* A buffer of two characters and Enter is empty, in between and full; a tab and a
  letter in either order give columns that tell them apart. Two terminals are one displayed
  and one running, or the same. A read of two returns a whole line of one character
  and cuts a line of two. (Shift and CapsLock change characters and no state that a property
  reads; they were checked with one terminal and a buffer of four.)
- *Console.* Every cell of two by two is a corner; four characters pass the last cell and
  scroll once. Two terminals are one displayed and one running, or the same. A page has one cell
  more than a screen, as the real one has some (2048 cells for 2000): four characters take a torn
  cursor into the page behind, which is a terminal's. A backspace counts for two characters (`Cost`), and behaviours are followed
  as long as calls are torn on one terminal at a time (`OneTorn`): of states with both torn the
  properties say nothing but where spills go. The proofs have no such bounds.
- *Programs.* Files with no block, a partial last block and full ones; reads inside a
  block, across a boundary and past the end, of more than a directory name and of a negative count;
  names one of which begins the other, one that begins with a dot (`grep` leaves it out), and one
  of full length, with and without an Enter, of nobody and
  empty; an RTC; every directory order and a full directory; interleaved or separate
  blocks. Two descriptors are what `grep` needs and the least at which `open` can fail with
  one in use; a third is one that the kernel replaces by another in a program `gr*` (other programs
  use no more than two in the program that calls what it likes: `FewFds`); `syserr` counts on the difference between `FD_ARRAY_MAX` and its opens, which is kept.
- *Fish.* Files of up to three characters are rows of every length up to three, up to four rows,
  with and without a last newline; the longer ones run into the next row, below the screen and beside
  each other. The lengths are the code's, and 20 ticks between the steps of `main`
  instead of 100 put each of them into the middle of a blinker's period. There is a structure for
  every character of the two files and one more (`FramesAssumption`; `fish` has 2000 for the 361 characters of its own).
- *Shell.* Lines that end with a newline and lines that do not; a word
  longer than a name, arguments cut at the limit, spaces at every place; `exit`. The disk has a
  name that begins another one, a name of full length, a text, a file too short to be a
  program and a program longer than what is loaded.
- *Grep.* The buffer holds three bytes, and seven bytes of file are cut by it at every place of
  a line; a line can be empty, as long as the buffer, longer, and unfinished at the end. The uninitialised
  buffer holds NULs or newlines; the byte behind it is a letter or a newline.
- *Interrupts.* Three terminals: a handler can be left unfinished in one while two
  others run. Nothing in the model grows, so its state space is complete.

Deadlock is checked in all runs but those of `Processes`, which stops where the CPU does
(section 2), and of `Grep`, which ends.

## 4. Fairness

- *The timer* (`WF(Tick)`; in `Rtc`, where interrupts are off while its handler runs,
  `SF(RtcTick)`): IRQ 0 has the highest priority, is never masked after boot and is
  acknowledged before `process_switch` (`pit.c:27`). This is what lets a program that
  spins lose the CPU.
- *A piece of code that is short against a timer period* (`SF` of a step of one
  terminal): leaving a spin loop whose condition is false, the few instructions between
  `sti()` and `IRET`, a step of the loop of `RTC_irq`. Weak fairness would say nothing, because the
  step is disabled whenever the timer gives the CPU away; strong fairness says that
  a context which gets the CPU again and again executes its next instruction. It gets at
  least a period of milliseconds each time.
- *The RTC* (`WF(RtcIrq)`): it interrupts periodically as long as register C is read.
- *Interrupt delivery* (`Interrupts`): the timer keeps raising its line and a program that
  disabled interrupts enables them again (both weak); a request that the controllers pass on again
  and again while interrupts are enabled is taken, and `RTC_irq`, which
  others interrupt, gets to its end (strong: the interruptions are milliseconds apart).
  `ClockAnswered` assumes in addition that programs get to run with neither key nor tick outstanding now and
  then: the RTC has the lowest priority of the three.
- *grep* (`WF(Next)`): a sequential program goes on.
- Nothing is assumed of the user or of programs: no key need be pressed, no call made, no
  program need end.

## 5. Proofs

Every theorem holds for every value of the constants that the named `ASSUME`s of the
modules allow; the runs check those assumptions on their instances. Each component has an
inductive invariant, a lemma per action that keeps it, and theorems that draw from it
the properties the runs check.

| Module | Invariant | Properties proved | Assumed of the constants | Obligations |
| --- | --- | --- | --- | --- |
| `ProcessesProofs` | `IInv` | `TypeOK`, `ProcessForest`, `PidsCounted`, `OwnContext`, `FramesKept`, `Coupled`, the refinement `ImplementsJobStacks` | at least one pid and one terminal (`MaxPidAssumption`, `NumTerminalsAssumption`) | 1617 |
| `JobsProofs` | `StacksOK`; `VInv`; `RInv`, `LInv` | (`StacksCorrect`: no job in two places); `VideoTypeOK`, `KernelMapsRunning`, `VidmapRemembered`, `UserPageRight`, the refinement `ImplementsScreens`; `RtcTypeOK`, `CounterWithinRate`, `NothingLeftBehind` | at least one terminal; a text exists; pids from 1 on, in order (`RTC_irq` scans them so); frequencies and descriptors in a sensible range | 1734 |
| `TerminalProofs` | `TInv` | `TypeOK`, `EchoMatches`, `ReadGivesLine` | a buffer of at least one character, requests not negative | 669 |
| `InterruptsProofs` | `IInv` | `TypeOK`, `ServiceHeld`, `ClockAnswerable` | `BootWakes = FALSE` | 690 |
| `ConsoleProofs` | `CInv`, `TextInv` | `CursorOnScreen`, `ScreenShowsText` | a terminal exists; a screen has a row and a column, and a page has room for it | 2502 |
| `FilesProofs` | `FilesInv`, `SysErrInv`, `DeliverInv`, `ShellInv` | `DirListsNames`, `FilesReadInOrder`, `SysErrPasses`, `ProgramsDeliver`, `ArgumentsReachProgram`, `RunsNamedProgram`, `MessageTellsOutcome` | names are a number of words long, finitely many, without NUL or Enter; two descriptors, four for `syserr` and `grep`; `cat`'s buffer holds a name; `syserr`'s constants are what its tests take them for (`ProgramsAssumption`); letters are neither a space nor an Enter | 5172 |
| `GrepProofs` | `GrepInv` | `GrepFindsLines` | a buffer of at least one byte; strings to look for that are not empty and have neither newline nor NUL | 1640 |
| `FishProofs` | `FishInv` | `PicturesAlternate`, `HandInStep` | a screen; lengths of at least one tick; the blinker of its own neither in cell 0 nor at the picture's first place; files short enough for the array of structures and for a short (`FramesAssumption`) | 2535 |

*Processes.* None of the main parts of

    IInv == TypeOK /\ ProcessForest /\ PidsCounted /\ OwnContext /\ FramesKept /\ Coupled

is inductive alone. Take a program preempted on terminal *t*.
Its frame lies on its own kernel stack (`FramesKept`). A system call on another terminal
*u* overwrites the stack in `tss.esp0`. That is not *t*'s stack, because `tss.esp0` belongs to the
process running on *u* (`OwnContext`), which is not the one running on *t* (`ProcessForest`). When
the timer comes back to *t* it restores `tss.esp0` from the PCB, and `OwnContext` holds again
because the PCB and the frame were the process's own (`FramesKept`). `halt` takes its
parent's stack from the parent's frame, where the chain (`ProcessForest`) says that the
parent waits. `Coupled` ties the contexts to the tables: a terminal has a context exactly when
it has a process; no terminal has one while the boot loop runs; a program set aside in
the open part of `execute` was saved by `process_switch`, and after `SetTss` its PCB
holds its own stack. Without the last, `OwnContext` would fail at `IRET`
of a program that was set aside between the two. `PidsCounted` uses the cardinality lemmas
`TakePid` and `GivePid`: `get_pid` takes a pid that was free and `halt` frees one
that was not, the latter because the caller is live (`ProcessForest`). `HaltBaseForest` covers
the case in which the new base shell gets the very pid that was just freed.
`FramesKept` says nothing of a program set aside in the open part of `execute`:
that its frame survives is false (run `Processes_frame`).

The refinement of `JobStacks` maps a terminal's stack to the chain of `par_pid` that starts
at its running process. `JobsLinked` says what makes these
chains stacks: each process on one has the process below it for its `par_pid`, the top is the
running process, no process is on them twice, and those on them are the live ones. The mapping is a recursive function of
`par_pid`, taken anew after every step; sequences with these properties are its only value, so `Pushed`, `Popped`
and `Replaced` exhibit the stacks of the next state: one more process on a stack, one
less, or another in place of a base shell. Then `Execute` is a `Launch`, `HaltChild` a `Finish`,
`HaltBase` a `Restart`, a tick `First`, `Rotate` or `NoShell`, and the rest changes no chain.

*JobStacks, Video.* `vidmap` sets the flag of the PCB and of the terminal of the program
that runs. `VidmapRemembered` survives on another terminal only if the running program is not
on top there as well: that is `JobsDistinct`, proved once in `JobsProofs` and used by
`Video` and `Rtc`, whose steps are steps of the job stacks. `UserPageRight` needs that the terminal's flag is
still set when `vidmap` comes to the page table (`VidmapUnderWay`): no halt can come between, because the program is
in the kernel. The refinement of `Screens` maps a terminal's
screen to the frame `FrameOf` gives it. A tick or a switch moves mappings and copies
frames, and the proof says that the mapped screens do not change: frames of different terminals
differ (`FrameOfInjective`), and `KernelMapsRunning` makes `putc` write into the mapped one.

*Rtc.* `CounterWithinRate` has to survive `RTC_irq` between the two stores of `rtc_write`; `close`, `open` and `write`
between any two instructions of an `RTC_irq` that the timer has set aside, which then stores a counter it loaded
before; and the reuse of PCBs that are not initialised. The handler that is never resumed cannot hold up
a reset, because no process has an RTC before the first shell (`BootQuiet`). `NothingLeftBehind` needs
`BasesClean`: `halt` restarts a base shell without looking at what it closed, so it matters that a base shell has
nothing open; and `GoneClean`: the clock of a free pid runs only if the history says why. Nothing is
assumed of the names of programs, nor of the memory the PCBs lie in.

*Terminal.* A read returns what is in the buffer long after Enter was pressed. `LinesHeld`
ties the two moments: while nobody types on, the finished line is in the buffer, with one
Enter behind it and none inside. `EchoMatches` counts columns, a tab for four, with lemmas about the cardinality
of the tabs when a character is added or removed.

*Interrupts.* `ServiceHeld` speaks of sets of handlers on all stacks. `IInv` says what the
stacks can look like: at most one `RTC_irq` anywhere, at the bottom of the stack of one
context (`clk`, `at`), and on top of the running one, with interrupts disabled, at most one handler of the timer or the
keyboard (`brief`). The in-service bits follow from these three (`ServiceAgrees`), and the
priorities of the controllers (`Requests`) keep a second `RTC_irq` out. The context of
`entry`, never resumed, must hold no `RTC_irq` when a tick takes the CPU from it: that is where `BootWakes = FALSE`
is needed (section 6).

*Console.* `CursorOnScreen` speaks of programs between two characters. `PlaceOK` follows
them through `putc`: x may be one past the last column before the wrap, y one past the
last row before the scroll, and what `update_cursor` is about to be given is the place on the screen. A key in the middle breaks
this, and `torn` records it; the same claim without that condition is false (run `Console_race`). The monitor's cursor is
the displayed terminal's unless a program moved it that was displayed at its test and no longer at its call (`stray`);
`WasTested` says that the test came before every call.

`ScreenShowsText` compares the cells with a layout of everything printed since the last clear. `Shows` is
stronger than the property: the cells hold the last rows of the layout and the cursor is at its end, in the
next row at once when the last is full. `PutcShows` is the step: one more character takes a screen
that shows a text to one that shows the text with it, with the wrap and the scroll. Since `putc` is
left in the middle, `TextInv` speaks of the screen that its
remaining statements would make (`Finished`); two statements of different calls never meet on one screen unless
`torn` says so. Memory is linear: a cursor that a key has torn off its screen writes into another
terminal's page (`Hits`), and `PokePlace` says that `spilled` records every cell that changes outside
of the writer's own screen; `RowAndColumn` takes an address inside a screen apart again.

*Files.* `FilesInv` says of each descriptor what it has delivered. One of the directory: as many entries as its
position, from the first on, each the copy that `mycopy` makes of the entry at that place (`EntriesDelivered`);
`mycopy` copies the whole of a name because a name is a number of words (`WholeWords`). One of a file: the inode is that
of the file the opened name stands for, which is one file only, and the bytes are those before its position
(`BytesDelivered`), and `ServeInv` which reads asked for them. The arithmetic is in `ReadDataIs`: the pieces that `read_data` takes from the first, the inner and
the last block join without a gap and without an overlap, for all sizes, offsets and counts.

*Programs.* `SysErrPasses` needs to know which descriptors are free before each of the eight tests: all of them
(`FreeNow`), because every test either opens nothing (`HarmlessCall`: each of its calls fails and changes nothing on
any disk) or, as test 3 does, closes what it opened. The tests run in increasing order, so the count that test
3 starts from is the initial one (`Increasing`, `CountNow`). `ProgramsDeliver` follows `cat`, `ls` and `grep` from place to
place: `Printed` says that what they have printed is what their descriptor delivered, `FilesReadInOrder` what that is,
and a read that returns 0 that nothing is missing. `grep` has the directory in 2 and a file in 3, which is why the
descriptor that the kernel forces on it (`gr*`) is the one it meant (`Searching`); what it has searched is given by a recursive
function over the directory (`SearchedTo`), a step of which each round of its loop adds.

*Shell.* `ShellInv` says what the shell holds at each turn, because the properties speak of the moment after `execute`
and of what was typed before it. `Apart` puts a command together again from its name, the spaces and the arguments that
`handle_command` took from it. The name that runs is the one typed because `read_dentry_by_name` finds an entry with
the very name it is asked for (`MatchesIs`), and a name taken from a command holds no Enter it would
drop; that name is the first word or as much of it as a name can hold (`WordTaken`); the bytes in memory come from
`ReadDataIs`. A message stands for exactly the outcomes listed because the values that
`execute` returns and the messages correspond (`MessageIs`), and each way a call of `execute` ends gives one value
(`ToldBy`, `ValueTells`).

*Grep.* The property speaks of the whole file and `grep` sees three or a thousand bytes of it. `BufferHolds` relates the two:
the byte at place i of the buffer is the one at `file_pos - last + i` of the file from the next line on (before it, newlines
have become NULs), and `ReadsFill` says that a read that stops short of the end of the buffer is the last. So what is printed is a
piece of the file. If no line is longer than the buffer, `Progress` says where the next line begins: behind a newline
of the file, so that the lines printed and those wanted from there on are all that are wanted (`FoundUpTo`). There is one exception,
found when the simpler claim failed: after a line that just fills the buffer its newline is still to be read, and
passes for an empty line, which no string is found in. `LineEndIs` and `StringIs` say what the searches for a newline and for a NUL find;
here the byte behind the valid ones matters. Behind the buffer there is what was there at first (`behind`), until a line that
fills the buffer has ended there in a NUL (`BufferHolds`); if it is a newline the claim is about files that one read holds. All of this is about
files without NULs (`PlainInv`); of others only TLC shows something, that `grep` ends.

*fish.* While `add_frames` reads the two files, `FileRead` says where each is: at the place of the row and column that
is next, past the end of its row and waiting for the other, or at its end. The characters of a file are at places in
increasing order (`PlacesInOrder`), so those read are those at places before the next (`PassedIs`), and `Listed` says that the
list has one blinker for each place passed at which one of the files is not blank, with the characters of both. There is
a structure left for each since there are no more blinkers than characters read. From then on all blinkers of the
picture were added with the same lengths and have changed at the same ticks: their status and their countdown are the ones that the number of ticks
gives (`InTime`), and so is what their cells show (`Painted`), unless two rows meet in one cell. The blinker of its own is the first of the list, where `mp1_find_helper`
finds it; the one at `offset` that it is synchronised with is the picture's, so it gets that countdown and
status (`HandInv`), and the draw of the next change repairs what `mp1_ioctl_sync` has drawn (section 6).

*Induction.* The theorems of the library that take an operator as a parameter cannot be used with the provers at hand.
Where an argument is by induction, the set of the numbers for which the claim holds is named, and
`NatSetInduction`, proved from the least element that every set of numbers has, makes it all of `Nat`. `Recursion` proves by it
that a recursive function (the chains, the layout, what `grep` has searched, the folds of the
community modules) exists and satisfies its equations; nothing else is known of a `CHOOSE`.

Only model-checked: the liveness properties (`EveryTerminalRuns`, `IrqAcknowledged`,
`RunningClockWakes`, `LinesReachReaders`, `KeysAnswered`, `ClockAnswered`, `PreemptionGoesOn`, `GrepEnds`): liveness under
fairness and `ENABLED` are beyond the proof system. Every safety property that a run checks is proved.

## 6. Where the code and its comments part

Shown by a run:

1. `Processes_frame` (`syscall.c:220-234`). `execute` calls `sti()`, then sets `tss.esp0` and
   executes `IRET`. A timer interrupt between them is taken on the stack `execute` runs on, and
   `process_switch` saves the new program's frame there. If a program called `execute`, that stack is its own, and
   it waits: it cannot enter the kernel, and the frame is safe. But a shell that `process_switch` starts runs on the stack of
   the program the timer had interrupted, which goes on. In the trace all processes are base shells, without a parent:
   the first tick starts pid 1 on terminal 1, on the boot stack, which is the kernel stack of pid 1; a tick
   in the open part starts pid 2 on terminal 0 on the same stack, and a tick in the open part of that saves the
   frame of pid 2 there. Pid 1 is resumed, sets `tss.esp0` to its stack, goes to user mode, and its next entry into the kernel
   writes over that frame. The comment at `syscall.c:657` says that `process_switch` loads the "new ebp, esp, tss, paging"
   of the terminal it goes to; what it loads for pid 2 points into what pid 1 has left there since.
2. `Console_race` (`lib.c:211`). The test for the bottom row is `==`, after an increment with
   interrupts enabled. An echo that falls between the two and increments the row once more takes it from `NUM_ROWS` to
   the next, where neither its own test nor the program's finds it equal. The
   text goes on below the screen (comment at `lib.c:514`), and, past the end of the page, in the
   buffer of terminal 0 and of those after it: `ScreenShowsText` excepts the screens that this reaches (`spilled`).

Stated by a property that holds, so that the run and the theorem say exactly how far the code goes from its
comment, and that it goes no further:

- `RunsNamedProgram`. "The first word is the file name of the program to be executed", and -1 if it does not
  exist (`syscall.c:97`). `handle_command` cuts a first word at 32 characters (`syscall.c:439`): a longer one
  runs the program of its first 32 characters, if there is one. A name of 32
  characters fills the buffer in `execute` and is looked up without a NUL (`syscall.c:136`): it is found or not (`Found`).
- `MessageTellsOutcome`. `execute` returns "-1 if the command cannot be executed", "256 if the program dies by an
  exception" and otherwise the value "given by the program's call to halt" (`syscall.c:97`). With a full pid
  table it returns 0 (`syscall.c:152`), like `halt(0)`, and the shell says nothing; and
  `halt(255)` gives 256, like an exception (`syscall.c:61`).
- `NothingLeftBehind`. `halt` is to "close all file in fd array" (`syscall.c:69`), through `close`, which sends every descriptor but 2 of
  a program whose name begins with `gr` to descriptor 3 (`syscall.c:395-399`). Such a program leaves descriptors from 4 on open and,
  if its RTC is among them and in neither 2 nor 3, its clock running, for the next process with that pid. The
  PCBs are memory nobody initialises, in which clocks may run as well until their process opens
  the RTC; `RTC_irq` takes that for an RTC (`rtc.c:124`).
- `FilesReadInOrder`. `read` does the same (`syscall.c:257-261`): a program `gr*` that reads descriptor 4, or the keyboard, is given
  what follows in the file of descriptor 3, and the bytes are missing when it reads 3. `grep` itself has the directory in 2 and
  one file at a time in 3 (`ProgramsDeliver`).
- `UserPageRight`. "There should be separate locations for vidmap for different terminals" (`buglog.txt:595`).
  `vidmap` looks at `display_terminal` and then writes the entry chosen by it
  with interrupts enabled (`syscall.c:597-604`): after a switch in between the program stores into the
  wrong terminal's screen. On a terminal that is not displayed `vidmap` maps another entry than the one programs use. `paging_halt` of a child on the
  displayed terminal unmaps the user's video page even if the parent uses it, and on another it leaves the child's (`syscall.c:514-519`). Each of these lasts until the
  next tick, echo or switch.
- `GrepFindsLines`. `grep` looks at the byte behind the valid ones (`ece391grep.c:33`). The one behind the buffer is never
  written before it is looked at: with a newline there by chance the line that is unfinished at the end of the first full buffer counts as complete, and is
  searched and printed in two. Files with NULs, such as programs, are cut at them by `strcpy` (`ece391grep.c:36`); the property leaves them out.
- `CursorOnScreen`. A backspace at the origin of a terminal that is not displayed takes its cursor to row -1
  (`lib.c:179-187`: the early return is inside the test for the displayed one), and the text that follows
  is written before the first cell of its screen.

Seen while modelling, kept in the models or outside of them, and not given a run:

- A program that opens the RTC twice and closes one of the two descriptors has stopped its
  clock (`rtc.c:92`); a read of the other never returns, although the comment at
  `rtc.c:101` says it does when the count is reached. `RunningClockWakes` is about the clocks that run.
- `execute` returns 0 for a NULL command as well (`syscall.c:122`); no program passes one.
- `execute` loads at most 8 KB of a program (`syscall.c:200`, the size of a kernel stack);
  the `fish` on the disk image is longer.
- If a PCB that no process has used holds a nonzero
  `rtc_maxcount`, an RTC interrupt in the boot loop can enable interrupts inside its handler
  (`rtc.c:124-130`), a tick leaves that handler for good, and the RTC's line stays in service: with
  `BootWakes = TRUE` the model `Interrupts` violates `ServiceHeld`, and `IrqAcknowledged` and `RunningClockWakes` of `Rtc`
  except it (`Abandoned`).
- `mycopy` advances by four bytes for each byte left over (`filesys.c:376-377`): a read of the
  directory whose `nbytes` is no multiple of 4 gets wrong bytes. `DirListsNames` is about
  `nbytes` = 32, which `ls` uses.
- `handle_command` makes an empty name of a command with a leading space (`syscall.c:439`), which no program has.
  `ArgumentsReachProgram` is about commands whose first word is a possible name.
- A full directory has no empty entry after its last, and `real_dir_read` fails at offset 63 instead
  of returning 0 (`filesys.c:347`): `ls`, `grep` and `cat .` print everything, then report
  an error and end with status 3. `ProgramsDeliver` says so (`DirStatus`).
- `mp1_ioctl_sync` of `fish` draws the blinker off even if it is on: `testb` clears what
  `cmovl` looks at (`blink.S:281-282`). The next change repairs it, and `HandInStep`
  starts there. With `WAIT` = 100 the picture is off at that moment and nothing is seen.
- `mp1_malloc` takes a structure whose location is 0 for a free one (`fish.c:164`): a blinker in the first cell
  would be handed out twice and make the list a circle. `fish` adds none there.
- Of two blinkers in one cell the older is drawn over the newer when both change (`Drawn`); so the blinker
  `fish` adds would never be seen if the picture had one in its cell. It has none.
- `sti()` comes before `clear()` at boot (`kernel.c:188`); the first tick never returns.

## 7. What is not modelled

- Registers, descriptor tables and the way an entry saves them: only which stack is used and
  that it is overwritten.
- Programming the PIT and the RTC: port output without a state of its own.
- In `Interrupts`: what a handler does besides acknowledging, and the few
  instructions between its last `sti()` and its `iret`. `disable_irq` has no caller.
- `syscall.c:200-203`, a failing load after the pid was taken: it cannot happen with a file whose
  check has just read its first bytes. The entry point in the header of a program.
- What `printf` makes of its arguments (to `Video` it prints a line), `itoa` and the string functions; the kernel's tests (compiled out); what only
  they use of the file system (`print_all`, `print_one`, `dir_read`).
- `counter`, `hello`, `testprint`, `pingpong` and `sigtest`: they print, read a line or wait for the RTC,
  and keep nothing a property could be about; they appear as the calls the models allow. The base
  shell opens no file (`ece391shell.c`) and calls no `vidmap`. What `cat` and `grep` do when
  `getargs` fails: they print a message and return 3.
- Linux versions of the system calls for running programs on a host (`ece391emulate.c`, twice).
- What programs other than `fish` store through their video page, and what a screen that `fish` shares
  with echoes and other output looks like.

## 8. Plan

Order of the work, the most important first. All of it is here but the last, which is to come.

1. `Processes`, with `JobStacks` as its abstract specification and the proofs of its
   invariants: everything else runs on it.
2. `Video` over `JobStacks`, with `Screens` as its abstract specification.
3. `Rtc` over `JobStacks`: clocks, descriptors, nested interrupts.
4. `Terminal`: keyboard and reads.
5. `Interrupts`: initialisation, priorities, acknowledgement.
6. `Console`: `putc` against the keyboard.
7. `Disk`, with `FileSystem` and `Shell` over it.
8. `Grep`, the one user program with a buffer that is hard to get right.
9. Hidden terminals in `Console`; `gr*` programs in `FileSystem`; `Programs` as its clients.
10. `Blink` and `Fish`.
11. Proofs beyond `Processes`: the job stacks, `Video` with its refinement, `Rtc`, `Terminal`,
    `Interrupts`, `Console`, the directory; then the refinement of `JobStacks`, the text on the
    screens, the bytes of files, the programs over them, and the shell.
12. The proofs about user programs: the lines `grep` prints, the pictures of `fish`.
13. The structures of `Blink` and the pointers between them, for any sequence of calls and not only those of `fish`: that the
    list is a list and no structure is handed out twice, unless a blinker is in the first cell.
