# birdOS in TLA+

A verification development of birdOS, a small teaching kernel for x86 in the
Orange'S / MINIX tradition: tasks and user processes that exchange synchronous
messages, a multi-level queue scheduler, a file system task, drivers for disk,
terminal, keyboard and mouse, and one shell process.

Paths below are relative to the repository (`src/...`); modules and
configurations are in this directory.

## 1. The system

| component | source | state | operations |
|---|---|---|---|
| ipc | `kernel/proc.c` 154-626, `kernel/kernel.asm` 363-380 | per process `p_flags`, `p_msg`, `p_recvfrom`, `p_sendto`, `has_int_msg`, `q_sending`/`next_sending` | `sys_sendrec` (`msg_send`, `msg_receive`, `deadlock`), `inform_int` |
| scheduler, clock | `kernel/proc.c` 39-139, `kernel/clock.c` | `queue_table` (three ready queues and one of blocked processes), `ticks`, `p_proc_ready` | `schedule`, `get_proc`, `append_proc`, `clock_handler` |
| file system | `fs/*.c` | inode cache, descriptors, one sector buffer; on disk: inode map, sector map, inodes, directories | open, close, read, write, unlink, ls, mkdir, resume |
| disk driver | `kernel/hd.c` | the command in progress, `hd_info` | DEV_OPEN, DEV_READ, DEV_WRITE, DEV_IOCTL; disk interrupt |
| terminal | `kernel/tty.c`, `kernel/console.c` | input buffer, the pending reader | DEV_OPEN, DEV_READ, DEV_WRITE, HARD_INT |
| keyboard, mouse | `kernel/keyboard.c`, `kernel/mouse.c` | ring buffer filled by the handler, shift state, decoder phase | interrupt handler, `keyboard_read`, mouse packets |
| memory manager | `mm/*.c` | sorted list of free areas, process slots | `memman_alloc`, `memman_free`, fork, exit, wait |
| systask | `kernel/systask.c` | none | GET_TICKS, GET_PID |
| shell | `kernel/main.c` (`TestA`) | current path, descriptors | commands |
| process manager | `kernel/main.c` 1600-1690 | `p_flags` of other processes | `killProcess`, `restartProcess` |
| calculator | `kernel/main.c` (`mathMain`) | stack of operators, stack of numbers | one expression per call |
| games | `game/TTT.c`, `2048.c`, `MineSweeper.c`, `Snake.c` | board, tree of positions, map | one turn per key |
| more games, graphics, C library, boot | `game/`, `lib/`, `boot/` | | |

Tasks and processes interact through messages only (the shell calls FS, FS calls
HD and TTY, HD calls SYS for the time), with three exceptions: interrupt handlers
write the process table (`inform_int`), the scheduler reads `p_flags`, and the
process manager of the shell writes `p_flags` of other processes.

What is hard:

* system calls run with interrupts enabled (`sti` in `sys_call`), so an
  interrupt handler that changes the process table can come between any two
  instructions of `msg_send`, `msg_receive` and `schedule`;
* blocking, waking and the deadlock test read fields that another process or a
  handler wrote, some time before;
* FS has one buffer, one message and one thread for everybody, and answers a
  read from a terminal later, on behalf of TTY;
* resources are freed and reused by long sequences of requests (inode slots,
  directory slots, bitmap bits);
* the keyboard's bytes are decoded one by one, each read possibly waiting for the
  next interrupt, while the ring buffer drops single bytes of a code;
* the programs of the shell keep their state in globals, which the next run finds
  as the last one left them.

What makes each component correct:

| component | properties |
|---|---|
| ipc | lists of senders exact, no cycle of senders, no missed rendezvous, order kept; implements `Rendezvous`; an assertion fails only for a process that interrupts inform |
| scheduler | no process lost or duplicated, one always found, `schedule()` returns, a woken process runs, a killed one does not until it is restarted |
| FS, HD, TTY, SYS together | no send closes a cycle, every call answered once and by the right task, no key and no disk interrupt stranded |
| tables of FS | an answer says what exists, one slot per inode, an open file is kept, the sectors marked are those of the marked inodes, the disk is consistent after a power failure |
| keyboard, mouse | the keys delivered are the keys typed, with the modifiers held; TTY does not wait inside the decoder; the cursor follows the movements |
| programs | the value of the expression; the rules of each game, in every later game too |

Not all of them hold: section 3 says which do, which the code violates, and under
which conditions the rest was checked. `PROJECT.json` lists each hazard at its line
with the properties that cover it.

## 2. The modules

| module | models | checked by |
|---|---|---|
| `Ipc` | the message system, one step per stretch of code that no interrupt can divide | `MCIpc` |
| `Rendezvous` | what the message system promises, without intermediate states | as a property of `Ipc` |
| `IpcProofs` | theorems about `Ipc` | tlapm |
| `RemovalLemmas` | what is left of a sequence when one element is taken out | tlapm |
| `Sched` | scheduler, clock handler and process manager | `MCSched` |
| `SchedProofs` | theorems about `Sched` | tlapm |
| `Services` | the message loops of FS, TTY, HD and SYS, the shell's calls, the handlers of keyboard, clock and disk, composed over `Rendezvous` | `MCServices` |
| `ServicesInvariant` | the invariant of `Services`, the initial state, what a kernel call does to it; the steps of the shell, SYS and FS keep it | tlapm |
| `ServicesProofs` | those of TTY, HD, disk, keyboard and clock keep it; theorems about `Services` | tlapm |
| `Fs` | the tables of FS in memory and on disk under the shell's file commands, with power failures | `MCFs` |
| `FsProofs` | theorems about `Fs` | tlapm |
| `Input` | the keyboard's handler and decoder byte by byte, the mouse's packets | `MCInput` |
| `InputProofs` | theorems about `Input` | tlapm |
| `Calculator`, `TicTacToe`, `Tiles`, `Mines`, `Snake` | one program of the shell each | through `Programs` |
| `Programs` | the programs, each run again and again | `MCPrograms` |
| `SnakeProofs` | a theorem about `Snake` | tlapm |

### Ipc

Only one system call is in progress at a time: while it runs `k_reenter` is 0,
so a nested clock interrupt returns before `schedule()`. Module `Ipc` therefore
has one program counter `kpc` for the call in progress, `current` for its caller
and `peer` for the `src_dest` argument, and lets `inform_int` happen at every
point. A step is the code between two points at which an interrupt changes what the
call does next:

| step | code |
|---|---|
| `Enter` | `sys_sendrec` up to the call of `msg_send`/`msg_receive` |
| `SendDeadlock`, `SendMatch`, `SendBlock` | the tests of `msg_send`, and its else branch |
| `SendAssert`, `SendCopy`, `SendNull`, `SendFinish` | the copy to a waiting destination, line by line |
| `ReceiveInterrupt`, `ReceiveInterruptCheck`, `ReceiveNoInterrupt` | a pending interrupt |
| `ReceiveTake` | taking a message of a blocked sender and unlinking it |
| `ReceiveFlag`, `ReceiveFrom`, `ReceiveBlock`, `ReceiveCheck` | marking the receiver, and the assertions after `block()` |
| `InformReceiver`, `InformBusy` | `inform_int` |

`SendBlock` and `ReceiveTake` are one step each although they are many
instructions: the sender and its list are touched by system calls only, and
handlers read `RECEIVING`, `p_recvfrom` and `p_msg` of informed tasks, which
those lines do not write for the tasks they could inform. `p_msg` is abstracted
to "not null": a process's `p_msg` only ever points to its own MESSAGE, `msg[p]`.
The linked list `q_sending`/`next_sending` is a sequence. Which runnable process
enters the kernel next is left open; the scheduler is a module of its own. The
stop of the kernel by a failed assertion or `panic()` is a state
(`kpc = "halted"`, with the line in `cause`), so `CHECK_DEADLOCK` is off: the
system really may stop there, or in a state where everybody waits for messages.

`Rendezvous` is the abstract specification: sending is one step, whether the
destination was waiting or not (`Spec`). `SpecInterrupted` adds what an interrupt in
the middle of a call does to the process that it informs, and only to that one:
a message is taken, or waited for, although an interrupt is pending that the call
would have taken had it arrived earlier (`TakeAnyway`, `WaitAnyway`); the next interrupt
wakes such a waiter and the earlier one is forgotten (`WakeLate`); and a process
that a message was just delivered to loses it, and its pending interrupt, to one
that finds it still marked as waiting (`Overrun`). `Ipc` implements
`SpecInterrupted`. The refinement mapping hides the states between
`p_msg = 0` and the end of `msg_send` (`Hidden`) and those in which the receiver
is marked but its source not yet published. A process that starts a call reuses
its MESSAGE (`Reuse`), which shows in the abstract `inbox`.

### Sched

Each of the four queues is a sequence of processes; ticks, `p_flags = 0`
(`ready`) and the locals of `schedule()` that survive an iteration (`left`,
`level`) are variables, because interrupts arrive between iterations and wake
tasks. The first loop of `schedule()` is `RotateReady`, `RotateBlocked`,
`RotateDone`; the second `ScanExpired`, `ScanBlocked`, `ScanEmpty`,
`ScanChoose`. `inCall` tells a `schedule()` called by `block()` from one called
by the clock handler: ticks are counted in the first, not in the second, where
the handler's own interrupt line is masked. The circular buffers are kept with
their capacity: `append_proc` drops a process when the queue is full, and the
first loop does not run at all when the buffer is full (its end test compares
two positions). The branches for `p_flags == FREE_SLOT` are left out: nothing
sets a queued process to FREE_SLOT.

The process manager runs in the shell and writes `p_flags` without the kernel
and without looking at the queues. `Kill` is `killProcess`, `Restart` is
`restartProcess`, and `fate` tells a process that waits for a message from one
that was killed, since both have flags that are not 0. `Protected` are the
numbers `killProcess` refuses: 4, which is a task, and 6, which is TestB; the
shell is number 5 and can kill itself. It then runs on until the next tick, or
until its next system call fails an assertion (`CallOfKilled`; the system spins,
`Spin`). `KilledStaysDown` says that a killed process is not chosen again as long as
nobody restarts it, not even by a wake-up that was under way. `restartProcess` writes 1,
which `schedule()` does not take for runnable, although the shell prints that the
process is running: `RestartedRuns` states what it prints, and the run `sched_restart`
shows that it is not so.

`Spinners` are TestB and TestC, which loop for ever without a system call. They
are why the second loop always ends with a process; the assumption that there is
at least one is `SchedAssumption`.

### Services

The processes of the running system, each a loop with a program counter `pc[p]`,
on top of the message system as `Rendezvous` specifies it (`K == INSTANCE
Rendezvous`): a kernel call is one step of the kernel's five variables plus a
step of the caller's `pc`. A process that blocks has already moved to the point
after the call, so "waiting for the answer" is `Awaits(p)`. What a loop keeps
between two messages is `job[p]`: the message it works on and to whom it will
reply (`src` and the message buffer of the C code).

| process | code | steps |
|---|---|---|
| Shell | `TestA`, `lib/read.c` and the like, `get_ticks` | `ShellCall` (one of the requests), `ShellAwait`, `ShellReturn` |
| FS | `task_fs`, `init_fs`, `do_rdwt`, `do_open`, `rw_sector` | `FSInit`; `FSReceive`, then `FSResume`, `FSTerminal` or `FSRequest`; `FSTransfer`, `FSDiskAwait`, `FSDiskDone` per transfer; `FSTty`, `FSTtyAwait`, `FSTtyDone`; `FSReply` or `FSSuspend` |
| HD | `task_hd`, `hd_open`, `hd_rdwt`, `waitfor`, `interrupt_wait` | `HDDispatch`; `HDAsk`, `HDAskAwait`, `HDPoll` for each round of `waitfor`; `HDCommand`, `HDPortWrite`, `HDWait`, `HDSectorRead`, `HDSectorWritten`; `HDReply` |
| SYS | `task_sys` | `SYSReceive`, `SYSGetTicks`, `SYSReply` |
| TTY | `task_tty`, `tty_dev_read`, `tty_dev_write`, `tty_do_read`, `tty_do_write` | `TTYReadKey`, `TTYKeysRead`, `TTYWriteKey`, `TTYResume`, `TTYResumed`; `TTYReceive`, then `TTYHardInt`, `TTYDoRead` or `TTYDoOther`; `TTYReply` |
| handlers | `keyboard_handler`, `clock_handler`, `hd_handler` | `KeyPress`, `ClockTick`, `DiskFetched`, `DiskStored` |
| the disk (external) | ATA registers as `hd.c` uses them | `DiskFetched`, `DiskPrepared`, `DiskStored` |

What FS does with its tables is left out: a request costs some number of sector
transfers and is answered. A key is one of three kinds (a printable character, a
newline, a backspace) and takes one place in the ring buffer (`Input` has the
bytes). `load` bounds a behaviour: how many keys are pressed, how many sector
transfers a request costs FS, of how many sectors each; it is chosen at the
start and never changes, so that one run can look at several kinds of load
without their product. There is one console, the current one, and one client of FS: the kernel starts the tasks, the
shell and two processes that make no call. That there is only one client matters:
TTY sends RESUME_PROC from the middle of its key loop, and a request of a second
client at that moment would have FS sending to TTY, which is the deadlock panic.
`K!Spec`, without `SpecInterrupted`, is the kernel of `Services`: interrupts arrive between
system calls here, and the loops are not checked on a kernel that loses a message
or a wake-up to an interrupt inside one, as `Ipc` shows it can. Timeouts of `waitfor`, which panic, do not occur: the disk
answers.

### Fs

What `Services` leaves out of FS, and only that: one client, one request at a
time, so that a command of the shell (`CreateFile`, `DeleteFile`, `ReadFile`,
`WriteFile`, `CreateDir`, `GoDir`, `GoUp`, `List`) is one step. The handlers are
operators with the names of the C functions; each takes a state of FS (`disk`,
the cache `tab`, `filp`, the first failure `cause`, the sector `writes` so far)
and returns the next one with its result, in the order of the code. A long handler is
divided into operators where a result is used more than once (`Searched`,
`GetFound`, `Unlink`, `AndTouched`): the part after the call takes the result as
its argument. A command
that fails an assertion or panics stops the system (`halted`); nothing is written after
the failure. `writes` is the sequence of disks after each sector write: `PowerFails` takes any of them and
starts the system again (`Booted`), `Reboot` does so between two commands. A
`session` says what a user does: which commands, on which paths, and whether the
power fails; it is chosen at the start and kept.

| variable | code |
|---|---|
| `disk` | inode map, sector map, the array of inodes, the entries of each directory |
| `inode_table` | the cache; slot 1 is `root_inode` |
| `filp` | the shell's descriptors; `of` remembers which inode was opened |
| `cwd` | `current_dirr` |
| `told` | history: the paths that exist, to judge by the answers of FS |

Four things of the code are kept although they look like mistakes, because the
later behaviour depends on them. An inode on disk is 32 bytes and is copied as
a longer structure: reading takes `i_node_length` from the next inode's mode,
writing puts it back there, and the word after it comes from outside the array
whenever `i_node_length` is not 0; that word is any member of `Garbage`.
`put_inode` always decreases the count. `strip_path` gets files it passes and
never puts them, and puts directories it did not get. `search_file` compares a
buffer with remains of earlier components, and one entry more than the size says.

A file is an extent of sectors without contents; a directory's size is counted in
entries. The removal of a directory that is not empty is left out, and so is that of a
name whose inode is free, which an earlier removal left behind (`Removable`).

### Input

The keyboard sends one byte per interrupt (`KeyboardHandler`), into a ring buffer
that drops what does not fit. `keyboard_read` takes a byte, waits inside
`get_byte_from_kb_buf` when there is none, and may be interrupted between any two
bytes: `pc` is the byte it asks for next (`first`, `pause`, `extended`, the two
codes of the print key), and one action is one byte with everything that is done
before the next. What a key is, is a table of codes by kind: a printable key, the
pad, the modifiers, the locks, the keys of the middle block, PrintScreen and Pause. Their
codes depend on the keys held, as on a real keyboard (`Codes`): one of the middle
block stands for one of the pad without Shift and NumLock, so the keyboard may put
E0 2A .. E0 AA around it, or lift the Shift that is held (E0 AA) and put it down again
behind it (E0 2A); PrintScreen is shorter under Shift, Ctrl or Alt, and Pause is Break
under Ctrl.

`make` is assigned by the branch for most codes only and is otherwise whatever
the stack holds: the model keeps the set of values it may have. The acknowledgement of the lights
is polled (`kb_ack`) on the port that the handler reads too. `typed`, `lit` and
`astray` are history: what the keys typed mean, which lights are on, and whether
something happened by which the decoder may be out of step: a byte dropped, two
Alt keys of which one is released, PrintScreen or Pause until the end of the call, and
a Pause that begins where the decoder waits for the rest of PrintScreen. Which of the
two Alt keys is held is left out (`"ALT"`): `keyboard_read` reports the right one as the
left one (`keyboard.c` 221), and nobody asks which it is. The mouse has its own interrupt,
masked while it is decoded, so `MouseHandler` is one step; `pointed` and `lost` are history.

| variable | code |
|---|---|
| `kb_in` | the ring buffer |
| `pc`, `parsed`, `key`, `make` | control and locals of `keyboard_read` |
| `flags`, `locks` | `shift_l` ... `alt_l`, `caps_lock`, `num_lock`, `scroll_lock` |
| `delivered` | what `in_process` does with the keys |
| `sending`, `port` (external) | the bytes of the keyboard, the data port |
| `phase`, `buf`, `cursor` | `mdec`, `mouse_x`, `mouse_y` |

### Programs

The shell calls its programs one at a time, and what matters between two calls is
what a program left in its globals; the programs share none but the state of
`rand()`, which is open. So `Programs` picks a program and runs it for ever.

* `Calculator`: `mathMain` checks the expression (which characters, which
  brackets), turns it into reverse polish notation with a stack of operators and
  evaluates that with a stack of numbers. The property compares with a recursive
  evaluation of the expression (`CalculatorTrue`).
* `TicTacToe`: the tree of three moves that the program keeps in an array is
  computed by recursion; the property speaks of how the end is called and that the
  search is never led to a position outside its array.
* `Tiles` (2048): three passes over a line, with the buffer and the two globals
  of the code; `TurnsByTheRules` compares every turn with a direct definition of
  the game, and the passes themselves on every line of four.
* `Mines`: `count`, `x` and `y` are not reset by a new game, and an answer that is no
  coordinate leaves x or y as it was. `asked` is what the user answered, `at` where the
  program looks; they differ once an answer was no coordinate (`misread`).
* `Snake`: a list of bodies and a map that is drawn and erased turn by turn;
  `eatFlag` survives a game.

## 3. The runs

| run | configuration | question |
|---|---|---|
| `ipc` | three processes and one informed task, interrupts at every point | do lists, wait-for graph and order survive interrupts, does the kernel implement `Rendezvous!SpecInterrupted`? yes; for whom can an assertion fail? only for a process that interrupts inform |
| `ipc_interrupt_pending` | as `ipc` | does the assertion of `proc.c` 587 hold? no |
| `ipc_message_lost` | as `ipc` | is a sent message delivered, as the comment says? no |
| `sched` | an informed task, a shell that may kill and restart, two spinning processes; ticks and other interrupts | are processes lost or duplicated, does `schedule()` find one and return, does a woken process run, and a killed one not until it is restarted? yes |
| `sched_restart` | as `sched` | does a restarted process run, as the shell prints? no |
| `services` | three keys, up to two characters per read, a ring buffer of two and an input buffer of one | no send closes a cycle; no key is left behind with TTY asleep; characters go only to a process still in its read; only who waits is answered, and rightly |
| `services_live` | either two keys, or a transfer of up to three sectors per request | every disk interrupt meets `interrupt_wait`; no command is left half done; every call of the shell returns, a read of the terminal once a newline was typed |
| `fs_tree` | three files in the root: touch, rm, cat; or a directory with two files: touch, rm, cat, vi, mkdir; or a directory with a file, and a file: everything but rm, and power failures | has an inode one slot, is an open file kept in every slot but the root's, are the sectors marked those of the marked inodes while the power does not fail, is the disk consistent after a failure between any two writes of a creation? yes |
| `fs_inode_mode` | two files in the root: touch, rm, cat, vi, mkdir | does the assertion of `open.c` 127 hold? no |
| `fs_answers` | three files in the root: touch, rm, cat | is a file found if and only if it was created and not removed since? no |
| `input` | up to four keys at a time, of every kind, with three to five strokes (press, repeat, release), a ring buffer of four bytes; four movements of the mouse | are the keys delivered that were typed, with their modifiers, unless a byte is lost or the call meets PrintScreen or Pause? does the decoder wait for the user inside a code only while Shift or Ctrl is held? does the cursor follow the mouse until it is misled by a packet with an overflow bit? yes |
| `programs` | 4,077 expressions of up to nine tokens; tic-tac-toe whole; 2048 on nine cells up to a sum of 30, and every line of four; minesweeper on nine fields with two bombs and three looks; a snake on six by six | is every value right; is the computer never asked to move on a full board, a line of its own always called, a win of the user's and a draw only when it is one on the board; is what the minesweeper shows true; is the snake in one piece; does 2048 slide by the rules; in every later game too? yes |

Bounds. Four processes in `Ipc` give chains and cycles of three senders, lists
of three senders from which the middle one is taken, and a sender, a receiver
and a bystander for every interrupt. One message type is enough: messages are
told apart by their source, and HARD_INT is separate. Symmetry over the three
ordinary processes is used in runs without liveness. In `Sched` the quanta 10, 20
and 100 are scaled to 1, 2 and 3, which keeps their order and the case of a
process that expires at once; four processes fill every queue with two or more,
and the buffers have one slot more than there are processes, as `NR_PROCS` is
larger than the number of processes that exist. In `Services` three keys are
enough to fill both buffers and to type a character, take it back and type
another; three sectors give a first, a middle and a last one. Keys and transfers
are in different loads because their product adds states but no new
meeting of processes: while FS starts up HD works and keys arrive in all of them.
`CHECK_DEADLOCK` is off: with every key pressed and the shell reading, the system
waits.

In `Fs` six inodes leave two or three for files, so that numbers, extents, slots
and entries are reused all the time; the cache has as many slots as can be in use
at once plus one that is reused, or is exhausted when counts leak. There are
three descriptors, two of them the terminal's. `MaxCount` stops a behaviour whose counts have
run away. What the other sessions show is below. Where the power fails nothing is
removed: a removal clears the maps before the entry, and a failure in between leaves an
entry of a free inode.
`CHECK_DEADLOCK` is off because the system may be halted and because of the bounds.

In `Input` the ring of four bytes (32 in the code) is shorter than the six bytes of
Pause and than two keys of the pad with their releases, so codes lose their
tails; each use has keys that meet in one of the decoder's branches. The
movements of the mouse are those whose bytes can be misread: with overflow bits,
and with bytes that look like the first one of a packet. `CHECK_DEADLOCK` is
off because the keys come to an end. In `Programs` the board of 2048 is three cells
wide: a line of it merges and moves again but never merges twice, which is why
`LinesByTheRules` slides every line of four; three looks at the minefield make an
answer that is no coordinate come first, between and last; MAX = 6 is the smallest field on which the first
snake fits with room to turn (the snake starts at (5, 5)), and EndLength = 5 lets
a game be won. Deadlock is checked there: a program that ended is called again.

Fairness (`Sched`). Weak fairness of the loop's steps: the processor executes
the code it is in. Strong fairness of the clock tick: ticks arrive whatever the
processor does, so a pattern of blocking and waking cannot avoid them for ever;
strong fairness is needed because a tick is not enabled in the interrupt's own
handler. No fairness is assumed of the processes or of other interrupts.

Fairness (`Services`). Weak fairness of each process's steps: a runnable process
runs, which is `WokenRuns` of `Sched`; of the disk, which completes a command it
was given; and of the clock tick. Pressing a key and making a call are not fair:
the user and the shell need do neither.

What the violations show. In `Ipc`, `has_int_msg` is read at line 445 and the receiver
marked at 577: an interrupt in between leaves the task blocked with its interrupt
pending, contrary to the assertion of line 587, which halts the system. And
`msg_send` copies the message while the destination is still marked as waiting:
an interrupt before line 370 overwrites source and type of the message just
delivered. Both need an interrupt inside a few instructions, and both are
consequences of the `sti` in `sys_call`; neither harms anybody but the process that
interrupts inform and whoever sends to it (`StopsOnlyForInformed`, and the steps that
`SpecInterrupted` adds).

In `Sched`, a process that was killed and restarted has flags 1 for ever: `schedule()`
takes it for blocked and keeps it in the queue of blocked processes, while the shell
lists it as running.

In `Fs`, structure and `INODE_SIZE` have come apart, so that an inode written with
a stale `i_node_length` erases the mode of the next one: the assertion of
`open.c` 127 fails when that one is opened (two files are created, the first one is
removed and created again, the second one is opened). A command that is not about the damaged inode does not notice. And the new size of a
directory whose last entry is removed counts the entries in use and not the places
(`link.c` 248), so that with a hole in front an entry falls outside, where
`search_file` still sees it but the loop of `do_unlink` does not: its removal frees
the inode, is answered with 0, and leaves the entry (`fs_answers`: touch f, g and h, rm
the first, the last, and then the one between).

What the passing runs leave out because it does not hold, or is not claimed:

* `Fs`: in a directory with a longer name than its own, as `docs` with a file `docs/f`, a
  file that was just created is not found (`misc.c` 69); no session has such a name.
  `strip_path` puts the root without getting it (`misc.c` 151), so that the root loses its
  slot to another inode in the sessions with a directory. A file that comes to lie
  in slot 1 loses its count too, and can be removed while it is open: this is why
  `OpenFilesKept` leaves out slot 1 (touch, rm, cat, vi and mkdir on `d`, `f` and `d/g`).
  `SectorsOwned` is about times without a power failure, since a creation that is cut
  off leaves sectors marked that nobody has.
* `Input`: a byte that found the ring full is gone, and nothing is claimed of a
  call from there on until it returns in step. E0 2A, which ends the code of a
  key of the middle block released under Shift, and E0 B7, PrintScreen released under
  Shift or Ctrl, are the beginning of PrintScreen's codes to the decoder (`keyboard.c`
  158 and 169): TTY waits there and serves nobody until the next byte comes, which
  the release of Shift sends at the latest (`WaitsOnlyWhileHeld`). If that byte is the
  first of Pause, its rest is read as another code and Ctrl remains pressed to the
  decoder: `astray` from there. What follows PrintScreen or Pause in a call is
  delivered with the key of before (`keyboard.c` 181), so it is exempt.
  A packet of the mouse with an overflow bit is skipped byte by byte, and if another
  byte of it looks like a first one the decoder is out of step and may stay so for
  ever (`mouse.c` 85): nothing is claimed of the cursor from then on (`lost`).
* `Mines`: after an answer that is no coordinate the program looks at places nobody
  asked for (`MineSweeper.c` 181-261); `MinesTrue` then claims only that what is shown of
  the fields is true. The border of the board, which it may show, is outside of it.
* `TicTacToe`: the program looks three moves ahead and may call a draw early, or a win of
  its own that is not on the board yet (`TTT.c` 266). `TicTacToeSound` allows both.

What the models follow although it surprises, and no property denies:

* `Fs`: a refused unlink returns without putting the inode it got (`link.c` 91),
  so its count never sinks again; a removal clears the maps before the entry
  (`link.c` 138); a read past the end of a file moves the position on
  (`read_write.c` 131).
* `Sched`: the head of the lowest queue is not moved when its ticks run out
  (`proc.c` 76), so a process behind TestB or TestC waits there until that one
  blocks, which it never does: `WokenRuns` is about processes that wake, which
  start again in the first queue.
* `Input`: `kb_ack` polls the port that `keyboard_handler` reads (`keyboard.c` 388),
  so that either may see the acknowledgement; right and left Alt share one flag
  (`keyboard.c` 221).
* `Mines`: the number of bombs is not set again, so from the second game on there
  are none. `Tiles`: the third option is written past the end of its array
  (`2048.c`, `initData`), which reaches nothing the game reads.

## 4. The proofs

`IpcProofs` and `SchedProofs` prove for every number of processes what the runs
check for four, `ServicesProofs`, `SnakeProofs`, `InputProofs` and `FsProofs` for every size and load
what they check for small ones. All follow the same argument: an inductive invariant `IInv`
(defined in the module, for `Services` in `ServicesInvariant`; in `Input` there are two,
`KeysInv` and `MouseInv`, in `Fs` too, `Sane` and `Safe`), a lemma that the initial states satisfy it, one lemma per action or group of actions that a step
preserves it, and `Spec => []IInv` by temporal reasoning; the properties follow from
it.

*Ipc.* The stated invariants are not inductive: that a list holds exactly the
blocked senders needs `FieldsConsistent` (SENDING, `p_sendto`, `p_msg` and
`p_recvfrom` of one process agree) and `CallConsistent` (what the call in
progress has established so far, e.g. that the destination of a send being
completed is not itself sending, and that between `recv_from` and the
publication of `p_recvfrom` no suitable sender is in the list). That the graph of
senders is acyclic is stated over sets (no non-empty set of senders is closed
under `p_sendto`), which needs no induction over paths: the step `SendBlock`
adds one edge, and a closed set that uses it is a set the test of `deadlock()`
would have found. Theorems: `TypeCorrect`, `QueuesExact`, `SendsAcyclic`,
`RendezvousNeverMissed`, `AssertionsHold`; and `OvertakingOnlyByName`, the action
property `NoOvertaking`, from the same invariant: only `SendBlock` adds to a list, at
its end, and only `ReceiveTake` takes from one. The only assumption is
`IpcAssumption`: informed tasks are processes, and the special numbers ANY,
INTERRUPT and NO_TASK are distinct and no process.

All theorems hold wherever interrupts arrive; none has a hypothesis about them.
`CallInterrupted` is what a call in progress may still rely on then: a process that
waits has a buffer, the message of a blocked sender names it, and the destination
that `msg_send` found waiting either still waits for the same call, and holds what was
copied to it, or is a process that interrupts inform; so is whoever has an interrupt
pending or was woken from a receive before its end. `CallsInterrupted` proves it
together with `IInv`. From it follows `OnlyInformedCallsStop`: lines 364, 467, 583 and 587
and the assertion of `block()` can fail only if an interrupt has come between, so only
in a call of, or a send to, an informed process.
`ImplementsRendezvous` is the refinement of `SpecInterrupted`: under the mapping at the end of
`Ipc` (`StatusBar`, `PartnerBar`, `WaitingBar`, `InboxBar`) the initial states are initial
states of `Rendezvous`; each of `SendCopy`, `SendBlock`, the test for a cycle, `ReceiveTake`,
`ReceiveInterrupt`, `ReceiveFrom` and `inform_int` is a step of it, one that is there
for interrupted calls if an interrupt has come since the call looked for one; and the
others change nothing that is mapped. `Services` is built on the steps of `Rendezvous`
alone, without those of `SpecInterrupted`: its theorems are about a kernel that is
interrupted between calls only, which is less than what `Ipc` is proved to implement.

*Sched.* `EachInOneQueue` says that the queues partition the processes. It needs
the bound that no queue can be full (`Cardinality(Procs) < Capacity`), which is
a counting lemma over injective sequences; then `Requeue` is a move. That the
second loop finds a process needs `SpinnersAhead`: a process that never blocks
is always in a queue the loop has still to look at, which the demotion rules
preserve. `LeftBehind` carries over from the loop to its end what
`PassedOverAreTasks` says about the result. Theorems: `TypeCorrect`,
`NoProcessLost`, `RunsFromTheFront`, `ScheduleFinds`, `OnlyTasksPassedOver`.
`KilledStaysDown` rests on `KilledWait`: a process that was killed is not runnable,
is no task and is not protected, and no action but a restart, which does not make it
runnable either, touches its flags. Theorem:
`KilledNeverRuns`. `SchedAssumption` says of the process manager that a process
that never blocks is among the protected ones, and that what is neither a task nor
protected is the shell or makes no calls.

*Services.* The seven safety properties of the loops hold for every size of
the buffers, every length of a read and every load. What each of them needs of the others is
in one invariant, so that they are proved together:

| part of `IInv` | what it says | needed for |
|---|---|---|
| `KernelInv` | lists of messages hold blocked senders, each once, and every blocked sender | all |
| `Points`, `Stances` | where each loop can be, where it can be blocked, and on whom | all |
| `Contents`, `Found`, `Jobs` | which messages can wait for whom, be found, be worked on | `AnswersMatch` |
| `Served` | whoever is served is in a call of its server, until the answer is taken | `NoDeadlockPanic`, `AnswersMatch` |
| `AnsweredOnce`, `ReaderKept` | of a request of the shell, at most one of three exists: FS works on it, TTY owes the rest of it, or a resumption is on its way | `KeysGoToReader`, `AnswersMatch`, `NoDeadlockPanic` |
| `DiskInStep` | HD and the disk count the same sectors, and an interrupt is pending only at `wait` | `NoStrayDiskInterrupt`, `CommandsComplete` |
| `KeysSeen` | a key that TTY has not seen is announced by `key_pressed`, or TTY is reading keys | `NoStrandedKey` |

The steps of the kernel are first turned into what they do to the *sets* of waiting
messages (`Blocked`, `Passed`, `Took`, `Waited`, `TookInterrupt`); the order of a list matters to
`Rendezvous`, not to the loops. For `NoSendPanics`, `SendsTo(q, t)` says that q sends
to t or is about to. Who awaits an answer sends to nobody (`AwaitingSendsNot`); SYS
sends only to such a process, HD to SYS or to such a process, FS to HD, to such a
process, or to TTY; TTY only to FS. So FS and TTY would have to close the cycle
between them, which `AnsweredOnce` excludes: TTY resumes a reader only
when FS has no job of the one client. This is the step of the
proof that a second client would break. The assumptions are `ServicesAssumption`, on the sizes and loads, and
`NumbersDiffer`, on the numbers of the processes.

*Fs.* A command is one step that runs through a dozen handlers, each an operator from a
state of FS to the next one, so the proofs follow the calls. There are four passes over
the handlers, from `get_inode` up to the commands. The first one says what each of them
returns and leaves alone and that its result has the types (`FsType`). The loops of `strip_path` are functions of
the number of steps taken, whose steps stay in a set of states; that such a function exists, and
never leaves the set, is proved by the least number at which it would fail (`Reaches`,
`MadeExists`), and used for the entries of a directory and for the components of a path
(`LooksExist`, `WalksExist`).

The second pass is about the cache. That an inode has one slot does not survive a
put of a slot that is not held, so `Cache` adds that no count is negative except the
root's, and that no other slot in use has the number that slot 1 has, whether slot 1 is in use
or not; and `Held` says of a slot that it is the root's or has a count of at least 1. Every handler
puts only slots that are held: this needs that a walk holds the directory where it stands,
that what a request got is still held after all that comes between (`Opn`, `HasFd`), and that
`new_inode` takes an inode that has no slot. `OneSlotPerInodeAlways` has no condition on
the session: it holds with removals, with counts that are too low or too high, and in a system that is halted.

The third pass is about the disk, in sessions without `rm`. `DiskOk` is what is true of the
disk between any two writes: an entry names an inode that is marked and, but for the terminal,
has sectors; no two entries name the same inode; an inode with sectors is marked, and its sectors
are marked and its own. A file is created in the order map, map, inode, entry, directory, and each
of the five disks is `DiskOk` because of what came before (`Fresh`, `Unnamed`). That is not inductive without the cache,
since what is in a slot is written back: `SlotOk` says that a slot, in use or
not, has the sectors the inode has on disk, and that the slots of the root and of the
terminal cannot spill a wrong word into the inode next to theirs. `Whole` says that every
write so far was `DiskOk` and that, unless the system has failed, disk and slots agree
(`Sound`). A power failure keeps some write and boots from it, so `Safe` is inductive and gives
`CrashSafeAlways`.

The fourth pass is about open files. `Tied` says that a slot other than the root's counts
every descriptor that has it, that a slot in use has a marked inode, and that
the slot of a descriptor still has the inode that was opened. While a request runs, the slots it has got
are `Spare`: they have one reference more than there are descriptors, which is what a put or a new
descriptor takes. A handler that frees an inode needs a count of 1, its own, so no descriptor
has that slot. The hypothesis of `OpenFilesKeptMarked` is `NoStale`: no entry, nor the
slot of the root, names a free inode. Without it `get_inode` would bring a
free inode into a slot, `new_inode` could give it out again, and two files would be one. It is
not always true: a removal that frees the inode and leaves the entry (section 3) breaks it. `OpenFilesKeptKind`
has no such hypothesis: a session without `rm` keeps `NoStale`, by the invariant
`Safe` of the third pass. The assumption of all these theorems is
`FsAssumption`, on the sizes of the tables.

*Snake.* `SnakeWhole` is not inductive: a new head would bite if the check of the
last turn had not left its next place free. `IInv` adds `MayMove`, that
while a game is on the place ahead of the head is free or has the point, and types
(at least two bodies, on the grid). Then a turn shifts the bodies by one: with `eatFlag` the tail stays and the
list grows, without it the tail's place is freed in the map exactly when the last
body leaves it. `SnakeStaysWhole` holds for every MAX of at least 6 and every
EndLength above 2 (`SnakeAssumption`).

*Input, the keyboard.* An invariant about the place in the decoder would need one case for
every sequence of bytes on its way. `InputProofs` instead states `keyboard_read` as a
function (`Read` takes what the decoder knows and a byte to what it knows next), and
`Runs(c, bytes, d)` says that reading `bytes` takes c to d. `OnCourse` says
where the decoder *will be*: reading all of the ring buffer and all that the
keyboard has still to send takes it from `Now` to a place that is `Ahead`, in step with
the keys held, the lights lit and the text typed. Each action then has little to show:

* reading a byte is one `Read`, so the end of the run stays where it is (the lemmas
  `FirstByteRead` to `UnprintByteRead`, one for each place of the decoder);
* `keyboard_handler` moves a byte from one sequence to the other, or drops it and
  the decoder is astray;
* a stroke adds the code of one key, and `MakeCode` and `BreakCode` say, from
  the tables of codes and keys, that reading that code from a decoder in step makes
  exactly what the key means, with E0 prefixes, the keyboard's own shifts, modifiers
  and locks. A code that ends in PrintScreen or Pause leads to a
  place of its own ("lost", not the `lost` of the mouse), where the decoder stays until it
  has read it and is astray for the rest of the call;
* `Return` ends a call: with no byte dropped it is in step again when its flags are
  those of the keys held.

A run may also end inside a code, after the E0 2A or the E0 B7 that the decoder
takes for the beginning of PrintScreen's: `Ahead` has these two places besides the
beginning of a code, with Shift or Ctrl held (`WithShift`), and the next stroke's code is
read from there. What was delivered on the way to the end of a run is a prefix of what
will have been, and so of what was typed. That the run is empty when nothing is on its
way leaves the decoder at one of those places, which gives `WaitEndsWithShift`;
`KeysAreTrue` needs the run too. They hold for every size of the ring buffer and every
set of uses of the keys in `Keys` (`InputAssumption`).

*Input, the mouse.* `MouseInv` says what has been received of a packet and what is
still to come: together they are the packet of a movement (`Coming`), and adding
that movement to the cursor gives `pointed` (`InStepMouse`). The sum of a nine-bit
movement from its byte and its sign bit is `SignedOfPacket`. `PointerFollows` holds for
every screen and all nine-bit movements, until `lost`. `InputTypes` takes the types and bounds from
both invariants.

Left to TLC: the liveness properties of `Sched` and `Services`, which rest on fairness;
of `Fs`, `TypeOK` (that a directory's size stays in its bounds, and that only paths of the
session are told of), `SectorsOwned`, and `OpenFilesKept` in sessions with `rm` on a disk
with stale entries; what does not hold (`RestartedRuns`, `ModeAsserted`, `AnswersTrue`,
`BlockedWithoutInterrupt`, `SentMessageDelivered`); and everything about `Calculator`, `TicTacToe`,
`Tiles` and `Mines`, which are recursive over sequences, trees and lines.

## 5. Not modelled, and what is left to do

Left to do, in the order of what it would add:

1. `Fs`: the removal of a directory that is not empty (`link.c` 94-122), with the
   one sector buffer as a variable that the recursion overwrites; a full disk and the
   arithmetic on bits and sectors of `alloc_smap_bit` (`open.c` 289-335); an
   abstract specification (a map from paths to files) and the environments in which
   `Fs` implements it.
2. A second client of FS in `Services`, to show what the present set of processes
   avoids.
3. `Services` on `SpecInterrupted`: what a message or a wake-up that an interrupt inside a
   call has cost does to the loops of TTY and HD.
4. Proofs: `SectorsOwned`, which needs the sizes of the directories, and the sessions
   with `rm` that keep `NoStale`.

Not modelled, and why:

* The memory manager (`mm/*.c`). `task_mm` waits for messages from the start
  on and nobody sends one: `Init_test`, which forks, is not in the table of
  processes, the shell's test of fork and the call of `mm_init` are commented out. No
  execution reaches fork, exit, wait or the list of free areas. For the same reason
  FS's handlers of FORK and EXIT and HD's of DEV_CLOSE and DEV_IOCTL are left out.
* The disk log (`fs/disklog.c`): formats the tables for an external script.
* Graphics and fonts (`lib/glib.c`, `lib/u_vga16.c`, `kernel/console.c`): output. The
  52,604 lines of `lib/u_vga16.c` are pictures and characters; all other code has about
  15,000 lines.
* `pushBox.c`, `wzq.c`, `flappy.c`, `clock.c`, `calendar.c`, `math.c`, `paint.c`:
  levels and pictures, or state that no later step relies on.
* The C library: stubs that pack one message, and formatting. Boot code: runs once,
  before the first process.
* Timeouts of the disk, which end in `panic`, and the contents of files.

`PROJECT.json` names, with a note, the hazards that wait for this work.
