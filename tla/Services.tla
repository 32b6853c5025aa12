------------------------------- MODULE Services -------------------------------
(***************************************************************************)
(* The message loops of the tasks and of the shell, on top of the message  *)
(* system as module Rendezvous describes it: task_fs (fs/main.c), task_tty *)
(* (kernel/tty.c), task_hd (kernel/hd.c), task_sys (kernel/systask.c), the *)
(* interrupt handlers of keyboard, clock and disk, and the calls the shell *)
(* makes (lib/open.c, read.c, write.c and the like).                       *)
(*                                                                         *)
(* What the file system does with its tables is left out: a request of the *)
(* shell costs FS some number of sector transfers.  TASK_MM receives no    *)
(* message (nobody calls fork) and is left out as well.                    *)
(***************************************************************************)
EXTENDS Naturals, Sequences, SequencesExt

CONSTANTS
  Shell, FS, TTY, HD, SYS,
  ANY, INTERRUPT, NO_TASK, HARD_INT,
  KB_IN_BYTES,    (* size of the keyboard handler's ring buffer            *)
  TTY_IN_BYTES,   (* size of the input buffer of the terminal              *)
  Keys,           (* kinds of keys that are pressed                        *)
  MaxCount,       (* bound: characters the shell reads at a time           *)
  Loads           (* bounds: how much a behaviour may ask of the system    *)

(* The shell moves at most 64004 bytes at a time (main.c, saveImage), so a *)
(* sector count fits the 8 bits of hd_cmd.count.                           *)
MaxSectors == 255

ASSUME ServicesAssumption ==
  /\ {KB_IN_BYTES, TTY_IN_BYTES, MaxCount} \subseteq Nat \ {0}
  /\ Keys \subseteq {"char", "newline", "backspace"}
  /\ \A l \in Loads : l \in [keys : Nat, transfers : Nat, sectors : 2..MaxSectors]

(* The processes and the special numbers are all different.                *)
ASSUME NumbersDiffer ==
  /\ Shell \notin {FS, TTY, HD, SYS} /\ FS \notin {TTY, HD, SYS}
  /\ TTY \notin {HD, SYS} /\ HD # SYS
  /\ {ANY, INTERRUPT, NO_TASK} \intersect {Shell, FS, TTY, HD, SYS} = {}
  /\ ANY # INTERRUPT /\ NO_TASK \notin {ANY, INTERRUPT}

Procs == {Shell, FS, TTY, HD, SYS}
Informed == {TTY, HD}

(* A message: its type, whether it is about a file or a terminal, for whom *)
(* it is (PROC_NR) and a count of characters or sectors (CNT).  READ of a  *)
(* file stands for all requests that FS answers by itself.                 *)
Body == [op : {"OPEN", "READ", "WRITE", "SYSCALL_RET", "SUSPEND_PROC",
               "RESUME_PROC", "DEV_OPEN", "DEV_READ", "DEV_WRITE", "GET_TICKS"},
         on : {"file", "tty"},
         proc : Procs \union {NO_TASK},
         cnt : 0..(MaxCount + MaxSectors)]

Msg(op, on, proc, cnt) == [op |-> op, on |-> on, proc |-> proc, cnt |-> cnt]

NoJob == [source |-> NO_TASK, type |-> Msg("OPEN", "file", NO_TASK, 0)]

NoReader == [proc |-> NO_TASK, left |-> 0, trans |-> 0]

VARIABLES
  status, partner, waiting, inbox, pending,   (* the kernel: Rendezvous    *)
  pc,           (* where each process is in its loop                       *)
  job,          (* the message a process works on, with its source         *)
  transfers,    (* sector transfers FS has still to make for its job       *)
  sectors,      (* sectors HD has still to move for its job                *)
  device,       (* what the disk does                                      *)
  announced,    (* sectors the disk has still to move for its command      *)
  waitfor,      (* the status HD polls for, and whether it has read the    *)
                (* clock once, before its loop                             *)
  kb_in,        (* ring buffer filled by keyboard_handler                  *)
  key_pressed,
  load,         (* bounds of this behaviour: how many keys are pressed,    *)
                (* how many transfers a request costs FS, of how many      *)
                (* sectors each                                            *)
  keys,         (* keys pressed so far: a bound, no state of the program   *)
  ibuf,         (* input buffer of the terminal                            *)
  reader        (* tty_procnr, tty_left_cnt and tty_trans_cnt              *)

kernel == <<status, partner, waiting, inbox, pending>>
keyboard == <<kb_in, key_pressed, keys, load>>
terminal == <<ibuf, reader>>
disk == <<sectors, device, announced, waitfor>>
vars == <<kernel, pc, job, transfers, disk, keyboard, terminal>>

K == INSTANCE Rendezvous WITH Types <- Body

(* TTY has initialised its screen, HD its handler; FS has still to open    *)
(* the disk and to read the super block (init_fs).                         *)
Init ==
  /\ K!Init
  /\ pc = [p \in Procs |-> CASE p = Shell -> "run"
                             [] p = FS -> "init"
                             [] p = TTY -> "read_keys"
                             [] OTHER -> "receive"]
  /\ job = [p \in Procs |-> NoJob]
  /\ transfers = 0
  /\ sectors = 0 /\ device = "idle" /\ announced = 0
  /\ waitfor = [mask |-> "BSY", started |-> FALSE]
  /\ kb_in = <<>> /\ key_pressed = FALSE /\ keys = 0 /\ load \in Loads
  /\ ibuf = <<>> /\ reader = NoReader

-----------------------------------------------------------------------------
(* Calls of the kernel.  *)

At(p, point) == pc[p] = point /\ status[p] = "ready"

Go(p, point) == pc' = [pc EXCEPT ![p] = point]

Send(p, to, m, point) ==
  /\ K!SendWait(p, to, m) \/ K!SendDeliver(p, to, m)
  /\ Go(p, point)

Receive(p, from, point) ==
  /\ \/ K!ReceiveTake(p, from)
     \/ K!ReceiveWait(p, from)
     \/ from \in {ANY, INTERRUPT} /\ K!ReceiveInterrupt(p)
  /\ Go(p, point)

(* Process p looks at the message it received and starts to work on it.  *)
Accept(p, newJob, point) ==
  /\ K!Reuse(p)
  /\ job' = [job EXCEPT ![p] = newJob]
  /\ Go(p, point)

-----------------------------------------------------------------------------
(* The shell (TestA): send_recv(BOTH, ...) with one request at a time, to  *)
(* FS, or to SYS for get_ticks.                                            *)

Requests ==
  {Msg(op, "file", NO_TASK, 0) : op \in {"READ", "GET_TICKS"}}
    \union {Msg("OPEN", "tty", NO_TASK, 0)}
    \union {Msg(op, "tty", NO_TASK, n) : op \in {"READ", "WRITE"}, n \in 1..MaxCount}

Server(m) == IF m.op = "GET_TICKS" THEN SYS ELSE FS

ShellCall ==
  /\ At(Shell, "run")
  /\ \E m \in Requests :
       /\ job' = [job EXCEPT ![Shell] = [source |-> Shell, type |-> m]]
       /\ Send(Shell, Server(m), m, "await")
  /\ UNCHANGED <<transfers, disk, keyboard, terminal>>

ShellAwait ==
  /\ At(Shell, "await") /\ Receive(Shell, Server(job[Shell].type), "answered")
  /\ UNCHANGED <<job, transfers, disk, keyboard, terminal>>

ShellReturn ==
  /\ At(Shell, "answered")
  /\ Accept(Shell, NoJob, "run")
  /\ UNCHANGED <<transfers, disk, keyboard, terminal>>

ShellStep == ShellCall \/ ShellAwait \/ ShellReturn

-----------------------------------------------------------------------------
(* task_fs.  *)

(* init_fs: open the disk, then some transfers.  *)
FSInit ==
  /\ At(FS, "init")
  /\ Send(FS, HD, Msg("DEV_OPEN", "file", NO_TASK, 0), "hd_await")
  /\ transfers' \in 0..load.transfers
  /\ UNCHANGED <<job, disk, keyboard, terminal>>

FSReceive ==
  /\ At(FS, "receive") /\ Receive(FS, ANY, "got")
  /\ UNCHANGED <<job, transfers, disk, keyboard, terminal>>

(* Fault: the reply goes to the sender.  *)
FSResumeToSender ==
  /\ At(FS, "got") /\ inbox[FS].type.op = "RESUME_PROC"
  /\ Accept(FS, inbox[FS], "reply")
  /\ UNCHANGED <<transfers, disk, keyboard, terminal>>

(* RESUME_PROC: reply to the process TTY names, not to TTY.  *)
FSResume ==
  /\ At(FS, "got") /\ inbox[FS].type.op = "RESUME_PROC"
  /\ Accept(FS, [inbox[FS] EXCEPT !.source = inbox[FS].type.proc], "reply")
  /\ UNCHANGED <<transfers, disk, keyboard, terminal>>

(* do_rdwt of a terminal.  *)
FSTerminal ==
  /\ At(FS, "got")
  /\ inbox[FS].type.op \in {"READ", "WRITE"} /\ inbox[FS].type.on = "tty"
  /\ Accept(FS, inbox[FS], "tty")
  /\ UNCHANGED <<transfers, disk, keyboard, terminal>>

FSRequest ==
  /\ At(FS, "got")
  /\ inbox[FS].type.op = "OPEN" \/ inbox[FS].type.on = "file"
  /\ Accept(FS, inbox[FS], "work")
  /\ transfers' \in 0..load.transfers
  /\ UNCHANGED <<disk, keyboard, terminal>>

(* rw_sector.  *)
FSTransfer ==
  /\ At(FS, "work") /\ transfers > 0
  /\ transfers' = transfers - 1
  /\ \E op \in {"DEV_READ", "DEV_WRITE"}, n \in 1..load.sectors :
       Send(FS, HD, Msg(op, "file", FS, n), "hd_await")
  /\ UNCHANGED <<job, disk, keyboard, terminal>>

FSDiskAwait ==
  /\ At(FS, "hd_await") /\ Receive(FS, HD, "hd_got")
  /\ UNCHANGED <<job, transfers, disk, keyboard, terminal>>

FSDiskDone ==
  /\ At(FS, "hd_got") /\ Accept(FS, job[FS], "work")
  /\ UNCHANGED <<transfers, disk, keyboard, terminal>>

(* do_open of a terminal asks TTY after it has found the file.  *)
FSWorkDone ==
  /\ At(FS, "work") /\ transfers = 0
  /\ Go(FS, CASE job[FS] = NoJob -> "receive"
              [] job[FS].type.on = "tty" -> "tty"
              [] OTHER -> "reply")
  /\ UNCHANGED <<kernel, job, transfers, disk, keyboard, terminal>>

DeviceType(op) ==
  CASE op = "OPEN" -> "DEV_OPEN" [] op = "READ" -> "DEV_READ" [] OTHER -> "DEV_WRITE"

FSTty ==
  /\ At(FS, "tty")
  /\ Send(FS, TTY, Msg(DeviceType(job[FS].type.op), "tty", job[FS].source,
                       job[FS].type.cnt), "tty_await")
  /\ UNCHANGED <<job, transfers, disk, keyboard, terminal>>

FSTtyAwait ==
  /\ At(FS, "tty_await") /\ Receive(FS, TTY, "tty_got")
  /\ UNCHANGED <<job, transfers, disk, keyboard, terminal>>

(* do_rdwt passes fs_msg itself to TTY, whose answer overwrites it; the    *)
(* source of the request was saved.                                        *)
FSTtyDone ==
  /\ At(FS, "tty_got")
  /\ Accept(FS, IF job[FS].type.op = "OPEN" THEN job[FS]
                ELSE [job[FS] EXCEPT !.type = inbox[FS].type], "reply")
  /\ UNCHANGED <<transfers, disk, keyboard, terminal>>

(* Fault: a suspended process is answered like any other.  *)
FSReplyAlways ==
  /\ At(FS, "reply")
  /\ Send(FS, job[FS].source,
          Msg("SYSCALL_RET", job[FS].type.on, NO_TASK, job[FS].type.cnt), "receive")
  /\ job' = [job EXCEPT ![FS] = NoJob]
  /\ UNCHANGED <<transfers, disk, keyboard, terminal>>

FSReply ==
  /\ At(FS, "reply") /\ job[FS].type.op # "SUSPEND_PROC"
  /\ Send(FS, job[FS].source,
          Msg("SYSCALL_RET", job[FS].type.on, NO_TASK, job[FS].type.cnt), "receive")
  /\ job' = [job EXCEPT ![FS] = NoJob]
  /\ UNCHANGED <<transfers, disk, keyboard, terminal>>

FSSuspend ==
  /\ At(FS, "reply") /\ job[FS].type.op = "SUSPEND_PROC"
  /\ Go(FS, "receive")
  /\ job' = [job EXCEPT ![FS] = NoJob]
  /\ UNCHANGED <<kernel, transfers, disk, keyboard, terminal>>

FSStep ==
  \/ FSInit \/ FSReceive \/ FSResume \/ FSTerminal \/ FSRequest
  \/ FSTransfer \/ FSDiskAwait \/ FSDiskDone \/ FSWorkDone
  \/ FSTty \/ FSTtyAwait \/ FSTtyDone \/ FSReply \/ FSSuspend

-----------------------------------------------------------------------------
(* task_hd.  *)

HDReceive ==
  /\ At(HD, "receive") /\ Receive(HD, ANY, "got")
  /\ UNCHANGED <<job, transfers, disk, keyboard, terminal>>

(* The call waitfor(mask, ...) starts by asking SYS for the time.  *)
Poll(mask) == waitfor' = [mask |-> mask, started |-> FALSE]

(* DEV_OPEN identifies the disk and reads its partition tables with one    *)
(* command for each sector.  The loop knows no HARD_INT: it spins.         *)
HDDispatch ==
  /\ At(HD, "got")
  /\ IF inbox[HD].source = INTERRUPT
     THEN Accept(HD, NoJob, "spin") /\ UNCHANGED <<sectors, waitfor>>
     ELSE /\ Accept(HD, inbox[HD], "ask")
          /\ Poll("BSY")
          /\ sectors' \in IF inbox[HD].type.op = "DEV_OPEN" THEN 2..load.sectors
                          ELSE {inbox[HD].type.cnt}
  /\ UNCHANGED <<transfers, device, announced, keyboard, terminal>>

HDAsk ==
  /\ At(HD, "ask") /\ Send(HD, SYS, Msg("GET_TICKS", "file", NO_TASK, 0), "ask_await")
  /\ UNCHANGED <<job, transfers, disk, keyboard, terminal>>

HDAskAwait ==
  /\ At(HD, "ask_await") /\ Receive(HD, SYS, "ticks")
  /\ UNCHANGED <<job, transfers, disk, keyboard, terminal>>

(* Fault: the mask is not looked at.  *)
InStatusAny(mask) == device \in {"data", "drq"}

InStatus(mask) ==
  IF mask = "BSY" THEN device \in {"idle", "data", "drq"} ELSE device \in {"data", "drq"}

(* The loop of waitfor; its timeout, which panics, does not occur.  *)
HDPoll ==
  /\ At(HD, "ticks")
  /\ K!Reuse(HD)
  /\ Go(HD, IF ~(waitfor.started /\ InStatus(waitfor.mask)) THEN "ask"
            ELSE IF waitfor.mask = "BSY" THEN "command" ELSE "port_write")
  /\ waitfor' = [waitfor EXCEPT !.started = TRUE]
  /\ UNCHANGED <<job, transfers, sectors, device, announced, keyboard, terminal>>

(* Fault: the command asks for one sector too many.  *)
HDCommandOneMore ==
  /\ At(HD, "command")
  /\ announced' = IF job[HD].type.op = "DEV_OPEN" THEN 1 ELSE sectors + 1
  /\ IF job[HD].type.op = "DEV_WRITE"
     THEN device' = "prepare" /\ Poll("DRQ") /\ Go(HD, "ask")
     ELSE device' = "fetch" /\ UNCHANGED waitfor /\ Go(HD, "wait")
  /\ UNCHANGED <<kernel, job, transfers, sectors, keyboard, terminal>>

(* The rest of hd_cmd_out.  *)
HDCommand ==
  /\ At(HD, "command")
  /\ announced' = IF job[HD].type.op = "DEV_OPEN" THEN 1 ELSE sectors
  /\ IF job[HD].type.op = "DEV_WRITE"
     THEN device' = "prepare" /\ Poll("DRQ") /\ Go(HD, "ask")
     ELSE device' = "fetch" /\ UNCHANGED waitfor /\ Go(HD, "wait")
  /\ UNCHANGED <<kernel, job, transfers, sectors, keyboard, terminal>>

(* What hd_rdwt, or hd_open, does for the next sector, if there is one.  *)
NextSector ==
  CASE sectors = 1 -> Go(HD, "reply") /\ UNCHANGED waitfor
    [] sectors # 1 /\ job[HD].type.op = "DEV_READ" -> Go(HD, "wait") /\ UNCHANGED waitfor
    [] sectors # 1 /\ job[HD].type.op = "DEV_WRITE" -> Go(HD, "ask") /\ Poll("DRQ")
    [] sectors # 1 /\ job[HD].type.op = "DEV_OPEN" -> Go(HD, "ask") /\ Poll("BSY")

(* Fault: the next sector is written without waiting for the interrupt.    *)
HDPortWriteGoesOn ==
  /\ At(HD, "port_write")
  /\ device' = "store"
  /\ sectors' = sectors - 1
  /\ NextSector
  /\ UNCHANGED <<kernel, job, transfers, announced, keyboard, terminal>>

HDPortWrite ==
  /\ At(HD, "port_write")
  /\ device' = "store"
  /\ Go(HD, "wait")
  /\ UNCHANGED <<kernel, job, transfers, sectors, announced, waitfor, keyboard, terminal>>

(* interrupt_wait.  *)
HDWait ==
  /\ At(HD, "wait") /\ Receive(HD, INTERRUPT, "interrupted")
  /\ UNCHANGED <<job, transfers, disk, keyboard, terminal>>

HDSectorRead ==
  /\ At(HD, "interrupted") /\ job[HD].type.op # "DEV_WRITE"
  /\ K!Reuse(HD)
  /\ device' = IF announced > 1 THEN "fetch" ELSE "idle"
  /\ announced' = announced - 1
  /\ sectors' = sectors - 1
  /\ NextSector
  /\ UNCHANGED <<job, transfers, keyboard, terminal>>

HDSectorWritten ==
  /\ At(HD, "interrupted") /\ job[HD].type.op = "DEV_WRITE"
  /\ K!Reuse(HD)
  /\ sectors' = sectors - 1
  /\ NextSector
  /\ UNCHANGED <<job, transfers, device, announced, keyboard, terminal>>

HDReply ==
  /\ At(HD, "reply")
  /\ Send(HD, job[HD].source, job[HD].type, "receive")
  /\ job' = [job EXCEPT ![HD] = NoJob]
  /\ UNCHANGED <<transfers, disk, keyboard, terminal>>

HDStep ==
  \/ HDReceive \/ HDDispatch \/ HDAsk \/ HDAskAwait \/ HDPoll \/ HDCommand
  \/ HDPortWrite \/ HDWait \/ HDSectorRead \/ HDSectorWritten \/ HDReply

(* The disk, external: a sector it has read, or stored, raises the         *)
(* interrupt that hd_handler answers; that it is ready for the first       *)
(* sector of a write shows only in its status.                             *)
DiskFetched ==
  /\ device = "fetch" /\ device' = "data"
  /\ K!Interrupt(HD)
  /\ UNCHANGED <<pc, job, transfers, sectors, announced, waitfor, keyboard, terminal>>

DiskPrepared ==
  /\ device = "prepare" /\ device' = "drq"
  /\ UNCHANGED <<kernel, pc, job, transfers, sectors, announced, waitfor, keyboard, terminal>>

DiskStored ==
  /\ device = "store"
  /\ device' = IF announced > 1 THEN "drq" ELSE "idle"
  /\ announced' = announced - 1
  /\ K!Interrupt(HD)
  /\ UNCHANGED <<pc, job, transfers, sectors, waitfor, keyboard, terminal>>

DiskStep == DiskFetched \/ DiskPrepared \/ DiskStored

-----------------------------------------------------------------------------
(* task_sys.  *)

SYSReceive ==
  /\ At(SYS, "receive") /\ Receive(SYS, ANY, "got")
  /\ UNCHANGED <<job, transfers, disk, keyboard, terminal>>

SYSGetTicks ==
  /\ At(SYS, "got") /\ Accept(SYS, inbox[SYS], "reply")
  /\ UNCHANGED <<transfers, disk, keyboard, terminal>>

SYSReply ==
  /\ At(SYS, "reply")
  /\ Send(SYS, job[SYS].source, job[SYS].type, "receive")
  /\ job' = [job EXCEPT ![SYS] = NoJob]
  /\ UNCHANGED <<transfers, disk, keyboard, terminal>>

SYSStep == SYSReceive \/ SYSGetTicks \/ SYSReply

-----------------------------------------------------------------------------
(* task_tty, with one console, the current one.  *)

(* keyboard_read takes a key out of the ring buffer; put_key drops it when *)
(* the input buffer is full.                                               *)
TTYReadKey ==
  /\ At(TTY, "read_keys") /\ kb_in # <<>>
  /\ kb_in' = Tail(kb_in)
  /\ ibuf' = IF Len(ibuf) < TTY_IN_BYTES THEN Append(ibuf, Head(kb_in)) ELSE ibuf
  /\ UNCHANGED <<kernel, pc, job, transfers, disk, key_pressed, keys, load, reader>>

TTYKeysRead ==
  /\ At(TTY, "read_keys") /\ kb_in = <<>>
  /\ Go(TTY, "write_keys")
  /\ UNCHANGED <<kernel, job, transfers, disk, keyboard, terminal>>

(* Fault: a backspace removes a character that is not there.  *)
TypedBackspaceAlways(ch) ==
  CASE ch = "char" -> [reader EXCEPT !.left = @ - 1, !.trans = @ + 1]
    [] ch = "backspace" -> [reader EXCEPT !.left = @ + 1, !.trans = @ - 1]
    [] OTHER -> reader

(* What a character does to the counters of a process that reads.  *)
Typed(ch) ==
  CASE ch = "char" -> [reader EXCEPT !.left = @ - 1, !.trans = @ + 1]
    [] ch = "backspace" /\ reader.trans > 0 ->
         [reader EXCEPT !.left = @ + 1, !.trans = @ - 1]
    [] OTHER -> reader

(* tty_dev_write; without a reader the character is lost.  *)
TTYWriteKey ==
  /\ At(TTY, "write_keys") /\ ibuf # <<>>
  /\ ibuf' = Tail(ibuf)
  /\ IF reader.left = 0
     THEN UNCHANGED <<pc, reader>>
     ELSE /\ reader' = Typed(Head(ibuf))
          /\ IF Head(ibuf) = "newline" \/ reader'.left = 0
             THEN Go(TTY, "resume") ELSE UNCHANGED pc
  /\ UNCHANGED <<kernel, job, transfers, disk, keyboard>>

(* tty_caller is FS: nobody else sends DEV_READ.  *)
TTYResume ==
  /\ At(TTY, "resume")
  /\ Send(TTY, FS, Msg("RESUME_PROC", "tty", reader.proc, reader.trans), "resumed")
  /\ UNCHANGED <<job, transfers, disk, keyboard, terminal>>

(* Fault: the reader is not forgotten.  *)
TTYResumedKeepsReader ==
  /\ At(TTY, "resumed")
  /\ Go(TTY, "write_keys")
  /\ UNCHANGED <<kernel, job, transfers, disk, keyboard, terminal>>

TTYResumed ==
  /\ At(TTY, "resumed")
  /\ reader' = [reader EXCEPT !.left = 0]
  /\ Go(TTY, "write_keys")
  /\ UNCHANGED <<kernel, job, transfers, disk, keyboard, ibuf>>

TTYReceive ==
  /\ At(TTY, "write_keys") /\ ibuf = <<>>
  /\ Receive(TTY, ANY, "got")
  /\ UNCHANGED <<job, transfers, disk, keyboard, terminal>>

(* Fault: the keys are not looked at after the flag is cleared.  *)
TTYHardIntOnly ==
  /\ At(TTY, "got") /\ inbox[TTY].source = INTERRUPT
  /\ Accept(TTY, NoJob, "write_keys")
  /\ key_pressed' = FALSE
  /\ UNCHANGED <<transfers, disk, kb_in, keys, load, terminal>>

TTYHardInt ==
  /\ At(TTY, "got") /\ inbox[TTY].source = INTERRUPT
  /\ Accept(TTY, NoJob, "read_keys")
  /\ key_pressed' = FALSE
  /\ UNCHANGED <<transfers, disk, kb_in, keys, load, terminal>>

(* tty_do_read: remember who reads, have FS suspend it.  *)
TTYDoRead ==
  /\ At(TTY, "got") /\ inbox[TTY].source # INTERRUPT
  /\ inbox[TTY].type.op = "DEV_READ"
  /\ reader' = [proc |-> inbox[TTY].type.proc, left |-> inbox[TTY].type.cnt, trans |-> 0]
  /\ Accept(TTY, [inbox[TTY] EXCEPT !.type.op = "SUSPEND_PROC"], "reply")
  /\ UNCHANGED <<transfers, disk, keyboard, ibuf>>

(* DEV_OPEN, and tty_do_write.  *)
TTYDoOther ==
  /\ At(TTY, "got") /\ inbox[TTY].source # INTERRUPT
  /\ inbox[TTY].type.op \in {"DEV_OPEN", "DEV_WRITE"}
  /\ Accept(TTY, [inbox[TTY] EXCEPT !.type.op = "SYSCALL_RET"], "reply")
  /\ UNCHANGED <<transfers, disk, keyboard, terminal>>

TTYReply ==
  /\ At(TTY, "reply")
  /\ Send(TTY, job[TTY].source, job[TTY].type, "read_keys")
  /\ job' = [job EXCEPT ![TTY] = NoJob]
  /\ UNCHANGED <<transfers, disk, keyboard, terminal>>

TTYStep ==
  \/ TTYReadKey \/ TTYKeysRead \/ TTYWriteKey \/ TTYResume \/ TTYResumed
  \/ TTYReceive \/ TTYHardInt \/ TTYDoRead \/ TTYDoOther \/ TTYReply

-----------------------------------------------------------------------------
(* Interrupts of the keyboard and of the clock.  *)

(* keyboard_handler.  A key stands for the bytes of its scan code.  *)
KeyPress ==
  /\ keys < load.keys /\ keys' = keys + 1
  /\ \E k \in Keys :
       kb_in' = IF Len(kb_in) < KB_IN_BYTES THEN Append(kb_in, k) ELSE kb_in
  /\ key_pressed' = TRUE
  /\ UNCHANGED <<kernel, pc, job, transfers, disk, terminal, load>>

(* clock_handler, as far as TTY is concerned.  *)
ClockTick ==
  /\ key_pressed
  /\ K!Interrupt(TTY)
  /\ UNCHANGED <<pc, job, transfers, disk, keyboard, terminal>>

-----------------------------------------------------------------------------
Next == ShellStep \/ FSStep \/ TTYStep \/ HDStep \/ SYSStep
          \/ DiskStep \/ KeyPress \/ ClockTick

(* A process that can run does (property WokenRuns of module Sched), the   *)
(* clock ticks and the disk completes its commands.  Nobody has to press a *)
(* key, and the shell need not make another call.                          *)
Fairness ==
  /\ WF_vars(ShellAwait \/ ShellReturn)
  /\ WF_vars(FSStep) /\ WF_vars(TTYStep) /\ WF_vars(HDStep) /\ WF_vars(SYSStep)
  /\ WF_vars(DiskStep) /\ WF_vars(ClockTick)

Spec == Init /\ [][Next]_vars /\ Fairness

-----------------------------------------------------------------------------
(* Properties *)

LoopsTypeOK ==
  /\ pc \in [Procs -> {"run", "await", "answered", "init", "receive", "got", "work",
                       "hd_await", "hd_got", "tty", "tty_await", "tty_got", "reply",
                       "ask", "ask_await", "ticks", "command", "port_write", "wait",
                       "interrupted", "spin", "read_keys", "write_keys", "resume",
                       "resumed"}]
  /\ job \in [Procs -> [source : Procs \union {NO_TASK}, type : Body]]
  /\ transfers \in 0..load.transfers

DiskTypeOK ==
  /\ sectors \in 0..load.sectors /\ announced \in 0..load.sectors
  /\ device \in {"idle", "fetch", "data", "prepare", "drq", "store"}
  /\ waitfor \in [mask : {"BSY", "DRQ"}, started : BOOLEAN]

KeysTypeOK ==
  /\ load \in Loads /\ keys \in 0..load.keys
  /\ Len(kb_in) <= KB_IN_BYTES /\ kb_in \in Seq(Keys) /\ key_pressed \in BOOLEAN

TerminalTypeOK ==
  /\ Len(ibuf) <= TTY_IN_BYTES /\ ibuf \in Seq(Keys)
  /\ reader \in [proc : Procs \union {NO_TASK}, left : 0..MaxCount, trans : 0..MaxCount]

(* Types of the loops' variables; a reader's counters are never negative,  *)
(* whatever is typed (tty_left_cnt, tty_trans_cnt), and neither of the     *)
(* buffers overflows.                                                      *)
TypeOK == LoopsTypeOK /\ DiskTypeOK /\ KeysTypeOK /\ TerminalTypeOK

(* To whom a process that is about to send will send.  *)
Destinations(p) ==
  CASE p = Shell /\ pc[p] = "run" -> {FS, SYS}
    [] p = FS /\ pc[p] = "init" -> {HD}
    [] p = FS /\ pc[p] = "work" /\ transfers > 0 -> {HD}
    [] p = FS /\ pc[p] = "tty" -> {TTY}
    [] p = TTY /\ pc[p] = "resume" -> {FS}
    [] p = HD /\ pc[p] = "ask" -> {SYS}
    [] pc[p] = "reply" /\ job[p].type.op # "SUSPEND_PROC" -> {job[p].source}
    [] p = TTY /\ pc[p] = "reply" -> {FS}
    [] OTHER -> {}

(* No send of a task or of the shell closes a cycle of senders, so that    *)
(* none runs into the panic of msg_send (proc.c, "DEADLOCK"): TTY resumes  *)
(* a reader (tty.c:271) only while FS is not about to send to TTY.         *)
NoDeadlockPanic ==
  \A p \in Procs : status[p] = "ready" =>
    \A d \in Destinations(p) :
      K!Acyclic([status EXCEPT ![p] = "sending"], [partner EXCEPT ![p] = d])

(* Keys never wait in the keyboard's buffer with TTY asleep and the flag   *)
(* that has the clock wake it down (tty.c:116 clears it before the buffer  *)
(* is emptied, keyboard.c:66 raises it after the key is stored).           *)
NoStrandedKey ==
  kb_in # <<>> /\ status[TTY] = "receiving" => key_pressed

(* Process p is waiting for the answer to its request.  *)
Awaits(p) == pc[p] = "await" \/ (pc[p] = "answered" /\ status[p] = "receiving")

(* TTY puts characters only into the buffer of a process that is waiting   *)
(* in its read of the terminal, and has room for all it asked for.         *)
KeysGoToReader ==
  reader.left > 0 /\ pc[TTY] # "resumed" =>
    /\ Awaits(reader.proc)
    /\ job[reader.proc].type.op = "READ" /\ job[reader.proc].type.on = "tty"
    /\ reader.left + reader.trans = job[reader.proc].type.cnt

(* FS answers a process only while it is waiting for the answer.  The      *)
(* answer is a SYSCALL_RET (assert of lib/open.c), a read of the terminal  *)
(* returns no more than was asked for, and TTY's answer to FS keeps the    *)
(* count (assert of read_write.c:70).                                      *)
AnswersMatch ==
  /\ pc[FS] = "reply" /\ job[FS].type.op # "SUSPEND_PROC" => Awaits(job[FS].source)
  /\ pc[Shell] = "answered" /\ status[Shell] = "ready" =>
       LET asked == job[Shell].type
           answer == inbox[Shell]
       IN  /\ answer.source = Server(asked)
           /\ answer.source = FS => answer.type.op = "SYSCALL_RET"
           /\ answer.type.cnt <= asked.cnt
  /\ pc[FS] = "tty_got" /\ status[FS] = "ready" => inbox[FS].type.cnt = job[FS].type.cnt

(* A disk interrupt finds HD waiting for it: none is left over for the     *)
(* main loop, which does not know HARD_INT and spins (hd.c:83), and none   *)
(* arrives while HD waits for SYS (assert of proc.c:587).                  *)
NoStrayDiskInterrupt ==
  /\ pc[HD] # "spin"
  /\ pending[HD] => pc[HD] = "wait"

(* Between two requests the disk and HD agree that nothing is left of a    *)
(* command.                                                                *)
CommandsComplete ==
  pc[HD] \in {"receive", "got", "reply"} => device = "idle" /\ announced = 0

(* Every call of the shell returns: a request is answered, and a read of   *)
(* the terminal, which may wait for keys for ever, ends once a newline is  *)
(* typed, wherever that is on its way, if the input buffer has room.       *)
ReadsTerminal == job[Shell].type.op = "READ" /\ job[Shell].type.on = "tty"

AwaitsAnswer == pc[Shell] = "await" /\ ~ReadsTerminal

NewlineTyped ==
  /\ reader.left > 0 /\ pc[TTY] # "resumed"
  /\ "newline" \in ToSet(kb_in) \union ToSet(ibuf)
  /\ Len(kb_in) + Len(ibuf) <= TTY_IN_BYTES

CallsReturn == (AwaitsAnswer \/ NewlineTyped) ~> pc[Shell] = "run"
=============================================================================
