------------------------- MODULE ServicesInvariant --------------------------
(***************************************************************************)
(* Why the message loops serve each other rightly, for every size of the   *)
(* buffers and every load: one invariant of who may be blocked where, of   *)
(* which messages are on their way, and of who is awaited.  This module    *)
(* has the invariant, the initial state, what the calls of the kernel do   *)
(* to it, and the steps of the shell, SYS and FS; module ServicesProofs    *)
(* has the other steps and what follows.                                   *)
(***************************************************************************)
EXTENDS Services, RemovalLemmas, SequenceTheorems, TLAPS

Mail == [source : Procs, type : Body]

(* The messages that wait for process d.  *)
Queue(d) == {waiting[d][i] : i \in DOMAIN waiting[d]}

KernelTypeOK ==
  /\ status \in [Procs -> {"ready", "sending", "receiving"}]
  /\ partner \in [Procs -> Procs \union {ANY, INTERRUPT, NO_TASK}]
  /\ waiting \in [Procs -> Seq(Mail)]
  /\ inbox \in [Procs -> Mail \union {K!IntMessage, NO_TASK}]
  /\ pending \in [Procs -> BOOLEAN]

(* A message waits once, and its sender is blocked.  *)
MailOfBlocked ==
  \A d \in Procs :
    /\ \A i, j \in DOMAIN waiting[d] :
         waiting[d][i].source = waiting[d][j].source => i = j
    /\ \A m \in Queue(d) : status[m.source] = "sending" /\ partner[m.source] = d

(* Only tasks that are told of interrupts have one pending.  *)
PendingInformed == \A p \in Procs \ Informed : ~pending[p]

(* The message of a process that is blocked in a send waits.               *)
SendersWait ==
  \A p \in Procs :
    status[p] = "sending" =>
      \E d \in Procs : partner[p] = d /\ \E m \in Queue(d) : m.source = p

KernelInv == KernelTypeOK /\ MailOfBlocked /\ PendingInformed /\ SendersWait

-----------------------------------------------------------------------------
(* Process p has a message to look at.  *)
Finds(p, point) == pc[p] = point /\ status[p] = "ready"

(* The points of each loop; for the rest of the types see TypeOK.  *)
Points ==
  /\ pc[Shell] \in {"run", "await", "answered"}
  /\ pc[FS] \in {"init", "receive", "got", "work", "hd_await", "hd_got", "tty",
                 "tty_await", "tty_got", "reply"}
  /\ pc[TTY] \in {"read_keys", "write_keys", "resume", "resumed", "got", "reply"}
  /\ pc[HD] \in {"receive", "got", "ask", "ask_await", "ticks", "command",
                 "port_write", "wait", "interrupted", "reply"}
  /\ pc[SYS] \in {"receive", "got", "reply"}

(* Where a process can be blocked, and on whom.  *)
Stands(p, point, q) == pc[p] = point /\ partner[p] = q

Stances ==
  /\ status[Shell] = "sending" => Stands(Shell, "await", Server(job[Shell].type))
  /\ status[Shell] = "receiving" => Stands(Shell, "answered", Server(job[Shell].type))
  /\ status[FS] = "sending" =>
       Stands(FS, "hd_await", HD) \/ Stands(FS, "tty_await", TTY) \/ Stands(FS, "receive", Shell)
  /\ status[FS] = "receiving" =>
       Stands(FS, "got", ANY) \/ Stands(FS, "hd_got", HD) \/ Stands(FS, "tty_got", TTY)
  /\ status[TTY] = "sending" => Stands(TTY, "read_keys", FS) \/ Stands(TTY, "resumed", FS)
  /\ status[TTY] = "receiving" => Stands(TTY, "got", ANY)
  /\ status[HD] = "sending" => Stands(HD, "ask_await", SYS) \/ Stands(HD, "receive", FS)
  /\ status[HD] = "receiving" =>
       Stands(HD, "got", ANY) \/ Stands(HD, "ticks", SYS) \/ Stands(HD, "interrupted", INTERRUPT)
  /\ status[SYS] = "sending" => Stands(SYS, "receive", Shell) \/ Stands(SYS, "receive", HD)
  /\ status[SYS] = "receiving" => Stands(SYS, "got", ANY)

-----------------------------------------------------------------------------
(* What can be in a message, by its receiver and its sender.  *)

IsRequest(m) == m.source = Shell /\ m.type = job[Shell].type

Answers(body) ==
  /\ body.op \in {"SUSPEND_PROC", "SYSCALL_RET"}
  /\ body.op = "SUSPEND_PROC" => job[FS].type.op = "READ"
  /\ body.cnt = job[FS].type.cnt

IsAnswer(m) == m.source = TTY /\ Answers(m.type)

IsResume(m) ==
  /\ m.source = TTY /\ m.type.op = "RESUME_PROC" /\ m.type.on = "tty"
  /\ m.type.proc = Shell /\ m.type.cnt <= job[Shell].type.cnt

Commands == {"DEV_OPEN", "DEV_READ", "DEV_WRITE"}

ToFS(m) ==
  IsRequest(m) \/ IsAnswer(m) \/ IsResume(m) \/ (m.source = HD /\ m.type.op \in Commands)

IsCommand(m) ==
  /\ m.source = FS /\ m.type.op \in Commands
  /\ m.type.op # "DEV_OPEN" => m.type.cnt \in 1..load.sectors

ToTTY(m) ==
  /\ m.source = FS
  /\ m.type = Msg(DeviceType(job[FS].type.op), "tty", Shell, job[FS].type.cnt)

ToShell(m) ==
  /\ m.source \in {FS, SYS} /\ m.type.cnt <= job[Shell].type.cnt
  /\ m.source = FS => m.type.op = "SYSCALL_RET"

ToSYS(m) == IsRequest(m) \/ m.source = HD

Contents ==
  /\ \A m \in Queue(Shell) : ToShell(m)
  /\ \A m \in Queue(FS) : ToFS(m)
  /\ \A m \in Queue(TTY) : ToTTY(m)
  /\ \A m \in Queue(HD) : IsCommand(m) \/ m.source = SYS
  /\ \A m \in Queue(SYS) : ToSYS(m)

(* What a process can find when it looks at its message.  *)
FoundShell ==
  Finds(Shell, "answered") =>
    inbox[Shell] \in Mail /\ ToShell(inbox[Shell])
      /\ inbox[Shell].source = Server(job[Shell].type)
FoundFS ==
  /\ Finds(FS, "got") =>
       inbox[FS] \in Mail /\ (IsRequest(inbox[FS]) \/ IsResume(inbox[FS]))
  /\ Finds(FS, "tty_got") => inbox[FS] \in Mail /\ IsAnswer(inbox[FS])
FoundTTY ==
  Finds(TTY, "got") =>
    inbox[TTY] = K!IntMessage \/ (inbox[TTY] \in Mail /\ ToTTY(inbox[TTY]))
FoundHD == Finds(HD, "got") => inbox[HD] \in Mail /\ IsCommand(inbox[HD])
FoundSYS == Finds(SYS, "got") => inbox[SYS] \in Mail /\ ToSYS(inbox[SYS])

Found == FoundShell /\ FoundFS /\ FoundTTY /\ FoundHD /\ FoundSYS

(* What the processes work on.  *)
OnTerminal == {"tty", "tty_await", "tty_got"}
OnDisk == {"work", "hd_await", "hd_got"}
OnSectors == {"ask", "ask_await", "ticks", "command", "port_write", "wait", "interrupted"}

Jobs ==
  /\ pc[Shell] # "run" => job[Shell].type \in Requests
  /\ job[FS] = NoJob \/ job[FS].source = Shell
  /\ pc[FS] \in {"init", "receive", "got"} => job[FS] = NoJob
  /\ pc[FS] \in OnDisk \union OnTerminal => job[FS] = NoJob \/ job[FS].type = job[Shell].type
  /\ pc[FS] \in OnTerminal => job[FS].type.on = "tty"
  /\ pc[FS] \in OnTerminal \union {"reply"} => job[FS] # NoJob
  /\ pc[FS] = "reply" => job[FS].type.cnt <= job[Shell].type.cnt
  /\ pc[TTY] = "reply" => job[TTY].source = FS /\ Answers(job[TTY].type)
  /\ pc[HD] \in OnSectors \union {"reply"} =>
       job[HD].source = FS /\ job[HD].type.op \in Commands
  /\ pc[SYS] = "reply" => ToSYS(job[SYS])

-----------------------------------------------------------------------------
(* Client c has made a request of s and asks for the answer next, or does. *)
Calling(c, s) ==
  \/ c = Shell /\ pc[c] = "await" /\ s = Server(job[c].type)
  \/ c = FS /\ <<pc[c], s>> \in {<<"hd_await", HD>>, <<"tty_await", TTY>>}
  \/ c = HD /\ pc[c] = "ask_await" /\ s = SYS

Awaiting(c, s) ==
  \/ status[c] = "ready" /\ Calling(c, s)
  \/ status[c] = "receiving" /\ partner[c] = s

(* Server s works on a request of c.  *)
Serving(s, c) ==
  \/ s = SYS /\ Finds(s, "got") /\ inbox[s].source = c
  \/ s = SYS /\ pc[s] = "reply" /\ job[s].source = c
  \/ s = TTY /\ c = FS /\ ((Finds(s, "got") /\ inbox[s].source = FS) \/ pc[s] = "reply")
  \/ s = HD /\ c = FS /\ (Finds(s, "got") \/ pc[s] \in OnSectors \union {"reply"})

(* The messages that answer a request.  *)
IsReply(c, m) ==
  \/ c = Shell \/ m.source = SYS
  \/ c = FS /\ (m.source = HD \/ (m.source = TTY /\ m.type.op # "RESUME_PROC"))

(* Whoever serves a request is awaited, until the answer is taken.  *)
Served ==
  /\ \A s \in {TTY, HD, SYS}, c \in Procs : Serving(s, c) => Awaiting(c, s)
  /\ \A c \in Procs : \A m \in Queue(c) :
       IsReply(c, m) => status[c] = "ready" /\ Calling(c, m.source)

-----------------------------------------------------------------------------
(* The request of the shell.  FS works on it, or TTY keeps it until a      *)
(* newline, or FS has to answer since TTY told it to.                      *)

(* The answer of TTY is on its way that the reader has to wait.  *)
Suspending ==
  \/ pc[TTY] = "reply" /\ job[TTY].type.op = "SUSPEND_PROC"
  \/ \E m \in Queue(FS) : m.type.op = "SUSPEND_PROC"
  \/ Finds(FS, "tty_got") /\ inbox[FS].type.op = "SUSPEND_PROC"
  \/ pc[FS] = "reply" /\ job[FS].type.op = "SUSPEND_PROC"

FSActive ==
  \/ Finds(FS, "got") /\ inbox[FS].source = Shell
  \/ job[FS] # NoJob /\ ~Suspending

TTYOwes == (reader.left > 0 /\ pc[TTY] # "resumed") \/ pc[TTY] = "resume"

ResumeQueued == \E m \in Queue(FS) : m.type.op = "RESUME_PROC"
ResumeFound == Finds(FS, "got") /\ inbox[FS].type.op = "RESUME_PROC"
Resuming == ResumeQueued \/ ResumeFound

AnsweredOnce ==
  /\ FSActive \/ TTYOwes \/ Resuming => Awaiting(Shell, FS)
  /\ Suspending => TTYOwes \/ Resuming
  /\ ~(FSActive /\ (TTYOwes \/ Resuming)) /\ ~(TTYOwes /\ Resuming)
  /\ ~(ResumeQueued /\ ResumeFound)
  /\ TTYOwes \/ Resuming => \A m \in Queue(Shell) : m.source # FS

ReaderKept ==
  TTYOwes => /\ reader.proc = Shell
             /\ job[Shell].type.op = "READ" /\ job[Shell].type.on = "tty"
             /\ reader.left + reader.trans = job[Shell].type.cnt

-----------------------------------------------------------------------------
(* HD and the disk.  *)

(* The interrupt of the sector has come.  *)
Interrupted == pending[HD] \/ Finds(HD, "interrupted")

SectorOnItsWay ==
  CASE job[HD].type.op = "DEV_WRITE" ->
         IF Interrupted
         THEN announced = sectors - 1 /\ device = IF sectors > 1 THEN "drq" ELSE "idle"
         ELSE announced = sectors /\ device = "store"
    [] OTHER ->
         /\ announced = IF job[HD].type.op = "DEV_OPEN" THEN 1 ELSE sectors
         /\ device = IF Interrupted THEN "data" ELSE "fetch"

DiskInStep ==
  /\ pending[HD] => pc[HD] = "wait"
  /\ pc[HD] \in OnSectors => sectors >= 1
  /\ pc[HD] \in {"receive", "got", "reply", "command"} => device = "idle" /\ announced = 0
  /\ pc[HD] \in {"ask", "ask_await", "ticks"} =>
       IF waitfor.mask = "BSY" THEN device = "idle" /\ announced = 0
       ELSE job[HD].type.op = "DEV_WRITE" /\ device \in {"prepare", "drq"} /\ announced = sectors
  /\ pc[HD] = "port_write" =>
       job[HD].type.op = "DEV_WRITE" /\ device = "drq" /\ announced = sectors
  /\ pc[HD] \in {"wait", "interrupted"} => SectorOnItsWay

(* No key waits for TTY alone.  *)
KeysSeen == kb_in # <<>> /\ ~key_pressed => pc[TTY] = "read_keys"

-----------------------------------------------------------------------------

IInv ==
  /\ KernelInv /\ TypeOK /\ Points /\ Stances /\ Contents /\ Found /\ Jobs
  /\ Served /\ AnsweredOnce /\ ReaderKept /\ DiskInStep /\ KeysSeen
-----------------------------------------------------------------------------
(* The steps of the kernel, by what they do to the processes and to the    *)
(* sets of messages.                                                       *)

Letter(p, m) == [source |-> p, type |-> m]

(* Functions f and g of the processes differ at most in g[p] = v.          *)
Changes(f, g, p, v) == g[p] = v /\ \A q \in Procs : q # p => g[q] = f[q]

Blocked(p, to, m) ==
  /\ p # to /\ ~(status[to] = "receiving" /\ partner[to] \in {p, ANY})
  /\ Changes(status, status', p, "sending")
  /\ Changes(partner, partner', p, to)
  /\ UNCHANGED <<inbox, pending>>
  /\ \A c \in Procs : Queue(c)' = IF c = to THEN Queue(c) \union {Letter(p, m)} ELSE Queue(c)

Passed(p, to, m) ==
  /\ status[to] = "receiving" /\ partner[to] \in {p, ANY}
  /\ Changes(status, status', to, "ready")
  /\ Changes(partner, partner', to, NO_TASK)
  /\ Changes(inbox, inbox', to, Letter(p, m))
  /\ UNCHANGED pending
  /\ \A c \in Procs : Queue(c)' = Queue(c)

Took(d, src, m) ==
  /\ m \in Queue(d) /\ src \in {m.source, ANY}
  /\ Changes(status, status', m.source, "ready")
  /\ Changes(partner, partner', m.source, NO_TASK)
  /\ Changes(inbox, inbox', d, m)
  /\ UNCHANGED pending
  /\ \A c \in Procs : Queue(c)' = IF c = d THEN Queue(c) \ {m} ELSE Queue(c)

Waited(d, src) ==
  /\ \A m \in Queue(d) : src \notin {m.source, ANY}
  /\ Changes(status, status', d, "receiving")
  /\ Changes(partner, partner', d, src)
  /\ UNCHANGED <<inbox, pending>>
  /\ \A c \in Procs : Queue(c)' = Queue(c)

TookInterrupt(d) ==
  /\ pending[d]
  /\ Changes(inbox, inbox', d, K!IntMessage)
  /\ Changes(pending, pending', d, FALSE)
  /\ UNCHANGED <<status, partner>>
  /\ \A c \in Procs : Queue(c)' = Queue(c)

(* Every message that waits has a sender and a body.  *)
LEMMA QueueMail ==
  ASSUME KernelInv, NEW c \in Procs, NEW m \in Queue(c)
  PROVE  m \in Mail /\ m.source \in Procs /\ m.type \in Body
<1>1. waiting[c] \in Seq(Mail)
  BY DEF KernelInv, KernelTypeOK
<1>2. m \in Mail
  BY <1>1 DEF Queue
<1> QED
  BY <1>2 DEF Mail

(* Who keeps the list of senders keeps the set of their messages.  *)
LEMMA QueueSame == \A c : waiting'[c] = waiting[c] => Queue(c)' = Queue(c)
  BY DEF Queue

(* A send to a process that does not expect it blocks the sender.  *)
LEMMA SendBlocks ==
  ASSUME KernelInv, NEW p \in Procs, NEW to \in Procs, NEW m \in Body,
         K!SendWait(p, to, m)
  PROVE  KernelInv' /\ Blocked(p, to, m)
<1> DEFINE q == waiting[to]
           e == Letter(p, m)
<1>1. /\ status[p] = "ready" /\ p # to /\ ~K!Expects(to, p)
      /\ status' = [status EXCEPT ![p] = "sending"]
      /\ partner' = [partner EXCEPT ![p] = to]
      /\ waiting' = [waiting EXCEPT ![to] = Append(q, e)]
      /\ UNCHANGED <<inbox, pending>>
  BY DEF K!SendWait, Letter
<1>2. e \in Mail /\ q \in Seq(Mail)
  BY DEF KernelInv, KernelTypeOK, Letter, Mail
<1>3. /\ Append(q, e) \in Seq(Mail) /\ Len(q) \in Nat
      /\ DOMAIN q = 1..Len(q) /\ DOMAIN Append(q, e) = 1..(Len(q) + 1)
      /\ \A i \in 1..Len(q) : Append(q, e)[i] = q[i]
      /\ Append(q, e)[Len(q) + 1] = e
  BY <1>2, AppendProperties
<1>4. waiting'[to] = Append(q, e) /\ \A c \in Procs : c # to => waiting'[c] = waiting[c]
  BY <1>1 DEF KernelInv, KernelTypeOK
<1> HIDE DEF q, e
<1>5. KernelTypeOK'
  <2>1. waiting' \in [Procs -> Seq(Mail)]
    BY <1>1, <1>3 DEF KernelInv, KernelTypeOK
  <2>2. /\ status' \in [Procs -> {"ready", "sending", "receiving"}]
        /\ partner' \in [Procs -> Procs \union {ANY, INTERRUPT, NO_TASK}]
    BY <1>1 DEF KernelInv, KernelTypeOK
  <2> QED
    BY <1>1, <2>1, <2>2 DEF KernelInv, KernelTypeOK
<1>6. \A c \in Procs : Queue(c)' = IF c = to THEN Queue(c) \union {e} ELSE Queue(c)
  <2>1. Queue(to)' = Queue(to) \union {e}
    <3>1. Queue(to)' = {Append(q, e)[i] : i \in 1..(Len(q) + 1)}
      BY <1>3, <1>4 DEF Queue
    <3>2. Queue(to) = {q[i] : i \in 1..Len(q)}
      BY <1>3 DEF Queue, q
    <3> QED
      BY <1>3, <3>1, <3>2
  <2> QED
    BY <2>1, <1>4, QueueSame
<1>7. \A c \in Procs : \A x \in Queue(c) : x.source # p
  BY <1>1 DEF KernelInv, MailOfBlocked
<1>8. e.source = p
  BY DEF e, Letter
<1>9. MailOfBlocked'
  <2> SUFFICES ASSUME NEW d \in Procs
               PROVE  /\ \A i, j \in DOMAIN waiting'[d] :
                           waiting'[d][i].source = waiting'[d][j].source => i = j
                      /\ \A x \in Queue(d)' : status'[x.source] = "sending"
                                              /\ partner'[x.source] = d
    BY DEF MailOfBlocked
  <2>1. \A i, j \in DOMAIN waiting'[d] :
          waiting'[d][i].source = waiting'[d][j].source => i = j
    <3>1. CASE d # to
      BY <3>1, <1>4 DEF KernelInv, MailOfBlocked
    <3>2. CASE d = to
      <4>1. \A i \in 1..Len(q) : q[i].source # p
        BY <1>3, <1>7 DEF Queue, q
      <4>2. \A i, j \in 1..Len(q) : q[i].source = q[j].source => i = j
        BY <1>3 DEF KernelInv, MailOfBlocked, q
      <4> QED
        BY <3>2, <4>1, <4>2, <1>3, <1>4, <1>8
    <3> QED
      BY <3>1, <3>2
  <2>2. ASSUME NEW x \in Queue(d)'
        PROVE  status'[x.source] = "sending" /\ partner'[x.source] = d
    <3>1. CASE x = e /\ d = to
      BY <3>1, <1>1, <1>8 DEF KernelInv, KernelTypeOK
    <3>2. CASE x \in Queue(d)
      <4>1. x.source # p /\ status[x.source] = "sending" /\ partner[x.source] = d
        BY <3>2, <1>7 DEF KernelInv, MailOfBlocked
      <4>2. x.source \in Procs
        BY <3>2, QueueMail
      <4> QED
        BY <4>1, <4>2, <1>1 DEF KernelInv, KernelTypeOK
    <3> QED
      BY <3>1, <3>2, <1>6
  <2> QED
    BY <2>1, <2>2
<1>10. PendingInformed'
  BY <1>1 DEF KernelInv, PendingInformed
<1>11. SendersWait'
  <2> SUFFICES ASSUME NEW q1 \in Procs, status'[q1] = "sending"
               PROVE  \E d1 \in Procs : partner'[q1] = d1 /\ \E x \in Queue(d1)' : x.source = q1
    BY DEF SendersWait
  <2>1. CASE q1 = p
    <3>1. partner'[q1] = to /\ e \in Queue(to)' /\ e.source = q1
      BY <2>1, <1>1, <1>6, <1>8 DEF KernelInv, KernelTypeOK
    <3> QED
      BY <3>1
  <2>2. CASE q1 # p
    <3>1. partner'[q1] = partner[q1] /\ status[q1] = "sending"
      BY <2>2, <1>1 DEF KernelInv, KernelTypeOK
    <3>2. PICK d1 \in Procs : partner[q1] = d1 /\ \E x \in Queue(d1) : x.source = q1
      BY <3>1 DEF KernelInv, SendersWait
    <3> QED
      BY <3>1, <3>2, <1>6
  <2> QED
    BY <2>1, <2>2
<1> QED
  BY <1>1, <1>5, <1>6, <1>9, <1>10, <1>11 DEF KernelInv, KernelTypeOK, Blocked,
     Changes, K!Expects, e

(* Steps that leave the messages where they are.  *)
LEMMA StatusChanges ==
  ASSUME KernelInv, UNCHANGED waiting,
         NEW p \in Procs, NEW v \in {"ready", "receiving"},
         NEW w \in Procs \union {ANY, INTERRUPT, NO_TASK},
         status[p] # "sending",
         status' = [status EXCEPT ![p] = v], partner' = [partner EXCEPT ![p] = w],
         inbox' \in [Procs -> Mail \union {K!IntMessage, NO_TASK}],
         UNCHANGED pending
  PROVE  KernelInv' /\ \A c \in Procs : Queue(c)' = Queue(c)
<1>1. \A c \in Procs : Queue(c)' = Queue(c)
  BY QueueSame
<1>2. KernelTypeOK'
  BY DEF KernelInv, KernelTypeOK
<1>3. ASSUME NEW d \in Procs, NEW m \in Queue(d)
      PROVE  status'[m.source] = "sending" /\ partner'[m.source] = d
  <2>1. status[m.source] = "sending" /\ partner[m.source] = d /\ m.source # p
    BY DEF KernelInv, MailOfBlocked
  <2>2. m.source \in Procs
    BY QueueMail
  <2> QED
    BY <2>1, <2>2 DEF KernelInv, KernelTypeOK
<1>4. MailOfBlocked'
  BY <1>1, <1>3 DEF KernelInv, MailOfBlocked
<1>5. SendersWait'
  <2> SUFFICES ASSUME NEW q \in Procs, status'[q] = "sending"
               PROVE  \E d1 \in Procs : partner'[q] = d1 /\ \E x \in Queue(d1)' : x.source = q
    BY DEF SendersWait
  <2>1. partner'[q] = partner[q] /\ status[q] = "sending"
    BY DEF KernelInv, KernelTypeOK
  <2> QED
    BY <2>1, <1>1 DEF KernelInv, SendersWait
<1> QED
  BY <1>1, <1>2, <1>4, <1>5 DEF KernelInv, PendingInformed

(* A send to a process that expects it passes the message on.  *)
LEMMA SendPasses ==
  ASSUME KernelInv, NEW p \in Procs, NEW to \in Procs, NEW m \in Body,
         K!SendDeliver(p, to, m)
  PROVE  KernelInv' /\ Passed(p, to, m)
<1>1. /\ status[to] = "receiving" /\ partner[to] \in {p, ANY}
      /\ status' = [status EXCEPT ![to] = "ready"]
      /\ partner' = [partner EXCEPT ![to] = NO_TASK]
      /\ inbox' = [inbox EXCEPT ![to] = Letter(p, m)]
      /\ UNCHANGED <<waiting, pending>>
  BY DEF K!SendDeliver, K!Expects, Letter
<1>2. inbox' \in [Procs -> Mail \union {K!IntMessage, NO_TASK}]
  BY <1>1 DEF KernelInv, KernelTypeOK, Letter, Mail
<1>3. KernelInv' /\ \A c \in Procs : Queue(c)' = Queue(c)
  BY <1>1, <1>2, StatusChanges
<1> QED
  BY <1>1, <1>3 DEF KernelInv, KernelTypeOK, Passed, Changes

(* A receive that finds nothing to take waits.  *)
LEMMA ReceiveWaits ==
  ASSUME KernelInv, NEW d \in Procs, NEW src \in Procs \union {ANY, INTERRUPT},
         K!ReceiveWait(d, src)
  PROVE  KernelInv' /\ Waited(d, src)
<1>1. /\ status[d] = "ready" /\ K!Acceptable(d, src) = {}
      /\ status' = [status EXCEPT ![d] = "receiving"]
      /\ partner' = [partner EXCEPT ![d] = src]
      /\ UNCHANGED <<waiting, inbox, pending>>
  BY DEF K!ReceiveWait
<1>2. KernelInv' /\ \A c \in Procs : Queue(c)' = Queue(c)
  BY <1>1, StatusChanges DEF KernelInv, KernelTypeOK
<1>3. ASSUME NEW m \in Queue(d) PROVE src \notin {m.source, ANY}
  <2>1. waiting[d] \in Seq(Mail)
    BY DEF KernelInv, KernelTypeOK
  <2>2. PICK i \in DOMAIN waiting[d] : m = waiting[d][i]
    BY DEF Queue
  <2>3. 1 \in DOMAIN waiting[d]
    BY <2>1, <2>2
  <2>4. CASE src = ANY
    BY <2>3, <2>4, <1>1 DEF K!Acceptable
  <2>5. CASE src # ANY
    BY <2>2, <2>5, <1>1 DEF K!Acceptable
  <2> QED
    BY <2>4, <2>5
<1> QED
  BY <1>1, <1>2, <1>3 DEF KernelInv, KernelTypeOK, Waited, Changes

(* A receive takes a message out of the list and frees its sender.  *)
LEMMA ReceiveTakes ==
  ASSUME KernelInv, NEW d \in Procs, NEW src \in Procs \union {ANY, INTERRUPT},
         K!ReceiveTake(d, src)
  PROVE  KernelInv' /\ \E m \in Queue(d) : Took(d, src, m)
<1> DEFINE q == waiting[d]
<1>1. q \in Seq(Mail) /\ DOMAIN q = 1..Len(q) /\ Len(q) \in Nat
  BY DEF KernelInv, KernelTypeOK
<1>2. PICK k \in K!Acceptable(d, src) :
        /\ inbox' = [inbox EXCEPT ![d] = q[k]]
        /\ waiting' = [waiting EXCEPT ![d] = RemoveAt(q, k)]
        /\ status' = [status EXCEPT ![q[k].source] = "ready"]
        /\ partner' = [partner EXCEPT ![q[k].source] = NO_TASK]
  <2>1. PICK k \in K!Acceptable(d, src) :
          /\ inbox' = [inbox EXCEPT ![d] = waiting[d][k]]
          /\ waiting' = [waiting EXCEPT ![d] = RemoveAt(@, k)]
          /\ status' = [status EXCEPT ![waiting[d][k].source] = "ready"]
          /\ partner' = [partner EXCEPT ![waiting[d][k].source] = NO_TASK]
    BY DEF K!ReceiveTake, K!RemoveAt, RemoveAt
  <2>2. waiting \in [Procs -> Seq(Mail)]
    BY DEF KernelInv, KernelTypeOK
  <2>3. waiting' = [waiting EXCEPT ![d] = RemoveAt(waiting[d], k)]
    BY <2>1, <2>2
  <2> QED
    BY <2>1, <2>3
<1> DEFINE m == q[k]
           r == RemoveAt(q, k)
<1>3. k \in DOMAIN q /\ src \in {m.source, ANY}
  <2>1. k \in DOMAIN q
    BY <1>2 DEF K!Acceptable
  <2>2. IF src = ANY THEN k = 1 ELSE waiting[d][k].source = src
    BY <1>2 DEF K!Acceptable
  <2> QED
    BY <2>1, <2>2
<1>4. m \in Mail /\ m \in Queue(d) /\ m.source \in Procs
  <2>1. m \in Queue(d)
    BY <1>3 DEF Queue
  <2> QED
    BY <2>1, QueueMail
<1>5. UNCHANGED pending
  BY DEF K!ReceiveTake
<1>6. waiting'[d] = r /\ \A c \in Procs : c # d => waiting'[c] = waiting[c]
  BY <1>2 DEF KernelInv, KernelTypeOK
<1>7. /\ r \in Seq(Mail) /\ DOMAIN r = 1..(Len(q) - 1)
      /\ \A j \in 1..(Len(q) - 1) : r[j] = IF j < k THEN q[j] ELSE q[j + 1]
  BY <1>1, <1>3, RemoveAtProperties
<1>8. \A i, j \in 1..Len(q) : q[i].source = q[j].source => i = j
  BY <1>1 DEF KernelInv, MailOfBlocked
<1> HIDE DEF r, q
<1>9. Queue(d)' = Queue(d) \ {m}
  <2>1. Queue(d)' = {r[j] : j \in 1..(Len(q) - 1)} /\ Queue(d) = {q[i] : i \in 1..Len(q)}
    BY <1>1, <1>6, <1>7 DEF Queue, q
  <2>2. \A j \in 1..(Len(q) - 1) : r[j] \in Queue(d) /\ r[j] # m
    <3> SUFFICES ASSUME NEW j \in 1..(Len(q) - 1) PROVE r[j] \in Queue(d) /\ r[j] # m
      OBVIOUS
    <3>1. CASE j < k
      BY <3>1, <2>1, <1>1, <1>3, <1>7, <1>8
    <3>2. CASE ~(j < k)
      <4>1. j + 1 \in 1..Len(q) /\ j + 1 # k /\ r[j] = q[j + 1]
        BY <3>2, <1>1, <1>3, <1>7
      <4> QED
        BY <4>1, <2>1, <1>1, <1>3, <1>8
    <3> QED
      BY <3>1, <3>2
  <2>3. ASSUME NEW i \in 1..Len(q), q[i] # m
        PROVE  \E j \in 1..(Len(q) - 1) : r[j] = q[i]
    <3>1. CASE i < k
      <4>1. i \in 1..(Len(q) - 1) /\ r[i] = q[i]
        BY <3>1, <1>1, <1>3, <1>7
      <4> QED
        BY <4>1
    <3>2. CASE ~(i < k)
      <4>1. i - 1 \in 1..(Len(q) - 1) /\ ~(i - 1 < k)
        BY <3>2, <2>3, <1>1, <1>3
      <4>2. r[i - 1] = q[i]
        BY <4>1, <1>1, <1>7
      <4> QED
        BY <4>1, <4>2
    <3> QED
      BY <3>1, <3>2
  <2>4. \A x \in Queue(d) : x # m => x \in Queue(d)'
    <3> SUFFICES ASSUME NEW x \in Queue(d), x # m PROVE x \in Queue(d)'
      OBVIOUS
    <3>1. PICK i \in 1..Len(q) : x = q[i]
      BY <2>1
    <3> QED
      BY <2>1, <2>3, <3>1
  <2>5. \A x \in Queue(d)' : x \in Queue(d) /\ x # m
    BY <2>1, <2>2
  <2> QED
    BY <2>4, <2>5
<1>10. \A c \in Procs : Queue(c)' = IF c = d THEN Queue(c) \ {m} ELSE Queue(c)
  BY <1>6, <1>9, QueueSame
<1>11. KernelTypeOK'
  <2>1. waiting' \in [Procs -> Seq(Mail)]
    BY <1>2, <1>7 DEF KernelInv, KernelTypeOK, r, q
  <2>2. /\ status' \in [Procs -> {"ready", "sending", "receiving"}]
        /\ partner' \in [Procs -> Procs \union {ANY, INTERRUPT, NO_TASK}]
    BY <1>2, <1>4 DEF KernelInv, KernelTypeOK
  <2>3. inbox' \in [Procs -> Mail \union {K!IntMessage, NO_TASK}]
    BY <1>2, <1>4 DEF KernelInv, KernelTypeOK
  <2> QED
    BY <1>5, <2>1, <2>2, <2>3 DEF KernelInv, KernelTypeOK
<1>12. MailOfBlocked'
  <2> SUFFICES ASSUME NEW c \in Procs
               PROVE  /\ \A i, j \in DOMAIN waiting'[c] :
                           waiting'[c][i].source = waiting'[c][j].source => i = j
                      /\ \A x \in Queue(c)' : status'[x.source] = "sending"
                                              /\ partner'[x.source] = c
    BY DEF MailOfBlocked
  <2>1. \A i, j \in DOMAIN waiting'[c] :
          waiting'[c][i].source = waiting'[c][j].source => i = j
    <3>1. CASE c # d
      BY <3>1, <1>6 DEF KernelInv, MailOfBlocked
    <3>2. CASE c = d
      <4> SUFFICES ASSUME NEW i \in 1..(Len(q) - 1), NEW j \in 1..(Len(q) - 1),
                          r[i].source = r[j].source
                   PROVE  i = j
        BY <3>2, <1>6, <1>7
      <4> DEFINE f(n) == IF n < k THEN n ELSE n + 1
      <4>1. r[i] = q[f(i)] /\ r[j] = q[f(j)] /\ f(i) \in 1..Len(q) /\ f(j) \in 1..Len(q)
        BY <1>1, <1>3, <1>7
      <4>2. f(i) = f(j)
        BY <4>1, <1>8
      <4> QED
        BY <4>2, <1>1, <1>3
    <3> QED
      BY <3>1, <3>2
  <2>2. ASSUME NEW x \in Queue(c)'
        PROVE  status'[x.source] = "sending" /\ partner'[x.source] = c
    <3>1. x \in Queue(c) /\ status[x.source] = "sending" /\ partner[x.source] = c
      BY <1>10 DEF KernelInv, MailOfBlocked
    <3>2. x \in Mail /\ x.source \in Procs
      BY <3>1, QueueMail
    <3>3. x.source # m.source
      <4>1. CASE c # d
        BY <4>1, <3>1, <1>4 DEF KernelInv, MailOfBlocked
      <4>2. CASE c = d
        <5>1. PICK i \in 1..Len(q) : x = q[i]
          BY <4>2, <3>1, <1>1 DEF Queue, q
        <5>2. x # m
          BY <4>2, <1>9
        <5> QED
          BY <5>1, <5>2, <1>1, <1>3, <1>8
      <4> QED
        BY <4>1, <4>2
    <3> QED
      BY <3>1, <3>2, <3>3, <1>2 DEF KernelInv, KernelTypeOK
  <2> QED
    BY <2>1, <2>2
<1>13. PendingInformed'
  BY <1>5 DEF KernelInv, PendingInformed
<1>14. Took(d, src, m)
  BY <1>2, <1>3, <1>4, <1>5, <1>10 DEF KernelInv, KernelTypeOK, Took, Changes
<1>15. SendersWait'
  <2> SUFFICES ASSUME NEW p \in Procs, status'[p] = "sending"
               PROVE  \E d1 \in Procs : partner'[p] = d1 /\ \E x \in Queue(d1)' : x.source = p
    BY DEF SendersWait
  <2>1. p # m.source /\ status[p] = "sending" /\ partner'[p] = partner[p]
    BY <1>2, <1>4 DEF KernelInv, KernelTypeOK
  <2>2. PICK d1 \in Procs : partner[p] = d1 /\ \E x \in Queue(d1) : x.source = p
    BY <2>1 DEF KernelInv, SendersWait
  <2>3. PICK x \in Queue(d1) : x.source = p
    BY <2>2
  <2>4. x \in Queue(d1)'
    BY <2>1, <2>3, <1>10
  <2> QED
    BY <2>1, <2>2, <2>3, <2>4
<1> QED
  BY <1>4, <1>11, <1>12, <1>13, <1>14, <1>15 DEF KernelInv

(* A receive takes the interrupt that is pending.  *)
LEMMA ReceivesInterrupt ==
  ASSUME KernelInv, NEW d \in Procs, K!ReceiveInterrupt(d)
  PROVE  KernelInv' /\ TookInterrupt(d)
<1>1. /\ pending[d]
      /\ inbox' = [inbox EXCEPT ![d] = K!IntMessage]
      /\ pending' = [pending EXCEPT ![d] = FALSE]
      /\ UNCHANGED <<status, partner, waiting>>
  BY DEF K!ReceiveInterrupt
<1>2. \A c \in Procs : Queue(c)' = Queue(c)
  BY <1>1, QueueSame
<1>3. KernelTypeOK' /\ PendingInformed'
  BY <1>1 DEF KernelInv, KernelTypeOK, PendingInformed
<1>4. MailOfBlocked'
  BY <1>1, <1>2 DEF KernelInv, MailOfBlocked
<1>5. SendersWait'
  BY <1>1, <1>2 DEF KernelInv, SendersWait
<1> QED
  BY <1>1, <1>2, <1>3, <1>4, <1>5 DEF KernelInv, KernelTypeOK, TookInterrupt, Changes

(* A process that has looked at its message gives up the buffer.  *)
LEMMA Reuses ==
  ASSUME KernelInv, NEW p \in Procs, K!Reuse(p)
  PROVE  /\ KernelInv'
         /\ status[p] = "ready" /\ Changes(inbox, inbox', p, NO_TASK)
         /\ UNCHANGED <<status, partner, pending>>
         /\ \A c \in Procs : Queue(c)' = Queue(c)
<1>1. /\ status[p] = "ready" /\ inbox' = [inbox EXCEPT ![p] = NO_TASK]
      /\ UNCHANGED <<status, partner, waiting, pending>>
  BY DEF K!Reuse
<1>2. \A c \in Procs : Queue(c)' = Queue(c)
  BY <1>1, QueueSame
<1>3. KernelTypeOK'
  BY <1>1 DEF KernelInv, KernelTypeOK
<1>4. MailOfBlocked'
  BY <1>1, <1>2 DEF KernelInv, MailOfBlocked
<1>5. SendersWait'
  BY <1>1, <1>2 DEF KernelInv, SendersWait
<1> QED
  BY <1>1, <1>2, <1>3, <1>4, <1>5 DEF KernelInv, KernelTypeOK, PendingInformed, Changes

(* A step that calls nothing of the kernel leaves the messages alone.  *)
LEMMA KernelSame ==
  ASSUME KernelInv, UNCHANGED kernel
  PROVE  /\ KernelInv' /\ UNCHANGED <<status, partner, inbox, pending>>
         /\ \A c \in Procs : Queue(c)' = Queue(c)
<1>1. UNCHANGED <<status, partner, waiting, inbox, pending>>
  BY DEF kernel
<1>2. \A c \in Procs : Queue(c)' = Queue(c)
  BY <1>1, QueueSame
<1>3. SendersWait'
  BY <1>1, <1>2 DEF KernelInv, SendersWait
<1> QED
  BY <1>1, <1>2, <1>3 DEF KernelInv, KernelTypeOK, MailOfBlocked, PendingInformed

(* An interrupt for task t.  *)
Woke(t) ==
  /\ status[t] = "receiving" /\ partner[t] \in {ANY, INTERRUPT}
  /\ Changes(status, status', t, "ready")
  /\ Changes(partner, partner', t, NO_TASK)
  /\ Changes(inbox, inbox', t, K!IntMessage)
  /\ UNCHANGED pending
  /\ \A c \in Procs : Queue(c)' = Queue(c)

Remembered(t) ==
  /\ ~(status[t] = "receiving" /\ partner[t] \in {ANY, INTERRUPT})
  /\ Changes(pending, pending', t, TRUE)
  /\ UNCHANGED <<status, partner, inbox>>
  /\ \A c \in Procs : Queue(c)' = Queue(c)

(* An interrupt wakes the task that is told of it, or stays pending.  *)
LEMMA Interrupts ==
  ASSUME KernelInv, NEW t \in Informed, K!Interrupt(t)
  PROVE  KernelInv' /\ (Woke(t) \/ Remembered(t))
<1>0. t \in Procs
  BY DEF Informed, Procs
<1>1. CASE status[t] = "receiving" /\ partner[t] \in {ANY, INTERRUPT}
  <2>1. /\ status' = [status EXCEPT ![t] = "ready"]
        /\ partner' = [partner EXCEPT ![t] = NO_TASK]
        /\ inbox' = [inbox EXCEPT ![t] = K!IntMessage]
        /\ UNCHANGED <<waiting, pending>>
    BY <1>1 DEF K!Interrupt
  <2>2. inbox' \in [Procs -> Mail \union {K!IntMessage, NO_TASK}]
    BY <2>1, <1>0 DEF KernelInv, KernelTypeOK
  <2>3. KernelInv' /\ \A c \in Procs : Queue(c)' = Queue(c)
    BY <2>1, <2>2, <1>0, <1>1, StatusChanges
  <2> QED
    BY <2>1, <2>3, <1>0, <1>1 DEF KernelInv, KernelTypeOK, Woke, Changes
<1>2. CASE ~(status[t] = "receiving" /\ partner[t] \in {ANY, INTERRUPT})
  <2>1. pending' = [pending EXCEPT ![t] = TRUE] /\ UNCHANGED <<status, partner, waiting, inbox>>
    BY <1>2 DEF K!Interrupt
  <2>2. \A c \in Procs : Queue(c)' = Queue(c)
    BY <2>1, QueueSame
  <2>3. KernelTypeOK' /\ PendingInformed'
    BY <2>1, <1>0 DEF KernelInv, KernelTypeOK, PendingInformed
  <2>4. MailOfBlocked'
    BY <2>1, <2>2 DEF KernelInv, MailOfBlocked
  <2>5. SendersWait'
    BY <2>1, <2>2 DEF KernelInv, SendersWait
  <2> QED
    BY <2>1, <2>2, <2>3, <2>4, <2>5, <1>2 DEF KernelInv, KernelTypeOK, Remembered,
       Changes
<1> QED
  BY <1>1, <1>2

-----------------------------------------------------------------------------
(* The initial states.  *)

(* The processes are five, none of them a source that is no process.  *)
LEMMA ProcsDiffer ==
  /\ Shell \in Procs /\ FS \in Procs /\ TTY \in Procs /\ HD \in Procs /\ SYS \in Procs
  /\ Shell # FS /\ Shell # TTY /\ Shell # HD /\ Shell # SYS
  /\ FS # TTY /\ FS # HD /\ FS # SYS /\ TTY # HD /\ TTY # SYS /\ HD # SYS
  /\ ANY \notin Procs /\ INTERRUPT \notin Procs /\ NO_TASK \notin Procs
  /\ ANY # INTERRUPT /\ NO_TASK # ANY /\ NO_TASK # INTERRUPT
  BY NumbersDiffer DEF Procs

(* Having no job has the type of a job.  *)
LEMMA NoJobType == NoJob \in [source : Procs \union {NO_TASK}, type : Body]
  BY ServicesAssumption DEF NoJob, Msg, Body, MaxSectors

(* The loops start in a state of the invariant.  *)
LEMMA InitIInv == Init => IInv
<1> SUFFICES ASSUME Init PROVE IInv
  OBVIOUS
<1> USE ProcsDiffer
<1>1. /\ status = [p \in Procs |-> "ready"]
      /\ partner = [p \in Procs |-> NO_TASK]
      /\ waiting = [p \in Procs |-> <<>>]
      /\ inbox = [p \in Procs |-> NO_TASK]
      /\ pending = [p \in Procs |-> FALSE]
  BY DEF Init, K!Init
<1>2. \A c \in Procs : Queue(c) = {} /\ status[c] = "ready" /\ ~pending[c]
  BY <1>1 DEF Queue
<1>3. KernelInv
  <2>1. waiting \in [Procs -> Seq(Mail)]
    BY <1>1
  <2>2. KernelTypeOK
    BY <1>1, <2>1 DEF KernelTypeOK
  <2> QED
    BY <1>1, <1>2, <2>2 DEF KernelInv, MailOfBlocked, PendingInformed, SendersWait
<1>4. /\ pc \in [Procs -> {"run", "init", "read_keys", "receive"}]
      /\ pc[Shell] = "run" /\ pc[FS] = "init" /\ pc[TTY] = "read_keys"
      /\ pc[HD] = "receive" /\ pc[SYS] = "receive"
  BY DEF Init
<1>5. job = [p \in Procs |-> NoJob] /\ \A p \in Procs : job[p] = NoJob
  BY DEF Init
<1>6. /\ transfers = 0 /\ sectors = 0 /\ announced = 0 /\ keys = 0
      /\ device = "idle" /\ waitfor = [mask |-> "BSY", started |-> FALSE]
      /\ kb_in = <<>> /\ ibuf = <<>> /\ key_pressed = FALSE /\ load \in Loads
      /\ reader = NoReader
  BY DEF Init
<1>7. TypeOK
  <2>1. load.transfers \in Nat /\ load.sectors \in Nat /\ load.keys \in Nat
    BY <1>6, ServicesAssumption
  <2>2. LoopsTypeOK
    <3>1. job \in [Procs -> [source : Procs \union {NO_TASK}, type : Body]]
      BY <1>5, NoJobType
    <3>2. transfers \in 0..load.transfers
      BY <1>6, <2>1
    <3>3. pc \in [Procs -> {"run", "await", "answered", "init", "receive", "got", "work",
                       "hd_await", "hd_got", "tty", "tty_await", "tty_got", "reply",
                       "ask", "ask_await", "ticks", "command", "port_write", "wait",
                       "interrupted", "spin", "read_keys", "write_keys", "resume",
                       "resumed"}]
      BY <1>4
    <3> QED
      BY <3>1, <3>2, <3>3, Zenon DEF LoopsTypeOK
  <2>3. DiskTypeOK
    BY <1>6, <2>1 DEF DiskTypeOK
  <2>4. KeysTypeOK
    <3>1. keys \in 0..load.keys /\ Len(kb_in) <= KB_IN_BYTES /\ kb_in \in Seq(Keys)
      BY <1>6, <2>1, ServicesAssumption
    <3> QED
      BY <3>1, <1>6, Zenon DEF KeysTypeOK
  <2>5. TerminalTypeOK
    BY <1>6, ServicesAssumption DEF TerminalTypeOK, NoReader
  <2> QED
    BY <2>2, <2>3, <2>4, <2>5 DEF TypeOK
<1>8. Points /\ Stances /\ Contents /\ Found
  BY <1>2, <1>4 DEF Points, Stances, Stands, Contents, Found, FoundShell, FoundFS,
     FoundTTY, FoundHD, FoundSYS, Finds
<1>9. Jobs
  BY <1>4, <1>5 DEF Jobs, OnDisk, OnTerminal, OnSectors
<1>10. Served /\ AnsweredOnce /\ ReaderKept
  <2>1. ~Suspending /\ ~FSActive /\ ~TTYOwes /\ ~Resuming
    BY <1>2, <1>4, <1>5, <1>6 DEF Suspending, FSActive, TTYOwes, Resuming,
       ResumeQueued, ResumeFound, Finds, NoReader
  <2>2. Served
    BY <1>2, <1>4 DEF Served, Serving, Finds, OnSectors
  <2> QED
    BY <2>1, <2>2 DEF AnsweredOnce, ReaderKept, Resuming
<1>11. DiskInStep /\ KeysSeen
  BY <1>2, <1>4, <1>6 DEF DiskInStep, KeysSeen, OnSectors
<1> QED
  BY <1>3, <1>7, <1>8, <1>9, <1>10, <1>11 DEF IInv

-----------------------------------------------------------------------------
(* What the invariant says of messages and of processes at work.  *)

(* What a request of the shell can say.  *)
LEMMA RequestFields ==
  ASSUME NEW r \in Requests
  PROVE  /\ r \in Body /\ r.op \in {"READ", "WRITE", "OPEN", "GET_TICKS"}
         /\ r.on \in {"file", "tty"} /\ r.cnt \in 0..MaxCount /\ r.cnt >= 0
         /\ r.op = "OPEN" => r.on = "tty"
         /\ r.op = "GET_TICKS" => r.on = "file"
         /\ r.op = "READ" /\ r.on = "tty" => r.cnt >= 1
  BY ServicesAssumption DEF Requests, Msg, Body, MaxSectors

(* What the bounds of a behaviour can be.  *)
LEMMA LoadFields ==
  ASSUME IInv
  PROVE  load \in Loads /\ load.keys \in Nat /\ load.transfers \in Nat
         /\ load.sectors \in 2..MaxSectors /\ MaxSectors = 255 /\ MaxCount \in Nat
<1>1. load \in Loads
  BY DEF IInv, TypeOK, KeysTypeOK
<1>2. load \in [keys : Nat, transfers : Nat, sectors : 2..MaxSectors]
  BY <1>1, ServicesAssumption
<1> QED
  BY <1>1, <1>2, ServicesAssumption DEF MaxSectors

(* The sender of a message is blocked at the point where it sent it.  *)
LEMMA Senders ==
  ASSUME IInv, NEW c \in Procs, NEW m \in Queue(c)
  PROVE  /\ m \in Mail /\ m.source \in Procs /\ m.type \in Body
         /\ status[m.source] = "sending" /\ partner[m.source] = c
  BY QueueMail DEF IInv, KernelInv, MailOfBlocked

(* A request that waits for FS.  *)
LEMMA RequestOfShell ==
  ASSUME IInv, NEW m \in Queue(FS), m.source = Shell
  PROVE  /\ pc[Shell] = "await" /\ job[Shell].type \in Requests
         /\ m.type = job[Shell].type /\ m.type.op \in {"OPEN", "READ", "WRITE"}
<1>1. m.type = job[Shell].type
  BY ProcsDiffer DEF IInv, Contents, ToFS, IsRequest, IsAnswer, IsResume
<1>2. status[Shell] = "sending" /\ partner[Shell] = FS
  BY Senders, ProcsDiffer
<1>3. pc[Shell] = "await" /\ Server(job[Shell].type) = FS
  BY <1>2 DEF IInv, Stances, Stands
<1>4. job[Shell].type \in Requests
  BY <1>3 DEF IInv, Jobs
<1> QED
  BY <1>1, <1>3, <1>4, RequestFields, ProcsDiffer DEF Server

(* Nobody answers FS when it has not asked, and nothing is suspended but   *)
(* by its own reply.                                                       *)
LEMMA NobodyAnswersFS ==
  ASSUME IInv, status[FS] # "receiving", pc[FS] \notin {"tty_await", "hd_await"}
  PROVE  /\ pc[TTY] # "reply"
         /\ \A m \in Queue(FS) : m.source = Shell \/ IsResume(m)
         /\ \A m \in Queue(FS) : m.type.op # "SUSPEND_PROC"
<1>1. ~Awaiting(FS, TTY) /\ \A s \in Procs : ~Calling(FS, s)
  BY ProcsDiffer DEF Awaiting, Calling
<1>2. pc[TTY] # "reply"
  BY <1>1, ProcsDiffer DEF IInv, Served, Serving
<1>3. \A m \in Queue(FS) : m.source = Shell \/ IsResume(m)
  <2> SUFFICES ASSUME NEW m \in Queue(FS) PROVE m.source = Shell \/ IsResume(m)
    OBVIOUS
  <2>1. m.source \in Procs
    BY Senders, ProcsDiffer
  <2>2. ~IsReply(FS, m)
    BY <1>1, <2>1, ProcsDiffer DEF IInv, Served
  <2>3. ToFS(m)
    BY DEF IInv, Contents
  <2> QED
    BY <2>2, <2>3 DEF ToFS, IsReply, IsRequest, IsAnswer, Answers
<1>4. \A m \in Queue(FS) : m.type.op # "SUSPEND_PROC"
  BY <1>3, RequestOfShell DEF IsResume
<1> QED
  BY <1>2, <1>3, <1>4

(* While the shell makes no call nobody works for it.  *)
LEMMA ShellIdle ==
  ASSUME IInv, status[Shell] = "ready", pc[Shell] # "await"
  PROVE  /\ \A s \in Procs : ~Awaiting(Shell, s)
         /\ ~FSActive /\ ~TTYOwes /\ ~Resuming /\ ~Suspending /\ job[FS] = NoJob
         /\ ~Finds(FS, "got") /\ Queue(Shell) = {}
         /\ \A c \in Procs : \A m \in Queue(c) : m.source # Shell
         /\ \A m \in Queue(FS) : IsAnswer(m) \/ m.source = HD
         /\ Finds(SYS, "got") => inbox[SYS].source = HD
         /\ pc[SYS] = "reply" => job[SYS].source = HD
<1> USE ProcsDiffer
<1>1. \A s \in Procs : ~Awaiting(Shell, s) /\ ~Calling(Shell, s)
  BY DEF Awaiting, Calling
<1>2. ~FSActive /\ ~TTYOwes /\ ~Resuming /\ ~Suspending
  BY <1>1 DEF IInv, AnsweredOnce
<1>3. job[FS] = NoJob
  BY <1>2 DEF FSActive
<1>4. \A c \in Procs : \A m \in Queue(c) : m.source # Shell
  BY Senders
<1>5. Queue(Shell) = {}
  <2>1. \A m \in Queue(Shell) : FALSE
    BY <1>1, Senders DEF IInv, Served, IsReply
  <2> QED
    BY <2>1
<1>6. ~Finds(FS, "got")
  BY <1>2 DEF IInv, Found, FoundFS, IsRequest, IsResume, FSActive, Resuming, ResumeFound
<1>7. \A m \in Queue(FS) : IsAnswer(m) \/ m.source = HD
  BY <1>2, <1>4 DEF IInv, Contents, ToFS, IsRequest, IsResume, Resuming, ResumeQueued
<1>8. /\ Finds(SYS, "got") => inbox[SYS].source = HD
      /\ pc[SYS] = "reply" => job[SYS].source = HD
  BY <1>1 DEF IInv, Found, FoundSYS, Jobs, ToSYS, IsRequest, Served, Serving
<1> QED
  BY <1>1, <1>2, <1>3, <1>4, <1>5, <1>6, <1>7, <1>8

(* The calls, by what they change.  *)
LEMMA Sent ==
  ASSUME IInv, NEW p \in Procs, NEW to \in Procs, NEW m \in Body, NEW point,
         Send(p, to, m, point)
  PROVE  /\ KernelInv' /\ (Blocked(p, to, m) \/ Passed(p, to, m))
         /\ pc' = [pc EXCEPT ![p] = point] /\ Changes(pc, pc', p, point)
         /\ Letter(p, m) \in Mail
<1>1. KernelInv' /\ (Blocked(p, to, m) \/ Passed(p, to, m))
  BY SendBlocks, SendPasses DEF IInv, Send
<1>2. pc' = [pc EXCEPT ![p] = point]
  BY DEF Send, Go
<1>3. Changes(pc, pc', p, point)
  BY <1>2 DEF IInv, TypeOK, LoopsTypeOK, Changes
<1>4. Letter(p, m) \in Mail
  BY DEF Letter, Mail
<1> QED
  BY <1>1, <1>2, <1>3, <1>4

(* A receive takes a message, waits, or takes an interrupt; the loop goes  *)
(* on to point.                                                            *)
LEMMA Received ==
  ASSUME IInv, NEW d \in Procs, NEW src \in Procs \union {ANY, INTERRUPT}, NEW point,
         Receive(d, src, point)
  PROVE  /\ KernelInv'
         /\ \/ \E m \in Queue(d) : Took(d, src, m)
            \/ Waited(d, src)
            \/ src \in {ANY, INTERRUPT} /\ TookInterrupt(d)
         /\ pc' = [pc EXCEPT ![d] = point] /\ Changes(pc, pc', d, point)
<1>1. K!ReceiveTake(d, src) => KernelInv' /\ \E m \in Queue(d) : Took(d, src, m)
  BY ReceiveTakes DEF IInv
<1>2. K!ReceiveWait(d, src) => KernelInv' /\ Waited(d, src)
  BY ReceiveWaits DEF IInv
<1>3. K!ReceiveInterrupt(d) => KernelInv' /\ TookInterrupt(d)
  BY ReceivesInterrupt DEF IInv
<1>4. pc' = [pc EXCEPT ![d] = point]
  BY DEF Receive, Go
<1>5. Changes(pc, pc', d, point)
  BY <1>4 DEF IInv, TypeOK, LoopsTypeOK, Changes
<1> QED
  BY <1>1, <1>2, <1>3, <1>4, <1>5 DEF Receive

(* A loop that looks at its message gives up the buffer and has a new      *)
(* job.                                                                    *)
LEMMA Accepted ==
  ASSUME IInv, NEW p \in Procs, NEW newJob, NEW point, Accept(p, newJob, point)
  PROVE  /\ KernelInv' /\ status[p] = "ready" /\ UNCHANGED <<status, partner, pending>>
         /\ Changes(inbox, inbox', p, NO_TASK) /\ \A c \in Procs : Queue(c)' = Queue(c)
         /\ pc' = [pc EXCEPT ![p] = point] /\ Changes(pc, pc', p, point)
         /\ job' = [job EXCEPT ![p] = newJob] /\ Changes(job, job', p, newJob)
<1>1. /\ KernelInv' /\ status[p] = "ready" /\ UNCHANGED <<status, partner, pending>>
      /\ Changes(inbox, inbox', p, NO_TASK) /\ \A c \in Procs : Queue(c)' = Queue(c)
  BY Reuses DEF IInv, Accept
<1>2. pc' = [pc EXCEPT ![p] = point] /\ job' = [job EXCEPT ![p] = newJob]
  BY DEF Accept, Go
<1>3. Changes(pc, pc', p, point) /\ Changes(job, job', p, newJob)
  BY <1>2 DEF IInv, TypeOK, LoopsTypeOK, Changes
<1> QED
  BY <1>1, <1>2, <1>3

(* A step that leaves the buffers and the disk alone has only its loop to  *)
(* type.                                                                   *)
LEMMA TypesKept ==
  ASSUME TypeOK, LoopsTypeOK', UNCHANGED <<disk, keyboard, terminal>>
  PROVE  TypeOK'
<1>1. DiskTypeOK' /\ KeysTypeOK' /\ TerminalTypeOK'
  BY Zenon DEF TypeOK, DiskTypeOK, KeysTypeOK, TerminalTypeOK, disk, keyboard, terminal
<1> QED
  BY <1>1 DEF TypeOK

(* A process waits in a list once.  *)
LEMMA OneMail ==
  ASSUME IInv, NEW d \in Procs, NEW x \in Queue(d), NEW y \in Queue(d), x.source = y.source
  PROVE  x = y
  BY DEF IInv, KernelInv, MailOfBlocked, Queue

(* Where a process is when it looks at a message.  *)
Looking == {"got", "answered", "hd_got", "tty_got", "ticks", "interrupted"}

(* When process d takes a message its sender runs on, and is not looking   *)
(* at a message.                                                           *)
LEMMA SenderFreed ==
  ASSUME IInv, NEW d \in Procs, NEW src, NEW m \in Queue(d), Took(d, src, m),
         NEW point, Changes(pc, pc', d, point), UNCHANGED job
  PROVE  /\ \A p \in Procs, x \in Looking : p # d => (Finds(p, x)' <=> Finds(p, x))
         /\ \A c \in Procs, s \in Procs : c # d =>
              /\ Calling(c, s)' <=> Calling(c, s)
              /\ Awaiting(c, s) => Awaiting(c, s)'
         /\ \A c \in Procs : status[c] = "ready" => status'[c] = "ready"
<1>1. m.source \in Procs /\ status[m.source] = "sending"
  BY Senders
<1>2. \A c \in Procs : status'[c] = IF c = m.source THEN "ready" ELSE status[c]
  BY <1>1 DEF Took, Changes
<1>3. \A c \in Procs : c # m.source => partner'[c] = partner[c]
  BY <1>1 DEF Took, Changes
<1>4. pc[m.source] \in {"await", "hd_await", "tty_await", "receive", "read_keys",
                        "resumed", "ask_await"}
  <2>1. Stances
    BY DEF IInv
  <2>2. m.source \in {Shell, FS, TTY, HD, SYS}
    BY <1>1 DEF Procs
  <2> QED
    BY <1>1, <2>1, <2>2 DEF Stances, Stands
<1>5. \A c \in Procs : c # d => pc'[c] = pc[c]
  BY DEF Changes
<1>6. \A p \in Procs, x \in Looking : p # d => (Finds(p, x)' <=> Finds(p, x))
  BY <1>1, <1>2, <1>4, <1>5 DEF Finds, Looking
<1>7. \A c \in Procs, s \in Procs : c # d => (Calling(c, s)' <=> Calling(c, s))
  BY <1>5 DEF Calling
<1>8. \A c \in Procs, s \in Procs : c # d => (Awaiting(c, s) => Awaiting(c, s)')
  BY <1>1, <1>2, <1>3, <1>7 DEF Awaiting
<1> QED
  BY <1>2, <1>6, <1>7, <1>8

(* What HD and the disk do concerns nobody else.  *)
LEMMA DiskFrame ==
  ASSUME IInv, UNCHANGED disk, pc'[HD] = pc[HD], job'[HD] = job[HD],
         pending'[HD] = pending[HD], status'[HD] = "ready" => status[HD] = "ready"
                                       \/ pc[HD] # "interrupted",
         status[HD] = "ready" => status'[HD] = "ready"
  PROVE  DiskInStep'
<1>1. Interrupted' <=> Interrupted
  BY DEF Interrupted, Finds
<1>2. SectorOnItsWay' <=> SectorOnItsWay
  BY <1>1 DEF SectorOnItsWay, disk
<1> QED
  BY <1>2 DEF IInv, DiskInStep, disk

(* The request of the shell is where it was.  *)
LEMMA RequestFrame ==
  ASSUME IInv, pc'[FS] = "reply" <=> pc[FS] = "reply", pc'[TTY] = pc[TTY], job'[FS] = job[FS], job'[TTY] = job[TTY],
         Finds(FS, "got") \/ Finds(FS, "tty_got") => inbox'[FS] = inbox[FS],
         Finds(FS, "got")' <=> Finds(FS, "got"),
         Finds(FS, "tty_got")' <=> Finds(FS, "tty_got"), Queue(FS)' = Queue(FS),
         reader' = reader
  PROVE  /\ FSActive' <=> FSActive
         /\ TTYOwes' <=> TTYOwes
         /\ ResumeQueued' <=> ResumeQueued
         /\ ResumeFound' <=> ResumeFound
         /\ Suspending' <=> Suspending
<1>1. TTYOwes' <=> TTYOwes
  BY DEF TTYOwes
<1>2. /\ ResumeQueued' <=> ResumeQueued
      /\ ResumeFound' <=> ResumeFound
  BY DEF ResumeQueued, ResumeFound
<1>3. Suspending' <=> Suspending
  BY DEF Suspending
<1>4. FSActive' <=> FSActive
  BY <1>3 DEF FSActive
<1> QED
  BY <1>1, <1>2, <1>3, <1>4

(* If the request of the shell is where it was, it is still answered       *)
(* once.                                                                   *)
LEMMA AnsweredFrame ==
  ASSUME IInv, FSActive' <=> FSActive, TTYOwes' <=> TTYOwes,
         ResumeQueued' <=> ResumeQueued, ResumeFound' <=> ResumeFound,
         Suspending' <=> Suspending, reader' = reader, job'[Shell] = job[Shell],
         FSActive \/ TTYOwes \/ Resuming => Awaiting(Shell, FS)',
         \A x \in Queue(Shell)' : x \in Queue(Shell) \/ x.source # FS
  PROVE  AnsweredOnce' /\ ReaderKept'
<1>1. AnsweredOnce'
  BY Zenon DEF IInv, AnsweredOnce, Resuming
<1>2. ReaderKept'
  BY DEF IInv, ReaderKept
<1> QED
  BY <1>1, <1>2

(* Nobody works for FS when it has not asked.  *)
LEMMA NobodyServesFS ==
  ASSUME IInv, status[FS] = "ready", pc[FS] \notin {"tty_await", "hd_await"}
  PROVE  /\ \A s \in Procs : ~Awaiting(FS, s) /\ ~Calling(FS, s)
         /\ \A s \in {TTY, HD, SYS} : ~Serving(s, FS)
         /\ ~(Finds(TTY, "got") /\ inbox[TTY].source = FS) /\ pc[TTY] # "reply"
         /\ \A x \in Queue(TTY) : FALSE
         /\ \A c \in Procs : \A x \in Queue(c) : x.source # FS
         /\ \A x \in Queue(FS) : (x.source = Shell /\ IsRequest(x)) \/ IsResume(x)
         /\ \A x \in Queue(FS) : x.type.op # "SUSPEND_PROC"
<1>1. \A s \in Procs : ~Awaiting(FS, s) /\ ~Calling(FS, s)
  BY ProcsDiffer DEF Awaiting, Calling
<1>2. \A s \in {TTY, HD, SYS} : ~Serving(s, FS)
  BY <1>1, ProcsDiffer DEF IInv, Served
<1>3. ~(Finds(TTY, "got") /\ inbox[TTY].source = FS) /\ pc[TTY] # "reply"
  BY <1>2 DEF Serving
<1>4. \A c \in Procs : \A x \in Queue(c) : x.source # FS
  BY Senders
<1>5. \A x \in Queue(TTY) : FALSE
  BY <1>4, ProcsDiffer DEF IInv, Contents, ToTTY
<1> QED
  BY <1>1, <1>2, <1>3, <1>4, <1>5, NobodyAnswersFS, RequestOfShell DEF IsRequest

(* What neither the kernel nor a loop does changes little.  *)
LEMMA LoopsFrame ==
  ASSUME IInv, UNCHANGED <<kernel, pc, job, load, reader>>
  PROVE  /\ KernelInv' /\ Points' /\ Stances' /\ Contents' /\ Found' /\ Jobs'
         /\ Served' /\ AnsweredOnce' /\ ReaderKept'
<1>1. KernelInv' /\ UNCHANGED <<status, partner, inbox, pending>>
      /\ \A c \in Procs : Queue(c)' = Queue(c)
  BY KernelSame DEF IInv
<1> USE ProcsDiffer
<1>2. Points' /\ Stances'
  BY <1>1 DEF IInv, Points, Stances, Stands
<1>3. Contents'
  BY <1>1 DEF IInv, Contents, ToShell, ToFS, ToTTY, ToSYS, IsCommand, IsRequest,
     IsAnswer, Answers, IsResume
<1>4. Found'
  <2>1. FoundShell' /\ FoundTTY'
    BY <1>1 DEF IInv, Found, FoundShell, FoundTTY, Finds, ToShell, ToTTY
  <2>2. FoundFS' /\ FoundHD' /\ FoundSYS'
    BY <1>1 DEF IInv, Found, FoundFS, FoundHD, FoundSYS, Finds, ToSYS, IsCommand,
       IsRequest, IsAnswer, Answers, IsResume
  <2> QED
    BY <2>1, <2>2 DEF Found
<1>5. Jobs'
  BY <1>1 DEF IInv, Jobs, Answers, ToSYS, IsRequest
<1>6. Served'
  <2>1. /\ \A s \in {TTY, HD, SYS}, c \in Procs : Serving(s, c)' <=> Serving(s, c)
        /\ \A s \in Procs, c \in Procs : (Awaiting(c, s)' <=> Awaiting(c, s)) /\ (Calling(c, s)' <=> Calling(c, s))
    BY <1>1 DEF Serving, Finds, Awaiting, Calling
  <2> QED
    BY <1>1, <2>1, Senders DEF IInv, Served, IsReply
<1>7. AnsweredOnce' /\ ReaderKept'
  <2>1. /\ FSActive' <=> FSActive
        /\ TTYOwes' <=> TTYOwes
        /\ ResumeQueued' <=> ResumeQueued
        /\ ResumeFound' <=> ResumeFound
        /\ Suspending' <=> Suspending
    BY <1>1, RequestFrame DEF Finds
  <2>2. FSActive \/ TTYOwes \/ Resuming => Awaiting(Shell, FS)'
    BY <1>1 DEF IInv, AnsweredOnce, Awaiting, Calling
  <2> QED
    BY <1>1, <2>1, <2>2, AnsweredFrame
<1> QED
  BY <1>1, <1>2, <1>3, <1>4, <1>5, <1>6, <1>7

(* A task that asks for any message takes a pending interrupt first.  *)
LEMMA ReceivedPending ==
  ASSUME IInv, NEW d \in Procs, NEW src \in {ANY, INTERRUPT}, NEW point,
         Receive(d, src, point), pending[d]
  PROVE  TookInterrupt(d)
<1>1. K!ReceiveInterrupt(d)
  BY DEF Receive, K!ReceiveTake, K!ReceiveWait, K!AnswersInterrupt
<1> QED
  BY <1>1, ReceivesInterrupt DEF IInv

(* Where HD is when the disk moves a sector.  *)
LEMMA DiskBusy ==
  ASSUME IInv, device \in {"fetch", "store", "data"}
  PROVE  /\ pc[HD] \in {"wait", "interrupted"} /\ SectorOnItsWay
         /\ sectors >= 1 /\ job[HD].type.op \in Commands /\ job[HD].source = FS
         /\ device \in {"fetch", "store"} => ~Interrupted
         /\ device = "store" <=> (job[HD].type.op = "DEV_WRITE" /\ ~Interrupted)
<1>1. pc[HD] \in {"wait", "interrupted"}
  BY DEF IInv, Points, DiskInStep
<1>2. SectorOnItsWay /\ sectors >= 1 /\ job[HD].type.op \in Commands /\ job[HD].source = FS
  BY <1>1 DEF IInv, DiskInStep, Jobs, OnSectors
<1>3. /\ device \in {"fetch", "store"} => ~Interrupted
      /\ device = "store" <=> (job[HD].type.op = "DEV_WRITE" /\ ~Interrupted)
  BY <1>2 DEF SectorOnItsWay
<1> QED
  BY <1>1, <1>2, <1>3

-----------------------------------------------------------------------------
(* The steps of the shell, of SYS and of FS keep the invariant.  Each      *)
(* lemma has one step for each part of it that the action can disturb.     *)

(* FS answers the shell, which awaits it; the request is over.  *)
LEMMA FSReplyIInv == IInv /\ FSReply => IInv'
<1> SUFFICES ASSUME IInv, FSReply PROVE IInv'
  OBVIOUS
<1> USE ProcsDiffer
<1> DEFINE m == Msg("SYSCALL_RET", job[FS].type.on, NO_TASK, job[FS].type.cnt)
<1>1. /\ pc[FS] = "reply" /\ status[FS] = "ready" /\ job[FS].type.op # "SUSPEND_PROC"
      /\ job' = [job EXCEPT ![FS] = NoJob] /\ Changes(job, job', FS, NoJob)
      /\ UNCHANGED <<transfers, disk, keyboard, terminal>>
      /\ Send(FS, job[FS].source, m, "receive")
  BY DEF FSReply, At, IInv, TypeOK, LoopsTypeOK, Changes
<1>2. job[FS].source = Shell /\ job[FS].type.cnt <= job[Shell].type.cnt
  BY <1>1 DEF IInv, Jobs
<1>3. m \in Body /\ m.op = "SYSCALL_RET" /\ m.cnt = job[FS].type.cnt
  BY DEF IInv, TypeOK, LoopsTypeOK, Msg, Body
<1> HIDE DEF m
<1>4. /\ KernelInv' /\ (Blocked(FS, Shell, m) \/ Passed(FS, Shell, m))
      /\ pc' = [pc EXCEPT ![FS] = "receive"] /\ Changes(pc, pc', FS, "receive")
      /\ Letter(FS, m) \in Mail
  BY <1>1, <1>2, <1>3, Sent
<1>5. FSActive /\ \A x \in Queue(FS) : x.source = Shell \/ IsResume(x)
  BY <1>1, NobodyAnswersFS DEF IInv, Jobs, FSActive, Suspending, Finds
<1>6. Awaiting(Shell, FS) /\ ~TTYOwes /\ ~Resuming /\ pc[TTY] # "reply"
  BY <1>1, <1>5, NobodyAnswersFS DEF IInv, AnsweredOnce
<1>7. \A c \in Procs : \A x \in Queue(c) : x.source # FS
  BY <1>1, Senders
<1>8. TypeOK'
  <2>1. LoopsTypeOK'
    BY <1>1, <1>2, <1>3, <1>4, <1>5, <1>6, <1>7, NoJobType DEF IInv, TypeOK,
       LoopsTypeOK, Mail, keyboard
  <2> QED
    BY <1>1, <1>2, <1>3, <1>4, <1>5, <1>6, <1>7, <2>1, TypesKept DEF IInv
<1>9. Points'
  BY <1>1, <1>2, <1>3, <1>4, <1>5, <1>6, <1>7
  DEF IInv, Points, Changes
<1>10. Stances'
  BY <1>1, <1>2, <1>3, <1>4, <1>5, <1>6, <1>7
  DEF IInv, Stances, Stands, Letter, Blocked, Passed, Changes
<1>11. Contents'
  BY <1>1, <1>2, <1>3, <1>4, <1>5, <1>6, <1>7
  DEF IInv, Contents, Commands, ToShell, ToFS, ToTTY, ToSYS, IsCommand, IsRequest,
     IsAnswer, Answers, IsResume, Letter, Blocked, Passed, Changes, keyboard
<1>12. Found'
  <2>1. FoundShell'
    BY <1>1, <1>2, <1>3, <1>4, <1>5, <1>6, <1>7
    DEF IInv, Jobs, Found, FoundShell, Stances, Stands, Finds, ToShell, Server,
       Letter, Blocked, Passed, Changes
  <2>2. FoundFS'
    BY <1>1, <1>2, <1>3, <1>4, <1>5, <1>6, <1>7
    DEF IInv, Jobs, Found, FoundFS, Stances, Stands, Finds, IsRequest, IsResume,
       IsAnswer, Answers, Letter, Blocked, Passed, Changes
  <2>3. FoundTTY'
    BY <1>1, <1>2, <1>3, <1>4, <1>5, <1>6, <1>7
    DEF IInv, Jobs, Found, FoundTTY, Stances, Stands, Finds, ToTTY, Letter, Blocked,
       Passed, Changes, Served, Serving, Awaiting, Calling
  <2>4. FoundHD'
    BY <1>1, <1>2, <1>3, <1>4, <1>5, <1>6, <1>7
    DEF IInv, Jobs, Found, FoundHD, Stances, Stands, Finds, Commands, IsCommand,
       keyboard, Letter, Blocked, Passed, Changes
  <2>5. FoundSYS'
    BY <1>1, <1>2, <1>3, <1>4, <1>5, <1>6, <1>7
    DEF IInv, Jobs, Found, FoundSYS, Stances, Stands, Finds, ToSYS, IsRequest,
       Letter, Blocked, Passed, Changes
  <2> QED
    BY <2>1, <2>2, <2>3, <2>4, <2>5 DEF Found
<1>13. Jobs'
  BY <1>1, <1>2, <1>3, <1>4, <1>5, <1>6, <1>7
  DEF IInv, Jobs, Answers, IsRequest, ToSYS, OnDisk, OnTerminal, OnSectors, Letter,
     Blocked, Passed, Changes
<1>14. Served'
  BY <1>1, <1>2, <1>3, <1>4, <1>5, <1>6, <1>7
  DEF IInv, Served, Serving, Awaiting, Calling, Finds, IsReply, Stances, Stands,
     OnSectors, Letter, Blocked, Passed, Changes
<1>15. AnsweredOnce' /\ ReaderKept'
  BY <1>1, <1>2, <1>3, <1>4, <1>5, <1>6, <1>7
  DEF IInv, AnsweredOnce, ReaderKept, FSActive, TTYOwes, Resuming, ResumeQueued,
     ResumeFound, Suspending, Awaiting, Calling, Finds, terminal, Letter, Blocked,
     Passed, Changes
<1>16. DiskInStep'
  BY <1>1, <1>2, <1>3, <1>4, <1>5, <1>6, <1>7
  DEF IInv, DiskInStep, SectorOnItsWay, Interrupted, Finds, disk, OnSectors, Letter,
     Blocked, Passed, Changes
<1>17. KeysSeen'
  BY <1>1, <1>2, <1>3, <1>4, <1>5, <1>6, <1>7
  DEF IInv, KeysSeen, keyboard, Letter, Blocked, Passed, Changes
<1> QED
  BY <1>1, <1>2, <1>3, <1>4, <1>5, <1>6, <1>7, <1>8, <1>9, <1>10, <1>11, <1>12,
     <1>13, <1>14, <1>15, <1>16, <1>17 DEF IInv

(* The shell has its answer: nobody works for it any more.  *)
LEMMA ShellReturnIInv == IInv /\ ShellReturn => IInv'
<1> SUFFICES ASSUME IInv, ShellReturn PROVE IInv'
  OBVIOUS
<1> USE ProcsDiffer
<1>1. pc[Shell] = "answered" /\ Accept(Shell, NoJob, "run") /\ UNCHANGED <<transfers, disk, keyboard, terminal>>
  BY DEF ShellReturn, At
<1>2. /\ KernelInv' /\ status[Shell] = "ready" /\ UNCHANGED <<status, partner, pending>>
      /\ Changes(inbox, inbox', Shell, NO_TASK) /\ \A c \in Procs : Queue(c)' = Queue(c)
      /\ pc' = [pc EXCEPT ![Shell] = "run"] /\ Changes(pc, pc', Shell, "run")
      /\ job' = [job EXCEPT ![Shell] = NoJob] /\ Changes(job, job', Shell, NoJob)
  BY <1>1, Accepted
<1>3. /\ \A s \in Procs : ~Awaiting(Shell, s)
      /\ ~FSActive /\ ~TTYOwes /\ ~Resuming /\ ~Suspending /\ job[FS] = NoJob
      /\ ~Finds(FS, "got") /\ Queue(Shell) = {}
      /\ \A c \in Procs : \A x \in Queue(c) : x.source # Shell
      /\ \A x \in Queue(FS) : IsAnswer(x) \/ x.source = HD
      /\ Finds(SYS, "got") => inbox[SYS].source = HD
      /\ pc[SYS] = "reply" => job[SYS].source = HD
  BY <1>1, <1>2, ShellIdle
<1>4. TypeOK'
  <2>1. LoopsTypeOK'
    BY <1>1, <1>2, <1>3, NoJobType DEF IInv, TypeOK, LoopsTypeOK, Mail, keyboard
  <2> QED
    BY <1>1, <1>2, <1>3, <2>1, TypesKept DEF IInv
<1>5. Points'
  BY <1>1, <1>2, <1>3
  DEF IInv, Points, Changes
<1>6. Stances'
  BY <1>1, <1>2, <1>3
  DEF IInv, Stances, Stands, Changes
<1>7. Contents'
  BY <1>1, <1>2, <1>3
  DEF IInv, Contents, Commands, ToShell, ToFS, ToTTY, ToSYS, IsCommand, IsRequest,
     IsAnswer, Answers, IsResume, Changes, keyboard
<1>8. Found'
  <2>1. FoundShell'
    BY <1>1, <1>2, <1>3
    DEF IInv, Jobs, Found, FoundShell, Stances, Stands, Finds, ToShell, Server, Changes
  <2>2. FoundFS'
    BY <1>1, <1>2, <1>3
    DEF IInv, Jobs, Found, FoundFS, Stances, Stands, Finds, IsRequest, IsResume,
       IsAnswer, Answers, Changes
  <2>3. FoundTTY'
    BY <1>1, <1>2, <1>3
    DEF IInv, Jobs, Found, FoundTTY, Stances, Stands, Finds, ToTTY, Changes
  <2>4. FoundHD'
    BY <1>1, <1>2, <1>3
    DEF IInv, Jobs, Found, FoundHD, Stances, Stands, Finds, Commands, IsCommand,
       keyboard, Changes
  <2>5. FoundSYS'
    BY <1>1, <1>2, <1>3
    DEF IInv, Jobs, Found, FoundSYS, Stances, Stands, Finds, ToSYS, IsRequest, Changes
  <2> QED
    BY <2>1, <2>2, <2>3, <2>4, <2>5 DEF Found
<1>9. Jobs'
  BY <1>1, <1>2, <1>3
  DEF IInv, Jobs, Answers, IsRequest, ToSYS, OnDisk, OnTerminal, OnSectors, Changes
<1>10. Served'
  BY <1>1, <1>2, <1>3
  DEF IInv, Served, Serving, Awaiting, Calling, Finds, IsReply, Stances, Stands,
     OnSectors, Changes
<1>11. AnsweredOnce' /\ ReaderKept'
  BY <1>1, <1>2, <1>3
  DEF IInv, AnsweredOnce, ReaderKept, FSActive, TTYOwes, Resuming, ResumeQueued,
     ResumeFound, Suspending, Awaiting, Calling, Finds, terminal, Changes
<1>12. DiskInStep'
  BY <1>1, <1>2, <1>3
  DEF IInv, DiskInStep, SectorOnItsWay, Interrupted, Finds, disk, OnSectors, Changes
<1>13. KeysSeen'
  BY <1>1, <1>2, <1>3
  DEF IInv, KeysSeen, keyboard, Changes
<1> QED
  BY <1>1, <1>2, <1>3, <1>4, <1>5, <1>6, <1>7, <1>8, <1>9, <1>10, <1>11, <1>12, <1>13
     DEF IInv

(* A request reaches a server that does nothing for the shell yet.  *)
LEMMA ShellCallIInv == IInv /\ ShellCall => IInv'
<1> SUFFICES ASSUME IInv, ShellCall PROVE IInv'
  OBVIOUS
<1> USE ProcsDiffer
<1>1. PICK m \in Requests : job' = [job EXCEPT ![Shell] = [source |-> Shell, type |-> m]]
                             /\ Send(Shell, Server(m), m, "await")
  BY DEF ShellCall
<1>2. pc[Shell] = "run" /\ status[Shell] = "ready" /\ UNCHANGED <<transfers, disk, keyboard, terminal>>
  BY DEF ShellCall, At
<1>3. /\ m \in Body /\ Server(m) \in {FS, SYS}
      /\ Changes(job, job', Shell, [source |-> Shell, type |-> m])
  BY <1>1, RequestFields DEF Server, IInv, TypeOK, LoopsTypeOK, Changes
<1>4. /\ KernelInv' /\ (Blocked(Shell, Server(m), m) \/ Passed(Shell, Server(m), m))
      /\ pc' = [pc EXCEPT ![Shell] = "await"] /\ Changes(pc, pc', Shell, "await")
      /\ Letter(Shell, m) \in Mail
  BY <1>1, <1>3, Sent
<1>5. /\ \A s \in Procs : ~Awaiting(Shell, s)
      /\ ~FSActive /\ ~TTYOwes /\ ~Resuming /\ ~Suspending /\ job[FS] = NoJob
      /\ ~Finds(FS, "got") /\ Queue(Shell) = {}
      /\ \A c \in Procs : \A x \in Queue(c) : x.source # Shell
      /\ \A x \in Queue(FS) : IsAnswer(x) \/ x.source = HD
      /\ Finds(SYS, "got") => inbox[SYS].source = HD
      /\ pc[SYS] = "reply" => job[SYS].source = HD
  BY <1>2, ShellIdle
<1>6. m.op \in {"READ", "WRITE", "OPEN", "GET_TICKS"}
  BY RequestFields
<1>7. TypeOK'
  <2>1. LoopsTypeOK'
    BY <1>1, <1>2, <1>3, <1>4, <1>5, <1>6, NoJobType DEF IInv, TypeOK, LoopsTypeOK,
       Mail, keyboard
  <2> QED
    BY <1>1, <1>2, <1>3, <1>4, <1>5, <1>6, <2>1, TypesKept DEF IInv
<1>8. Points'
  BY <1>1, <1>2, <1>3, <1>4, <1>5, <1>6
  DEF IInv, Points, Changes
<1>9. Stances'
  BY <1>1, <1>2, <1>3, <1>4, <1>5, <1>6
  DEF IInv, Stances, Stands, Letter, Blocked, Passed, Changes
<1>10. Contents'
  BY <1>1, <1>2, <1>3, <1>4, <1>5, <1>6
  DEF IInv, Contents, Commands, ToShell, ToFS, ToTTY, ToSYS, IsCommand, IsRequest,
     IsAnswer, Answers, IsResume, Letter, Blocked, Passed, Changes, keyboard
<1>11. Found'
  <2>1. FoundShell'
    BY <1>1, <1>2, <1>3, <1>4, <1>5, <1>6
    DEF IInv, Jobs, Found, FoundShell, Stances, Stands, Finds, ToShell, Server,
       Letter, Blocked, Passed, Changes
  <2>2. FoundFS'
    BY <1>1, <1>2, <1>3, <1>4, <1>5, <1>6
    DEF IInv, Jobs, Found, FoundFS, Stances, Stands, Finds, IsRequest, IsResume,
       IsAnswer, Answers, Letter, Blocked, Passed, Changes
  <2>3. FoundTTY'
    BY <1>1, <1>2, <1>3, <1>4, <1>5, <1>6
    DEF IInv, Jobs, Found, FoundTTY, Stances, Stands, Finds, ToTTY, Letter, Blocked,
       Passed, Changes
  <2>4. FoundHD'
    BY <1>1, <1>2, <1>3, <1>4, <1>5, <1>6
    DEF IInv, Jobs, Found, FoundHD, Stances, Stands, Finds, Commands, IsCommand,
       keyboard, Letter, Blocked, Passed, Changes
  <2>5. FoundSYS'
    BY <1>1, <1>2, <1>3, <1>4, <1>5, <1>6
    DEF IInv, Jobs, Found, FoundSYS, Stances, Stands, Finds, ToSYS, IsRequest,
       Letter, Blocked, Passed, Changes
  <2> QED
    BY <2>1, <2>2, <2>3, <2>4, <2>5 DEF Found
<1>12. Jobs'
  BY <1>1, <1>2, <1>3, <1>4, <1>5, <1>6
  DEF IInv, Jobs, Answers, IsRequest, ToSYS, OnDisk, OnTerminal, OnSectors, Letter,
     Blocked, Passed, Changes
<1>13. Served'
  BY <1>1, <1>2, <1>3, <1>4, <1>5, <1>6
  DEF IInv, Served, Serving, Awaiting, Calling, Finds, IsReply, Stances, Stands,
     OnSectors, Letter, Blocked, Passed, Changes
<1>14. AnsweredOnce' /\ ReaderKept'
  <2>1. ~TTYOwes'
    BY <1>1, <1>2, <1>3, <1>4, <1>5, <1>6 DEF TTYOwes, terminal, Changes
  <2>2. ~Suspending'
    <3>1. \A x \in Queue(FS)' : x.type.op # "SUSPEND_PROC"
      BY <1>1, <1>2, <1>3, <1>4, <1>5, <1>6 DEF Blocked, Passed, Suspending, Letter
    <3>2. ~(Finds(FS, "tty_got") /\ inbox[FS].type.op = "SUSPEND_PROC")'
      BY <1>1, <1>2, <1>3, <1>4, <1>5, <1>6 DEF Blocked, Passed, Changes, Suspending,
         Letter, Finds
    <3> QED
      BY <1>1, <1>2, <1>3, <1>4, <1>5, <1>6, <3>1, <3>2 DEF Suspending, Changes
  <2>3. ~Resuming'
    <3>1. \A x \in Queue(FS)' : x.type.op # "RESUME_PROC"
      BY <1>1, <1>2, <1>3, <1>4, <1>5, <1>6 DEF Blocked, Passed, Resuming,
         ResumeQueued, Letter
    <3>2. ~(Finds(FS, "got") /\ inbox[FS].type.op = "RESUME_PROC")'
      BY <1>1, <1>2, <1>3, <1>4, <1>5, <1>6 DEF Blocked, Passed, Changes, Letter, Finds
    <3> QED
      BY <3>1, <3>2 DEF Resuming, ResumeQueued, ResumeFound
  <2>4. FSActive' => Server(m) = FS /\ status'[Shell] = "ready"
    BY <1>1, <1>2, <1>3, <1>4, <1>5, <1>6 DEF FSActive, Blocked, Passed, Changes, Finds
  <2>5. Server(m) = FS /\ status'[Shell] = "ready" => Awaiting(Shell, FS)'
    BY <1>1, <1>2, <1>3, <1>4, <1>5, <1>6 DEF Awaiting, Calling, Blocked, Passed,
       Changes
  <2> QED
    BY <2>1, <2>2, <2>3, <2>4, <2>5 DEF AnsweredOnce, ReaderKept, Resuming
<1>15. DiskInStep'
  BY <1>1, <1>2, <1>3, <1>4, <1>5, <1>6
  DEF IInv, DiskInStep, SectorOnItsWay, Interrupted, Finds, disk, OnSectors, Letter,
     Blocked, Passed, Changes
<1>16. KeysSeen'
  BY <1>1, <1>2, <1>3, <1>4, <1>5, <1>6
  DEF IInv, KeysSeen, keyboard, Letter, Blocked, Passed, Changes
<1> QED
  BY <1>1, <1>2, <1>3, <1>4, <1>5, <1>6, <1>7, <1>8, <1>9, <1>10, <1>11, <1>12,
     <1>13, <1>14, <1>15, <1>16 DEF IInv

(* SYS turns to a request; its client still awaits it.  *)
LEMMA SYSGetTicksIInv == IInv /\ SYSGetTicks => IInv'
<1> SUFFICES ASSUME IInv, SYSGetTicks PROVE IInv'
  OBVIOUS
<1> USE ProcsDiffer
<1>1. pc[SYS] = "got" /\ Accept(SYS, inbox[SYS], "reply") /\ UNCHANGED <<transfers, disk, keyboard, terminal>>
  BY DEF SYSGetTicks, At
<1>2. /\ KernelInv' /\ status[SYS] = "ready" /\ UNCHANGED <<status, partner, pending>>
      /\ Changes(inbox, inbox', SYS, NO_TASK) /\ \A c \in Procs : Queue(c)' = Queue(c)
      /\ pc' = [pc EXCEPT ![SYS] = "reply"] /\ Changes(pc, pc', SYS, "reply")
      /\ job' = [job EXCEPT ![SYS] = inbox[SYS]] /\ Changes(job, job', SYS, inbox[SYS])
  BY <1>1, Accepted
<1>3. inbox[SYS] \in Mail /\ ToSYS(inbox[SYS])
  BY <1>1, <1>2 DEF IInv, Found, FoundSYS, Finds
<1>4. TypeOK'
  <2>1. LoopsTypeOK'
    BY <1>1, <1>2, <1>3, NoJobType DEF IInv, TypeOK, LoopsTypeOK, Mail, keyboard
  <2> QED
    BY <1>1, <1>2, <1>3, <2>1, TypesKept DEF IInv
<1>5. Points'
  BY <1>1, <1>2, <1>3
  DEF IInv, Points, Changes
<1>6. Stances'
  BY <1>1, <1>2, <1>3
  DEF IInv, Stances, Stands, Changes
<1>7. Contents'
  BY <1>1, <1>2, <1>3
  DEF IInv, Contents, Commands, ToShell, ToFS, ToTTY, ToSYS, IsCommand, IsRequest,
     IsAnswer, Answers, IsResume, Changes, keyboard
<1>8. Found'
  <2>1. FoundShell'
    BY <1>1, <1>2, <1>3
    DEF IInv, Jobs, Found, FoundShell, Stances, Stands, Finds, ToShell, Server, Changes
  <2>2. FoundFS'
    BY <1>1, <1>2, <1>3
    DEF IInv, Jobs, Found, FoundFS, Stances, Stands, Finds, IsRequest, IsResume,
       IsAnswer, Answers, Changes
  <2>3. FoundTTY'
    BY <1>1, <1>2, <1>3
    DEF IInv, Jobs, Found, FoundTTY, Stances, Stands, Finds, ToTTY, Changes
  <2>4. FoundHD'
    BY <1>1, <1>2, <1>3
    DEF IInv, Jobs, Found, FoundHD, Stances, Stands, Finds, Commands, IsCommand,
       keyboard, Changes
  <2>5. FoundSYS'
    BY <1>1, <1>2, <1>3
    DEF IInv, Jobs, Found, FoundSYS, Stances, Stands, Finds, ToSYS, IsRequest, Changes
  <2> QED
    BY <2>1, <2>2, <2>3, <2>4, <2>5 DEF Found
<1>9. Jobs'
  BY <1>1, <1>2, <1>3
  DEF IInv, Jobs, Answers, IsRequest, ToSYS, OnDisk, OnTerminal, OnSectors, Changes
<1>10. Served'
  BY <1>1, <1>2, <1>3
  DEF IInv, Served, Serving, Awaiting, Calling, Finds, IsReply, Stances, Stands,
     OnSectors, Changes
<1>11. AnsweredOnce' /\ ReaderKept'
  BY <1>1, <1>2, <1>3
  DEF IInv, AnsweredOnce, ReaderKept, FSActive, TTYOwes, Resuming, ResumeQueued,
     ResumeFound, Suspending, Awaiting, Calling, Finds, terminal, Changes
<1>12. DiskInStep'
  BY <1>1, <1>2, <1>3
  DEF IInv, DiskInStep, SectorOnItsWay, Interrupted, Finds, disk, OnSectors, Changes
<1>13. KeysSeen'
  BY <1>1, <1>2, <1>3
  DEF IInv, KeysSeen, keyboard, Changes
<1> QED
  BY <1>1, <1>2, <1>3, <1>4, <1>5, <1>6, <1>7, <1>8, <1>9, <1>10, <1>11, <1>12, <1>13
     DEF IInv

(* SYS answers a client that awaits it.  *)
LEMMA SYSReplyIInv == IInv /\ SYSReply => IInv'
<1> SUFFICES ASSUME IInv, SYSReply PROVE IInv'
  OBVIOUS
<1> USE ProcsDiffer
<1> DEFINE m == job[SYS].type
        c == job[SYS].source
<1>1. /\ pc[SYS] = "reply" /\ status[SYS] = "ready" /\ Send(SYS, c, m, "receive")
      /\ job' = [job EXCEPT ![SYS] = NoJob] /\ Changes(job, job', SYS, NoJob)
      /\ UNCHANGED <<transfers, disk, keyboard, terminal>>
  BY DEF SYSReply, At, IInv, TypeOK, LoopsTypeOK, Changes
<1>2. c \in {Shell, HD} /\ m \in Body
  BY <1>1 DEF IInv, Jobs, ToSYS, IsRequest, TypeOK, LoopsTypeOK
<1>3. Awaiting(c, SYS)
  BY <1>1, <1>2 DEF IInv, Served, Serving
<1>4. c = Shell => m.cnt <= job[Shell].type.cnt
  BY <1>1 DEF IInv, Jobs, ToSYS, IsRequest, TypeOK, LoopsTypeOK, Body
<1>5. \A x \in Procs : \A l \in Queue(x) : l.source # SYS
  BY <1>1, Senders
<1> HIDE DEF m, c
<1>6. /\ KernelInv' /\ (Blocked(SYS, c, m) \/ Passed(SYS, c, m))
      /\ pc' = [pc EXCEPT ![SYS] = "receive"] /\ Changes(pc, pc', SYS, "receive")
      /\ Letter(SYS, m) \in Mail
  BY <1>1, <1>2, Sent
<1>7. TypeOK'
  <2>1. LoopsTypeOK'
    BY <1>1, <1>2, <1>3, <1>4, <1>5, <1>6, NoJobType DEF IInv, TypeOK, LoopsTypeOK,
       Mail, keyboard
  <2> QED
    BY <1>1, <1>2, <1>3, <1>4, <1>5, <1>6, <2>1, TypesKept DEF IInv
<1>8. Points'
  BY <1>1, <1>2, <1>3, <1>4, <1>5, <1>6
  DEF IInv, Points, Changes
<1>9. Stances'
  BY <1>1, <1>2, <1>3, <1>4, <1>5, <1>6
  DEF IInv, Stances, Stands, Letter, Blocked, Passed, Changes
<1>10. Contents'
  BY <1>1, <1>2, <1>3, <1>4, <1>5, <1>6
  DEF IInv, Contents, Commands, ToShell, ToFS, ToTTY, ToSYS, IsCommand, IsRequest,
     IsAnswer, Answers, IsResume, Letter, Blocked, Passed, Changes, keyboard
<1>11. Found'
  <2>1. FoundShell'
    BY <1>1, <1>2, <1>3, <1>4, <1>5, <1>6
    DEF IInv, Jobs, Found, FoundShell, Stances, Stands, Finds, ToShell, Server,
       Letter, Blocked, Passed, Changes
  <2>2. FoundFS'
    BY <1>1, <1>2, <1>3, <1>4, <1>5, <1>6
    DEF IInv, Jobs, Found, FoundFS, Stances, Stands, Finds, IsRequest, IsResume,
       IsAnswer, Answers, Letter, Blocked, Passed, Changes
  <2>3. FoundTTY'
    BY <1>1, <1>2, <1>3, <1>4, <1>5, <1>6
    DEF IInv, Jobs, Found, FoundTTY, Stances, Stands, Finds, ToTTY, Letter, Blocked,
       Passed, Changes
  <2>4. FoundHD'
    BY <1>1, <1>2, <1>3, <1>4, <1>5, <1>6
    DEF IInv, Jobs, Found, FoundHD, Stances, Stands, Finds, Commands, IsCommand,
       keyboard, Letter, Blocked, Passed, Changes, Awaiting
  <2>5. FoundSYS'
    BY <1>1, <1>2, <1>3, <1>4, <1>5, <1>6
    DEF IInv, Jobs, Found, FoundSYS, Stances, Stands, Finds, ToSYS, IsRequest,
       Letter, Blocked, Passed, Changes
  <2> QED
    BY <2>1, <2>2, <2>3, <2>4, <2>5 DEF Found
<1>12. Jobs'
  BY <1>1, <1>2, <1>3, <1>4, <1>5, <1>6
  DEF IInv, Jobs, Answers, IsRequest, ToSYS, OnDisk, OnTerminal, OnSectors, Letter,
     Blocked, Passed, Changes
<1>13. Served'
  BY <1>1, <1>2, <1>3, <1>4, <1>5, <1>6
  DEF IInv, Served, Serving, Awaiting, Calling, Finds, IsReply, Stances, Stands,
     OnSectors, Letter, Blocked, Passed, Changes
<1>14. AnsweredOnce' /\ ReaderKept'
  BY <1>1, <1>2, <1>3, <1>4, <1>5, <1>6
  DEF IInv, AnsweredOnce, ReaderKept, FSActive, TTYOwes, Resuming, ResumeQueued,
     ResumeFound, Suspending, Awaiting, Calling, Finds, terminal, Letter, Blocked,
     Passed, Changes
<1>15. DiskInStep'
  BY <1>1, <1>2, <1>3, <1>4, <1>5, <1>6, DiskFrame DEF Blocked, Passed, Changes,
     IInv, Stances, Stands
<1>16. KeysSeen'
  BY <1>1, <1>2, <1>3, <1>4, <1>5, <1>6
  DEF IInv, KeysSeen, keyboard, Letter, Blocked, Passed, Changes
<1> QED
  BY <1>1, <1>2, <1>3, <1>4, <1>5, <1>6, <1>7, <1>8, <1>9, <1>10, <1>11, <1>12,
     <1>13, <1>14, <1>15, <1>16 DEF IInv

(* The shell takes the answer, or waits for it.  *)
LEMMA ShellAwaitIInv == IInv /\ ShellAwait => IInv'
<1> SUFFICES ASSUME IInv, ShellAwait PROVE IInv'
  OBVIOUS
<1> USE ProcsDiffer
<1>1. /\ pc[Shell] = "await" /\ status[Shell] = "ready" /\ Receive(Shell, Server(job[Shell].type), "answered")
      /\ UNCHANGED <<job, transfers, disk, keyboard, terminal>>
  BY DEF ShellAwait, At
<1>2. Server(job[Shell].type) \in Procs \union {ANY, INTERRUPT}
  BY DEF Server
<1>3. /\ KernelInv'
      /\ (\E m \in Queue(Shell) : Took(Shell, Server(job[Shell].type), m)) \/ Waited(Shell, Server(job[Shell].type))
      /\ pc' = [pc EXCEPT ![Shell] = "answered"] /\ Changes(pc, pc', Shell, "answered")
  BY <1>1, <1>2, Received DEF IInv, KernelInv, PendingInformed, TookInterrupt, Informed
<1>4. TypeOK'
  <2>1. LoopsTypeOK'
    BY <1>1, <1>3 DEF IInv, TypeOK, LoopsTypeOK, keyboard
  <2> QED
    BY <1>1, <2>1, TypesKept DEF IInv
<1>5. Points'
  BY <1>3 DEF IInv, Points, Changes
<1>6. ASSUME NEW m \in Queue(Shell), Took(Shell, Server(job[Shell].type), m) PROVE IInv'
  <2>1. m.source \in Procs /\ m \in Mail /\ status[m.source] = "sending" /\ partner[m.source] = Shell
    BY Senders
  <2>2. /\ \A x \in Looking : \A q \in Procs : q # Shell => (Finds(q, x)' <=> Finds(q, x))
        /\ \A c \in Procs, s \in Procs : c # Shell =>
                /\ Calling(c, s)' <=> Calling(c, s)
                /\ Awaiting(c, s) => Awaiting(c, s)'
        /\ \A c \in Procs : status[c] = "ready" => status'[c] = "ready"
        /\ \A x \in Queue(Shell) : x.source = m.source => x = m
    BY <1>1, <1>3, <1>6, SenderFreed, OneMail
  <2>3. ToShell(m) /\ m.source = Server(job[Shell].type) /\ m.source \in {FS, SYS}
    BY <1>2, <1>6 DEF IInv, Contents, Took, ToShell, Server
  <2>4. IsReply(Shell, m) /\ \A x \in Queue(Shell) : x = m
    BY <2>1, <2>2, <2>3, Senders DEF IInv, Served, IsReply, Calling, Server
  <2>5. \A s \in {TTY, HD, SYS} : ~Serving(s, Shell)
    BY <2>1, <2>3, <1>1 DEF IInv, Served, Serving, Awaiting, Calling, Stances,
       Stands, Finds
  <2>6. FSActive \/ TTYOwes \/ Resuming => FALSE
    BY <1>1, <2>1, <2>3 DEF IInv, AnsweredOnce, FSActive, Awaiting, Calling, Stances,
       Stands, Finds, Jobs, NoJob
  <2>7. Stances'
    BY <1>1, <1>3, <1>4, <1>5, <1>6, <2>1, <2>2, <2>3, <2>4, <2>5, <2>6
    DEF IInv, Stances, Stands, Took, Changes
  <2>8. Contents'
    BY <1>1, <1>3, <1>4, <1>5, <1>6, <2>1, <2>2, <2>3, <2>4, <2>5, <2>6
    DEF IInv, Contents, Commands, ToShell, ToFS, ToTTY, ToSYS, IsCommand, IsRequest,
       IsAnswer, Answers, IsResume, Took, Changes, keyboard
  <2>9. Found'
    <3>1. FoundShell' /\ FoundFS' /\ FoundTTY' /\ FoundHD' /\ FoundSYS'
      <4>1. {"got", "answered", "tty_got"} \subseteq Looking
        BY DEF Looking
      <4>2. FoundShell'
        BY <1>1, <1>3, <1>4, <1>5, <1>6, <2>1, <2>2, <2>3, <2>4, <2>5, <2>6, <4>1
        DEF IInv, Found, Took, Changes, FoundShell, ToShell
      <4>3. FoundFS'
        BY <1>1, <1>3, <1>4, <1>5, <1>6, <2>1, <2>2, <2>3, <2>4, <2>5, <2>6, <4>1
        DEF IInv, Found, Took, Changes, FoundFS, IsRequest, IsResume, IsAnswer, Answers
      <4>4. FoundTTY'
        BY <1>1, <1>3, <1>4, <1>5, <1>6, <2>1, <2>2, <2>3, <2>4, <2>5, <2>6, <4>1
        DEF IInv, Found, Took, Changes, FoundTTY, ToTTY
      <4>5. FoundHD'
        BY <1>1, <1>3, <1>4, <1>5, <1>6, <2>1, <2>2, <2>3, <2>4, <2>5, <2>6, <4>1
        DEF IInv, Found, Took, Changes, FoundHD, Commands, IsCommand, keyboard
      <4>6. FoundSYS'
        BY <1>1, <1>3, <1>4, <1>5, <1>6, <2>1, <2>2, <2>3, <2>4, <2>5, <2>6, <4>1
        DEF IInv, Found, Took, Changes, FoundSYS, ToSYS, IsRequest
      <4> QED
        BY <4>2, <4>3, <4>4, <4>5, <4>6
    <3> QED
      BY <3>1 DEF Found
  <2>10. Jobs'
    BY <1>1, <1>3, <1>4, <1>5, <1>6, <2>1, <2>2, <2>3, <2>4, <2>5, <2>6
    DEF IInv, Jobs, Answers, IsRequest, ToSYS, OnDisk, OnTerminal, OnSectors, Took,
       Changes
  <2>11. Served'
    <3>1. \A s \in {TTY, HD, SYS}, c \in Procs : Serving(s, c)' => Awaiting(c, s)'
      <4>1. "got" \in Looking
        BY DEF Looking
      <4>2. \A s \in {TTY, HD, SYS} \ {Shell}, c \in Procs : Serving(s, c)' => Serving(s, c)
        BY <1>1, <1>3, <1>4, <1>5, <1>6, <2>1, <2>2, <2>3, <2>4, <2>5, <2>6, <4>1
           DEF Took, Changes, Serving
      <4> QED
        BY <1>1, <1>3, <1>4, <1>5, <1>6, <2>1, <2>2, <2>3, <2>4, <2>5, <2>6, <4>2
           DEF IInv, Served
    <3>2. \A c \in Procs : \A x \in Queue(c)' : IsReply(c, x)' => status'[c] = "ready" /\ Calling(c, x.source)'
      BY <1>1, <1>3, <1>4, <1>5, <1>6, <2>1, <2>2, <2>3, <2>4, <2>5, <2>6, Senders
         DEF IInv, Served, IsReply, Took
    <3> QED
      BY <3>1, <3>2 DEF Served
  <2>12. AnsweredOnce' /\ ReaderKept'
    <3>1. {"got", "tty_got"} \subseteq Looking
      BY DEF Looking
    <3>2. /\ FSActive' <=> FSActive
          /\ TTYOwes' <=> TTYOwes
          /\ ResumeQueued' <=> ResumeQueued
          /\ ResumeFound' <=> ResumeFound
          /\ Suspending' <=> Suspending
      BY <1>1, <1>3, <1>4, <1>5, <1>6, <2>1, <2>2, <2>3, <2>4, <2>5, <2>6, <3>1,
         RequestFrame DEF Took, Changes, terminal
    <3>3. FSActive \/ TTYOwes \/ Resuming => Awaiting(Shell, FS)'
      BY <1>1, <1>3, <1>4, <1>5, <1>6, <2>1, <2>2, <2>3, <2>4, <2>5, <2>6 DEF IInv,
         AnsweredOnce
    <3>4. \A x \in Queue(Shell)' : x \in Queue(Shell) \/ x.source # FS
      BY <1>1, <1>3, <1>4, <1>5, <1>6, <2>1, <2>2, <2>3, <2>4, <2>5, <2>6 DEF Took
    <3> QED
      BY <1>1, <1>3, <1>4, <1>5, <1>6, <2>1, <2>2, <2>3, <2>4, <2>5, <2>6, <3>2,
         <3>3, <3>4, AnsweredFrame DEF terminal
  <2>13. DiskInStep'
    BY <1>1, <1>3, <1>4, <1>5, <1>6, <2>1, <2>2, <2>3, <2>4, <2>5, <2>6, DiskFrame
       DEF Took, Changes, IInv, Stances, Stands
  <2>14. KeysSeen'
    BY <1>1, <1>3, <1>4, <1>5, <1>6, <2>1, <2>2, <2>3, <2>4, <2>5, <2>6
    DEF IInv, KeysSeen, keyboard, Took, Changes
  <2> QED
    BY <1>1, <1>3, <1>4, <1>5, <1>6, <2>1, <2>2, <2>3, <2>4, <2>5, <2>6, <2>7, <2>8,
       <2>9, <2>10, <2>11, <2>12, <2>13, <2>14 DEF IInv
<1>7. ASSUME Waited(Shell, Server(job[Shell].type)) PROVE IInv'
  <2>1. Stances'
    BY <1>1, <1>3, <1>4, <1>5, <1>7
    DEF IInv, Stances, Stands, Waited, Changes
  <2>2. Contents'
    BY <1>1, <1>3, <1>4, <1>5, <1>7
    DEF IInv, Contents, Commands, ToShell, ToFS, ToTTY, ToSYS, IsCommand, IsRequest,
       IsAnswer, Answers, IsResume, Waited, Changes, keyboard
  <2>3. Found'
    <3>1. FoundShell'
      BY <1>1, <1>3, <1>4, <1>5, <1>7
      DEF IInv, Jobs, Found, FoundShell, Stances, Stands, Finds, ToShell, Server,
         Waited, Changes
    <3>2. FoundFS'
      BY <1>1, <1>3, <1>4, <1>5, <1>7
      DEF IInv, Jobs, Found, FoundFS, Stances, Stands, Finds, IsRequest, IsResume,
         IsAnswer, Answers, Waited, Changes
    <3>3. FoundTTY'
      BY <1>1, <1>3, <1>4, <1>5, <1>7
      DEF IInv, Jobs, Found, FoundTTY, Stances, Stands, Finds, ToTTY, Waited, Changes
    <3>4. FoundHD'
      BY <1>1, <1>3, <1>4, <1>5, <1>7
      DEF IInv, Jobs, Found, FoundHD, Stances, Stands, Finds, Commands, IsCommand,
         keyboard, Waited, Changes
    <3>5. FoundSYS'
      BY <1>1, <1>3, <1>4, <1>5, <1>7
      DEF IInv, Jobs, Found, FoundSYS, Stances, Stands, Finds, ToSYS, IsRequest,
         Waited, Changes
    <3> QED
      BY <3>1, <3>2, <3>3, <3>4, <3>5 DEF Found
  <2>4. Jobs'
    BY <1>1, <1>3, <1>4, <1>5, <1>7
    DEF IInv, Jobs, Answers, IsRequest, ToSYS, OnDisk, OnTerminal, OnSectors, Waited,
       Changes
  <2>5. Served'
    BY <1>1, <1>3, <1>4, <1>5, <1>7
    DEF IInv, Served, Serving, Awaiting, Calling, Finds, IsReply, Stances, Stands,
       OnSectors, Waited, Changes
  <2>6. AnsweredOnce' /\ ReaderKept'
    BY <1>1, <1>3, <1>4, <1>5, <1>7
    DEF IInv, AnsweredOnce, ReaderKept, FSActive, TTYOwes, Resuming, ResumeQueued,
       ResumeFound, Suspending, Awaiting, Calling, Finds, terminal, Waited, Changes
  <2>7. DiskInStep'
    BY <1>1, <1>3, <1>4, <1>5, <1>7
    DEF IInv, DiskInStep, SectorOnItsWay, Interrupted, Finds, disk, OnSectors,
       Waited, Changes
  <2>8. KeysSeen'
    BY <1>1, <1>3, <1>4, <1>5, <1>7
    DEF IInv, KeysSeen, keyboard, Waited, Changes
  <2> QED
    BY <1>1, <1>3, <1>4, <1>5, <1>7, <2>1, <2>2, <2>3, <2>4, <2>5, <2>6, <2>7, <2>8
       DEF IInv
<1> QED
  BY <1>3, <1>6, <1>7

(* SYS takes a request, whose sender goes on to await the answer.  *)
LEMMA SYSReceiveIInv == IInv /\ SYSReceive => IInv'
<1> SUFFICES ASSUME IInv, SYSReceive PROVE IInv'
  OBVIOUS
<1> USE ProcsDiffer
<1>1. /\ pc[SYS] = "receive" /\ status[SYS] = "ready" /\ Receive(SYS, ANY, "got")
      /\ UNCHANGED <<job, transfers, disk, keyboard, terminal>>
  BY DEF SYSReceive, At
<1>2. ANY \in Procs \union {ANY, INTERRUPT}
  BY DEF Server
<1>3. /\ KernelInv'
      /\ (\E m \in Queue(SYS) : Took(SYS, ANY, m)) \/ Waited(SYS, ANY)
      /\ pc' = [pc EXCEPT ![SYS] = "got"] /\ Changes(pc, pc', SYS, "got")
  BY <1>1, <1>2, Received DEF IInv, KernelInv, PendingInformed, TookInterrupt, Informed
<1>4. TypeOK'
  <2>1. LoopsTypeOK'
    BY <1>1, <1>3 DEF IInv, TypeOK, LoopsTypeOK, keyboard
  <2> QED
    BY <1>1, <2>1, TypesKept DEF IInv
<1>5. Points'
  BY <1>3 DEF IInv, Points, Changes
<1>6. ASSUME NEW m \in Queue(SYS), Took(SYS, ANY, m) PROVE IInv'
  <2>1. m.source \in Procs /\ m \in Mail /\ status[m.source] = "sending" /\ partner[m.source] = SYS
    BY Senders
  <2>2. /\ \A x \in Looking : \A q \in Procs : q # SYS => (Finds(q, x)' <=> Finds(q, x))
        /\ \A c \in Procs, s \in Procs : c # SYS =>
                /\ Calling(c, s)' <=> Calling(c, s)
                /\ Awaiting(c, s) => Awaiting(c, s)'
        /\ \A c \in Procs : status[c] = "ready" => status'[c] = "ready"
        /\ \A x \in Queue(SYS) : x.source = m.source => x = m
    BY <1>1, <1>3, <1>6, SenderFreed, OneMail
  <2>3. ToSYS(m) /\ m.source \in {Shell, HD}
    BY <1>2, <1>6 DEF IInv, Contents, Took, ToSYS, IsRequest
  <2>4. Awaiting(m.source, SYS)'
    BY <1>1, <1>3, <1>6, <2>1, <2>3 DEF Took, Changes, IInv, Stances, Stands,
       Awaiting, Calling, Server
  <2>5. Stances'
    BY <1>1, <1>3, <1>4, <1>5, <1>6, <2>1, <2>2, <2>3, <2>4
    DEF IInv, Stances, Stands, Took, Changes
  <2>6. Contents'
    BY <1>1, <1>3, <1>4, <1>5, <1>6, <2>1, <2>2, <2>3, <2>4
    DEF IInv, Contents, Commands, ToShell, ToFS, ToTTY, ToSYS, IsCommand, IsRequest,
       IsAnswer, Answers, IsResume, Took, Changes, keyboard
  <2>7. Found'
    <3>1. FoundShell' /\ FoundFS' /\ FoundTTY' /\ FoundHD' /\ FoundSYS'
      <4>1. {"got", "answered", "tty_got"} \subseteq Looking
        BY DEF Looking
      <4>2. FoundShell'
        BY <1>1, <1>3, <1>4, <1>5, <1>6, <2>1, <2>2, <2>3, <2>4, <4>1
        DEF IInv, Found, Took, Changes, FoundShell, ToShell
      <4>3. FoundFS'
        BY <1>1, <1>3, <1>4, <1>5, <1>6, <2>1, <2>2, <2>3, <2>4, <4>1
        DEF IInv, Found, Took, Changes, FoundFS, IsRequest, IsResume, IsAnswer, Answers
      <4>4. FoundTTY'
        BY <1>1, <1>3, <1>4, <1>5, <1>6, <2>1, <2>2, <2>3, <2>4, <4>1
        DEF IInv, Found, Took, Changes, FoundTTY, ToTTY
      <4>5. FoundHD'
        BY <1>1, <1>3, <1>4, <1>5, <1>6, <2>1, <2>2, <2>3, <2>4, <4>1
        DEF IInv, Found, Took, Changes, FoundHD, Commands, IsCommand, keyboard
      <4>6. FoundSYS'
        BY <1>1, <1>3, <1>4, <1>5, <1>6, <2>1, <2>2, <2>3, <2>4, <4>1
        DEF IInv, Found, Took, Changes, FoundSYS, ToSYS, IsRequest
      <4> QED
        BY <4>2, <4>3, <4>4, <4>5, <4>6
    <3> QED
      BY <3>1 DEF Found
  <2>8. Jobs'
    BY <1>1, <1>3, <1>4, <1>5, <1>6, <2>1, <2>2, <2>3, <2>4
    DEF IInv, Jobs, Answers, IsRequest, ToSYS, OnDisk, OnTerminal, OnSectors, Took,
       Changes
  <2>9. Served'
    <3>1. \A s \in {TTY, HD, SYS}, c \in Procs : Serving(s, c)' => Awaiting(c, s)'
      <4>1. "got" \in Looking
        BY DEF Looking
      <4>2. \A s \in {TTY, HD, SYS} \ {SYS}, c \in Procs : Serving(s, c)' => Serving(s, c)
        BY <1>1, <1>3, <1>4, <1>5, <1>6, <2>1, <2>2, <2>3, <2>4, <4>1 DEF Took,
           Changes, Serving
      <4>3. \A c \in Procs : Serving(SYS, c)' => c = m.source
        BY <1>1, <1>3, <1>4, <1>5, <1>6, <2>1, <2>2, <2>3, <2>4 DEF Took, Changes,
           Serving
      <4> QED
        BY <1>1, <1>3, <1>4, <1>5, <1>6, <2>1, <2>2, <2>3, <2>4, <4>2, <4>3 DEF IInv,
           Served, Awaiting, Calling
    <3>2. \A c \in Procs : \A x \in Queue(c)' : IsReply(c, x)' => status'[c] = "ready" /\ Calling(c, x.source)'
      BY <1>1, <1>3, <1>4, <1>5, <1>6, <2>1, <2>2, <2>3, <2>4, Senders DEF IInv,
         Served, IsReply, Took
    <3> QED
      BY <3>1, <3>2 DEF Served
  <2>10. AnsweredOnce' /\ ReaderKept'
    <3>1. {"got", "tty_got"} \subseteq Looking
      BY DEF Looking
    <3>2. /\ FSActive' <=> FSActive
          /\ TTYOwes' <=> TTYOwes
          /\ ResumeQueued' <=> ResumeQueued
          /\ ResumeFound' <=> ResumeFound
          /\ Suspending' <=> Suspending
      BY <1>1, <1>3, <1>4, <1>5, <1>6, <2>1, <2>2, <2>3, <2>4, <3>1, RequestFrame
         DEF Took, Changes, terminal
    <3>3. FSActive \/ TTYOwes \/ Resuming => Awaiting(Shell, FS)'
      BY <1>1, <1>3, <1>4, <1>5, <1>6, <2>1, <2>2, <2>3, <2>4 DEF IInv, AnsweredOnce
    <3>4. \A x \in Queue(Shell)' : x \in Queue(Shell) \/ x.source # FS
      BY <1>1, <1>3, <1>4, <1>5, <1>6, <2>1, <2>2, <2>3, <2>4 DEF Took
    <3> QED
      BY <1>1, <1>3, <1>4, <1>5, <1>6, <2>1, <2>2, <2>3, <2>4, <3>2, <3>3, <3>4,
         AnsweredFrame DEF terminal
  <2>11. DiskInStep'
    BY <1>1, <1>3, <1>4, <1>5, <1>6, <2>1, <2>2, <2>3, <2>4, DiskFrame DEF Took,
       Changes, IInv, Stances, Stands
  <2>12. KeysSeen'
    BY <1>1, <1>3, <1>4, <1>5, <1>6, <2>1, <2>2, <2>3, <2>4
    DEF IInv, KeysSeen, keyboard, Took, Changes
  <2> QED
    BY <1>1, <1>3, <1>4, <1>5, <1>6, <2>1, <2>2, <2>3, <2>4, <2>5, <2>6, <2>7, <2>8,
       <2>9, <2>10, <2>11, <2>12 DEF IInv
<1>7. ASSUME Waited(SYS, ANY) PROVE IInv'
  <2>1. Stances'
    BY <1>1, <1>3, <1>4, <1>5, <1>7
    DEF IInv, Stances, Stands, Waited, Changes
  <2>2. Contents'
    BY <1>1, <1>3, <1>4, <1>5, <1>7
    DEF IInv, Contents, Commands, ToShell, ToFS, ToTTY, ToSYS, IsCommand, IsRequest,
       IsAnswer, Answers, IsResume, Waited, Changes, keyboard
  <2>3. Found'
    <3>1. FoundShell'
      BY <1>1, <1>3, <1>4, <1>5, <1>7
      DEF IInv, Jobs, Found, FoundShell, Stances, Stands, Finds, ToShell, Server,
         Waited, Changes
    <3>2. FoundFS'
      BY <1>1, <1>3, <1>4, <1>5, <1>7
      DEF IInv, Jobs, Found, FoundFS, Stances, Stands, Finds, IsRequest, IsResume,
         IsAnswer, Answers, Waited, Changes
    <3>3. FoundTTY'
      BY <1>1, <1>3, <1>4, <1>5, <1>7
      DEF IInv, Jobs, Found, FoundTTY, Stances, Stands, Finds, ToTTY, Waited, Changes
    <3>4. FoundHD'
      BY <1>1, <1>3, <1>4, <1>5, <1>7
      DEF IInv, Jobs, Found, FoundHD, Stances, Stands, Finds, Commands, IsCommand,
         keyboard, Waited, Changes
    <3>5. FoundSYS'
      BY <1>1, <1>3, <1>4, <1>5, <1>7
      DEF IInv, Jobs, Found, FoundSYS, Stances, Stands, Finds, ToSYS, IsRequest,
         Waited, Changes
    <3> QED
      BY <3>1, <3>2, <3>3, <3>4, <3>5 DEF Found
  <2>4. Jobs'
    BY <1>1, <1>3, <1>4, <1>5, <1>7
    DEF IInv, Jobs, Answers, IsRequest, ToSYS, OnDisk, OnTerminal, OnSectors, Waited,
       Changes
  <2>5. Served'
    BY <1>1, <1>3, <1>4, <1>5, <1>7
    DEF IInv, Served, Serving, Awaiting, Calling, Finds, IsReply, Stances, Stands,
       OnSectors, Waited, Changes
  <2>6. AnsweredOnce' /\ ReaderKept'
    BY <1>1, <1>3, <1>4, <1>5, <1>7
    DEF IInv, AnsweredOnce, ReaderKept, FSActive, TTYOwes, Resuming, ResumeQueued,
       ResumeFound, Suspending, Awaiting, Calling, Finds, terminal, Waited, Changes
  <2>7. DiskInStep'
    BY <1>1, <1>3, <1>4, <1>5, <1>7
    DEF IInv, DiskInStep, SectorOnItsWay, Interrupted, Finds, disk, OnSectors,
       Waited, Changes
  <2>8. KeysSeen'
    BY <1>1, <1>3, <1>4, <1>5, <1>7
    DEF IInv, KeysSeen, keyboard, Waited, Changes
  <2> QED
    BY <1>1, <1>3, <1>4, <1>5, <1>7, <2>1, <2>2, <2>3, <2>4, <2>5, <2>6, <2>7, <2>8
       DEF IInv
<1> QED
  BY <1>3, <1>6, <1>7

(* FS opens the disk before it serves anybody.  *)
LEMMA FSInitIInv == IInv /\ FSInit => IInv'
<1> SUFFICES ASSUME IInv, FSInit PROVE IInv'
  OBVIOUS
<1> USE ProcsDiffer
<1> DEFINE m == Msg("DEV_OPEN", "file", NO_TASK, 0)
<1>1. /\ pc[FS] = "init" /\ status[FS] = "ready" /\ Send(FS, HD, m, "hd_await")
      /\ UNCHANGED <<job, disk, keyboard, terminal>>
  BY DEF FSInit, At
<1>2. m \in Body /\ m.op = "DEV_OPEN"
  BY ServicesAssumption DEF Msg, Body, MaxSectors
<1>3. transfers' \in 0..load.transfers
  BY DEF FSInit
<1> HIDE DEF m
<1>4. /\ KernelInv' /\ (Blocked(FS, HD, m) \/ Passed(FS, HD, m))
      /\ pc' = [pc EXCEPT ![FS] = "hd_await"] /\ Changes(pc, pc', FS, "hd_await")
      /\ Letter(FS, m) \in Mail
  BY <1>1, <1>2, Sent
<1>5. \A s \in Procs : ~Awaiting(FS, s) /\ ~Calling(FS, s) /\ ~Serving(s, FS)
  BY <1>1 DEF Awaiting, Calling, IInv, Served, Serving, Procs, Found, FoundSYS, Jobs,
     ToSYS, IsRequest
<1>6. TypeOK'
  <2>1. LoopsTypeOK'
    BY <1>1, <1>2, <1>3, <1>4, <1>5 DEF IInv, TypeOK, LoopsTypeOK, Mail, keyboard,
       Changes
  <2> QED
    BY <1>1, <1>2, <1>3, <1>4, <1>5, <2>1, TypesKept DEF IInv
<1>7. Points'
  BY <1>1, <1>2, <1>3, <1>4, <1>5
  DEF IInv, Points, Changes
<1>8. Stances'
  BY <1>1, <1>2, <1>3, <1>4, <1>5
  DEF IInv, Stances, Stands, Letter, Blocked, Passed, Changes
<1>9. Contents'
  BY <1>1, <1>2, <1>3, <1>4, <1>5
  DEF IInv, Contents, Commands, ToShell, ToFS, ToTTY, ToSYS, IsCommand, IsRequest,
     IsAnswer, Answers, IsResume, Letter, Blocked, Passed, Changes, keyboard
<1>10. Found'
  <2>1. FoundShell'
    BY <1>1, <1>2, <1>3, <1>4, <1>5
    DEF IInv, Jobs, Found, FoundShell, Stances, Stands, Finds, ToShell, Server,
       Letter, Blocked, Passed, Changes
  <2>2. FoundFS'
    BY <1>1, <1>2, <1>3, <1>4, <1>5
    DEF IInv, Jobs, Found, FoundFS, Stances, Stands, Finds, IsRequest, IsResume,
       IsAnswer, Answers, Letter, Blocked, Passed, Changes
  <2>3. FoundTTY'
    BY <1>1, <1>2, <1>3, <1>4, <1>5
    DEF IInv, Jobs, Found, FoundTTY, Stances, Stands, Finds, ToTTY, Letter, Blocked,
       Passed, Changes
  <2>4. FoundHD'
    BY <1>1, <1>2, <1>3, <1>4, <1>5
    DEF IInv, Jobs, Found, FoundHD, Stances, Stands, Finds, Commands, IsCommand,
       keyboard, Letter, Blocked, Passed, Changes
  <2>5. FoundSYS'
    BY <1>1, <1>2, <1>3, <1>4, <1>5
    DEF IInv, Jobs, Found, FoundSYS, Stances, Stands, Finds, ToSYS, IsRequest,
       Letter, Blocked, Passed, Changes
  <2> QED
    BY <2>1, <2>2, <2>3, <2>4, <2>5 DEF Found
<1>11. Jobs'
  BY <1>1, <1>2, <1>3, <1>4, <1>5
  DEF IInv, Jobs, Answers, IsRequest, ToSYS, OnDisk, OnTerminal, OnSectors, Letter,
     Blocked, Passed, Changes
<1>12. Served'
  BY <1>1, <1>2, <1>3, <1>4, <1>5
  DEF IInv, Served, Serving, Awaiting, Calling, Finds, IsReply, Stances, Stands,
     OnSectors, Letter, Blocked, Passed, Changes
<1>13. AnsweredOnce' /\ ReaderKept'
  <2>1. /\ FSActive' <=> FSActive
        /\ TTYOwes' <=> TTYOwes
        /\ ResumeQueued' <=> ResumeQueued
        /\ ResumeFound' <=> ResumeFound
        /\ Suspending' <=> Suspending
    BY <1>1, <1>2, <1>3, <1>4, <1>5, RequestFrame DEF Blocked, Passed, Changes,
       terminal, Finds
  <2>2. FSActive \/ TTYOwes \/ Resuming => Awaiting(Shell, FS)'
    BY <1>1, <1>2, <1>3, <1>4, <1>5 DEF IInv, AnsweredOnce, Awaiting, Calling,
       Blocked, Passed, Changes
  <2> QED
    BY <1>1, <1>2, <1>3, <1>4, <1>5, <2>1, <2>2, AnsweredFrame DEF Blocked, Passed,
       terminal
<1>14. DiskInStep'
  BY <1>1, <1>2, <1>3, <1>4, <1>5, DiskFrame DEF Blocked, Passed, Changes, IInv,
     Stances, Stands
<1>15. KeysSeen'
  BY <1>1, <1>2, <1>3, <1>4, <1>5
  DEF IInv, KeysSeen, keyboard, Letter, Blocked, Passed, Changes
<1> QED
  BY <1>1, <1>2, <1>3, <1>4, <1>5, <1>6, <1>7, <1>8, <1>9, <1>10, <1>11, <1>12,
     <1>13, <1>14, <1>15 DEF IInv

(* FS asks HD for a sector; HD does nothing for FS yet.  *)
LEMMA FSTransferIInv == IInv /\ FSTransfer => IInv'
<1> SUFFICES ASSUME IInv, FSTransfer PROVE IInv'
  OBVIOUS
<1> USE ProcsDiffer
<1>0. PICK op \in {"DEV_READ", "DEV_WRITE"}, n \in 1..load.sectors :
        Send(FS, HD, Msg(op, "file", FS, n), "hd_await")
  BY DEF FSTransfer
<1> DEFINE m == Msg(op, "file", FS, n)
<1>1. /\ pc[FS] = "work" /\ status[FS] = "ready" /\ Send(FS, HD, m, "hd_await")
      /\ UNCHANGED <<job, disk, keyboard, terminal>>
  BY <1>0 DEF FSTransfer, At
<1>2. m \in Body /\ m.op = op /\ m.cnt = n /\ op \in {"DEV_READ", "DEV_WRITE"} /\ n \in 1..load.sectors
  BY LoadFields DEF Msg, Body
<1>3. transfers' \in 0..load.transfers
  BY ServicesAssumption DEF FSTransfer, IInv, TypeOK, LoopsTypeOK, KeysTypeOK
<1> HIDE DEF m
<1>4. /\ KernelInv' /\ (Blocked(FS, HD, m) \/ Passed(FS, HD, m))
      /\ pc' = [pc EXCEPT ![FS] = "hd_await"] /\ Changes(pc, pc', FS, "hd_await")
      /\ Letter(FS, m) \in Mail
  BY <1>1, <1>2, Sent
<1>5. \A s \in Procs : ~Awaiting(FS, s) /\ ~Calling(FS, s) /\ ~Serving(s, FS)
  BY <1>1 DEF Awaiting, Calling, IInv, Served, Serving, Procs, Found, FoundSYS, Jobs,
     ToSYS, IsRequest
<1>6. TypeOK'
  <2>1. LoopsTypeOK'
    BY <1>1, <1>2, <1>3, <1>4, <1>5 DEF IInv, TypeOK, LoopsTypeOK, Mail, keyboard,
       Changes
  <2> QED
    BY <1>1, <1>2, <1>3, <1>4, <1>5, <2>1, TypesKept DEF IInv
<1>7. Points'
  BY <1>1, <1>2, <1>3, <1>4, <1>5
  DEF IInv, Points, Changes
<1>8. Stances'
  BY <1>1, <1>2, <1>3, <1>4, <1>5
  DEF IInv, Stances, Stands, Letter, Blocked, Passed, Changes
<1>9. Contents'
  BY <1>1, <1>2, <1>3, <1>4, <1>5
  DEF IInv, Contents, Commands, ToShell, ToFS, ToTTY, ToSYS, IsCommand, IsRequest,
     IsAnswer, Answers, IsResume, Letter, Blocked, Passed, Changes, keyboard
<1>10. Found'
  <2>1. FoundShell'
    BY <1>1, <1>2, <1>3, <1>4, <1>5
    DEF IInv, Jobs, Found, FoundShell, Stances, Stands, Finds, ToShell, Server,
       Letter, Blocked, Passed, Changes
  <2>2. FoundFS'
    BY <1>1, <1>2, <1>3, <1>4, <1>5
    DEF IInv, Jobs, Found, FoundFS, Stances, Stands, Finds, IsRequest, IsResume,
       IsAnswer, Answers, Letter, Blocked, Passed, Changes
  <2>3. FoundTTY'
    BY <1>1, <1>2, <1>3, <1>4, <1>5
    DEF IInv, Jobs, Found, FoundTTY, Stances, Stands, Finds, ToTTY, Letter, Blocked,
       Passed, Changes
  <2>4. FoundHD'
    BY <1>1, <1>2, <1>3, <1>4, <1>5
    DEF IInv, Jobs, Found, FoundHD, Stances, Stands, Finds, Commands, IsCommand,
       keyboard, Letter, Blocked, Passed, Changes
  <2>5. FoundSYS'
    BY <1>1, <1>2, <1>3, <1>4, <1>5
    DEF IInv, Jobs, Found, FoundSYS, Stances, Stands, Finds, ToSYS, IsRequest,
       Letter, Blocked, Passed, Changes
  <2> QED
    BY <2>1, <2>2, <2>3, <2>4, <2>5 DEF Found
<1>11. Jobs'
  BY <1>1, <1>2, <1>3, <1>4, <1>5
  DEF IInv, Jobs, Answers, IsRequest, ToSYS, OnDisk, OnTerminal, OnSectors, Letter,
     Blocked, Passed, Changes
<1>12. Served'
  BY <1>1, <1>2, <1>3, <1>4, <1>5
  DEF IInv, Served, Serving, Awaiting, Calling, Finds, IsReply, Stances, Stands,
     OnSectors, Letter, Blocked, Passed, Changes
<1>13. AnsweredOnce' /\ ReaderKept'
  <2>1. /\ FSActive' <=> FSActive
        /\ TTYOwes' <=> TTYOwes
        /\ ResumeQueued' <=> ResumeQueued
        /\ ResumeFound' <=> ResumeFound
        /\ Suspending' <=> Suspending
    BY <1>1, <1>2, <1>3, <1>4, <1>5, RequestFrame DEF Blocked, Passed, Changes,
       terminal, Finds
  <2>2. FSActive \/ TTYOwes \/ Resuming => Awaiting(Shell, FS)'
    BY <1>1, <1>2, <1>3, <1>4, <1>5 DEF IInv, AnsweredOnce, Awaiting, Calling,
       Blocked, Passed, Changes
  <2> QED
    BY <1>1, <1>2, <1>3, <1>4, <1>5, <2>1, <2>2, AnsweredFrame DEF Blocked, Passed,
       terminal
<1>14. DiskInStep'
  BY <1>1, <1>2, <1>3, <1>4, <1>5, DiskFrame DEF Blocked, Passed, Changes, IInv,
     Stances, Stands
<1>15. KeysSeen'
  BY <1>1, <1>2, <1>3, <1>4, <1>5
  DEF IInv, KeysSeen, keyboard, Letter, Blocked, Passed, Changes
<1> QED
  BY <1>1, <1>2, <1>3, <1>4, <1>5, <1>6, <1>7, <1>8, <1>9, <1>10, <1>11, <1>12,
     <1>13, <1>14, <1>15 DEF IInv

(* FS passes a request on to TTY, which owes the shell nothing.  *)
LEMMA FSTtyIInv == IInv /\ FSTty => IInv'
<1> SUFFICES ASSUME IInv, FSTty PROVE IInv'
  OBVIOUS
<1> USE ProcsDiffer
<1> DEFINE m == Msg(DeviceType(job[FS].type.op), "tty", job[FS].source,
                 job[FS].type.cnt)
<1>1. /\ pc[FS] = "tty" /\ status[FS] = "ready" /\ Send(FS, TTY, m, "tty_await")
      /\ UNCHANGED <<job, disk, keyboard, terminal>>
  BY DEF FSTty, At
<1>2. job[FS] # NoJob /\ job[FS].source = Shell /\ job[FS].type = job[Shell].type
  BY <1>1 DEF IInv, Jobs, OnTerminal
<1>3. m \in Body /\ m = Msg(DeviceType(job[FS].type.op), "tty", Shell, job[FS].type.cnt)
  BY <1>2 DEF Msg, Body, IInv, TypeOK, LoopsTypeOK, DeviceType
<1>4. transfers' \in 0..load.transfers
  BY DEF FSTty, IInv, TypeOK, LoopsTypeOK
<1> HIDE DEF m
<1>5. /\ KernelInv' /\ (Blocked(FS, TTY, m) \/ Passed(FS, TTY, m))
      /\ pc' = [pc EXCEPT ![FS] = "tty_await"] /\ Changes(pc, pc', FS, "tty_await")
      /\ Letter(FS, m) \in Mail
  BY <1>1, <1>3, Sent
<1>6. \A s \in Procs : ~Awaiting(FS, s) /\ ~Calling(FS, s) /\ ~Serving(s, FS)
  BY <1>1 DEF Awaiting, Calling, IInv, Served, Serving, Procs, Found, FoundSYS, Jobs,
     ToSYS, IsRequest
<1>7. TypeOK'
  <2>1. LoopsTypeOK'
    BY <1>1, <1>2, <1>3, <1>4, <1>5, <1>6 DEF IInv, TypeOK, LoopsTypeOK, Mail,
       keyboard, Changes
  <2> QED
    BY <1>1, <1>2, <1>3, <1>4, <1>5, <1>6, <2>1, TypesKept DEF IInv
<1>8. Points'
  BY <1>1, <1>2, <1>3, <1>4, <1>5, <1>6
  DEF IInv, Points, Changes
<1>9. Stances'
  BY <1>1, <1>2, <1>3, <1>4, <1>5, <1>6
  DEF IInv, Stances, Stands, Letter, Blocked, Passed, Changes
<1>10. Contents'
  BY SMTT(20), <1>1, <1>2, <1>3, <1>4, <1>5, <1>6
  DEF IInv, Contents, Commands, ToShell, ToFS, ToTTY, ToSYS, IsCommand, IsRequest,
     IsAnswer, Answers, IsResume, Letter, Blocked, Passed, Changes, keyboard
<1>11. Found'
  <2>1. FoundShell'
    BY <1>1, <1>2, <1>3, <1>4, <1>5, <1>6
    DEF IInv, Jobs, Found, FoundShell, Stances, Stands, Finds, ToShell, Server,
       Letter, Blocked, Passed, Changes
  <2>2. FoundFS'
    BY <1>1, <1>2, <1>3, <1>4, <1>5, <1>6
    DEF IInv, Jobs, Found, FoundFS, Stances, Stands, Finds, IsRequest, IsResume,
       IsAnswer, Answers, Letter, Blocked, Passed, Changes
  <2>3. FoundTTY'
    BY <1>1, <1>2, <1>3, <1>4, <1>5, <1>6
    DEF IInv, Jobs, Found, FoundTTY, Stances, Stands, Finds, ToTTY, Letter, Blocked,
       Passed, Changes
  <2>4. FoundHD'
    BY <1>1, <1>2, <1>3, <1>4, <1>5, <1>6
    DEF IInv, Jobs, Found, FoundHD, Stances, Stands, Finds, Commands, IsCommand,
       keyboard, Letter, Blocked, Passed, Changes
  <2>5. FoundSYS'
    BY <1>1, <1>2, <1>3, <1>4, <1>5, <1>6
    DEF IInv, Jobs, Found, FoundSYS, Stances, Stands, Finds, ToSYS, IsRequest,
       Letter, Blocked, Passed, Changes
  <2> QED
    BY <2>1, <2>2, <2>3, <2>4, <2>5 DEF Found
<1>12. Jobs'
  BY <1>1, <1>2, <1>3, <1>4, <1>5, <1>6
  DEF IInv, Jobs, Answers, IsRequest, ToSYS, OnDisk, OnTerminal, OnSectors, Letter,
     Blocked, Passed, Changes
<1>13. Served'
  BY SMTT(20), <1>1, <1>2, <1>3, <1>4, <1>5, <1>6
  DEF IInv, Served, Serving, Awaiting, Calling, Finds, IsReply, Stances, Stands,
     OnSectors, Letter, Blocked, Passed, Changes
<1>14. AnsweredOnce' /\ ReaderKept'
  <2>1. /\ FSActive' <=> FSActive
        /\ TTYOwes' <=> TTYOwes
        /\ ResumeQueued' <=> ResumeQueued
        /\ ResumeFound' <=> ResumeFound
        /\ Suspending' <=> Suspending
    BY <1>1, <1>2, <1>3, <1>4, <1>5, <1>6, RequestFrame DEF Blocked, Passed, Changes,
       terminal, Finds
  <2>2. FSActive \/ TTYOwes \/ Resuming => Awaiting(Shell, FS)'
    BY <1>1, <1>2, <1>3, <1>4, <1>5, <1>6 DEF IInv, AnsweredOnce, Awaiting, Calling,
       Blocked, Passed, Changes
  <2> QED
    BY <1>1, <1>2, <1>3, <1>4, <1>5, <1>6, <2>1, <2>2, AnsweredFrame DEF Blocked,
       Passed, terminal
<1>15. DiskInStep'
  BY <1>1, <1>2, <1>3, <1>4, <1>5, <1>6, DiskFrame DEF Blocked, Passed, Changes,
     IInv, Stances, Stands
<1>16. KeysSeen'
  BY <1>1, <1>2, <1>3, <1>4, <1>5, <1>6
  DEF IInv, KeysSeen, keyboard, Letter, Blocked, Passed, Changes
<1> QED
  BY <1>1, <1>2, <1>3, <1>4, <1>5, <1>6, <1>7, <1>8, <1>9, <1>10, <1>11, <1>12,
     <1>13, <1>14, <1>15, <1>16 DEF IInv

(* FS takes a request or a resumption.  *)
LEMMA FSReceiveIInv == IInv /\ FSReceive => IInv'
<1> SUFFICES ASSUME IInv, FSReceive PROVE IInv'
  OBVIOUS
<1> USE ProcsDiffer
<1>1. /\ pc[FS] = "receive" /\ status[FS] = "ready" /\ Receive(FS, ANY, "got")
      /\ UNCHANGED <<job, transfers, disk, keyboard, terminal>>
  BY DEF FSReceive, At
<1>2. ANY \in Procs \union {ANY, INTERRUPT}
  BY DEF Server
<1>3. /\ KernelInv'
      /\ (\E m \in Queue(FS) : Took(FS, ANY, m)) \/ Waited(FS, ANY)
      /\ pc' = [pc EXCEPT ![FS] = "got"] /\ Changes(pc, pc', FS, "got")
  BY <1>1, <1>2, Received DEF IInv, KernelInv, PendingInformed, TookInterrupt, Informed
<1>4. TypeOK'
  <2>1. LoopsTypeOK'
    BY <1>1, <1>3 DEF IInv, TypeOK, LoopsTypeOK, keyboard
  <2> QED
    BY <1>1, <2>1, TypesKept DEF IInv
<1>5. Points'
  BY <1>3 DEF IInv, Points, Changes
<1>6. ASSUME NEW m \in Queue(FS), Took(FS, ANY, m) PROVE IInv'
  <2>1. m.source \in Procs /\ m \in Mail /\ status[m.source] = "sending" /\ partner[m.source] = FS
    BY Senders
  <2>2. /\ \A x \in Looking : \A q \in Procs : q # FS => (Finds(q, x)' <=> Finds(q, x))
        /\ \A c \in Procs, s \in Procs : c # FS =>
                /\ Calling(c, s)' <=> Calling(c, s)
                /\ Awaiting(c, s) => Awaiting(c, s)'
        /\ \A c \in Procs : status[c] = "ready" => status'[c] = "ready"
        /\ \A x \in Queue(FS) : x.source = m.source => x = m
    BY <1>1, <1>3, <1>6, SenderFreed, OneMail
  <2>3. /\ \A x \in Queue(FS) : (IsRequest(x) /\ x.source = Shell) \/ IsResume(x)
        /\ \A x \in Queue(FS) : x.type.op # "SUSPEND_PROC"
        /\ pc[TTY] # "reply"
    BY <1>1, NobodyAnswersFS, RequestOfShell DEF IsRequest
  <2>4. \A s \in Procs : ~Awaiting(FS, s) /\ ~Calling(FS, s)
    BY <1>1 DEF Awaiting, Calling
  <2>5. \A s \in {TTY, HD, SYS} : ~Serving(s, FS)
    BY <2>4 DEF IInv, Served
  <2>6. job[FS] = NoJob /\ ~Suspending /\ ~Suspending'
    BY <2>3, <1>1, <1>3, <1>6 DEF IInv, Jobs, Suspending, Took, Changes, Finds
  <2>7. /\ TTYOwes' <=> TTYOwes
        /\ ~ResumeFound /\ ~FSActive
        /\ ResumeFound' <=> m.type.op = "RESUME_PROC"
        /\ FSActive' <=> m.source = Shell
    BY <2>6, <2>2, <1>1, <1>3, <1>6 DEF TTYOwes, ResumeFound, FSActive, Took,
       Changes, Finds, terminal
  <2>8. Stances'
    BY <1>1, <1>3, <1>4, <1>5, <1>6, <2>1, <2>2, <2>3, <2>4, <2>5, <2>6, <2>7
    DEF IInv, Stances, Stands, Took, Changes
  <2>9. Contents'
    BY <1>1, <1>3, <1>4, <1>5, <1>6, <2>1, <2>2, <2>3, <2>4, <2>5, <2>6, <2>7
    DEF IInv, Contents, Commands, ToShell, ToFS, ToTTY, ToSYS, IsCommand, IsRequest,
       IsAnswer, Answers, IsResume, Took, Changes, keyboard
  <2>10. Found'
    <3>1. FoundShell' /\ FoundFS' /\ FoundTTY' /\ FoundHD' /\ FoundSYS'
      <4>1. {"got", "answered", "tty_got"} \subseteq Looking
        BY DEF Looking
      <4>2. FoundShell'
        BY <1>1, <1>3, <1>4, <1>5, <1>6, <2>1, <2>2, <2>3, <2>4, <2>5, <2>6, <2>7, <4>1
        DEF IInv, Found, Took, Changes, FoundShell, ToShell
      <4>3. FoundFS'
        BY <1>1, <1>3, <1>4, <1>5, <1>6, <2>1, <2>2, <2>3, <2>4, <2>5, <2>6, <2>7, <4>1
        DEF IInv, Found, Took, Changes, FoundFS, Finds, IsRequest, IsResume,
           IsAnswer, Answers
      <4>4. FoundTTY'
        BY <1>1, <1>3, <1>4, <1>5, <1>6, <2>1, <2>2, <2>3, <2>4, <2>5, <2>6, <2>7, <4>1
        DEF IInv, Found, Took, Changes, FoundTTY, ToTTY
      <4>5. FoundHD'
        BY <1>1, <1>3, <1>4, <1>5, <1>6, <2>1, <2>2, <2>3, <2>4, <2>5, <2>6, <2>7, <4>1
        DEF IInv, Found, Took, Changes, FoundHD, Commands, IsCommand, keyboard
      <4>6. FoundSYS'
        BY <1>1, <1>3, <1>4, <1>5, <1>6, <2>1, <2>2, <2>3, <2>4, <2>5, <2>6, <2>7, <4>1
        DEF IInv, Found, Took, Changes, FoundSYS, ToSYS, IsRequest
      <4> QED
        BY <4>2, <4>3, <4>4, <4>5, <4>6
    <3> QED
      BY <3>1 DEF Found
  <2>11. Jobs'
    BY <1>1, <1>3, <1>4, <1>5, <1>6, <2>1, <2>2, <2>3, <2>4, <2>5, <2>6, <2>7
    DEF IInv, Jobs, Answers, IsRequest, ToSYS, OnDisk, OnTerminal, OnSectors, Took,
       Changes
  <2>12. Served'
    <3>1. \A s \in {TTY, HD, SYS}, c \in Procs : Serving(s, c)' => Awaiting(c, s)'
      <4>1. "got" \in Looking
        BY DEF Looking
      <4>2. \A s \in {TTY, HD, SYS} \ {FS}, c \in Procs : Serving(s, c)' => Serving(s, c)
        BY <1>1, <1>3, <1>4, <1>5, <1>6, <2>1, <2>2, <2>3, <2>4, <2>5, <2>6, <2>7,
           <4>1 DEF Took, Changes, Serving
      <4> QED
        BY <1>1, <1>3, <1>4, <1>5, <1>6, <2>1, <2>2, <2>3, <2>4, <2>5, <2>6, <2>7,
           <4>2 DEF IInv, Served
    <3>2. \A c \in Procs : \A x \in Queue(c)' : IsReply(c, x)' => status'[c] = "ready" /\ Calling(c, x.source)'
      BY <1>1, <1>3, <1>4, <1>5, <1>6, <2>1, <2>2, <2>3, <2>4, <2>5, <2>6, <2>7,
         Senders DEF IInv, Served, IsReply, Took
    <3> QED
      BY <3>1, <3>2 DEF Served
  <2>13. AnsweredOnce' /\ ReaderKept'
    <3>1. Queue(FS)' = Queue(FS) \ {m} /\ Queue(Shell)' = Queue(Shell)
      BY <1>1, <1>3, <1>4, <1>5, <1>6, <2>1, <2>2, <2>3, <2>4, <2>5, <2>6, <2>7 DEF Took
    <3>2. CASE m.source = Shell
      <4>1. m.type.op # "RESUME_PROC"
        BY <3>2, RequestOfShell
      <4>2. status[Shell] = "sending" /\ pc[Shell] = "await" /\ Server(job[Shell].type) = FS
        BY <1>1, <1>3, <1>4, <1>5, <1>6, <2>1, <2>2, <2>3, <2>4, <2>5, <2>6, <2>7,
           <3>2 DEF IInv, Stances, Stands
      <4>3. ~TTYOwes /\ ~ResumeQueued
        BY <4>2 DEF IInv, AnsweredOnce, Resuming, Awaiting
      <4>4. ~ResumeQueued'
        BY <3>1, <4>3 DEF ResumeQueued
      <4>5. Awaiting(Shell, FS)'
        BY <1>1, <1>3, <1>4, <1>5, <1>6, <2>1, <2>2, <2>3, <2>4, <2>5, <2>6, <2>7,
           <3>2, <4>2 DEF Awaiting, Calling, Took, Changes
      <4> QED
        BY <1>1, <1>3, <1>4, <1>5, <1>6, <2>1, <2>2, <2>3, <2>4, <2>5, <2>6, <2>7,
           <3>1, <4>1, <4>3, <4>4, <4>5 DEF AnsweredOnce, ReaderKept, Resuming
    <3>3. CASE IsResume(m)
      <4>1. m.source = TTY /\ m.type.op = "RESUME_PROC" /\ ResumeQueued
        BY <3>3 DEF IsResume, ResumeQueued
      <4>2. \A x \in Queue(FS) : x.type.op = "RESUME_PROC" => x = m
        BY <1>1, <1>3, <1>4, <1>5, <1>6, <2>1, <2>2, <2>3, <2>4, <2>5, <2>6, <2>7,
           <4>1, RequestOfShell DEF IsResume
      <4>3. ~ResumeQueued'
        BY <3>1, <4>2 DEF ResumeQueued
      <4>4. ~TTYOwes /\ Awaiting(Shell, FS) /\ \A x \in Queue(Shell) : x.source # FS
        BY <4>1 DEF IInv, AnsweredOnce, Resuming
      <4>5. Awaiting(Shell, FS)'
        BY <1>1, <1>3, <1>4, <1>5, <1>6, <2>1, <2>2, <2>3, <2>4, <2>5, <2>6, <2>7, <4>4
      <4> QED
        BY <1>1, <1>3, <1>4, <1>5, <1>6, <2>1, <2>2, <2>3, <2>4, <2>5, <2>6, <2>7,
           <3>1, <4>1, <4>3, <4>4, <4>5 DEF AnsweredOnce, ReaderKept, Resuming
    <3> QED
      BY <1>1, <1>3, <1>4, <1>5, <1>6, <2>1, <2>2, <2>3, <2>4, <2>5, <2>6, <2>7,
         <3>2, <3>3
  <2>14. DiskInStep'
    BY <1>1, <1>3, <1>4, <1>5, <1>6, <2>1, <2>2, <2>3, <2>4, <2>5, <2>6, <2>7,
       DiskFrame DEF Took, Changes, IInv, Stances, Stands
  <2>15. KeysSeen'
    BY <1>1, <1>3, <1>4, <1>5, <1>6, <2>1, <2>2, <2>3, <2>4, <2>5, <2>6, <2>7
    DEF IInv, KeysSeen, keyboard, Took, Changes
  <2> QED
    BY <1>1, <1>3, <1>4, <1>5, <1>6, <2>1, <2>2, <2>3, <2>4, <2>5, <2>6, <2>7, <2>8,
       <2>9, <2>10, <2>11, <2>12, <2>13, <2>14, <2>15 DEF IInv
<1>7. ASSUME Waited(FS, ANY) PROVE IInv'
  <2>1. Stances'
    BY <1>1, <1>3, <1>4, <1>5, <1>7
    DEF IInv, Stances, Stands, Waited, Changes
  <2>2. Contents'
    BY <1>1, <1>3, <1>4, <1>5, <1>7
    DEF IInv, Contents, Commands, ToShell, ToFS, ToTTY, ToSYS, IsCommand, IsRequest,
       IsAnswer, Answers, IsResume, Waited, Changes, keyboard
  <2>3. Found'
    <3>1. FoundShell'
      BY <1>1, <1>3, <1>4, <1>5, <1>7
      DEF IInv, Jobs, Found, FoundShell, Stances, Stands, Finds, ToShell, Server,
         Waited, Changes
    <3>2. FoundFS'
      BY <1>1, <1>3, <1>4, <1>5, <1>7
      DEF IInv, Jobs, Found, FoundFS, Stances, Stands, Finds, IsRequest, IsResume,
         IsAnswer, Answers, Waited, Changes
    <3>3. FoundTTY'
      BY <1>1, <1>3, <1>4, <1>5, <1>7
      DEF IInv, Jobs, Found, FoundTTY, Stances, Stands, Finds, ToTTY, Waited, Changes
    <3>4. FoundHD'
      BY <1>1, <1>3, <1>4, <1>5, <1>7
      DEF IInv, Jobs, Found, FoundHD, Stances, Stands, Finds, Commands, IsCommand,
         keyboard, Waited, Changes
    <3>5. FoundSYS'
      BY <1>1, <1>3, <1>4, <1>5, <1>7
      DEF IInv, Jobs, Found, FoundSYS, Stances, Stands, Finds, ToSYS, IsRequest,
         Waited, Changes
    <3> QED
      BY <3>1, <3>2, <3>3, <3>4, <3>5 DEF Found
  <2>4. Jobs'
    BY <1>1, <1>3, <1>4, <1>5, <1>7
    DEF IInv, Jobs, Answers, IsRequest, ToSYS, OnDisk, OnTerminal, OnSectors, Waited,
       Changes
  <2>5. Served'
    BY <1>1, <1>3, <1>4, <1>5, <1>7
    DEF IInv, Served, Serving, Awaiting, Calling, Finds, IsReply, Stances, Stands,
       OnSectors, Waited, Changes
  <2>6. AnsweredOnce' /\ ReaderKept'
    BY <1>1, <1>3, <1>4, <1>5, <1>7
    DEF IInv, AnsweredOnce, ReaderKept, FSActive, TTYOwes, Resuming, ResumeQueued,
       ResumeFound, Suspending, Awaiting, Calling, Finds, terminal, Waited, Changes
  <2>7. DiskInStep'
    BY <1>1, <1>3, <1>4, <1>5, <1>7
    DEF IInv, DiskInStep, SectorOnItsWay, Interrupted, Finds, disk, OnSectors,
       Waited, Changes
  <2>8. KeysSeen'
    BY <1>1, <1>3, <1>4, <1>5, <1>7
    DEF IInv, KeysSeen, keyboard, Waited, Changes
  <2> QED
    BY <1>1, <1>3, <1>4, <1>5, <1>7, <2>1, <2>2, <2>3, <2>4, <2>5, <2>6, <2>7, <2>8
       DEF IInv
<1> QED
  BY <1>3, <1>6, <1>7

(* FS takes the answer of HD, or waits for it.  *)
LEMMA FSDiskAwaitIInv == IInv /\ FSDiskAwait => IInv'
<1> SUFFICES ASSUME IInv, FSDiskAwait PROVE IInv'
  OBVIOUS
<1> USE ProcsDiffer
<1>1. /\ pc[FS] = "hd_await" /\ status[FS] = "ready" /\ Receive(FS, HD, "hd_got")
      /\ UNCHANGED <<job, transfers, disk, keyboard, terminal>>
  BY DEF FSDiskAwait, At
<1>2. HD \in Procs \union {ANY, INTERRUPT}
  BY DEF Server
<1>3. /\ KernelInv'
      /\ (\E m \in Queue(FS) : Took(FS, HD, m)) \/ Waited(FS, HD)
      /\ pc' = [pc EXCEPT ![FS] = "hd_got"] /\ Changes(pc, pc', FS, "hd_got")
  BY <1>1, <1>2, Received DEF IInv, KernelInv, PendingInformed, TookInterrupt, Informed
<1>4. TypeOK'
  <2>1. LoopsTypeOK'
    BY <1>1, <1>3 DEF IInv, TypeOK, LoopsTypeOK, keyboard
  <2> QED
    BY <1>1, <2>1, TypesKept DEF IInv
<1>5. Points'
  BY <1>3 DEF IInv, Points, Changes
<1>6. ASSUME NEW m \in Queue(FS), Took(FS, HD, m) PROVE IInv'
  <2>1. m.source \in Procs /\ m \in Mail /\ status[m.source] = "sending" /\ partner[m.source] = FS
    BY Senders
  <2>2. /\ \A x \in Looking : \A q \in Procs : q # FS => (Finds(q, x)' <=> Finds(q, x))
        /\ \A c \in Procs, s \in Procs : c # FS =>
                /\ Calling(c, s)' <=> Calling(c, s)
                /\ Awaiting(c, s) => Awaiting(c, s)'
        /\ \A c \in Procs : status[c] = "ready" => status'[c] = "ready"
        /\ \A x \in Queue(FS) : x.source = m.source => x = m
    BY <1>1, <1>3, <1>6, SenderFreed, OneMail
  <2>3. m.source = HD /\ m.type.op \in Commands
    BY <1>6 DEF Took, IInv, Contents, ToFS, IsRequest, IsAnswer, IsResume
  <2>4. IsReply(FS, m) /\ pc[HD] = "receive" /\ status[HD] = "sending"
    BY <2>1, <2>3 DEF IsReply, IInv, Stances, Stands
  <2>5. \A s \in {TTY, HD, SYS} : ~Serving(s, FS)
    BY <1>1, <2>4 DEF IInv, Served, Serving, Awaiting, Calling, Finds, OnSectors
  <2>6. \A x \in Queue(FS) : IsReply(FS, x) => x = m
    BY <1>1, <2>1, <2>2, <2>3, Senders DEF IInv, Served, IsReply, Calling
  <2>7. /\ TTYOwes' <=> TTYOwes
        /\ ResumeQueued' <=> ResumeQueued
        /\ ResumeFound' <=> ResumeFound
        /\ Suspending' <=> Suspending
        /\ FSActive' <=> FSActive
    BY <1>1, <1>3, <1>6, <2>1, <2>3 DEF Commands, TTYOwes, ResumeQueued, ResumeFound,
       Suspending, FSActive, Took, Changes, Finds, terminal
  <2>8. Stances'
    BY <1>1, <1>3, <1>4, <1>5, <1>6, <2>1, <2>2, <2>3, <2>4, <2>5, <2>6, <2>7
    DEF IInv, Stances, Stands, Took, Changes
  <2>9. Contents'
    BY <1>1, <1>3, <1>4, <1>5, <1>6, <2>1, <2>2, <2>3, <2>4, <2>5, <2>6, <2>7
    DEF IInv, Contents, Commands, ToShell, ToFS, ToTTY, ToSYS, IsCommand, IsRequest,
       IsAnswer, Answers, IsResume, Took, Changes, keyboard
  <2>10. Found'
    <3>1. FoundShell' /\ FoundFS' /\ FoundTTY' /\ FoundHD' /\ FoundSYS'
      <4>1. {"got", "answered", "tty_got"} \subseteq Looking
        BY DEF Looking
      <4>2. FoundShell'
        BY <1>1, <1>3, <1>4, <1>5, <1>6, <2>1, <2>2, <2>3, <2>4, <2>5, <2>6, <2>7, <4>1
        DEF IInv, Found, Took, Changes, FoundShell, ToShell
      <4>3. FoundFS'
        BY <1>1, <1>3, <1>4, <1>5, <1>6, <2>1, <2>2, <2>3, <2>4, <2>5, <2>6, <2>7, <4>1
        DEF IInv, Found, Took, Changes, FoundFS, Finds, IsRequest, IsResume,
           IsAnswer, Answers
      <4>4. FoundTTY'
        BY <1>1, <1>3, <1>4, <1>5, <1>6, <2>1, <2>2, <2>3, <2>4, <2>5, <2>6, <2>7, <4>1
        DEF IInv, Found, Took, Changes, FoundTTY, ToTTY
      <4>5. FoundHD'
        BY <1>1, <1>3, <1>4, <1>5, <1>6, <2>1, <2>2, <2>3, <2>4, <2>5, <2>6, <2>7, <4>1
        DEF IInv, Found, Took, Changes, FoundHD, Commands, IsCommand, keyboard
      <4>6. FoundSYS'
        BY <1>1, <1>3, <1>4, <1>5, <1>6, <2>1, <2>2, <2>3, <2>4, <2>5, <2>6, <2>7, <4>1
        DEF IInv, Found, Took, Changes, FoundSYS, ToSYS, IsRequest
      <4> QED
        BY <4>2, <4>3, <4>4, <4>5, <4>6
    <3> QED
      BY <3>1 DEF Found
  <2>11. Jobs'
    BY <1>1, <1>3, <1>4, <1>5, <1>6, <2>1, <2>2, <2>3, <2>4, <2>5, <2>6, <2>7
    DEF IInv, Jobs, Answers, IsRequest, ToSYS, OnDisk, OnTerminal, OnSectors, Took,
       Changes
  <2>12. Served'
    <3>1. \A s \in {TTY, HD, SYS}, c \in Procs : Serving(s, c)' => Awaiting(c, s)'
      <4>1. "got" \in Looking
        BY DEF Looking
      <4>2. \A s \in {TTY, HD, SYS} \ {FS}, c \in Procs : Serving(s, c)' => Serving(s, c)
        BY <1>1, <1>3, <1>4, <1>5, <1>6, <2>1, <2>2, <2>3, <2>4, <2>5, <2>6, <2>7,
           <4>1 DEF Took, Changes, Serving
      <4> QED
        BY <1>1, <1>3, <1>4, <1>5, <1>6, <2>1, <2>2, <2>3, <2>4, <2>5, <2>6, <2>7,
           <4>2 DEF IInv, Served
    <3>2. \A c \in Procs : \A x \in Queue(c)' : IsReply(c, x)' => status'[c] = "ready" /\ Calling(c, x.source)'
      BY <1>1, <1>3, <1>4, <1>5, <1>6, <2>1, <2>2, <2>3, <2>4, <2>5, <2>6, <2>7,
         Senders DEF IInv, Served, IsReply, Took
    <3> QED
      BY <3>1, <3>2 DEF Served
  <2>13. AnsweredOnce' /\ ReaderKept'
    <3>1. {"got", "tty_got"} \subseteq Looking
      BY DEF Looking
    <3>2. FSActive \/ TTYOwes \/ Resuming => Awaiting(Shell, FS)'
      BY <1>1, <1>3, <1>4, <1>5, <1>6, <2>1, <2>2, <2>3, <2>4, <2>5, <2>6, <2>7
         DEF IInv, AnsweredOnce
    <3>3. \A x \in Queue(Shell)' : x \in Queue(Shell) \/ x.source # FS
      BY <1>1, <1>3, <1>4, <1>5, <1>6, <2>1, <2>2, <2>3, <2>4, <2>5, <2>6, <2>7 DEF Took
    <3> QED
      BY <1>1, <1>3, <1>4, <1>5, <1>6, <2>1, <2>2, <2>3, <2>4, <2>5, <2>6, <2>7,
         <3>2, <3>3, AnsweredFrame DEF terminal
  <2>14. DiskInStep'
    BY <1>1, <1>3, <1>4, <1>5, <1>6, <2>1, <2>2, <2>3, <2>4, <2>5, <2>6, <2>7,
       DiskFrame DEF Took, Changes, IInv, Stances, Stands
  <2>15. KeysSeen'
    BY <1>1, <1>3, <1>4, <1>5, <1>6, <2>1, <2>2, <2>3, <2>4, <2>5, <2>6, <2>7
    DEF IInv, KeysSeen, keyboard, Took, Changes
  <2> QED
    BY <1>1, <1>3, <1>4, <1>5, <1>6, <2>1, <2>2, <2>3, <2>4, <2>5, <2>6, <2>7, <2>8,
       <2>9, <2>10, <2>11, <2>12, <2>13, <2>14, <2>15 DEF IInv
<1>7. ASSUME Waited(FS, HD) PROVE IInv'
  <2>1. Stances'
    BY <1>1, <1>3, <1>4, <1>5, <1>7
    DEF IInv, Stances, Stands, Waited, Changes
  <2>2. Contents'
    BY <1>1, <1>3, <1>4, <1>5, <1>7
    DEF IInv, Contents, Commands, ToShell, ToFS, ToTTY, ToSYS, IsCommand, IsRequest,
       IsAnswer, Answers, IsResume, Waited, Changes, keyboard
  <2>3. Found'
    <3>1. FoundShell'
      BY <1>1, <1>3, <1>4, <1>5, <1>7
      DEF IInv, Jobs, Found, FoundShell, Stances, Stands, Finds, ToShell, Server,
         Waited, Changes
    <3>2. FoundFS'
      BY <1>1, <1>3, <1>4, <1>5, <1>7
      DEF IInv, Jobs, Found, FoundFS, Stances, Stands, Finds, IsRequest, IsResume,
         IsAnswer, Answers, Waited, Changes
    <3>3. FoundTTY'
      BY <1>1, <1>3, <1>4, <1>5, <1>7
      DEF IInv, Jobs, Found, FoundTTY, Stances, Stands, Finds, ToTTY, Waited, Changes
    <3>4. FoundHD'
      BY <1>1, <1>3, <1>4, <1>5, <1>7
      DEF IInv, Jobs, Found, FoundHD, Stances, Stands, Finds, Commands, IsCommand,
         keyboard, Waited, Changes
    <3>5. FoundSYS'
      BY <1>1, <1>3, <1>4, <1>5, <1>7
      DEF IInv, Jobs, Found, FoundSYS, Stances, Stands, Finds, ToSYS, IsRequest,
         Waited, Changes
    <3> QED
      BY <3>1, <3>2, <3>3, <3>4, <3>5 DEF Found
  <2>4. Jobs'
    BY <1>1, <1>3, <1>4, <1>5, <1>7
    DEF IInv, Jobs, Answers, IsRequest, ToSYS, OnDisk, OnTerminal, OnSectors, Waited,
       Changes
  <2>5. Served'
    BY <1>1, <1>3, <1>4, <1>5, <1>7
    DEF IInv, Served, Serving, Awaiting, Calling, Finds, IsReply, Stances, Stands,
       OnSectors, Waited, Changes
  <2>6. AnsweredOnce' /\ ReaderKept'
    BY <1>1, <1>3, <1>4, <1>5, <1>7
    DEF IInv, AnsweredOnce, ReaderKept, FSActive, TTYOwes, Resuming, ResumeQueued,
       ResumeFound, Suspending, Awaiting, Calling, Finds, terminal, Waited, Changes
  <2>7. DiskInStep'
    BY <1>1, <1>3, <1>4, <1>5, <1>7
    DEF IInv, DiskInStep, SectorOnItsWay, Interrupted, Finds, disk, OnSectors,
       Waited, Changes
  <2>8. KeysSeen'
    BY <1>1, <1>3, <1>4, <1>5, <1>7
    DEF IInv, KeysSeen, keyboard, Waited, Changes
  <2> QED
    BY <1>1, <1>3, <1>4, <1>5, <1>7, <2>1, <2>2, <2>3, <2>4, <2>5, <2>6, <2>7, <2>8
       DEF IInv
<1> QED
  BY <1>3, <1>6, <1>7

(* FS takes the answer of TTY, or waits for it.  *)
LEMMA FSTtyAwaitIInv == IInv /\ FSTtyAwait => IInv'
<1> SUFFICES ASSUME IInv, FSTtyAwait PROVE IInv'
  OBVIOUS
<1> USE ProcsDiffer
<1>1. /\ pc[FS] = "tty_await" /\ status[FS] = "ready" /\ Receive(FS, TTY, "tty_got")
      /\ UNCHANGED <<job, transfers, disk, keyboard, terminal>>
  BY DEF FSTtyAwait, At
<1>2. TTY \in Procs \union {ANY, INTERRUPT}
  BY DEF Server
<1>3. /\ KernelInv'
      /\ (\E m \in Queue(FS) : Took(FS, TTY, m)) \/ Waited(FS, TTY)
      /\ pc' = [pc EXCEPT ![FS] = "tty_got"] /\ Changes(pc, pc', FS, "tty_got")
  BY <1>1, <1>2, Received DEF IInv, KernelInv, PendingInformed, TookInterrupt, Informed
<1>4. TypeOK'
  <2>1. LoopsTypeOK'
    BY <1>1, <1>3 DEF IInv, TypeOK, LoopsTypeOK, keyboard
  <2> QED
    BY <1>1, <2>1, TypesKept DEF IInv
<1>5. Points'
  BY <1>3 DEF IInv, Points, Changes
<1>6. ASSUME NEW m \in Queue(FS), Took(FS, TTY, m) PROVE IInv'
  <2>1. m.source \in Procs /\ m \in Mail /\ status[m.source] = "sending" /\ partner[m.source] = FS
    BY Senders
  <2>2. /\ \A x \in Looking : \A q \in Procs : q # FS => (Finds(q, x)' <=> Finds(q, x))
        /\ \A c \in Procs, s \in Procs : c # FS =>
                /\ Calling(c, s)' <=> Calling(c, s)
                /\ Awaiting(c, s) => Awaiting(c, s)'
        /\ \A c \in Procs : status[c] = "ready" => status'[c] = "ready"
        /\ \A x \in Queue(FS) : x.source = m.source => x = m
    BY <1>1, <1>3, <1>6, SenderFreed, OneMail
  <2>3. m.source = TTY /\ (IsAnswer(m) \/ IsResume(m))
    BY <1>6 DEF Took, IInv, Contents, ToFS, IsRequest
  <2>4. pc[TTY] \in {"read_keys", "resumed"} /\ status[TTY] = "sending" /\ job[FS] # NoJob
    BY <2>1, <2>3, <1>1 DEF IInv, Stances, Stands, Jobs, OnTerminal
  <2>5. IsResume(m) => ~Suspending
    <3> SUFFICES ASSUME IsResume(m), NEW x \in Queue(FS), x.type.op = "SUSPEND_PROC" PROVE FALSE
        BY <1>1, <2>4 DEF Suspending, Finds
      <3>1. ToFS(x)
        BY DEF IInv, Contents
      <3>2. ~IsRequest(x)
        BY RequestOfShell DEF IsRequest
      <3>3. x.source = TTY
        BY <3>1, <3>2 DEF ToFS, IsAnswer, IsResume, Commands
      <3> QED
        BY <3>3, <2>3, OneMail DEF IsResume
  <2>6. IsAnswer(m) /\ m.type.op # "RESUME_PROC" /\ IsReply(FS, m)
    BY <2>3, <2>4, <2>5 DEF IInv, AnsweredOnce, Resuming, ResumeQueued, IsResume,
       FSActive, IsAnswer, Answers, IsReply
  <2>7. \A s \in {TTY, HD, SYS} : ~Serving(s, FS)
    BY <1>1, <2>4 DEF IInv, Served, Serving, Awaiting, Calling, Finds, OnSectors
  <2>8. \A x \in Queue(FS) : IsReply(FS, x) => x = m
    BY <1>1, <2>1, <2>2, <2>3, Senders DEF IInv, Served, IsReply, Calling
  <2>9. /\ TTYOwes' <=> TTYOwes
        /\ ResumeQueued' <=> ResumeQueued
        /\ ResumeFound' <=> ResumeFound
    BY <1>1, <1>3, <1>6, <2>1, <2>3, <2>6 DEF TTYOwes, ResumeQueued, ResumeFound,
       Took, Changes, Finds, terminal
  <2>10. /\ Suspending' <=> Suspending
         /\ FSActive' <=> FSActive
    BY <1>1, <1>3, <1>6, <2>1, <2>3, <2>6 DEF Suspending, FSActive, Took, Changes,
       Finds, terminal
  <2>11. Stances'
    BY <1>1, <1>3, <1>4, <1>5, <1>6, <2>1, <2>2, <2>3, <2>4, <2>5, <2>6, <2>7, <2>8,
       <2>9, <2>10
    DEF IInv, Stances, Stands, Took, Changes
  <2>12. Contents'
    BY <1>1, <1>3, <1>4, <1>5, <1>6, <2>1, <2>2, <2>3, <2>4, <2>5, <2>6, <2>7, <2>8,
       <2>9, <2>10
    DEF IInv, Contents, Commands, ToShell, ToFS, ToTTY, ToSYS, IsCommand, IsRequest,
       IsAnswer, Answers, IsResume, Took, Changes, keyboard
  <2>13. Found'
    <3>1. FoundShell' /\ FoundFS' /\ FoundTTY' /\ FoundHD' /\ FoundSYS'
      <4>1. {"got", "answered", "tty_got"} \subseteq Looking
        BY DEF Looking
      <4>2. FoundShell'
        BY <1>1, <1>3, <1>4, <1>5, <1>6, <2>1, <2>2, <2>3, <2>4, <2>5, <2>6, <2>7,
           <2>8, <2>9, <2>10, <4>1
        DEF IInv, Found, Took, Changes, FoundShell, ToShell
      <4>3. FoundFS'
        BY <1>1, <1>3, <1>4, <1>5, <1>6, <2>1, <2>2, <2>3, <2>4, <2>5, <2>6, <2>7,
           <2>8, <2>9, <2>10, <4>1
        DEF IInv, Found, Took, Changes, FoundFS, Finds, IsRequest, IsResume,
           IsAnswer, Answers
      <4>4. FoundTTY'
        BY <1>1, <1>3, <1>4, <1>5, <1>6, <2>1, <2>2, <2>3, <2>4, <2>5, <2>6, <2>7,
           <2>8, <2>9, <2>10, <4>1
        DEF IInv, Found, Took, Changes, FoundTTY, ToTTY
      <4>5. FoundHD'
        BY <1>1, <1>3, <1>4, <1>5, <1>6, <2>1, <2>2, <2>3, <2>4, <2>5, <2>6, <2>7,
           <2>8, <2>9, <2>10, <4>1
        DEF IInv, Found, Took, Changes, FoundHD, Commands, IsCommand, keyboard
      <4>6. FoundSYS'
        BY <1>1, <1>3, <1>4, <1>5, <1>6, <2>1, <2>2, <2>3, <2>4, <2>5, <2>6, <2>7,
           <2>8, <2>9, <2>10, <4>1
        DEF IInv, Found, Took, Changes, FoundSYS, ToSYS, IsRequest
      <4> QED
        BY <4>2, <4>3, <4>4, <4>5, <4>6
    <3> QED
      BY <3>1 DEF Found
  <2>14. Jobs'
    BY <1>1, <1>3, <1>4, <1>5, <1>6, <2>1, <2>2, <2>3, <2>4, <2>5, <2>6, <2>7, <2>8,
       <2>9, <2>10
    DEF IInv, Jobs, Answers, IsRequest, ToSYS, OnDisk, OnTerminal, OnSectors, Took,
       Changes
  <2>15. Served'
    <3>1. \A s \in {TTY, HD, SYS}, c \in Procs : Serving(s, c)' => Awaiting(c, s)'
      <4>1. "got" \in Looking
        BY DEF Looking
      <4>2. \A s \in {TTY, HD, SYS} \ {FS}, c \in Procs : Serving(s, c)' => Serving(s, c)
        BY <1>1, <1>3, <1>4, <1>5, <1>6, <2>1, <2>2, <2>3, <2>4, <2>5, <2>6, <2>7,
           <2>8, <2>9, <2>10, <4>1 DEF Took, Changes, Serving
      <4> QED
        BY <1>1, <1>3, <1>4, <1>5, <1>6, <2>1, <2>2, <2>3, <2>4, <2>5, <2>6, <2>7,
           <2>8, <2>9, <2>10, <4>2 DEF IInv, Served
    <3>2. \A c \in Procs : \A x \in Queue(c)' : IsReply(c, x)' => status'[c] = "ready" /\ Calling(c, x.source)'
      BY <1>1, <1>3, <1>4, <1>5, <1>6, <2>1, <2>2, <2>3, <2>4, <2>5, <2>6, <2>7,
         <2>8, <2>9, <2>10, Senders DEF IInv, Served, IsReply, Took
    <3> QED
      BY <3>1, <3>2 DEF Served
  <2>16. AnsweredOnce' /\ ReaderKept'
    <3>1. {"got", "tty_got"} \subseteq Looking
      BY DEF Looking
    <3>2. FSActive \/ TTYOwes \/ Resuming => Awaiting(Shell, FS)'
      BY <1>1, <1>3, <1>4, <1>5, <1>6, <2>1, <2>2, <2>3, <2>4, <2>5, <2>6, <2>7,
         <2>8, <2>9, <2>10 DEF IInv, AnsweredOnce
    <3>3. \A x \in Queue(Shell)' : x \in Queue(Shell) \/ x.source # FS
      BY <1>1, <1>3, <1>4, <1>5, <1>6, <2>1, <2>2, <2>3, <2>4, <2>5, <2>6, <2>7,
         <2>8, <2>9, <2>10 DEF Took
    <3>4. reader' = reader /\ job'[Shell] = job[Shell]
      BY <1>1 DEF terminal
    <3> QED
      BY <2>9, <2>10, <3>2, <3>3, <3>4, AnsweredFrame
  <2>17. DiskInStep'
    BY <1>1, <1>3, <1>4, <1>5, <1>6, <2>1, <2>2, <2>3, <2>4, <2>5, <2>6, <2>7, <2>8,
       <2>9, <2>10, DiskFrame DEF Took, Changes, IInv, Stances, Stands
  <2>18. KeysSeen'
    BY <1>1, <1>3, <1>4, <1>5, <1>6, <2>1, <2>2, <2>3, <2>4, <2>5, <2>6, <2>7, <2>8,
       <2>9, <2>10
    DEF IInv, KeysSeen, keyboard, Took, Changes
  <2> QED
    BY <1>1, <1>3, <1>4, <1>5, <1>6, <2>1, <2>2, <2>3, <2>4, <2>5, <2>6, <2>7, <2>8,
       <2>9, <2>10, <2>11, <2>12, <2>13, <2>14, <2>15, <2>16, <2>17, <2>18 DEF IInv
<1>7. ASSUME Waited(FS, TTY) PROVE IInv'
  <2>1. Stances'
    BY <1>1, <1>3, <1>4, <1>5, <1>7
    DEF IInv, Stances, Stands, Waited, Changes
  <2>2. Contents'
    BY <1>1, <1>3, <1>4, <1>5, <1>7
    DEF IInv, Contents, Commands, ToShell, ToFS, ToTTY, ToSYS, IsCommand, IsRequest,
       IsAnswer, Answers, IsResume, Waited, Changes, keyboard
  <2>3. Found'
    <3>1. FoundShell'
      BY <1>1, <1>3, <1>4, <1>5, <1>7
      DEF IInv, Jobs, Found, FoundShell, Stances, Stands, Finds, ToShell, Server,
         Waited, Changes
    <3>2. FoundFS'
      BY <1>1, <1>3, <1>4, <1>5, <1>7
      DEF IInv, Jobs, Found, FoundFS, Stances, Stands, Finds, IsRequest, IsResume,
         IsAnswer, Answers, Waited, Changes
    <3>3. FoundTTY'
      BY <1>1, <1>3, <1>4, <1>5, <1>7
      DEF IInv, Jobs, Found, FoundTTY, Stances, Stands, Finds, ToTTY, Waited, Changes
    <3>4. FoundHD'
      BY <1>1, <1>3, <1>4, <1>5, <1>7
      DEF IInv, Jobs, Found, FoundHD, Stances, Stands, Finds, Commands, IsCommand,
         keyboard, Waited, Changes
    <3>5. FoundSYS'
      BY <1>1, <1>3, <1>4, <1>5, <1>7
      DEF IInv, Jobs, Found, FoundSYS, Stances, Stands, Finds, ToSYS, IsRequest,
         Waited, Changes
    <3> QED
      BY <3>1, <3>2, <3>3, <3>4, <3>5 DEF Found
  <2>4. Jobs'
    BY <1>1, <1>3, <1>4, <1>5, <1>7
    DEF IInv, Jobs, Answers, IsRequest, ToSYS, OnDisk, OnTerminal, OnSectors, Waited,
       Changes
  <2>5. Served'
    BY <1>1, <1>3, <1>4, <1>5, <1>7
    DEF IInv, Served, Serving, Awaiting, Calling, Finds, IsReply, Stances, Stands,
       OnSectors, Waited, Changes
  <2>6. AnsweredOnce' /\ ReaderKept'
    BY <1>1, <1>3, <1>4, <1>5, <1>7
    DEF IInv, AnsweredOnce, ReaderKept, FSActive, TTYOwes, Resuming, ResumeQueued,
       ResumeFound, Suspending, Awaiting, Calling, Finds, terminal, Waited, Changes
  <2>7. DiskInStep'
    BY <1>1, <1>3, <1>4, <1>5, <1>7
    DEF IInv, DiskInStep, SectorOnItsWay, Interrupted, Finds, disk, OnSectors,
       Waited, Changes
  <2>8. KeysSeen'
    BY <1>1, <1>3, <1>4, <1>5, <1>7
    DEF IInv, KeysSeen, keyboard, Waited, Changes
  <2> QED
    BY <1>1, <1>3, <1>4, <1>5, <1>7, <2>1, <2>2, <2>3, <2>4, <2>5, <2>6, <2>7, <2>8
       DEF IInv
<1> QED
  BY <1>3, <1>6, <1>7

(* The request for a terminal that FS has found becomes its job.  *)
LEMMA FSTerminalIInv == IInv /\ FSTerminal => IInv'
<1> SUFFICES ASSUME IInv, FSTerminal PROVE IInv'
  OBVIOUS
<1> USE ProcsDiffer
<1>1. /\ pc[FS] = "got" /\ status[FS] = "ready" /\ Accept(FS, inbox[FS], "tty")
      /\ UNCHANGED <<transfers, disk, keyboard, terminal>>
      /\ inbox[FS].type.op \in {"READ", "WRITE"} /\ inbox[FS].type.on = "tty"
  BY DEF FSTerminal, At
<1>2. /\ KernelInv' /\ UNCHANGED <<status, partner, pending>>
      /\ Changes(inbox, inbox', FS, NO_TASK) /\ \A c \in Procs : Queue(c)' = Queue(c)
      /\ pc' = [pc EXCEPT ![FS] = "tty"] /\ Changes(pc, pc', FS, "tty")
      /\ job' = [job EXCEPT ![FS] = inbox[FS]] /\ Changes(job, job', FS, inbox[FS])
  BY <1>1, Accepted
<1>3. inbox[FS] \in Mail /\ (IsRequest(inbox[FS]) \/ IsResume(inbox[FS]))
  BY <1>1 DEF IInv, Found, FoundFS, Finds
<1>4. /\ \A s \in {TTY, HD, SYS} : ~Serving(s, FS)
      /\ ~(Finds(TTY, "got") /\ inbox[TTY].source = FS) /\ pc[TTY] # "reply"
      /\ \A x \in Queue(TTY) : FALSE
      /\ \A c \in Procs : \A x \in Queue(c) : x.source # FS
      /\ \A x \in Queue(FS) : (x.source = Shell /\ IsRequest(x)) \/ IsResume(x)
      /\ \A x \in Queue(FS) : x.type.op # "SUSPEND_PROC"
  BY <1>1, NobodyServesFS
<1>5. /\ IsRequest(inbox[FS]) /\ inbox[FS].source = Shell /\ inbox[FS].type = job[Shell].type
      /\ FSActive /\ ~ResumeFound /\ Awaiting(Shell, FS) /\ ~TTYOwes /\ ~ResumeQueued /\ job[Shell].type \in Requests
      /\ job[Shell].type.op \in {"OPEN", "READ", "WRITE"}
  <2>1. IsRequest(inbox[FS]) /\ inbox[FS].source = Shell /\ inbox[FS].type = job[Shell].type
      BY <1>1, <1>3 DEF IsRequest, IsResume
    <2>2. FSActive
      BY <1>1, <2>1 DEF FSActive, Finds
    <2>3. Awaiting(Shell, FS) /\ ~TTYOwes /\ ~Resuming
      BY <2>2 DEF IInv, AnsweredOnce
    <2>4. pc[Shell] \in {"await", "answered"} /\ Server(job[Shell].type) = FS
      BY <2>3 DEF IInv, Stances, Stands, Awaiting, Calling
    <2>5. job[Shell].type \in Requests
      BY <2>4 DEF IInv, Jobs
    <2> QED
      BY <2>1, <2>2, <2>3, <2>4, <2>5, RequestFields DEF Resuming, Server
<1>6. \A s \in Procs : ~Awaiting(FS, s) /\ ~Calling(FS, s) /\ ~Awaiting(FS, s)' /\ ~Calling(FS, s)'
  BY <1>1, <1>2 DEF Awaiting, Calling, Changes
<1>7. TypeOK'
  <2>1. LoopsTypeOK'
    BY <1>1, <1>2, <1>3, <1>4, <1>5, <1>6, NoJobType DEF IInv, TypeOK, LoopsTypeOK,
       Mail, keyboard
  <2> QED
    BY <1>1, <1>2, <1>3, <1>4, <1>5, <1>6, <2>1, TypesKept DEF IInv
<1>8. Points'
  BY <1>1, <1>2, <1>3, <1>4, <1>5, <1>6
  DEF IInv, Points, Changes
<1>9. Stances'
  BY <1>1, <1>2, <1>3, <1>4, <1>5, <1>6
  DEF IInv, Stances, Stands, Changes
<1>10. Contents'
  BY <1>1, <1>2, <1>3, <1>4, <1>5, <1>6
  DEF IInv, Contents, Commands, ToShell, ToFS, ToTTY, ToSYS, IsCommand, IsRequest,
     IsAnswer, Answers, IsResume, Changes, keyboard
<1>11. Found'
  <2>1. FoundShell'
    BY <1>1, <1>2, <1>3, <1>4, <1>5, <1>6
    DEF IInv, Jobs, Found, FoundShell, Stances, Stands, Finds, ToShell, Server, Changes
  <2>2. FoundFS'
    BY <1>1, <1>2, <1>3, <1>4, <1>5, <1>6
    DEF IInv, Jobs, Found, FoundFS, Stances, Stands, Finds, IsRequest, IsResume,
       IsAnswer, Answers, Changes
  <2>3. FoundTTY'
    BY <1>1, <1>2, <1>3, <1>4, <1>5, <1>6
    DEF IInv, Jobs, Found, FoundTTY, Stances, Stands, Finds, ToTTY, Changes,
       K!IntMessage
  <2>4. FoundHD'
    BY <1>1, <1>2, <1>3, <1>4, <1>5, <1>6
    DEF IInv, Jobs, Found, FoundHD, Stances, Stands, Finds, Commands, IsCommand,
       keyboard, Changes
  <2>5. FoundSYS'
    BY <1>1, <1>2, <1>3, <1>4, <1>5, <1>6
    DEF IInv, Jobs, Found, FoundSYS, Stances, Stands, Finds, ToSYS, IsRequest, Changes
  <2> QED
    BY <2>1, <2>2, <2>3, <2>4, <2>5 DEF Found
<1>12. Jobs'
  <2>1. job'[FS] = inbox[FS] /\ job'[FS] # NoJob /\ \A p \in Procs : p # FS => job'[p] = job[p] /\ pc'[p] = pc[p]
    BY <1>2, <1>5 DEF NoJob, Changes
  <2>2. pc'[FS] = "tty"
    BY <1>2 DEF Changes
  <2> QED
    BY <1>1, <1>2, <1>4, <1>5, <2>1, <2>2 DEF IInv, Jobs, Answers, IsRequest, ToSYS,
       OnDisk, OnTerminal, OnSectors
<1>13. Served'
  <2>1. \A s \in {TTY, HD, SYS}, c \in Procs : Serving(s, c)' => Serving(s, c)
    BY <1>1, <1>2, <1>3, <1>4, <1>5, <1>6 DEF Changes, Serving, Finds
  <2>2. \A c \in Procs, s \in Procs : c # FS => (Calling(c, s)' <=> Calling(c, s)) /\ (Awaiting(c, s)' <=> Awaiting(c, s))
    BY <1>1, <1>2, <1>3, <1>4, <1>5, <1>6 DEF Changes, Calling, Awaiting
  <2>3. \A s \in {TTY, HD, SYS}, c \in Procs : Serving(s, c)' => Awaiting(c, s)'
    BY <1>1, <1>2, <1>3, <1>4, <1>5, <1>6, <2>1, <2>2 DEF IInv, Served
  <2>4. \A c \in Procs : \A x \in Queue(c)' : IsReply(c, x)' => status'[c] = "ready" /\ Calling(c, x.source)'
    BY <1>1, <1>2, <1>3, <1>4, <1>5, <1>6, <2>2, Senders DEF IInv, Served, IsReply
  <2> QED
    BY <2>3, <2>4 DEF Served
<1>14. AnsweredOnce' /\ ReaderKept'
  <2>1. FSActive' /\ ~TTYOwes' /\ ~ResumeFound' /\ ~ResumeQueued' /\ ~Suspending'
    BY <1>1, <1>2, <1>3, <1>4, <1>5, <1>6 DEF FSActive, TTYOwes, ResumeFound,
       ResumeQueued, Suspending, Changes, Finds, terminal, NoJob
  <2>2. Awaiting(Shell, FS)'
    BY <1>1, <1>2, <1>3, <1>4, <1>5, <1>6 DEF Awaiting, Calling, Changes
  <2> QED
    BY <2>1, <2>2 DEF AnsweredOnce, ReaderKept, Resuming
<1>15. DiskInStep'
  BY <1>1, <1>2, <1>3, <1>4, <1>5, <1>6, DiskFrame DEF Changes
<1>16. KeysSeen'
  BY <1>1, <1>2, <1>3, <1>4, <1>5, <1>6
  DEF IInv, KeysSeen, keyboard, Changes
<1> QED
  BY <1>1, <1>2, <1>3, <1>4, <1>5, <1>6, <1>7, <1>8, <1>9, <1>10, <1>11, <1>12,
     <1>13, <1>14, <1>15, <1>16 DEF IInv

(* The request for the disk that FS has found becomes its job.  *)
LEMMA FSRequestIInv == IInv /\ FSRequest => IInv'
<1> SUFFICES ASSUME IInv, FSRequest PROVE IInv'
  OBVIOUS
<1> USE ProcsDiffer
<1>1. /\ pc[FS] = "got" /\ status[FS] = "ready" /\ Accept(FS, inbox[FS], "work")
      /\ UNCHANGED <<disk, keyboard, terminal>>
      /\ inbox[FS].type.op = "OPEN" \/ inbox[FS].type.on = "file"
      /\ transfers' \in 0..load.transfers
  BY DEF FSRequest, At
<1>2. /\ KernelInv' /\ UNCHANGED <<status, partner, pending>>
      /\ Changes(inbox, inbox', FS, NO_TASK) /\ \A c \in Procs : Queue(c)' = Queue(c)
      /\ pc' = [pc EXCEPT ![FS] = "work"] /\ Changes(pc, pc', FS, "work")
      /\ job' = [job EXCEPT ![FS] = inbox[FS]] /\ Changes(job, job', FS, inbox[FS])
  BY <1>1, Accepted
<1>3. inbox[FS] \in Mail /\ (IsRequest(inbox[FS]) \/ IsResume(inbox[FS]))
  BY <1>1 DEF IInv, Found, FoundFS, Finds
<1>4. /\ \A s \in {TTY, HD, SYS} : ~Serving(s, FS)
      /\ ~(Finds(TTY, "got") /\ inbox[TTY].source = FS) /\ pc[TTY] # "reply"
      /\ \A x \in Queue(TTY) : FALSE
      /\ \A c \in Procs : \A x \in Queue(c) : x.source # FS
      /\ \A x \in Queue(FS) : (x.source = Shell /\ IsRequest(x)) \/ IsResume(x)
      /\ \A x \in Queue(FS) : x.type.op # "SUSPEND_PROC"
  BY <1>1, NobodyServesFS
<1>5. IsRequest(inbox[FS])
  BY <1>1, <1>3 DEF IsResume
<1>6. /\ IsRequest(inbox[FS]) /\ inbox[FS].source = Shell /\ inbox[FS].type = job[Shell].type
      /\ FSActive /\ ~ResumeFound /\ Awaiting(Shell, FS) /\ ~TTYOwes /\ ~ResumeQueued /\ job[Shell].type \in Requests
      /\ job[Shell].type.op \in {"OPEN", "READ", "WRITE"}
  <2>1. IsRequest(inbox[FS]) /\ inbox[FS].source = Shell /\ inbox[FS].type = job[Shell].type
      BY <1>5 DEF IsRequest
    <2>2. FSActive
      BY <1>1, <2>1 DEF FSActive, Finds
    <2>3. Awaiting(Shell, FS) /\ ~TTYOwes /\ ~Resuming
      BY <2>2 DEF IInv, AnsweredOnce
    <2>4. pc[Shell] \in {"await", "answered"} /\ Server(job[Shell].type) = FS
      BY <2>3 DEF IInv, Stances, Stands, Awaiting, Calling
    <2>5. job[Shell].type \in Requests
      BY <2>4 DEF IInv, Jobs
    <2> QED
      BY <2>1, <2>2, <2>3, <2>4, <2>5, RequestFields DEF Resuming, Server
<1>7. \A s \in Procs : ~Awaiting(FS, s) /\ ~Calling(FS, s) /\ ~Awaiting(FS, s)' /\ ~Calling(FS, s)'
  BY <1>1, <1>2 DEF Awaiting, Calling, Changes
<1>8. TypeOK'
  <2>1. LoopsTypeOK'
    BY <1>1, <1>2, <1>3, <1>4, <1>5, <1>6, <1>7, NoJobType DEF IInv, TypeOK,
       LoopsTypeOK, Mail, keyboard
  <2> QED
    BY <1>1, <1>2, <1>3, <1>4, <1>5, <1>6, <1>7, <2>1, TypesKept DEF IInv
<1>9. Points'
  BY <1>1, <1>2, <1>3, <1>4, <1>5, <1>6, <1>7
  DEF IInv, Points, Changes
<1>10. Stances'
  BY <1>1, <1>2, <1>3, <1>4, <1>5, <1>6, <1>7
  DEF IInv, Stances, Stands, Changes
<1>11. Contents'
  BY <1>1, <1>2, <1>3, <1>4, <1>5, <1>6, <1>7
  DEF IInv, Contents, Commands, ToShell, ToFS, ToTTY, ToSYS, IsCommand, IsRequest,
     IsAnswer, Answers, IsResume, Changes, keyboard
<1>12. Found'
  <2>1. FoundShell'
    BY <1>1, <1>2, <1>3, <1>4, <1>5, <1>6, <1>7
    DEF IInv, Jobs, Found, FoundShell, Stances, Stands, Finds, ToShell, Server, Changes
  <2>2. FoundFS'
    BY <1>1, <1>2, <1>3, <1>4, <1>5, <1>6, <1>7
    DEF IInv, Jobs, Found, FoundFS, Stances, Stands, Finds, IsRequest, IsResume,
       IsAnswer, Answers, Changes
  <2>3. FoundTTY'
    BY <1>1, <1>2, <1>3, <1>4, <1>5, <1>6, <1>7
    DEF IInv, Jobs, Found, FoundTTY, Stances, Stands, Finds, ToTTY, Changes,
       K!IntMessage
  <2>4. FoundHD'
    BY <1>1, <1>2, <1>3, <1>4, <1>5, <1>6, <1>7
    DEF IInv, Jobs, Found, FoundHD, Stances, Stands, Finds, Commands, IsCommand,
       keyboard, Changes
  <2>5. FoundSYS'
    BY <1>1, <1>2, <1>3, <1>4, <1>5, <1>6, <1>7
    DEF IInv, Jobs, Found, FoundSYS, Stances, Stands, Finds, ToSYS, IsRequest, Changes
  <2> QED
    BY <2>1, <2>2, <2>3, <2>4, <2>5 DEF Found
<1>13. Jobs'
  BY <1>1, <1>2, <1>3, <1>4, <1>5, <1>6, <1>7
  DEF IInv, Jobs, Answers, IsRequest, ToSYS, OnDisk, OnTerminal, OnSectors, Changes
<1>14. Served'
  <2>1. \A s \in {TTY, HD, SYS}, c \in Procs : Serving(s, c)' => Serving(s, c)
    BY <1>1, <1>2, <1>3, <1>4, <1>5, <1>6, <1>7 DEF Changes, Serving, Finds
  <2>2. \A c \in Procs, s \in Procs : c # FS => (Calling(c, s)' <=> Calling(c, s)) /\ (Awaiting(c, s)' <=> Awaiting(c, s))
    BY <1>1, <1>2, <1>3, <1>4, <1>5, <1>6, <1>7 DEF Changes, Calling, Awaiting
  <2>3. \A s \in {TTY, HD, SYS}, c \in Procs : Serving(s, c)' => Awaiting(c, s)'
    BY <1>1, <1>2, <1>3, <1>4, <1>5, <1>6, <1>7, <2>1, <2>2 DEF IInv, Served
  <2>4. \A c \in Procs : \A x \in Queue(c)' : IsReply(c, x)' => status'[c] = "ready" /\ Calling(c, x.source)'
    BY <1>1, <1>2, <1>3, <1>4, <1>5, <1>6, <1>7, <2>2, Senders DEF IInv, Served, IsReply
  <2> QED
    BY <2>3, <2>4 DEF Served
<1>15. AnsweredOnce' /\ ReaderKept'
  <2>1. FSActive' /\ ~TTYOwes' /\ ~ResumeFound' /\ ~ResumeQueued' /\ ~Suspending'
    BY <1>1, <1>2, <1>3, <1>4, <1>5, <1>6, <1>7 DEF FSActive, TTYOwes, ResumeFound,
       ResumeQueued, Suspending, Changes, Finds, terminal, NoJob
  <2>2. Awaiting(Shell, FS)'
    BY <1>1, <1>2, <1>3, <1>4, <1>5, <1>6, <1>7 DEF Awaiting, Calling, Changes
  <2> QED
    BY <2>1, <2>2 DEF AnsweredOnce, ReaderKept, Resuming
<1>16. DiskInStep'
  BY <1>1, <1>2, <1>3, <1>4, <1>5, <1>6, <1>7, DiskFrame DEF Changes
<1>17. KeysSeen'
  BY <1>1, <1>2, <1>3, <1>4, <1>5, <1>6, <1>7
  DEF IInv, KeysSeen, keyboard, Changes
<1> QED
  BY <1>1, <1>2, <1>3, <1>4, <1>5, <1>6, <1>7, <1>8, <1>9, <1>10, <1>11, <1>12,
     <1>13, <1>14, <1>15, <1>16, <1>17 DEF IInv

(* A resumption becomes the answer to the process TTY names.  *)
LEMMA FSResumeIInv == IInv /\ FSResume => IInv'
<1> SUFFICES ASSUME IInv, FSResume PROVE IInv'
  OBVIOUS
<1> USE ProcsDiffer
<1> DEFINE nj == [inbox[FS] EXCEPT !.source = inbox[FS].type.proc]
<1>1. /\ pc[FS] = "got" /\ status[FS] = "ready" /\ Accept(FS, nj, "reply")
      /\ UNCHANGED <<transfers, disk, keyboard, terminal>>
      /\ inbox[FS].type.op = "RESUME_PROC"
  BY DEF FSResume, At
<1>2. /\ KernelInv' /\ UNCHANGED <<status, partner, pending>>
      /\ Changes(inbox, inbox', FS, NO_TASK) /\ \A c \in Procs : Queue(c)' = Queue(c)
      /\ pc' = [pc EXCEPT ![FS] = "reply"] /\ Changes(pc, pc', FS, "reply")
      /\ job' = [job EXCEPT ![FS] = nj] /\ Changes(job, job', FS, nj)
  BY <1>1, Accepted
<1>3. /\ \A s \in {TTY, HD, SYS} : ~Serving(s, FS)
      /\ ~(Finds(TTY, "got") /\ inbox[TTY].source = FS) /\ pc[TTY] # "reply"
      /\ \A x \in Queue(TTY) : FALSE
      /\ \A c \in Procs : \A x \in Queue(c) : x.source # FS
      /\ \A x \in Queue(FS) : (x.source = Shell /\ IsRequest(x)) \/ IsResume(x)
      /\ \A x \in Queue(FS) : x.type.op # "SUSPEND_PROC"
  BY <1>1, NobodyServesFS
<1>4. IsResume(inbox[FS])
  <2>1. IsRequest(inbox[FS]) => FSActive
      BY <1>1 DEF IsRequest, FSActive, Finds
    <2>2. FSActive => Awaiting(Shell, FS)
      BY DEF IInv, AnsweredOnce
    <2>3. Awaiting(Shell, FS) => pc[Shell] # "run"
      BY DEF IInv, Stances, Stands, Awaiting, Calling
    <2>4. pc[Shell] # "run" => job[Shell].type.op # "RESUME_PROC"
      BY RequestFields DEF IInv, Jobs
    <2>5. inbox[FS] \in Mail /\ (IsRequest(inbox[FS]) \/ IsResume(inbox[FS]))
      BY <1>1 DEF IInv, Found, FoundFS, Finds
    <2> QED
      BY <1>1, <2>1, <2>2, <2>3, <2>4, <2>5 DEF IsRequest
<1>5. nj.source = Shell /\ nj.type = inbox[FS].type /\ nj # NoJob /\ nj \in [source : Procs \union {NO_TASK}, type : Body]
  <2>1. inbox[FS] \in Mail
      BY <1>1 DEF IInv, Found, FoundFS, Finds
    <2>2. nj.source = Shell /\ nj.type = inbox[FS].type /\ nj \in [source : Procs \union {NO_TASK}, type : Body]
      BY <1>4, <2>1 DEF IsResume, Mail
    <2> QED
      BY <2>2 DEF NoJob
<1> HIDE DEF nj
<1>6. Resuming /\ Awaiting(Shell, FS) /\ ~TTYOwes /\ ~ResumeQueued /\ \A x \in Queue(Shell) : x.source # FS
  <2>1. ResumeFound
      BY <1>1 DEF ResumeFound, Finds
    <2> QED
      BY <2>1 DEF IInv, AnsweredOnce, Resuming
<1>7. \A s \in Procs : ~Awaiting(FS, s) /\ ~Calling(FS, s) /\ ~Awaiting(FS, s)' /\ ~Calling(FS, s)'
  BY <1>1, <1>2 DEF Awaiting, Calling, Changes
<1>8. TypeOK'
  <2>1. LoopsTypeOK'
    BY <1>1, <1>2, <1>3, <1>4, <1>5, <1>6, <1>7, NoJobType DEF IInv, TypeOK,
       LoopsTypeOK, Mail, keyboard
  <2> QED
    BY <1>1, <1>2, <1>3, <1>4, <1>5, <1>6, <1>7, <2>1, TypesKept DEF IInv
<1>9. Points'
  BY <1>1, <1>2, <1>3, <1>4, <1>5, <1>6, <1>7
  DEF IInv, Points, Changes
<1>10. Stances'
  BY <1>1, <1>2, <1>3, <1>4, <1>5, <1>6, <1>7
  DEF IInv, Stances, Stands, Changes
<1>11. Contents'
  BY <1>1, <1>2, <1>3, <1>4, <1>5, <1>6, <1>7
  DEF IInv, Contents, Commands, ToShell, ToFS, ToTTY, ToSYS, IsCommand, IsRequest,
     IsAnswer, Answers, IsResume, Changes, keyboard
<1>12. Found'
  <2>1. FoundShell'
    BY <1>1, <1>2, <1>3, <1>4, <1>5, <1>6, <1>7
    DEF IInv, Jobs, Found, FoundShell, Stances, Stands, Finds, ToShell, Server, Changes
  <2>2. FoundFS'
    BY <1>1, <1>2, <1>3, <1>4, <1>5, <1>6, <1>7
    DEF IInv, Jobs, Found, FoundFS, Stances, Stands, Finds, IsRequest, IsResume,
       IsAnswer, Answers, Changes
  <2>3. FoundTTY'
    BY <1>1, <1>2, <1>3, <1>4, <1>5, <1>6, <1>7
    DEF IInv, Jobs, Found, FoundTTY, Stances, Stands, Finds, ToTTY, Changes,
       K!IntMessage
  <2>4. FoundHD'
    BY <1>1, <1>2, <1>3, <1>4, <1>5, <1>6, <1>7
    DEF IInv, Jobs, Found, FoundHD, Stances, Stands, Finds, Commands, IsCommand,
       keyboard, Changes
  <2>5. FoundSYS'
    BY <1>1, <1>2, <1>3, <1>4, <1>5, <1>6, <1>7
    DEF IInv, Jobs, Found, FoundSYS, Stances, Stands, Finds, ToSYS, IsRequest, Changes
  <2> QED
    BY <2>1, <2>2, <2>3, <2>4, <2>5 DEF Found
<1>13. Jobs'
  <2>1. nj.type.op = "RESUME_PROC" /\ nj.type.cnt <= job[Shell].type.cnt
    BY <1>1, <1>4, <1>5 DEF IsResume
  <2> QED
    BY <1>1, <1>2, <1>3, <1>5, <2>1 DEF IInv, Jobs, Answers, IsRequest, ToSYS,
       OnDisk, OnTerminal, OnSectors, Changes
<1>14. Served'
  <2>1. \A s \in {TTY, HD, SYS}, c \in Procs : Serving(s, c)' => Serving(s, c)
    BY <1>1, <1>2, <1>3, <1>4, <1>5, <1>6, <1>7 DEF Changes, Serving, Finds
  <2>2. \A c \in Procs, s \in Procs : c # FS => (Calling(c, s)' <=> Calling(c, s)) /\ (Awaiting(c, s)' <=> Awaiting(c, s))
    BY <1>1, <1>2, <1>3, <1>4, <1>5, <1>6, <1>7 DEF Changes, Calling, Awaiting
  <2>3. \A s \in {TTY, HD, SYS}, c \in Procs : Serving(s, c)' => Awaiting(c, s)'
    BY <1>1, <1>2, <1>3, <1>4, <1>5, <1>6, <1>7, <2>1, <2>2 DEF IInv, Served
  <2>4. \A c \in Procs : \A x \in Queue(c)' : IsReply(c, x)' => status'[c] = "ready" /\ Calling(c, x.source)'
    BY <1>1, <1>2, <1>3, <1>4, <1>5, <1>6, <1>7, <2>2, Senders DEF IInv, Served, IsReply
  <2> QED
    BY <2>3, <2>4 DEF Served
<1>15. AnsweredOnce' /\ ReaderKept'
  <2>1. nj.type.op = "RESUME_PROC" /\ nj.type.cnt <= job[Shell].type.cnt
    BY <1>1, <1>4, <1>5 DEF IsResume
  <2>2. FSActive' /\ ~TTYOwes' /\ ~ResumeFound' /\ ~ResumeQueued' /\ ~Suspending'
    BY <1>1, <1>2, <1>3, <1>4, <1>5, <1>6, <1>7, <2>1 DEF FSActive, TTYOwes,
       ResumeFound, ResumeQueued, Suspending, Changes, Finds, terminal
  <2>3. Awaiting(Shell, FS)'
    BY <1>1, <1>2, <1>3, <1>4, <1>5, <1>6, <1>7 DEF Awaiting, Calling, Changes
  <2> QED
    BY <2>2, <2>3 DEF AnsweredOnce, ReaderKept, Resuming
<1>16. DiskInStep'
  BY <1>1, <1>2, <1>3, <1>4, <1>5, <1>6, <1>7, DiskFrame DEF Changes
<1>17. KeysSeen'
  BY <1>1, <1>2, <1>3, <1>4, <1>5, <1>6, <1>7
  DEF IInv, KeysSeen, keyboard, Changes
<1> QED
  BY <1>1, <1>2, <1>3, <1>4, <1>5, <1>6, <1>7, <1>8, <1>9, <1>10, <1>11, <1>12,
     <1>13, <1>14, <1>15, <1>16, <1>17 DEF IInv

(* FS goes on with the same job after a transfer.  *)
LEMMA FSDiskDoneIInv == IInv /\ FSDiskDone => IInv'
<1> SUFFICES ASSUME IInv, FSDiskDone PROVE IInv'
  OBVIOUS
<1> USE ProcsDiffer
<1>1. /\ pc[FS] = "hd_got" /\ status[FS] = "ready" /\ Accept(FS, job[FS], "work")
      /\ UNCHANGED <<transfers, disk, keyboard, terminal>>
  BY DEF FSDiskDone, At
<1>2. /\ KernelInv' /\ UNCHANGED <<status, partner, pending>>
      /\ Changes(inbox, inbox', FS, NO_TASK) /\ \A c \in Procs : Queue(c)' = Queue(c)
      /\ pc' = [pc EXCEPT ![FS] = "work"] /\ Changes(pc, pc', FS, "work")
      /\ job' = [job EXCEPT ![FS] = job[FS]] /\ Changes(job, job', FS, job[FS])
  BY <1>1, Accepted
<1>3. /\ \A s \in {TTY, HD, SYS} : ~Serving(s, FS)
      /\ ~(Finds(TTY, "got") /\ inbox[TTY].source = FS) /\ pc[TTY] # "reply"
      /\ \A x \in Queue(TTY) : FALSE
      /\ \A c \in Procs : \A x \in Queue(c) : x.source # FS
      /\ \A x \in Queue(FS) : (x.source = Shell /\ IsRequest(x)) \/ IsResume(x)
      /\ \A x \in Queue(FS) : x.type.op # "SUSPEND_PROC"
  BY <1>1, NobodyServesFS
<1>4. \A s \in Procs : ~Awaiting(FS, s) /\ ~Calling(FS, s) /\ ~Awaiting(FS, s)' /\ ~Calling(FS, s)'
  BY <1>1, <1>2 DEF Awaiting, Calling, Changes
<1>5. TypeOK'
  <2>1. LoopsTypeOK'
    BY <1>1, <1>2, <1>3, <1>4, NoJobType DEF IInv, TypeOK, LoopsTypeOK, Mail, keyboard
  <2> QED
    BY <1>1, <1>2, <1>3, <1>4, <2>1, TypesKept DEF IInv
<1>6. Points'
  BY <1>1, <1>2, <1>3, <1>4
  DEF IInv, Points, Changes
<1>7. Stances'
  BY <1>1, <1>2, <1>3, <1>4
  DEF IInv, Stances, Stands, Changes
<1>8. Contents'
  BY <1>1, <1>2, <1>3, <1>4
  DEF IInv, Contents, Commands, ToShell, ToFS, ToTTY, ToSYS, IsCommand, IsRequest,
     IsAnswer, Answers, IsResume, Changes, keyboard
<1>9. Found'
  <2>1. FoundShell'
    BY <1>1, <1>2, <1>3, <1>4
    DEF IInv, Jobs, Found, FoundShell, Stances, Stands, Finds, ToShell, Server, Changes
  <2>2. FoundFS'
    BY <1>1, <1>2, <1>3, <1>4
    DEF IInv, Jobs, Found, FoundFS, Stances, Stands, Finds, IsRequest, IsResume,
       IsAnswer, Answers, Changes
  <2>3. FoundTTY'
    BY <1>1, <1>2, <1>3, <1>4
    DEF IInv, Jobs, Found, FoundTTY, Stances, Stands, Finds, ToTTY, Changes,
       K!IntMessage
  <2>4. FoundHD'
    BY <1>1, <1>2, <1>3, <1>4
    DEF IInv, Jobs, Found, FoundHD, Stances, Stands, Finds, Commands, IsCommand,
       keyboard, Changes
  <2>5. FoundSYS'
    BY <1>1, <1>2, <1>3, <1>4
    DEF IInv, Jobs, Found, FoundSYS, Stances, Stands, Finds, ToSYS, IsRequest, Changes
  <2> QED
    BY <2>1, <2>2, <2>3, <2>4, <2>5 DEF Found
<1>10. Jobs'
  BY <1>1, <1>2, <1>3, <1>4
  DEF IInv, Jobs, Answers, IsRequest, ToSYS, OnDisk, OnTerminal, OnSectors, Changes
<1>11. Served'
  <2>1. \A s \in {TTY, HD, SYS}, c \in Procs : Serving(s, c)' => Serving(s, c)
    BY <1>1, <1>2, <1>3, <1>4 DEF Changes, Serving, Finds
  <2>2. \A c \in Procs, s \in Procs : c # FS => (Calling(c, s)' <=> Calling(c, s)) /\ (Awaiting(c, s)' <=> Awaiting(c, s))
    BY <1>1, <1>2, <1>3, <1>4 DEF Changes, Calling, Awaiting
  <2>3. \A s \in {TTY, HD, SYS}, c \in Procs : Serving(s, c)' => Awaiting(c, s)'
    BY <1>1, <1>2, <1>3, <1>4, <2>1, <2>2 DEF IInv, Served
  <2>4. \A c \in Procs : \A x \in Queue(c)' : IsReply(c, x)' => status'[c] = "ready" /\ Calling(c, x.source)'
    BY <1>1, <1>2, <1>3, <1>4, <2>2, Senders DEF IInv, Served, IsReply
  <2> QED
    BY <2>3, <2>4 DEF Served
<1>12. AnsweredOnce' /\ ReaderKept'
  <2>1. /\ FSActive' <=> FSActive
        /\ TTYOwes' <=> TTYOwes
        /\ ResumeQueued' <=> ResumeQueued
        /\ ResumeFound' <=> ResumeFound
        /\ Suspending' <=> Suspending
    BY <1>1, <1>2, <1>3, <1>4, RequestFrame DEF Changes, terminal, Finds
  <2>2. FSActive \/ TTYOwes \/ Resuming => Awaiting(Shell, FS)'
    BY <1>1, <1>2, <1>3, <1>4 DEF IInv, AnsweredOnce, Awaiting, Calling, Changes
  <2> QED
    BY <1>1, <1>2, <1>3, <1>4, <2>1, <2>2, AnsweredFrame DEF terminal
<1>13. DiskInStep'
  BY <1>1, <1>2, <1>3, <1>4, DiskFrame DEF Changes
<1>14. KeysSeen'
  BY <1>1, <1>2, <1>3, <1>4
  DEF IInv, KeysSeen, keyboard, Changes
<1> QED
  BY <1>1, <1>2, <1>3, <1>4, <1>5, <1>6, <1>7, <1>8, <1>9, <1>10, <1>11, <1>12,
     <1>13, <1>14 DEF IInv

(* FS forgets a suspended reader; TTY owes it the answer.  *)
LEMMA FSSuspendIInv == IInv /\ FSSuspend => IInv'
<1> SUFFICES ASSUME IInv, FSSuspend PROVE IInv'
  OBVIOUS
<1> USE ProcsDiffer
<1>1. /\ pc[FS] = "reply" /\ status[FS] = "ready" /\ Go(FS, "receive")
      /\ UNCHANGED <<kernel, transfers, disk, keyboard, terminal>>
      /\ job' = [job EXCEPT ![FS] = NoJob] /\ Changes(job, job', FS, NoJob)
  BY DEF FSSuspend, At, IInv, TypeOK, LoopsTypeOK, Changes
<1>2. /\ KernelInv' /\ UNCHANGED <<status, partner, inbox, pending>>
      /\ \A c \in Procs : Queue(c)' = Queue(c)
      /\ pc' = [pc EXCEPT ![FS] = "receive"] /\ Changes(pc, pc', FS, "receive")
  BY <1>1, KernelSame DEF Go, IInv, TypeOK, LoopsTypeOK, Changes
<1>3. /\ \A s \in {TTY, HD, SYS} : ~Serving(s, FS)
      /\ ~(Finds(TTY, "got") /\ inbox[TTY].source = FS) /\ pc[TTY] # "reply"
      /\ \A x \in Queue(TTY) : FALSE
      /\ \A c \in Procs : \A x \in Queue(c) : x.source # FS
      /\ \A x \in Queue(FS) : (x.source = Shell /\ IsRequest(x)) \/ IsResume(x)
      /\ \A x \in Queue(FS) : x.type.op # "SUSPEND_PROC"
  BY <1>1, NobodyServesFS
<1>4. \A s \in Procs : ~Awaiting(FS, s) /\ ~Calling(FS, s) /\ ~Awaiting(FS, s)' /\ ~Calling(FS, s)'
  BY <1>1, <1>2 DEF Awaiting, Calling, Changes
<1>5. job[FS].type.op = "SUSPEND_PROC"
  BY DEF FSSuspend
<1>6. Suspending /\ ~FSActive /\ Awaiting(Shell, FS)
  BY <1>1, <1>5 DEF Suspending, FSActive, IInv, AnsweredOnce
<1>7. TypeOK'
  <2>1. LoopsTypeOK'
    BY <1>1, <1>2, <1>3, <1>4, <1>5, <1>6, NoJobType DEF IInv, TypeOK, LoopsTypeOK,
       Mail, keyboard
  <2> QED
    BY <1>1, <1>2, <1>3, <1>4, <1>5, <1>6, <2>1, TypesKept DEF IInv
<1>8. Points'
  BY <1>1, <1>2, <1>3, <1>4, <1>5, <1>6
  DEF IInv, Points, Changes
<1>9. Stances'
  BY <1>1, <1>2, <1>3, <1>4, <1>5, <1>6
  DEF IInv, Stances, Stands, Changes
<1>10. Contents'
  BY <1>1, <1>2, <1>3, <1>4, <1>5, <1>6
  DEF IInv, Contents, Commands, ToShell, ToFS, ToTTY, ToSYS, IsCommand, IsRequest,
     IsAnswer, Answers, IsResume, Changes, keyboard
<1>11. Found'
  <2>1. FoundShell'
    BY <1>1, <1>2, <1>3, <1>4, <1>5, <1>6
    DEF IInv, Jobs, Found, FoundShell, Stances, Stands, Finds, ToShell, Server, Changes
  <2>2. FoundFS'
    BY <1>1, <1>2, <1>3, <1>4, <1>5, <1>6
    DEF IInv, Jobs, Found, FoundFS, Stances, Stands, Finds, IsRequest, IsResume,
       IsAnswer, Answers, Changes
  <2>3. FoundTTY'
    BY <1>1, <1>2, <1>3, <1>4, <1>5, <1>6
    DEF IInv, Jobs, Found, FoundTTY, Stances, Stands, Finds, ToTTY, Changes,
       K!IntMessage
  <2>4. FoundHD'
    BY <1>1, <1>2, <1>3, <1>4, <1>5, <1>6
    DEF IInv, Jobs, Found, FoundHD, Stances, Stands, Finds, Commands, IsCommand,
       keyboard, Changes
  <2>5. FoundSYS'
    BY <1>1, <1>2, <1>3, <1>4, <1>5, <1>6
    DEF IInv, Jobs, Found, FoundSYS, Stances, Stands, Finds, ToSYS, IsRequest, Changes
  <2> QED
    BY <2>1, <2>2, <2>3, <2>4, <2>5 DEF Found
<1>12. Jobs'
  BY <1>1, <1>2, <1>3, <1>4, <1>5, <1>6
  DEF IInv, Jobs, Answers, IsRequest, ToSYS, OnDisk, OnTerminal, OnSectors, Changes
<1>13. Served'
  <2>1. \A s \in {TTY, HD, SYS}, c \in Procs : Serving(s, c)' => Serving(s, c)
    BY <1>1, <1>2, <1>3, <1>4, <1>5, <1>6 DEF Changes, Serving, Finds
  <2>2. \A c \in Procs, s \in Procs : c # FS => (Calling(c, s)' <=> Calling(c, s)) /\ (Awaiting(c, s)' <=> Awaiting(c, s))
    BY <1>1, <1>2, <1>3, <1>4, <1>5, <1>6 DEF Changes, Calling, Awaiting
  <2>3. \A s \in {TTY, HD, SYS}, c \in Procs : Serving(s, c)' => Awaiting(c, s)'
    BY <1>1, <1>2, <1>3, <1>4, <1>5, <1>6, <2>1, <2>2 DEF IInv, Served
  <2>4. \A c \in Procs : \A x \in Queue(c)' : IsReply(c, x)' => status'[c] = "ready" /\ Calling(c, x.source)'
    BY <1>1, <1>2, <1>3, <1>4, <1>5, <1>6, <2>2, Senders DEF IInv, Served, IsReply
  <2> QED
    BY <2>3, <2>4 DEF Served
<1>14. AnsweredOnce' /\ ReaderKept'
  <2>1. /\ ~FSActive' /\ ~Suspending'
        /\ TTYOwes' <=> TTYOwes
        /\ ResumeQueued' <=> ResumeQueued
        /\ ResumeFound' <=> ResumeFound
    BY <1>1, <1>2, <1>3, <1>4, <1>5, <1>6 DEF FSActive, TTYOwes, ResumeFound,
       ResumeQueued, Suspending, Changes, Finds, terminal
  <2>2. Awaiting(Shell, FS)'
    BY <1>1, <1>2, <1>3, <1>4, <1>5, <1>6 DEF Awaiting, Calling, Changes
  <2>3. reader' = reader /\ job'[Shell] = job[Shell] /\ Queue(Shell)' = Queue(Shell)
    BY <1>1, <1>2, <1>3, <1>4, <1>5, <1>6 DEF Changes, terminal
  <2> QED
    BY <2>1, <2>2, <2>3 DEF IInv, AnsweredOnce, ReaderKept, Resuming
<1>15. DiskInStep'
  BY <1>1, <1>2, <1>3, <1>4, <1>5, <1>6, DiskFrame DEF Changes
<1>16. KeysSeen'
  BY <1>1, <1>2, <1>3, <1>4, <1>5, <1>6
  DEF IInv, KeysSeen, keyboard, Changes
<1> QED
  BY <1>1, <1>2, <1>3, <1>4, <1>5, <1>6, <1>7, <1>8, <1>9, <1>10, <1>11, <1>12,
     <1>13, <1>14, <1>15, <1>16 DEF IInv

(* After its transfers FS answers, asks TTY, or has initialised.  *)
LEMMA FSWorkDoneIInv == IInv /\ FSWorkDone => IInv'
<1> SUFFICES ASSUME IInv, FSWorkDone PROVE IInv'
  OBVIOUS
<1> USE ProcsDiffer
<1> DEFINE nxt == (CASE job[FS] = NoJob -> "receive"
          [] job[FS].type.on = "tty" -> "tty"
          [] OTHER -> "reply")
<1>1. /\ pc[FS] = "work" /\ status[FS] = "ready" /\ Go(FS, nxt)
      /\ UNCHANGED <<kernel, job, transfers, disk, keyboard, terminal>>
  BY DEF FSWorkDone, At, IInv, TypeOK, LoopsTypeOK, Changes
<1>2. /\ KernelInv' /\ UNCHANGED <<status, partner, inbox, pending>>
      /\ \A c \in Procs : Queue(c)' = Queue(c)
      /\ pc' = [pc EXCEPT ![FS] = nxt] /\ Changes(pc, pc', FS, nxt)
  BY <1>1, KernelSame DEF Go, IInv, TypeOK, LoopsTypeOK, Changes
<1>3. nxt = IF job[FS] = NoJob THEN "receive" ELSE IF job[FS].type.on = "tty" THEN "tty" ELSE "reply"
  BY DEF NoJob, Msg
<1> HIDE DEF nxt
<1>4. /\ \A s \in {TTY, HD, SYS} : ~Serving(s, FS)
      /\ ~(Finds(TTY, "got") /\ inbox[TTY].source = FS) /\ pc[TTY] # "reply"
      /\ \A x \in Queue(TTY) : FALSE
      /\ \A c \in Procs : \A x \in Queue(c) : x.source # FS
      /\ \A x \in Queue(FS) : (x.source = Shell /\ IsRequest(x)) \/ IsResume(x)
      /\ \A x \in Queue(FS) : x.type.op # "SUSPEND_PROC"
  BY <1>1, NobodyServesFS
<1>5. \A s \in Procs : ~Awaiting(FS, s) /\ ~Calling(FS, s) /\ ~Awaiting(FS, s)' /\ ~Calling(FS, s)'
  BY <1>1, <1>2, <1>3 DEF Awaiting, Calling, Changes
<1>6. job[FS] # NoJob => job[Shell].type \in Requests /\ job[FS].type = job[Shell].type
  <2> SUFFICES ASSUME job[FS] # NoJob PROVE job[Shell].type \in Requests /\ job[FS].type = job[Shell].type
      OBVIOUS
    <2>1. ~Suspending
      BY <1>1, <1>4 DEF Suspending, Finds
    <2>2. Awaiting(Shell, FS)
      BY <2>1 DEF FSActive, IInv, AnsweredOnce
    <2>3. pc[Shell] # "run"
      BY <2>2 DEF IInv, Stances, Stands, Awaiting, Calling
    <2> QED
      BY <1>1, <2>3 DEF IInv, Jobs, OnDisk
<1>7. job[FS] # NoJob => job[FS].type.op \in {"READ", "WRITE", "OPEN", "GET_TICKS"} /\ job[FS].type.cnt <= job[Shell].type.cnt
  BY <1>6, RequestFields
<1>8. TypeOK'
  <2>1. LoopsTypeOK'
    BY <1>1, <1>2, <1>3, <1>4, <1>5, <1>6, <1>7, NoJobType DEF IInv, TypeOK,
       LoopsTypeOK, Mail, keyboard
  <2> QED
    BY <1>1, <1>2, <1>3, <1>4, <1>5, <1>6, <1>7, <2>1, TypesKept DEF IInv
<1>9. Points'
  BY <1>1, <1>2, <1>3, <1>4, <1>5, <1>6, <1>7
  DEF IInv, Points, Changes
<1>10. Stances'
  BY <1>1, <1>2, <1>3, <1>4, <1>5, <1>6, <1>7
  DEF IInv, Stances, Stands, Changes
<1>11. Contents'
  BY <1>1, <1>2, <1>3, <1>4, <1>5, <1>6, <1>7
  DEF IInv, Contents, Commands, ToShell, ToFS, ToTTY, ToSYS, IsCommand, IsRequest,
     IsAnswer, Answers, IsResume, Changes, keyboard
<1>12. Found'
  <2>1. FoundShell'
    BY <1>1, <1>2, <1>3, <1>4, <1>5, <1>6, <1>7
    DEF IInv, Jobs, Found, FoundShell, Stances, Stands, Finds, ToShell, Server, Changes
  <2>2. FoundFS'
    BY <1>1, <1>2, <1>3, <1>4, <1>5, <1>6, <1>7
    DEF IInv, Jobs, Found, FoundFS, Stances, Stands, Finds, IsRequest, IsResume,
       IsAnswer, Answers, Changes
  <2>3. FoundTTY'
    BY <1>1, <1>2, <1>3, <1>4, <1>5, <1>6, <1>7
    DEF IInv, Jobs, Found, FoundTTY, Stances, Stands, Finds, ToTTY, Changes,
       K!IntMessage
  <2>4. FoundHD'
    BY <1>1, <1>2, <1>3, <1>4, <1>5, <1>6, <1>7
    DEF IInv, Jobs, Found, FoundHD, Stances, Stands, Finds, Commands, IsCommand,
       keyboard, Changes
  <2>5. FoundSYS'
    BY <1>1, <1>2, <1>3, <1>4, <1>5, <1>6, <1>7
    DEF IInv, Jobs, Found, FoundSYS, Stances, Stands, Finds, ToSYS, IsRequest, Changes
  <2> QED
    BY <2>1, <2>2, <2>3, <2>4, <2>5 DEF Found
<1>13. Jobs'
  BY <1>1, <1>2, <1>3, <1>4, <1>5, <1>6, <1>7
  DEF IInv, Jobs, Answers, IsRequest, ToSYS, OnDisk, OnTerminal, OnSectors, Changes
<1>14. Served'
  <2>1. \A s \in {TTY, HD, SYS}, c \in Procs : Serving(s, c)' => Serving(s, c)
    BY <1>1, <1>2, <1>3, <1>4, <1>5, <1>6, <1>7 DEF Changes, Serving, Finds
  <2>2. \A c \in Procs, s \in Procs : c # FS => (Calling(c, s)' <=> Calling(c, s)) /\ (Awaiting(c, s)' <=> Awaiting(c, s))
    BY <1>1, <1>2, <1>3, <1>4, <1>5, <1>6, <1>7 DEF Changes, Calling, Awaiting
  <2>3. \A s \in {TTY, HD, SYS}, c \in Procs : Serving(s, c)' => Awaiting(c, s)'
    BY <1>1, <1>2, <1>3, <1>4, <1>5, <1>6, <1>7, <2>1, <2>2 DEF IInv, Served
  <2>4. \A c \in Procs : \A x \in Queue(c)' : IsReply(c, x)' => status'[c] = "ready" /\ Calling(c, x.source)'
    BY <1>1, <1>2, <1>3, <1>4, <1>5, <1>6, <1>7, <2>2, Senders DEF IInv, Served, IsReply
  <2> QED
    BY <2>3, <2>4 DEF Served
<1>15. AnsweredOnce' /\ ReaderKept'
  <2>1. /\ Suspending' <=> Suspending
        /\ TTYOwes' <=> TTYOwes
        /\ ResumeQueued' <=> ResumeQueued
        /\ ResumeFound' <=> ResumeFound
    BY <1>1, <1>2, <1>3, <1>4, <1>5, <1>6, <1>7 DEF TTYOwes, ResumeFound,
       ResumeQueued, Suspending, Changes, Finds, terminal
  <2>2. FSActive' <=> FSActive
    BY <1>1, <1>2, <1>3, <1>4, <1>5, <1>6, <1>7, <2>1 DEF FSActive, Changes, Finds
  <2>3. FSActive \/ TTYOwes \/ Resuming => Awaiting(Shell, FS)'
    BY <1>1, <1>2, <1>3, <1>4, <1>5, <1>6, <1>7 DEF IInv, AnsweredOnce, Awaiting,
       Calling, Changes
  <2> QED
    BY <1>1, <1>2, <1>3, <1>4, <1>5, <1>6, <1>7, <2>1, <2>2, <2>3, AnsweredFrame
       DEF terminal
<1>16. DiskInStep'
  BY <1>1, <1>2, <1>3, <1>4, <1>5, <1>6, <1>7, DiskFrame DEF Changes
<1>17. KeysSeen'
  BY <1>1, <1>2, <1>3, <1>4, <1>5, <1>6, <1>7
  DEF IInv, KeysSeen, keyboard, Changes
<1> QED
  BY <1>1, <1>2, <1>3, <1>4, <1>5, <1>6, <1>7, <1>8, <1>9, <1>10, <1>11, <1>12,
     <1>13, <1>14, <1>15, <1>16, <1>17 DEF IInv

(* What TTY answered becomes what FS answers.  *)
LEMMA FSTtyDoneIInv == IInv /\ FSTtyDone => IInv'
<1> SUFFICES ASSUME IInv, FSTtyDone PROVE IInv'
  OBVIOUS
<1> USE ProcsDiffer
<1> DEFINE nj == IF job[FS].type.op = "OPEN" THEN job[FS]
                  ELSE [job[FS] EXCEPT !.type = inbox[FS].type]
<1>1. /\ pc[FS] = "tty_got" /\ status[FS] = "ready" /\ Accept(FS, nj, "reply")
      /\ UNCHANGED <<transfers, disk, keyboard, terminal>>
  BY DEF FSTtyDone, At
<1>2. /\ KernelInv' /\ UNCHANGED <<status, partner, pending>>
      /\ Changes(inbox, inbox', FS, NO_TASK) /\ \A c \in Procs : Queue(c)' = Queue(c)
      /\ pc' = [pc EXCEPT ![FS] = "reply"] /\ Changes(pc, pc', FS, "reply")
      /\ job' = [job EXCEPT ![FS] = nj] /\ Changes(job, job', FS, nj)
  BY <1>1, Accepted
<1>3. /\ inbox[FS] \in Mail /\ IsAnswer(inbox[FS])
      /\ job[FS] # NoJob /\ job[FS].source = Shell /\ job[FS].type = job[Shell].type
  BY <1>1 DEF IInv, Found, FoundFS, Finds, Jobs, OnTerminal
<1>4. /\ job[FS].type \in Body /\ inbox[FS].type \in Body /\ job[FS].type.cnt \in Nat
      /\ nj.source = Shell /\ nj.type = IF job[FS].type.op = "OPEN" THEN job[FS].type ELSE inbox[FS].type
      /\ nj \in [source : Procs \union {NO_TASK}, type : Body] /\ nj # NoJob
  <2>1. job[FS] \in [source : Procs \union {NO_TASK}, type : Body] /\ inbox[FS].type \in Body
      BY <1>3 DEF IInv, TypeOK, LoopsTypeOK, Mail
    <2>2. nj.source = Shell /\ nj.type = IF job[FS].type.op = "OPEN" THEN job[FS].type ELSE inbox[FS].type
      BY <1>3, <2>1
    <2>3. nj \in [source : Procs \union {NO_TASK}, type : Body]
      BY <1>3, <2>1
    <2> QED
      BY <2>1, <2>2, <2>3 DEF NoJob, Body
<1> HIDE DEF nj
<1>5. /\ \A s \in {TTY, HD, SYS} : ~Serving(s, FS)
      /\ ~(Finds(TTY, "got") /\ inbox[TTY].source = FS) /\ pc[TTY] # "reply"
      /\ \A x \in Queue(TTY) : FALSE
      /\ \A c \in Procs : \A x \in Queue(c) : x.source # FS
      /\ \A x \in Queue(FS) : (x.source = Shell /\ IsRequest(x)) \/ IsResume(x)
      /\ \A x \in Queue(FS) : x.type.op # "SUSPEND_PROC"
  BY <1>1, NobodyServesFS
<1>6. \A s \in Procs : ~Awaiting(FS, s) /\ ~Calling(FS, s) /\ ~Awaiting(FS, s)' /\ ~Calling(FS, s)'
  BY <1>1, <1>2 DEF Awaiting, Calling, Changes
<1>7. TypeOK'
  <2>1. LoopsTypeOK'
    BY <1>1, <1>2, <1>3, <1>4, <1>5, <1>6, NoJobType DEF IInv, TypeOK, LoopsTypeOK,
       Mail, keyboard
  <2> QED
    BY <1>1, <1>2, <1>3, <1>4, <1>5, <1>6, <2>1, TypesKept DEF IInv
<1>8. Points'
  BY <1>1, <1>2, <1>3, <1>4, <1>5, <1>6
  DEF IInv, Points, Changes
<1>9. Stances'
  BY <1>1, <1>2, <1>3, <1>4, <1>5, <1>6
  DEF IInv, Stances, Stands, Changes
<1>10. Contents'
  BY <1>1, <1>2, <1>3, <1>4, <1>5, <1>6
  DEF IInv, Contents, Commands, ToShell, ToFS, ToTTY, ToSYS, IsCommand, IsRequest,
     IsAnswer, Answers, IsResume, Changes, keyboard
<1>11. Found'
  <2>1. FoundShell'
    BY <1>1, <1>2, <1>3, <1>4, <1>5, <1>6
    DEF IInv, Jobs, Found, FoundShell, Stances, Stands, Finds, ToShell, Server, Changes
  <2>2. FoundFS'
    BY <1>1, <1>2, <1>3, <1>4, <1>5, <1>6
    DEF IInv, Jobs, Found, FoundFS, Stances, Stands, Finds, IsRequest, IsResume,
       IsAnswer, Answers, Changes
  <2>3. FoundTTY'
    BY <1>1, <1>2, <1>3, <1>4, <1>5, <1>6
    DEF IInv, Jobs, Found, FoundTTY, Stances, Stands, Finds, ToTTY, Changes,
       K!IntMessage
  <2>4. FoundHD'
    BY <1>1, <1>2, <1>3, <1>4, <1>5, <1>6
    DEF IInv, Jobs, Found, FoundHD, Stances, Stands, Finds, Commands, IsCommand,
       keyboard, Changes
  <2>5. FoundSYS'
    BY <1>1, <1>2, <1>3, <1>4, <1>5, <1>6
    DEF IInv, Jobs, Found, FoundSYS, Stances, Stands, Finds, ToSYS, IsRequest, Changes
  <2> QED
    BY <2>1, <2>2, <2>3, <2>4, <2>5 DEF Found
<1>12. Jobs'
  <2>1. nj.type.cnt = job[FS].type.cnt
    BY <1>3, <1>4 DEF IsAnswer, Answers
  <2> QED
    BY <1>1, <1>2, <1>3, <1>4, <1>5, <2>1 DEF IInv, Jobs, Answers, IsRequest, ToSYS,
       OnDisk, OnTerminal, OnSectors, Changes
<1>13. Served'
  <2>1. \A s \in {TTY, HD, SYS}, c \in Procs : Serving(s, c)' => Serving(s, c)
    BY <1>1, <1>2, <1>3, <1>4, <1>5, <1>6 DEF Changes, Serving, Finds
  <2>2. \A c \in Procs, s \in Procs : c # FS => (Calling(c, s)' <=> Calling(c, s)) /\ (Awaiting(c, s)' <=> Awaiting(c, s))
    BY <1>1, <1>2, <1>3, <1>4, <1>5, <1>6 DEF Changes, Calling, Awaiting
  <2>3. \A s \in {TTY, HD, SYS}, c \in Procs : Serving(s, c)' => Awaiting(c, s)'
    BY <1>1, <1>2, <1>3, <1>4, <1>5, <1>6, <2>1, <2>2 DEF IInv, Served
  <2>4. \A c \in Procs : \A x \in Queue(c)' : IsReply(c, x)' => status'[c] = "ready" /\ Calling(c, x.source)'
    BY <1>1, <1>2, <1>3, <1>4, <1>5, <1>6, <2>2, Senders DEF IInv, Served, IsReply
  <2> QED
    BY <2>3, <2>4 DEF Served
<1>14. AnsweredOnce' /\ ReaderKept'
  <2>1. /\ TTYOwes' <=> TTYOwes
        /\ ResumeQueued' <=> ResumeQueued
        /\ ResumeFound' <=> ResumeFound
    BY <1>1, <1>2, <1>3, <1>4, <1>5, <1>6 DEF TTYOwes, ResumeFound, ResumeQueued,
       Changes, Finds, terminal
  <2>2. Suspending' <=> Suspending
    BY <1>1, <1>2, <1>3, <1>4, <1>5, <1>6 DEF Suspending, Changes, Finds, IsAnswer,
       Answers
  <2>3. FSActive' <=> FSActive
    BY <1>1, <1>2, <1>3, <1>4, <1>5, <1>6, <2>2 DEF FSActive, Changes, Finds
  <2>4. FSActive \/ TTYOwes \/ Resuming => Awaiting(Shell, FS)'
    BY <1>1, <1>2, <1>3, <1>4, <1>5, <1>6 DEF IInv, AnsweredOnce, Awaiting, Calling,
       Changes
  <2> QED
    BY <1>1, <1>2, <1>3, <1>4, <1>5, <1>6, <2>1, <2>2, <2>3, <2>4, AnsweredFrame
       DEF terminal
<1>15. DiskInStep'
  BY <1>1, <1>2, <1>3, <1>4, <1>5, <1>6, DiskFrame DEF Changes
<1>16. KeysSeen'
  BY <1>1, <1>2, <1>3, <1>4, <1>5, <1>6
  DEF IInv, KeysSeen, keyboard, Changes
<1> QED
  BY <1>1, <1>2, <1>3, <1>4, <1>5, <1>6, <1>7, <1>8, <1>9, <1>10, <1>11, <1>12,
     <1>13, <1>14, <1>15, <1>16 DEF IInv
=============================================================================
