--------------------------- MODULE ServicesProofs ---------------------------
(***************************************************************************)
(* The message loops serve each other rightly, for every size of the       *)
(* buffers and every load.  The steps of TTY, of HD, of the disk, of the   *)
(* keyboard and of the clock keep the invariant, as those of the shell,    *)
(* SYS and FS do (ServicesInvariant); so it holds, and with it each safety *)
(* property of module Services.                                            *)
(***************************************************************************)
EXTENDS ServicesInvariant

-----------------------------------------------------------------------------
(* The steps of the terminal, the disk driver and the devices.  Each lemma *)
(* has one step for each part of the invariant that the action can         *)
(* disturb.                                                                *)

(* Taking the first element of a buffer, and adding one at its end.  *)
LEMMA Buffers ==
  ASSUME NEW S, NEW s \in Seq(S)
  PROVE  /\ Len(s) \in Nat
         /\ s # <<>> => Tail(s) \in Seq(S) /\ Len(Tail(s)) = Len(s) - 1 /\ Head(s) \in S
         /\ \A e \in S : Append(s, e) \in Seq(S) /\ Len(Append(s, e)) = Len(s) + 1
  BY HeadTailProperties, AppendProperties, LenProperties

(* TTY moves a key from one buffer to the other; it is still reading       *)
(* keys.                                                                   *)
LEMMA TTYReadKeyIInv == IInv /\ TTYReadKey => IInv'
<1> SUFFICES ASSUME IInv, TTYReadKey PROVE IInv'
  OBVIOUS
<1>1. /\ pc[TTY] = "read_keys" /\ kb_in # <<>> /\ kb_in' = Tail(kb_in)
      /\ ibuf' = IF Len(ibuf) < TTY_IN_BYTES THEN Append(ibuf, Head(kb_in)) ELSE ibuf
      /\ UNCHANGED <<kernel, pc, job, transfers, disk, key_pressed, keys, load, reader>>
  BY DEF TTYReadKey, At
<1>2. UNCHANGED <<status, pending, sectors, device, announced, waitfor>>
  BY <1>1 DEF kernel, disk
<1>3. LoopsTypeOK' /\ DiskTypeOK'
  BY <1>1, <1>2 DEF IInv, TypeOK, LoopsTypeOK, DiskTypeOK
<1>4. KeysTypeOK' /\ TerminalTypeOK'
  <2>1. /\ kb_in \in Seq(Keys) /\ Len(kb_in) <= KB_IN_BYTES /\ ibuf \in Seq(Keys)
        /\ Len(ibuf) <= TTY_IN_BYTES /\ KB_IN_BYTES \in Nat /\ TTY_IN_BYTES \in Nat
    BY ServicesAssumption DEF IInv, TypeOK, KeysTypeOK, TerminalTypeOK
  <2>2. kb_in' \in Seq(Keys) /\ Len(kb_in') <= KB_IN_BYTES /\ Head(kb_in) \in Keys
    BY <1>1, <2>1, Buffers
  <2>3. ibuf' \in Seq(Keys) /\ Len(ibuf') <= TTY_IN_BYTES
    BY <1>1, <2>1, <2>2, Buffers
  <2> QED
    BY <1>1, <2>2, <2>3, Zenon DEF IInv, TypeOK, KeysTypeOK, TerminalTypeOK
<1>5. DiskInStep'
  BY <1>1, <1>2, DiskFrame
<1>6. KeysSeen'
  BY <1>1 DEF KeysSeen
<1> QED
  BY <1>1, <1>3, <1>4, <1>5, <1>6, LoopsFrame DEF IInv, TypeOK

(* A key that is pressed is announced by key_pressed.  *)
LEMMA KeyPressIInv == IInv /\ KeyPress => IInv'
<1> SUFFICES ASSUME IInv, KeyPress PROVE IInv'
  OBVIOUS
<1>1. /\ keys < load.keys /\ keys' = keys + 1 /\ key_pressed' = TRUE
      /\ \E k \in Keys :
           kb_in' = IF Len(kb_in) < KB_IN_BYTES THEN Append(kb_in, k) ELSE kb_in
      /\ UNCHANGED <<kernel, pc, job, transfers, disk, terminal, load>>
  BY DEF KeyPress
<1>2. UNCHANGED <<status, pending, sectors, device, announced, waitfor, ibuf, reader>>
  BY <1>1 DEF kernel, disk, terminal
<1>3. LoopsTypeOK' /\ DiskTypeOK' /\ TerminalTypeOK'
  BY <1>1, <1>2 DEF IInv, TypeOK, LoopsTypeOK, DiskTypeOK, TerminalTypeOK
<1>4. KeysTypeOK'
  <2>1. /\ kb_in \in Seq(Keys) /\ Len(kb_in) <= KB_IN_BYTES /\ KB_IN_BYTES \in Nat
    BY ServicesAssumption DEF IInv, TypeOK, KeysTypeOK
  <2>2. kb_in' \in Seq(Keys) /\ Len(kb_in') <= KB_IN_BYTES
    BY <1>1, <2>1, Buffers
  <2>3. keys' \in 0..load.keys
    BY <1>1, LoadFields DEF IInv, TypeOK, KeysTypeOK
  <2> QED
    BY <1>1, <2>2, <2>3, Zenon DEF IInv, TypeOK, KeysTypeOK
<1>5. DiskInStep'
  BY <1>1, <1>2, DiskFrame
<1>6. KeysSeen'
  BY <1>1 DEF KeysSeen
<1> QED
  BY <1>1, <1>2, <1>3, <1>4, <1>5, <1>6, LoopsFrame DEF IInv, TypeOK

(* Nothing changes in a stuttering step.  *)
LEMMA StutterIInv == IInv /\ UNCHANGED vars => IInv'
<1> SUFFICES ASSUME IInv, UNCHANGED vars PROVE IInv'
  OBVIOUS
<1>1. UNCHANGED <<kernel, pc, job, transfers, disk, keyboard, terminal>>
  BY DEF vars
<1>2. UNCHANGED <<status, pending, sectors, device, announced, waitfor,
                  kb_in, key_pressed, keys, load, ibuf, reader>>
  BY <1>1 DEF kernel, disk, keyboard, terminal
<1>3. TypeOK'
  BY <1>1, <1>2 DEF IInv, TypeOK, LoopsTypeOK, DiskTypeOK, KeysTypeOK, TerminalTypeOK
<1>4. DiskInStep' /\ KeysSeen'
  BY <1>1, <1>2, DiskFrame DEF IInv, KeysSeen
<1> QED
  BY <1>1, <1>2, <1>3, <1>4, LoopsFrame DEF IInv

(* The counters of a reader.  *)
LEMMA Counters ==
  ASSUME NEW S, NEW r \in [proc : S, left : Int, trans : Int]
  PROVE  LET R == [proc : S, left : Int, trans : Int]
             typed == [r EXCEPT !.left = @ - 1, !.trans = @ + 1]
             erased == [r EXCEPT !.left = @ + 1, !.trans = @ - 1]
         IN  /\ typed \in R /\ erased \in R
             /\ typed.proc = r.proc /\ erased.proc = r.proc
             /\ typed.left = r.left - 1 /\ typed.trans = r.trans + 1
             /\ erased.left = r.left + 1 /\ erased.trans = r.trans - 1
<1> DEFINE R == [proc : S, left : Int, trans : Int]
           With(x, a) == [x EXCEPT !.left = a]
           More(x, b) == [x EXCEPT !.trans = b]
<1>1. \A x \in R : \A a \in Int :
        /\ With(x, a) \in R /\ More(x, a) \in R
        /\ With(x, a).proc = x.proc /\ With(x, a).left = a /\ With(x, a).trans = x.trans
        /\ More(x, a).proc = x.proc /\ More(x, a).left = x.left /\ More(x, a).trans = a
  OBVIOUS
<1>2. /\ [r EXCEPT !.left = @ - 1, !.trans = @ + 1] = More(With(r, r.left - 1), r.trans + 1)
      /\ [r EXCEPT !.left = @ + 1, !.trans = @ - 1] = More(With(r, r.left + 1), r.trans - 1)
  OBVIOUS
<1> HIDE DEF With, More
<1>3. /\ More(With(r, r.left - 1), r.trans + 1) \in R
      /\ More(With(r, r.left + 1), r.trans - 1) \in R
  <2>1. r \in R /\ r.left - 1 \in Int /\ r.left + 1 \in Int /\ r.trans - 1 \in Int /\ r.trans + 1 \in Int
    OBVIOUS
  <2> HIDE DEF R
  <2>2. With(r, r.left - 1) \in R /\ With(r, r.left + 1) \in R
    BY <1>1, <2>1
  <2> QED
    BY <1>1, <2>1, <2>2
<1>4. /\ More(With(r, r.left - 1), r.trans + 1).proc = r.proc
      /\ More(With(r, r.left + 1), r.trans - 1).proc = r.proc
      /\ More(With(r, r.left - 1), r.trans + 1).left = r.left - 1
      /\ More(With(r, r.left - 1), r.trans + 1).trans = r.trans + 1
      /\ More(With(r, r.left + 1), r.trans - 1).left = r.left + 1
      /\ More(With(r, r.left + 1), r.trans - 1).trans = r.trans - 1
  BY DEF With, More
<1> QED
  BY <1>2, <1>3, <1>4

(* A typed key moves the counters of the reader in step, or lets it be     *)
(* resumed.                                                                *)
LEMMA TTYWriteKeyIInv == IInv /\ TTYWriteKey => IInv'
<1> SUFFICES ASSUME IInv, TTYWriteKey PROVE IInv'
  OBVIOUS
<1> USE ProcsDiffer
<1>1. /\ pc[TTY] = "write_keys" /\ status[TTY] = "ready" /\ ibuf # <<>> /\ ibuf' = Tail(ibuf)
      /\ IF reader.left = 0
         THEN UNCHANGED <<pc, reader>>
         ELSE /\ reader' = Typed(Head(ibuf))
              /\ IF Head(ibuf) = "newline" \/ reader'.left = 0
                 THEN pc' = [pc EXCEPT ![TTY] = "resume"] ELSE UNCHANGED pc
      /\ UNCHANGED <<kernel, job, transfers, disk, keyboard>>
  BY DEF TTYWriteKey, At, Go
<1>2. UNCHANGED <<sectors, device, announced, waitfor, kb_in, key_pressed, keys, load>>
  BY <1>1 DEF disk, keyboard
<1>3. /\ KernelInv' /\ UNCHANGED <<status, partner, inbox, pending>>
      /\ \A c \in Procs : Queue(c)' = Queue(c)
  BY <1>1, KernelSame DEF IInv
<1>4. ibuf' \in Seq(Keys) /\ Len(ibuf') <= TTY_IN_BYTES
  BY <1>1, ServicesAssumption, Buffers DEF IInv, TypeOK, TerminalTypeOK
<1>5. DiskTypeOK' /\ KeysTypeOK'
  BY <1>2 DEF IInv, TypeOK, DiskTypeOK, KeysTypeOK
<1>6. CASE reader.left = 0
  <2>1. UNCHANGED <<pc, reader>>
    BY <1>1, <1>6
  <2>2. LoopsTypeOK'
    BY <1>1, <1>2, <2>1 DEF IInv, TypeOK, LoopsTypeOK
  <2>3. TerminalTypeOK'
    BY <1>4, <2>1 DEF IInv, TypeOK, TerminalTypeOK
  <2>4. DiskInStep' /\ KeysSeen'
    BY <1>1, <1>2, <1>3, <2>1, DiskFrame DEF IInv, KeysSeen
  <2> QED
    BY <1>1, <1>2, <1>5, <2>1, <2>2, <2>3, <2>4, LoopsFrame DEF IInv, TypeOK
<1>7. CASE reader.left # 0
  <2>1. reader.left \in 0..MaxCount /\ reader.trans \in 0..MaxCount /\ reader.proc \in Procs \union {NO_TASK}
        /\ reader = [proc |-> reader.proc, left |-> reader.left, trans |-> reader.trans]
    BY DEF IInv, TypeOK, TerminalTypeOK
  <2>2. TTYOwes
    BY <1>1, <1>7, <2>1, ServicesAssumption DEF TTYOwes
  <2>3. /\ ~FSActive /\ ~Resuming /\ Awaiting(Shell, FS)
        /\ \A x \in Queue(Shell) : x.source # FS
        /\ reader.proc = Shell /\ job[Shell].type.op = "READ" /\ job[Shell].type.on = "tty"
        /\ reader.left + reader.trans = job[Shell].type.cnt
    BY <2>2 DEF IInv, AnsweredOnce, ReaderKept
  <2>4. job[Shell].type.cnt \in 0..MaxCount
    <3>1. pc[Shell] # "run"
      BY <2>3 DEF IInv, Stances, Stands, Awaiting, Calling
    <3> QED
      BY <3>1, RequestFields DEF IInv, Jobs
  <2>5. /\ reader' \in [proc : Procs \union {NO_TASK}, left : 0..MaxCount, trans : 0..MaxCount]
        /\ reader'.proc = Shell /\ reader'.left + reader'.trans = job[Shell].type.cnt
    <3> DEFINE R == [proc : Procs \union {NO_TASK}, left : Int, trans : Int]
               typed == [reader EXCEPT !.left = @ - 1, !.trans = @ + 1]
               erased == [reader EXCEPT !.left = @ + 1, !.trans = @ - 1]
    <3>1. /\ reader \in R /\ typed \in R /\ erased \in R
          /\ typed.proc = reader.proc /\ erased.proc = reader.proc
          /\ typed.left = reader.left - 1 /\ typed.trans = reader.trans + 1
          /\ erased.left = reader.left + 1 /\ erased.trans = reader.trans - 1
      <4>1. reader \in R
        <5>1. 0..MaxCount \subseteq Int
          BY ServicesAssumption
        <5> QED
          BY <5>1 DEF IInv, TypeOK, TerminalTypeOK
      <4> QED
        BY <4>1, Counters
    <3>2. reader' = reader \/ reader' = typed \/ (reader.trans > 0 /\ reader' = erased)
      BY <1>1, <1>7 DEF Typed
    <3> HIDE DEF typed, erased
    <3>3. /\ reader' \in R /\ reader'.proc = Shell
          /\ reader'.left \in 0..MaxCount /\ reader'.trans \in 0..MaxCount
          /\ reader'.left + reader'.trans = job[Shell].type.cnt
      BY <1>7, <2>1, <2>3, <2>4, <3>1, <3>2, ServicesAssumption
    <3> QED
      BY <3>3
  <2>6. /\ pc'[TTY] \in {"write_keys", "resume"}
        /\ pc'[TTY] = "write_keys" => reader'.left # 0
        /\ \A p \in Procs : p # TTY => pc'[p] = pc[p]
        /\ LoopsTypeOK'
    BY <1>1, <1>2, <1>7 DEF IInv, TypeOK, LoopsTypeOK
  <2>7. TTYOwes'
    BY <2>5, <2>6, ServicesAssumption DEF TTYOwes
  <2>8. TypeOK'
    BY <1>4, <1>5, <2>5, <2>6 DEF TypeOK, TerminalTypeOK
  <2>9. Points' /\ Stances'
    BY <1>1, <1>3, <2>6 DEF IInv, Points, Stances, Stands
  <2>10. Contents'
    BY <1>1, <1>2, <1>3 DEF IInv, Contents, ToShell, ToFS, ToTTY, ToSYS, IsCommand,
       IsRequest, IsAnswer, Answers, IsResume
  <2>11. Found'
    <3>1. FoundShell' /\ FoundTTY'
      BY <1>1, <1>3, <2>6 DEF IInv, Found, FoundShell, FoundTTY, Finds, ToShell, ToTTY
    <3>2. FoundFS' /\ FoundHD' /\ FoundSYS'
      BY <1>1, <1>2, <1>3, <2>6 DEF IInv, Found, FoundFS, FoundHD, FoundSYS, Finds,
         ToSYS, IsCommand, IsRequest, IsAnswer, Answers, IsResume
    <3> QED
      BY <3>1, <3>2 DEF Found
  <2>12. Jobs'
    BY <1>1, <1>3, <2>6 DEF IInv, Jobs, Answers, ToSYS, IsRequest, OnDisk,
       OnTerminal, OnSectors
  <2>13. Served'
    <3>1. \A s \in {TTY, HD, SYS}, c \in Procs : Serving(s, c)' => Serving(s, c)
      BY <1>1, <1>3, <2>6 DEF Serving, Finds
    <3>2. \A s \in Procs, c \in Procs : (Awaiting(c, s)' <=> Awaiting(c, s)) /\ (Calling(c, s)' <=> Calling(c, s))
      BY <1>1, <1>3, <2>6 DEF Awaiting, Calling
    <3> QED
      BY <1>3, <3>1, <3>2, Senders DEF IInv, Served, IsReply
  <2>14. AnsweredOnce' /\ ReaderKept'
    <3>1. ~ResumeQueued' /\ ~ResumeFound'
      BY <1>3, <2>3, <2>6 DEF Resuming, ResumeQueued, ResumeFound, Finds
    <3>2. Suspending' <=> Suspending
      BY <1>1, <1>3, <2>6 DEF Suspending, Finds
    <3>3. ~FSActive'
      BY <1>1, <1>3, <2>3, <2>6, <3>2 DEF FSActive, Finds
    <3>4. Awaiting(Shell, FS)'
      BY <1>1, <1>3, <2>3, <2>6 DEF Awaiting, Calling
    <3> QED
      BY <1>1, <1>3, <2>3, <2>5, <2>7, <3>1, <3>3, <3>4 DEF AnsweredOnce, ReaderKept,
         Resuming
  <2>15. DiskInStep' /\ KeysSeen'
    BY <1>1, <1>2, <1>3, <2>6, DiskFrame DEF IInv, KeysSeen
  <2> QED
    BY <1>3, <2>8, <2>9, <2>10, <2>11, <2>12, <2>13, <2>14, <2>15 DEF IInv
<1> QED
  BY <1>6, <1>7

(* TTY stops reading keys only when there are none.  *)
LEMMA TTYKeysReadIInv == IInv /\ TTYKeysRead => IInv'
<1> SUFFICES ASSUME IInv, TTYKeysRead PROVE IInv'
  OBVIOUS
<1> USE ProcsDiffer
<1>1. /\ pc[TTY] = "read_keys" /\ status[TTY] = "ready" /\ Go(TTY, "write_keys")
      /\ UNCHANGED <<kernel, job, transfers, disk, keyboard, terminal>>
      /\ kb_in = <<>>
  BY DEF TTYKeysRead, At, IInv, TypeOK, LoopsTypeOK, Changes
<1>2. /\ KernelInv' /\ UNCHANGED <<status, partner, inbox, pending>>
      /\ \A c \in Procs : Queue(c)' = Queue(c)
      /\ pc' = [pc EXCEPT ![TTY] = "write_keys"] /\ Changes(pc, pc', TTY, "write_keys")
  BY <1>1, KernelSame DEF Go, IInv, TypeOK, LoopsTypeOK, Changes
<1>3. UNCHANGED <<kernel, job, reader, kb_in>>
  BY <1>1 DEF keyboard, terminal
<1>4. TypeOK'
  <2>1. LoopsTypeOK'
    BY <1>1, <1>2, <1>3, NoJobType DEF IInv, TypeOK, LoopsTypeOK, Mail, keyboard
  <2> QED
    BY <1>1, <1>2, <1>3, <2>1, TypesKept DEF IInv
<1>5. Points'
  BY <1>1, <1>2, <1>3
  DEF IInv, Points, Changes
<1>6. Stances'
  BY <1>1, <1>2, <1>3
  DEF IInv, Stances, Stands, Changes
<1>7. Contents'
  BY <1>1, <1>2, <1>3
  DEF IInv, Contents, Commands, ToShell, ToFS, ToTTY, ToSYS, IsCommand, IsRequest,
     IsAnswer, Answers, IsResume, Changes, keyboard
<1>8. Found'
  <2>1. FoundShell'
    BY <1>1, <1>2, <1>3
    DEF IInv, Jobs, Found, FoundShell, Stances, Stands, Finds, ToShell, Server, Changes
  <2>2. FoundFS'
    BY <1>1, <1>2, <1>3
    DEF IInv, Jobs, Found, FoundFS, Stances, Stands, Finds, IsRequest, IsResume,
       IsAnswer, Answers, Changes
  <2>3. FoundTTY'
    BY <1>1, <1>2, <1>3
    DEF IInv, Jobs, Found, FoundTTY, Stances, Stands, Finds, ToTTY, Changes
  <2>4. FoundHD'
    BY <1>1, <1>2, <1>3
    DEF IInv, Jobs, Found, FoundHD, Stances, Stands, Finds, Commands, IsCommand,
       keyboard, Changes
  <2>5. FoundSYS'
    BY <1>1, <1>2, <1>3
    DEF IInv, Jobs, Found, FoundSYS, Stances, Stands, Finds, ToSYS, IsRequest, Changes
  <2> QED
    BY <2>1, <2>2, <2>3, <2>4, <2>5 DEF Found
<1>9. Jobs'
  BY <1>1, <1>2, <1>3
  DEF IInv, Jobs, Answers, IsRequest, ToSYS, OnDisk, OnTerminal, OnSectors, Changes
<1>10. Served'
  <2>1. \A s \in {TTY, HD, SYS}, c \in Procs : Serving(s, c)' => Serving(s, c)
    BY <1>1, <1>2, <1>3 DEF Changes, Serving, Finds
  <2>2. \A c \in Procs, s \in Procs : (Calling(c, s)' <=> Calling(c, s)) /\ (Awaiting(c, s)' <=> Awaiting(c, s))
    BY <1>1, <1>2, <1>3 DEF Changes, Calling, Awaiting
  <2> QED
    BY <1>1, <1>2, <1>3, <2>1, <2>2, Senders DEF IInv, Served, IsReply
<1>11. AnsweredOnce' /\ ReaderKept'
  <2>1. /\ FSActive' <=> FSActive
        /\ TTYOwes' <=> TTYOwes
        /\ ResumeQueued' <=> ResumeQueued
        /\ ResumeFound' <=> ResumeFound
        /\ Suspending' <=> Suspending
    BY <1>1, <1>2, <1>3 DEF FSActive, TTYOwes, ResumeFound, ResumeQueued, Suspending,
       Changes, Finds
  <2>2. FSActive \/ TTYOwes \/ Resuming => Awaiting(Shell, FS)'
    BY <1>1, <1>2, <1>3 DEF IInv, AnsweredOnce, Awaiting, Calling, Changes
  <2> QED
    BY <1>1, <1>2, <1>3, <2>1, <2>2, AnsweredFrame
<1>12. DiskInStep'
  BY <1>1, <1>2, <1>3, DiskFrame DEF Changes
<1>13. KeysSeen'
  BY <1>1, <1>2, <1>3
  DEF IInv, KeysSeen, keyboard, Changes
<1> QED
  BY <1>1, <1>2, <1>3, <1>4, <1>5, <1>6, <1>7, <1>8, <1>9, <1>10, <1>11, <1>12, <1>13
     DEF IInv

(* TTY forgets the reader it has had resumed.  *)
LEMMA TTYResumedIInv == IInv /\ TTYResumed => IInv'
<1> SUFFICES ASSUME IInv, TTYResumed PROVE IInv'
  OBVIOUS
<1> USE ProcsDiffer
<1>1. /\ pc[TTY] = "resumed" /\ status[TTY] = "ready" /\ Go(TTY, "write_keys")
      /\ UNCHANGED <<kernel, job, transfers, disk, keyboard, ibuf>>
      /\ reader' = [reader EXCEPT !.left = 0]
  BY DEF TTYResumed, At, IInv, TypeOK, LoopsTypeOK, Changes
<1>2. /\ KernelInv' /\ UNCHANGED <<status, partner, inbox, pending>>
      /\ \A c \in Procs : Queue(c)' = Queue(c)
      /\ pc' = [pc EXCEPT ![TTY] = "write_keys"] /\ Changes(pc, pc', TTY, "write_keys")
  BY <1>1, KernelSame DEF Go, IInv, TypeOK, LoopsTypeOK, Changes
<1>3. reader'.left = 0 /\ reader' \in [proc : Procs \union {NO_TASK}, left : 0..MaxCount, trans : 0..MaxCount]
  BY <1>1, ServicesAssumption DEF IInv, TypeOK, TerminalTypeOK
<1>4. ~TTYOwes /\ ~TTYOwes'
  BY <1>1, <1>2, <1>3 DEF TTYOwes, Changes
<1>5. TypeOK'
  <2>1. LoopsTypeOK'
    BY <1>1, <1>2, <1>3, <1>4, NoJobType DEF IInv, TypeOK, LoopsTypeOK, Mail,
       keyboard, K!IntMessage
  <2>2. DiskTypeOK' /\ KeysTypeOK'
    BY <1>1, <1>2, <1>3, <1>4 DEF IInv, TypeOK, DiskTypeOK, KeysTypeOK, disk, keyboard
  <2>3. TerminalTypeOK'
    BY <1>1, <1>2, <1>3, <1>4 DEF IInv, TypeOK, TerminalTypeOK
  <2> QED
    BY <2>1, <2>2, <2>3 DEF TypeOK
<1>6. Points'
  BY <1>1, <1>2, <1>3, <1>4
  DEF IInv, Points, Changes
<1>7. Stances'
  BY <1>1, <1>2, <1>3, <1>4
  DEF IInv, Stances, Stands, Changes
<1>8. Contents'
  BY <1>1, <1>2, <1>3, <1>4
  DEF IInv, Contents, Commands, ToShell, ToFS, ToTTY, ToSYS, IsCommand, IsRequest,
     IsAnswer, Answers, IsResume, Changes, keyboard
<1>9. Found'
  <2>1. FoundShell'
    BY <1>1, <1>2, <1>3, <1>4
    DEF IInv, Jobs, Found, FoundShell, Stances, Stands, Finds, ToShell, Server, Changes
  <2>2. FoundFS'
    BY <1>1, <1>2, <1>3, <1>4
    DEF IInv, Jobs, Found, FoundFS, Stances, Stands, Finds, IsRequest, IsResume,
       IsAnswer, Answers, Changes
  <2>3. FoundTTY'
    BY <1>1, <1>2, <1>3, <1>4
    DEF IInv, Jobs, Found, FoundTTY, Stances, Stands, Finds, ToTTY, Changes
  <2>4. FoundHD'
    BY <1>1, <1>2, <1>3, <1>4
    DEF IInv, Jobs, Found, FoundHD, Stances, Stands, Finds, Commands, IsCommand,
       keyboard, Changes
  <2>5. FoundSYS'
    BY <1>1, <1>2, <1>3, <1>4
    DEF IInv, Jobs, Found, FoundSYS, Stances, Stands, Finds, ToSYS, IsRequest, Changes
  <2> QED
    BY <2>1, <2>2, <2>3, <2>4, <2>5 DEF Found
<1>10. Jobs'
  BY <1>1, <1>2, <1>3, <1>4
  DEF IInv, Jobs, Answers, IsRequest, ToSYS, OnDisk, OnTerminal, OnSectors, Changes
<1>11. Served'
  <2>1. \A s \in {TTY, HD, SYS}, c \in Procs : Serving(s, c)' => Serving(s, c)
    BY <1>1, <1>2, <1>3, <1>4 DEF Changes, Serving, Finds
  <2>2. \A c \in Procs, s \in Procs : (Calling(c, s)' <=> Calling(c, s)) /\ (Awaiting(c, s)' <=> Awaiting(c, s))
    BY <1>1, <1>2, <1>3, <1>4 DEF Changes, Calling, Awaiting
  <2> QED
    BY <1>1, <1>2, <1>3, <1>4, <2>1, <2>2, Senders DEF IInv, Served, IsReply
<1>12. AnsweredOnce' /\ ReaderKept'
  <2>1. /\ ResumeQueued' <=> ResumeQueued
        /\ ResumeFound' <=> ResumeFound
        /\ Suspending' <=> Suspending
    BY <1>1, <1>2, <1>3, <1>4 DEF ResumeFound, ResumeQueued, Suspending, Changes, Finds
  <2>2. FSActive' <=> FSActive
    BY <1>1, <1>2, <1>3, <1>4, <2>1 DEF FSActive, Changes, Finds
  <2>3. FSActive \/ Resuming => Awaiting(Shell, FS)'
    BY <1>1, <1>2, <1>3, <1>4 DEF IInv, AnsweredOnce, Awaiting, Calling, Changes
  <2> QED
    BY <1>1, <1>2, <1>3, <1>4, <2>1, <2>2, <2>3 DEF IInv, AnsweredOnce, ReaderKept,
       Resuming
<1>13. DiskInStep'
  BY <1>1, <1>2, <1>3, <1>4, DiskFrame DEF Changes
<1>14. KeysSeen'
  BY <1>1, <1>2, <1>3, <1>4
  DEF IInv, KeysSeen, keyboard, Changes
<1> QED
  BY <1>1, <1>2, <1>3, <1>4, <1>5, <1>6, <1>7, <1>8, <1>9, <1>10, <1>11, <1>12,
     <1>13, <1>14 DEF IInv

(* TTY clears key_pressed and reads keys again.  *)
LEMMA TTYHardIntIInv == IInv /\ TTYHardInt => IInv'
<1> SUFFICES ASSUME IInv, TTYHardInt PROVE IInv'
  OBVIOUS
<1> USE ProcsDiffer
<1>1. /\ pc[TTY] = "got" /\ status[TTY] = "ready" /\ Accept(TTY, NoJob, "read_keys")
      /\ UNCHANGED <<transfers, disk, kb_in, keys, load, terminal>>
      /\ inbox[TTY].source = INTERRUPT /\ key_pressed' = FALSE
  BY DEF TTYHardInt, At
<1>2. /\ KernelInv' /\ UNCHANGED <<status, partner, pending>>
      /\ Changes(inbox, inbox', TTY, NO_TASK) /\ \A c \in Procs : Queue(c)' = Queue(c)
      /\ pc' = [pc EXCEPT ![TTY] = "read_keys"] /\ Changes(pc, pc', TTY, "read_keys")
      /\ job' = [job EXCEPT ![TTY] = NoJob] /\ Changes(job, job', TTY, NoJob)
  BY <1>1, Accepted
<1>3. TypeOK'
  <2>1. LoopsTypeOK'
    BY <1>1, <1>2, NoJobType DEF IInv, TypeOK, LoopsTypeOK, Mail, keyboard, K!IntMessage
  <2>2. DiskTypeOK' /\ KeysTypeOK' /\ TerminalTypeOK'
    BY <1>1, <1>2 DEF IInv, TypeOK, DiskTypeOK, KeysTypeOK, TerminalTypeOK, disk,
       terminal
  <2> QED
    BY <2>1, <2>2 DEF TypeOK
<1>4. Points'
  BY <1>1, <1>2
  DEF IInv, Points, Changes
<1>5. Stances'
  BY <1>1, <1>2
  DEF IInv, Stances, Stands, Changes
<1>6. Contents'
  BY <1>1, <1>2
  DEF IInv, Contents, Commands, ToShell, ToFS, ToTTY, ToSYS, IsCommand, IsRequest,
     IsAnswer, Answers, IsResume, Changes, keyboard
<1>7. Found'
  <2>1. FoundShell'
    BY <1>1, <1>2
    DEF IInv, Jobs, Found, FoundShell, Stances, Stands, Finds, ToShell, Server, Changes
  <2>2. FoundFS'
    BY <1>1, <1>2
    DEF IInv, Jobs, Found, FoundFS, Stances, Stands, Finds, IsRequest, IsResume,
       IsAnswer, Answers, Changes
  <2>3. FoundTTY'
    BY <1>1, <1>2
    DEF IInv, Jobs, Found, FoundTTY, Stances, Stands, Finds, ToTTY, Changes
  <2>4. FoundHD'
    BY <1>1, <1>2
    DEF IInv, Jobs, Found, FoundHD, Stances, Stands, Finds, Commands, IsCommand,
       keyboard, Changes
  <2>5. FoundSYS'
    BY <1>1, <1>2
    DEF IInv, Jobs, Found, FoundSYS, Stances, Stands, Finds, ToSYS, IsRequest, Changes
  <2> QED
    BY <2>1, <2>2, <2>3, <2>4, <2>5 DEF Found
<1>8. Jobs'
  BY <1>1, <1>2
  DEF IInv, Jobs, Answers, IsRequest, ToSYS, OnDisk, OnTerminal, OnSectors, Changes
<1>9. Served'
  <2>1. \A s \in {TTY, HD, SYS}, c \in Procs : Serving(s, c)' => Serving(s, c)
    BY <1>1, <1>2 DEF Changes, Serving, Finds
  <2>2. \A c \in Procs, s \in Procs : (Calling(c, s)' <=> Calling(c, s)) /\ (Awaiting(c, s)' <=> Awaiting(c, s))
    BY <1>1, <1>2 DEF Changes, Calling, Awaiting
  <2> QED
    BY <1>1, <1>2, <2>1, <2>2, Senders DEF IInv, Served, IsReply
<1>10. AnsweredOnce' /\ ReaderKept'
  <2>1. /\ FSActive' <=> FSActive
        /\ TTYOwes' <=> TTYOwes
        /\ ResumeQueued' <=> ResumeQueued
        /\ ResumeFound' <=> ResumeFound
        /\ Suspending' <=> Suspending
    BY <1>1, <1>2 DEF FSActive, TTYOwes, ResumeFound, ResumeQueued, Suspending,
       Changes, Finds, terminal
  <2>2. FSActive \/ TTYOwes \/ Resuming => Awaiting(Shell, FS)'
    BY <1>1, <1>2 DEF IInv, AnsweredOnce, Awaiting, Calling, Changes
  <2> QED
    BY <1>1, <1>2, <2>1, <2>2, AnsweredFrame DEF terminal
<1>11. DiskInStep'
  BY <1>1, <1>2, DiskFrame DEF Changes
<1>12. KeysSeen'
  BY <1>1, <1>2
  DEF IInv, KeysSeen, keyboard, Changes
<1> QED
  BY <1>1, <1>2, <1>3, <1>4, <1>5, <1>6, <1>7, <1>8, <1>9, <1>10, <1>11, <1>12 DEF IInv

(* TTY answers at once what is no read.  *)
LEMMA TTYDoOtherIInv == IInv /\ TTYDoOther => IInv'
<1> SUFFICES ASSUME IInv, TTYDoOther PROVE IInv'
  OBVIOUS
<1> USE ProcsDiffer
<1> DEFINE nj == [inbox[TTY] EXCEPT !.type.op = "SYSCALL_RET"]
<1>1. /\ pc[TTY] = "got" /\ status[TTY] = "ready" /\ Accept(TTY, nj, "reply")
      /\ UNCHANGED <<transfers, disk, keyboard, terminal>>
      /\ inbox[TTY].source # INTERRUPT
      /\ inbox[TTY].type.op \in {"DEV_OPEN", "DEV_WRITE"}
  BY DEF TTYDoOther, At
<1>2. /\ KernelInv' /\ UNCHANGED <<status, partner, pending>>
      /\ Changes(inbox, inbox', TTY, NO_TASK) /\ \A c \in Procs : Queue(c)' = Queue(c)
      /\ pc' = [pc EXCEPT ![TTY] = "reply"] /\ Changes(pc, pc', TTY, "reply")
      /\ job' = [job EXCEPT ![TTY] = nj] /\ Changes(job, job', TTY, nj)
  BY <1>1, Accepted
<1>3. /\ inbox[TTY] \in Mail /\ inbox[TTY].source = FS /\ inbox[TTY].type \in Body
      /\ inbox[TTY].type = Msg(DeviceType(job[FS].type.op), "tty", Shell, job[FS].type.cnt)
  BY <1>1 DEF IInv, Found, FoundTTY, Finds, K!IntMessage, ToTTY, Mail
<1>4. /\ nj.source = FS /\ nj.type = [inbox[TTY].type EXCEPT !.op = "SYSCALL_RET"]
      /\ nj.type.op = "SYSCALL_RET" /\ nj.type.cnt = job[FS].type.cnt
      /\ nj \in [source : Procs \union {NO_TASK}, type : Body]
  <2>1. nj.source = FS /\ nj.type = [inbox[TTY].type EXCEPT !.op = "SYSCALL_RET"]
      BY <1>3 DEF Mail
    <2>2. nj.type.op = "SYSCALL_RET" /\ nj.type.cnt = job[FS].type.cnt /\ nj.type \in Body
      BY <1>3, <2>1 DEF Body, Msg
    <2>3. nj \in [source : Procs \union {NO_TASK}, type : Body]
      BY <1>3, <2>1, <2>2 DEF Mail
    <2> QED
      BY <2>1, <2>2, <2>3
<1> HIDE DEF nj
<1>5. /\ Awaiting(FS, TTY) /\ pc[FS] \in {"tty_await", "tty_got"} /\ ~Finds(FS, "tty_got")
      /\ status[FS] # "sending" /\ job[FS] # NoJob /\ job[FS].type = job[Shell].type
      /\ job[FS].type.on = "tty"
  <2>1. Awaiting(FS, TTY)
      BY <1>1, <1>3 DEF IInv, Served, Serving, Finds
    <2>2. pc[FS] \in {"tty_await", "tty_got"} /\ ~Finds(FS, "tty_got") /\ status[FS] # "sending"
      BY <2>1 DEF Awaiting, Calling, IInv, Stances, Stands, Finds
    <2> QED
      BY <2>1, <2>2 DEF IInv, Jobs, OnTerminal
<1>6. /\ ~Suspending /\ FSActive /\ Awaiting(Shell, FS) /\ ~TTYOwes /\ ~ResumeQueued /\ ~ResumeFound
      /\ job[Shell].type \in Requests /\ \A x \in Queue(Shell) : x.source # FS
  <2>1. \A x \in Queue(FS) : x.type.op # "SUSPEND_PROC"
      <3> SUFFICES ASSUME NEW x \in Queue(FS), x.type.op = "SUSPEND_PROC" PROVE FALSE
        OBVIOUS
      <3>1. x.source # TTY
        BY <1>1, Senders
      <3>2. ToFS(x) /\ ~IsRequest(x)
        BY RequestOfShell DEF IsRequest, IInv, Contents
      <3> QED
        BY <3>1, <3>2 DEF ToFS, IsAnswer, IsResume, Commands
    <2>2. ~Suspending
      BY <1>1, <1>5, <2>1 DEF Suspending
    <2>3. FSActive
      BY <1>5, <2>2 DEF FSActive
    <2>4. Awaiting(Shell, FS) /\ ~TTYOwes /\ ~Resuming
      BY <2>3 DEF IInv, AnsweredOnce
    <2>5. pc[Shell] # "run"
      BY <2>4 DEF IInv, Stances, Stands, Awaiting, Calling
    <2> QED
      BY <1>5, <2>2, <2>3, <2>4, <2>5, Senders DEF Resuming, IInv, Jobs
<1>7. TypeOK'
  <2>1. LoopsTypeOK'
    BY <1>1, <1>2, <1>3, <1>4, <1>5, <1>6, NoJobType DEF IInv, TypeOK, LoopsTypeOK,
       Mail, keyboard
  <2> QED
    BY <1>1, <1>2, <1>3, <1>4, <1>5, <1>6, <2>1, TypesKept DEF IInv
<1>8. Points'
  BY <1>1, <1>2, <1>3, <1>4, <1>5, <1>6
  DEF IInv, Points, Changes
<1>9. Stances'
  BY <1>1, <1>2, <1>3, <1>4, <1>5, <1>6
  DEF IInv, Stances, Stands, Changes
<1>10. Contents'
  BY <1>1, <1>2, <1>3, <1>4, <1>5, <1>6
  DEF IInv, Contents, Commands, ToShell, ToFS, ToTTY, ToSYS, IsCommand, IsRequest,
     IsAnswer, Answers, IsResume, Changes, keyboard
<1>11. Found'
  <2>1. FoundShell'
    BY <1>1, <1>2, <1>3, <1>4, <1>5, <1>6
    DEF IInv, Jobs, Found, FoundShell, Stances, Stands, Finds, ToShell, Server, Changes
  <2>2. FoundFS'
    BY <1>1, <1>2, <1>3, <1>4, <1>5, <1>6
    DEF IInv, Jobs, Found, FoundFS, Stances, Stands, Finds, IsRequest, IsResume,
       IsAnswer, Answers, Changes
  <2>3. FoundTTY'
    BY <1>1, <1>2, <1>3, <1>4, <1>5, <1>6
    DEF IInv, Jobs, Found, FoundTTY, Stances, Stands, Finds, ToTTY, Changes
  <2>4. FoundHD'
    BY <1>1, <1>2, <1>3, <1>4, <1>5, <1>6
    DEF IInv, Jobs, Found, FoundHD, Stances, Stands, Finds, Commands, IsCommand,
       keyboard, Changes
  <2>5. FoundSYS'
    BY <1>1, <1>2, <1>3, <1>4, <1>5, <1>6
    DEF IInv, Jobs, Found, FoundSYS, Stances, Stands, Finds, ToSYS, IsRequest, Changes
  <2> QED
    BY <2>1, <2>2, <2>3, <2>4, <2>5 DEF Found
<1>12. Jobs'
  <2>1. job'[TTY] = nj /\ job'[FS] = job[FS] /\ job'[Shell] = job[Shell]
    BY <1>1, <1>2, <1>3, <1>4, <1>5, <1>6 DEF Changes
  <2>2. nj.type.op = "SUSPEND_PROC" => job[FS].type.op = "READ"
    BY <1>1, <1>2, <1>3, <1>4, <1>5, <1>6, RequestFields DEF DeviceType, Msg
  <2>3. Answers(job[TTY].type)'
    BY <1>1, <1>2, <1>3, <1>4, <1>5, <1>6, <2>1, <2>2 DEF Answers
  <2> QED
    BY <1>1, <1>2, <1>3, <1>4, <1>5, <1>6, <2>1, <2>3 DEF IInv, Jobs, IsRequest,
       ToSYS, OnDisk, OnTerminal, OnSectors, Changes
<1>13. Served'
  <2>1. \A s \in {TTY, HD, SYS}, c \in Procs : Serving(s, c)' => Serving(s, c) \/ (s = TTY /\ c = FS)
    BY <1>1, <1>2, <1>3, <1>4, <1>5, <1>6 DEF Changes, Serving, Finds
  <2>2. \A c \in Procs, s \in Procs : (Calling(c, s)' <=> Calling(c, s)) /\ (Awaiting(c, s)' <=> Awaiting(c, s))
    BY <1>1, <1>2, <1>3, <1>4, <1>5, <1>6 DEF Changes, Calling, Awaiting
  <2> QED
    BY <1>1, <1>2, <1>3, <1>4, <1>5, <1>6, <2>1, <2>2, Senders DEF IInv, Served, IsReply
<1>14. AnsweredOnce' /\ ReaderKept'
  <2>1. ~TTYOwes' /\ ~ResumeQueued' /\ ~ResumeFound'
    BY <1>1, <1>2, <1>3, <1>4, <1>5, <1>6 DEF TTYOwes, ResumeFound, ResumeQueued,
       Changes, Finds, terminal
  <2>2. job'[TTY].type.op = "SYSCALL_RET" /\ job'[FS] = job[FS]
    BY <1>1, <1>2, <1>3, <1>4, <1>5, <1>6 DEF Changes
  <2>3. ~Suspending'
    BY <1>1, <1>2, <1>3, <1>4, <1>5, <1>6, <2>2 DEF Suspending, Changes, Finds
  <2>4. Awaiting(Shell, FS)'
    BY <1>1, <1>2, <1>3, <1>4, <1>5, <1>6 DEF Awaiting, Calling, Changes
  <2> QED
    BY <1>1, <1>2, <1>3, <1>4, <1>5, <1>6, <2>1, <2>3, <2>4 DEF AnsweredOnce,
       ReaderKept, Resuming
<1>15. DiskInStep'
  BY <1>1, <1>2, <1>3, <1>4, <1>5, <1>6, DiskFrame DEF Changes
<1>16. KeysSeen'
  BY <1>1, <1>2, <1>3, <1>4, <1>5, <1>6
  DEF IInv, KeysSeen, keyboard, Changes
<1> QED
  BY <1>1, <1>2, <1>3, <1>4, <1>5, <1>6, <1>7, <1>8, <1>9, <1>10, <1>11, <1>12,
     <1>13, <1>14, <1>15, <1>16 DEF IInv

(* TTY remembers the reader and owes it the answer.  *)
LEMMA TTYDoReadIInv == IInv /\ TTYDoRead => IInv'
<1> SUFFICES ASSUME IInv, TTYDoRead PROVE IInv'
  OBVIOUS
<1> USE ProcsDiffer
<1> DEFINE nj == [inbox[TTY] EXCEPT !.type.op = "SUSPEND_PROC"]
<1>1. /\ pc[TTY] = "got" /\ status[TTY] = "ready" /\ Accept(TTY, nj, "reply")
      /\ UNCHANGED <<transfers, disk, keyboard, ibuf>>
      /\ inbox[TTY].source # INTERRUPT /\ inbox[TTY].type.op = "DEV_READ"
      /\ reader' = [proc |-> inbox[TTY].type.proc, left |-> inbox[TTY].type.cnt, trans |-> 0]
  BY DEF TTYDoRead, At
<1>2. /\ KernelInv' /\ UNCHANGED <<status, partner, pending>>
      /\ Changes(inbox, inbox', TTY, NO_TASK) /\ \A c \in Procs : Queue(c)' = Queue(c)
      /\ pc' = [pc EXCEPT ![TTY] = "reply"] /\ Changes(pc, pc', TTY, "reply")
      /\ job' = [job EXCEPT ![TTY] = nj] /\ Changes(job, job', TTY, nj)
  BY <1>1, Accepted
<1>3. /\ inbox[TTY] \in Mail /\ inbox[TTY].source = FS /\ inbox[TTY].type \in Body
      /\ inbox[TTY].type = Msg(DeviceType(job[FS].type.op), "tty", Shell, job[FS].type.cnt)
  BY <1>1 DEF IInv, Found, FoundTTY, Finds, K!IntMessage, ToTTY, Mail
<1>4. /\ nj.source = FS /\ nj.type = [inbox[TTY].type EXCEPT !.op = "SUSPEND_PROC"]
      /\ nj.type.op = "SUSPEND_PROC" /\ nj.type.cnt = job[FS].type.cnt
      /\ nj \in [source : Procs \union {NO_TASK}, type : Body]
  <2>1. nj.source = FS /\ nj.type = [inbox[TTY].type EXCEPT !.op = "SUSPEND_PROC"]
      BY <1>3 DEF Mail
    <2>2. nj.type.op = "SUSPEND_PROC" /\ nj.type.cnt = job[FS].type.cnt /\ nj.type \in Body
      BY <1>3, <2>1 DEF Body, Msg
    <2>3. nj \in [source : Procs \union {NO_TASK}, type : Body]
      BY <1>3, <2>1, <2>2 DEF Mail
    <2> QED
      BY <2>1, <2>2, <2>3
<1> HIDE DEF nj
<1>5. /\ Awaiting(FS, TTY) /\ pc[FS] \in {"tty_await", "tty_got"} /\ ~Finds(FS, "tty_got")
      /\ status[FS] # "sending" /\ job[FS] # NoJob /\ job[FS].type = job[Shell].type
      /\ job[FS].type.on = "tty"
  <2>1. Awaiting(FS, TTY)
      BY <1>1, <1>3 DEF IInv, Served, Serving, Finds
    <2>2. pc[FS] \in {"tty_await", "tty_got"} /\ ~Finds(FS, "tty_got") /\ status[FS] # "sending"
      BY <2>1 DEF Awaiting, Calling, IInv, Stances, Stands, Finds
    <2> QED
      BY <2>1, <2>2 DEF IInv, Jobs, OnTerminal
<1>6. /\ ~Suspending /\ FSActive /\ Awaiting(Shell, FS) /\ ~TTYOwes /\ ~ResumeQueued /\ ~ResumeFound
      /\ job[Shell].type \in Requests /\ \A x \in Queue(Shell) : x.source # FS
  <2>1. \A x \in Queue(FS) : x.type.op # "SUSPEND_PROC"
      <3> SUFFICES ASSUME NEW x \in Queue(FS), x.type.op = "SUSPEND_PROC" PROVE FALSE
        OBVIOUS
      <3>1. x.source # TTY
        BY <1>1, Senders
      <3>2. ToFS(x) /\ ~IsRequest(x)
        BY RequestOfShell DEF IsRequest, IInv, Contents
      <3> QED
        BY <3>1, <3>2 DEF ToFS, IsAnswer, IsResume, Commands
    <2>2. ~Suspending
      BY <1>1, <1>5, <2>1 DEF Suspending
    <2>3. FSActive
      BY <1>5, <2>2 DEF FSActive
    <2>4. Awaiting(Shell, FS) /\ ~TTYOwes /\ ~Resuming
      BY <2>3 DEF IInv, AnsweredOnce
    <2>5. pc[Shell] # "run"
      BY <2>4 DEF IInv, Stances, Stands, Awaiting, Calling
    <2> QED
      BY <1>5, <2>2, <2>3, <2>4, <2>5, Senders DEF Resuming, IInv, Jobs
<1>7. /\ job[Shell].type.op = "READ" /\ job[Shell].type.on = "tty"
      /\ job[FS].type.cnt = job[Shell].type.cnt /\ job[Shell].type.cnt \in 1..MaxCount
  <2>1. job[FS].type.op = "READ"
      BY <1>1, <1>3, <1>5, <1>6, RequestFields DEF DeviceType, Msg
    <2>2. job[FS].type.cnt = job[Shell].type.cnt /\ job[Shell].type.op = "READ" /\ job[Shell].type.on = "tty"
      BY <1>5, <2>1
    <2>3. job[Shell].type.cnt \in 0..MaxCount /\ job[Shell].type.cnt >= 1
      BY <1>6, <2>2, RequestFields
    <2> QED
      BY <2>2, <2>3
<1>8. /\ reader'.proc = Shell /\ reader'.left = job[Shell].type.cnt /\ reader'.trans = 0
      /\ reader' \in [proc : Procs \union {NO_TASK}, left : 0..MaxCount, trans : 0..MaxCount]
  BY <1>1, <1>3, <1>7, ServicesAssumption DEF Msg
<1>9. TypeOK'
  <2>1. LoopsTypeOK'
    BY <1>1, <1>2, <1>3, <1>4, <1>5, <1>6, <1>7, <1>8, NoJobType DEF IInv, TypeOK,
       LoopsTypeOK, Mail, keyboard, K!IntMessage
  <2>2. DiskTypeOK' /\ KeysTypeOK'
    BY <1>1, <1>2, <1>3, <1>4, <1>5, <1>6, <1>7, <1>8 DEF IInv, TypeOK, DiskTypeOK,
       KeysTypeOK, disk, keyboard
  <2>3. TerminalTypeOK'
    BY <1>1, <1>2, <1>3, <1>4, <1>5, <1>6, <1>7, <1>8 DEF IInv, TypeOK, TerminalTypeOK
  <2> QED
    BY <2>1, <2>2, <2>3 DEF TypeOK
<1>10. Points'
  BY <1>1, <1>2, <1>3, <1>4, <1>5, <1>6, <1>7, <1>8
  DEF IInv, Points, Changes
<1>11. Stances'
  BY <1>1, <1>2, <1>3, <1>4, <1>5, <1>6, <1>7, <1>8
  DEF IInv, Stances, Stands, Changes
<1>12. Contents'
  BY <1>1, <1>2, <1>3, <1>4, <1>5, <1>6, <1>7, <1>8
  DEF IInv, Contents, Commands, ToShell, ToFS, ToTTY, ToSYS, IsCommand, IsRequest,
     IsAnswer, Answers, IsResume, Changes, keyboard
<1>13. Found'
  <2>1. FoundShell'
    BY <1>1, <1>2, <1>3, <1>4, <1>5, <1>6, <1>7, <1>8
    DEF IInv, Jobs, Found, FoundShell, Stances, Stands, Finds, ToShell, Server, Changes
  <2>2. FoundFS'
    BY <1>1, <1>2, <1>3, <1>4, <1>5, <1>6, <1>7, <1>8
    DEF IInv, Jobs, Found, FoundFS, Stances, Stands, Finds, IsRequest, IsResume,
       IsAnswer, Answers, Changes
  <2>3. FoundTTY'
    BY <1>1, <1>2, <1>3, <1>4, <1>5, <1>6, <1>7, <1>8
    DEF IInv, Jobs, Found, FoundTTY, Stances, Stands, Finds, ToTTY, Changes
  <2>4. FoundHD'
    BY <1>1, <1>2, <1>3, <1>4, <1>5, <1>6, <1>7, <1>8
    DEF IInv, Jobs, Found, FoundHD, Stances, Stands, Finds, Commands, IsCommand,
       keyboard, Changes
  <2>5. FoundSYS'
    BY <1>1, <1>2, <1>3, <1>4, <1>5, <1>6, <1>7, <1>8
    DEF IInv, Jobs, Found, FoundSYS, Stances, Stands, Finds, ToSYS, IsRequest, Changes
  <2> QED
    BY <2>1, <2>2, <2>3, <2>4, <2>5 DEF Found
<1>14. Jobs'
  <2>1. job'[TTY] = nj /\ job'[FS] = job[FS] /\ job'[Shell] = job[Shell]
    BY <1>1, <1>2, <1>3, <1>4, <1>5, <1>6, <1>7, <1>8 DEF Changes
  <2>2. job[FS].type.op = "READ"
    BY <1>5, <1>7
  <2>3. Answers(job[TTY].type)'
    BY <1>4, <2>1, <2>2 DEF Answers
  <2> QED
    BY <1>1, <1>2, <1>3, <1>4, <1>5, <1>6, <1>7, <1>8, <2>1, <2>3 DEF IInv, Jobs,
       IsRequest, ToSYS, OnDisk, OnTerminal, OnSectors, Changes
<1>15. Served'
  <2>1. \A s \in {TTY, HD, SYS}, c \in Procs : Serving(s, c)' => Serving(s, c) \/ (s = TTY /\ c = FS)
    BY <1>1, <1>2, <1>3, <1>4, <1>5, <1>6, <1>7, <1>8 DEF Changes, Serving, Finds
  <2>2. \A c \in Procs, s \in Procs : (Calling(c, s)' <=> Calling(c, s)) /\ (Awaiting(c, s)' <=> Awaiting(c, s))
    BY <1>1, <1>2, <1>3, <1>4, <1>5, <1>6, <1>7, <1>8 DEF Changes, Calling, Awaiting
  <2> QED
    BY <1>1, <1>2, <1>3, <1>4, <1>5, <1>6, <1>7, <1>8, <2>1, <2>2, Senders DEF IInv,
       Served, IsReply
<1>16. AnsweredOnce' /\ ReaderKept'
  <2>1. TTYOwes' /\ ~ResumeQueued' /\ ~ResumeFound'
    <3>1. pc'[TTY] = "reply" /\ pc'[FS] = pc[FS] /\ reader'.left > 0 /\ Queue(FS)' = Queue(FS)
      BY <1>1, <1>2, <1>7, <1>8 DEF Changes
    <3> QED
      BY <1>2, <1>6, <3>1 DEF TTYOwes, ResumeFound, ResumeQueued, Changes, Finds
  <2>5. Suspending'
    BY <1>2, <1>4 DEF Suspending, Changes
  <2>2. ~FSActive'
    BY <1>1, <1>2, <1>3, <1>4, <1>5, <1>6, <1>7, <1>8, <2>5 DEF FSActive, Changes, Finds
  <2>3. Awaiting(Shell, FS)'
    BY <1>1, <1>2, <1>3, <1>4, <1>5, <1>6, <1>7, <1>8 DEF Awaiting, Calling, Changes
  <2>4. ReaderKept'
    BY <1>1, <1>2, <1>3, <1>4, <1>5, <1>6, <1>7, <1>8 DEF ReaderKept, Changes
  <2> QED
    BY <1>1, <1>2, <1>3, <1>4, <1>5, <1>6, <1>7, <1>8, <2>1, <2>5, <2>2, <2>3, <2>4
       DEF AnsweredOnce, Resuming
<1>17. DiskInStep'
  BY <1>1, <1>2, <1>3, <1>4, <1>5, <1>6, <1>7, <1>8, DiskFrame DEF Changes
<1>18. KeysSeen'
  BY <1>1, <1>2, <1>3, <1>4, <1>5, <1>6, <1>7, <1>8
  DEF IInv, KeysSeen, keyboard, Changes
<1> QED
  BY <1>1, <1>2, <1>3, <1>4, <1>5, <1>6, <1>7, <1>8, <1>9, <1>10, <1>11, <1>12,
     <1>13, <1>14, <1>15, <1>16, <1>17, <1>18 DEF IInv

(* The resumption takes the place of what TTY owes.  *)
LEMMA TTYResumeIInv == IInv /\ TTYResume => IInv'
<1> SUFFICES ASSUME IInv, TTYResume PROVE IInv'
  OBVIOUS
<1> USE ProcsDiffer
<1> DEFINE m == Msg("RESUME_PROC", "tty", reader.proc, reader.trans)
<1>1. /\ pc[TTY] = "resume" /\ status[TTY] = "ready"
      /\ UNCHANGED <<job, transfers, disk, keyboard, terminal>>
      /\ Send(TTY, FS, m, "resumed")
  BY DEF TTYResume, At
<1>2. TTYOwes
  BY <1>1 DEF TTYOwes
<1>3. /\ ~FSActive /\ ~ResumeQueued /\ ~ResumeFound /\ Awaiting(Shell, FS)
      /\ \A x \in Queue(Shell) : x.source # FS
      /\ reader.proc = Shell /\ job[Shell].type.op = "READ" /\ job[Shell].type.on = "tty"
      /\ reader.left + reader.trans = job[Shell].type.cnt
  BY <1>2 DEF IInv, AnsweredOnce, ReaderKept, Resuming
<1>4. reader.left \in 0..MaxCount /\ reader.trans \in 0..MaxCount /\ MaxCount \in Nat
  BY LoadFields DEF IInv, TypeOK, TerminalTypeOK
<1>5. /\ m \in Body /\ m.op = "RESUME_PROC" /\ m.on = "tty" /\ m.proc = Shell
      /\ m.cnt <= job[Shell].type.cnt
  <2>1. reader.trans \in 0..(MaxCount + MaxSectors)
      BY <1>4, LoadFields
    <2>2. m \in Body /\ m.op = "RESUME_PROC" /\ m.on = "tty" /\ m.proc = Shell /\ m.cnt = reader.trans
      BY <1>3, <2>1 DEF Msg, Body
    <2> QED
      BY <1>3, <1>4, <2>2
<1> HIDE DEF m
<1>6. /\ KernelInv' /\ (Blocked(TTY, FS, m) \/ Passed(TTY, FS, m))
      /\ pc' = [pc EXCEPT ![TTY] = "resumed"] /\ Changes(pc, pc', TTY, "resumed")
      /\ Letter(TTY, m) \in Mail
  BY <1>1, <1>5, Sent
<1>7. \A c \in Procs : \A x \in Queue(c) : x.source # TTY
  BY <1>1, Senders
<1>8. ~(status[FS] = "receiving" /\ partner[FS] = TTY)
  <2> SUFFICES ASSUME status[FS] = "receiving", partner[FS] = TTY PROVE FALSE
      OBVIOUS
    <2>1. pc[FS] = "tty_got"
      BY DEF IInv, Stances, Stands
    <2>2. Suspending
      BY <1>3, <2>1 DEF FSActive, IInv, Jobs, OnTerminal
    <2>3. PICK x \in Queue(FS) : x.type.op = "SUSPEND_PROC"
      BY <1>1, <2>1, <2>2 DEF Suspending, Finds
    <2>4. ToFS(x) /\ ~IsRequest(x) /\ x.source # TTY
      BY <1>7, <2>3, RequestOfShell DEF IsRequest, IInv, Contents
    <2> QED
      BY <2>3, <2>4 DEF ToFS, IsAnswer, IsResume, Commands
<1>9. \A s \in Procs : ~(status[FS] = "receiving" /\ partner[FS] = TTY)
  BY <1>8
<1>10. TypeOK'
  <2>1. LoopsTypeOK'
    BY <1>1, <1>2, <1>3, <1>4, <1>5, <1>6, <1>7, <1>8, <1>9, NoJobType DEF IInv,
       TypeOK, LoopsTypeOK, Mail, keyboard
  <2> QED
    BY <1>1, <1>2, <1>3, <1>4, <1>5, <1>6, <1>7, <1>8, <1>9, <2>1, TypesKept DEF IInv
<1>11. Points'
  BY <1>1, <1>2, <1>3, <1>4, <1>5, <1>6, <1>7, <1>8, <1>9
  DEF IInv, Points, Changes
<1>12. Stances'
  BY <1>1, <1>2, <1>3, <1>4, <1>5, <1>6, <1>7, <1>8, <1>9
  DEF IInv, Stances, Stands, Letter, Blocked, Passed, Changes
<1>13. Contents'
  BY <1>1, <1>2, <1>3, <1>4, <1>5, <1>6, <1>7, <1>8, <1>9
  DEF IInv, Contents, Commands, ToShell, ToFS, ToTTY, ToSYS, IsCommand, IsRequest,
     IsAnswer, Answers, IsResume, Letter, Blocked, Passed, Changes, keyboard
<1>14. Found'
  <2>1. FoundShell'
    BY <1>1, <1>2, <1>3, <1>4, <1>5, <1>6, <1>7, <1>8, <1>9
    DEF IInv, Jobs, Found, FoundShell, Stances, Stands, Finds, ToShell, Server,
       Letter, Blocked, Passed, Changes
  <2>2. FoundFS'
    BY <1>1, <1>2, <1>3, <1>4, <1>5, <1>6, <1>7, <1>8, <1>9
    DEF IInv, Jobs, Found, FoundFS, Stances, Stands, Finds, IsRequest, IsResume,
       IsAnswer, Answers, Letter, Blocked, Passed, Changes
  <2>3. FoundTTY'
    BY <1>1, <1>2, <1>3, <1>4, <1>5, <1>6, <1>7, <1>8, <1>9
    DEF IInv, Jobs, Found, FoundTTY, Stances, Stands, Finds, ToTTY, Letter, Blocked,
       Passed, Changes
  <2>4. FoundHD'
    BY <1>1, <1>2, <1>3, <1>4, <1>5, <1>6, <1>7, <1>8, <1>9
    DEF IInv, Jobs, Found, FoundHD, Stances, Stands, Finds, Commands, IsCommand,
       keyboard, Letter, Blocked, Passed, Changes
  <2>5. FoundSYS'
    BY <1>1, <1>2, <1>3, <1>4, <1>5, <1>6, <1>7, <1>8, <1>9
    DEF IInv, Jobs, Found, FoundSYS, Stances, Stands, Finds, ToSYS, IsRequest,
       Letter, Blocked, Passed, Changes
  <2> QED
    BY <2>1, <2>2, <2>3, <2>4, <2>5 DEF Found
<1>15. Jobs'
  BY <1>1, <1>2, <1>3, <1>4, <1>5, <1>6, <1>7, <1>8, <1>9
  DEF IInv, Jobs, Answers, IsRequest, ToSYS, OnDisk, OnTerminal, OnSectors, Letter,
     Blocked, Passed, Changes
<1>16. Served'
  <2>1. \A s \in {TTY, HD, SYS}, c \in Procs : Serving(s, c)' => Serving(s, c)
    BY <1>1, <1>2, <1>3, <1>4, <1>5, <1>6, <1>7, <1>8, <1>9 DEF Blocked, Passed,
       Changes, Serving, Finds
  <2>2. \A c \in Procs, s \in Procs : (Calling(c, s)' <=> Calling(c, s)) /\ (c # TTY /\ Awaiting(c, s) => Awaiting(c, s)')
    <3>1. \A c \in Procs, s \in Procs : Calling(c, s)' <=> Calling(c, s)
      BY <1>1, <1>2, <1>3, <1>4, <1>5, <1>6, <1>7, <1>8, <1>9 DEF Changes, Calling
    <3>2. \A c \in Procs, s \in Procs : c # TTY /\ Awaiting(c, s) => Awaiting(c, s)'
      BY <1>1, <1>2, <1>3, <1>4, <1>5, <1>6, <1>7, <1>8, <1>9, <3>1 DEF Blocked,
         Passed, Changes, Awaiting
    <3> QED
      BY <3>1, <3>2
  <2>3. \A s \in Procs : ~Awaiting(TTY, s)
    BY <1>1, <1>2, <1>3, <1>4, <1>5, <1>6, <1>7, <1>8, <1>9 DEF Awaiting, Calling
  <2>4. \A s \in {TTY, HD, SYS}, c \in Procs : Serving(s, c)' => Awaiting(c, s)'
    BY <2>1, <2>2, <2>3 DEF IInv, Served
  <2>5. \A c \in Procs : \A x \in Queue(c)' : IsReply(c, x)' => status'[c] = "ready" /\ Calling(c, x.source)'
    <3> SUFFICES ASSUME NEW c \in Procs, NEW x \in Queue(c)', IsReply(c, x)'
                 PROVE  status'[c] = "ready" /\ Calling(c, x.source)'
      OBVIOUS
    <3>1. x \in Queue(c)
      BY <1>1, <1>2, <1>3, <1>4, <1>5, <1>6, <1>7, <1>8, <1>9 DEF Blocked, Passed,
         Letter, IsReply
    <3>2. status[c] = "ready" /\ Calling(c, x.source) /\ c # TTY /\ x.source \in Procs
      BY <1>1, <1>2, <1>3, <1>4, <1>5, <1>6, <1>7, <1>8, <1>9, <3>1, Senders
         DEF IInv, Served, IsReply, Calling
    <3> QED
      BY <1>1, <1>2, <1>3, <1>4, <1>5, <1>6, <1>7, <1>8, <1>9, <2>2, <3>2
         DEF Blocked, Passed, Changes
  <2> QED
    BY <2>4, <2>5 DEF Served
<1>17. AnsweredOnce' /\ ReaderKept'
  <2>1. ~TTYOwes'
    BY <1>1, <1>2, <1>3, <1>4, <1>5, <1>6, <1>7, <1>8, <1>9 DEF TTYOwes, Changes
  <2>2. job' = job /\ Queue(Shell)' = Queue(Shell)
    BY <1>1, <1>2, <1>3, <1>4, <1>5, <1>6, <1>7, <1>8, <1>9 DEF Blocked, Passed
  <2>3. Awaiting(Shell, FS)'
    BY <1>1, <1>2, <1>3, <1>4, <1>5, <1>6, <1>7, <1>8, <1>9, <2>2 DEF Awaiting,
       Calling, Blocked, Passed, Changes
  <2>4. CASE Blocked(TTY, FS, m)
    <3>1. /\ Finds(FS, "got")' <=> Finds(FS, "got")
          /\ Finds(FS, "tty_got")' <=> Finds(FS, "tty_got")
          /\ inbox' = inbox /\ pc'[FS] = pc[FS] /\ pc'[TTY] = "resumed"
          /\ \A x \in Queue(FS)' : x \in Queue(FS) \/ x = Letter(TTY, m)
          /\ Queue(FS) \subseteq Queue(FS)' /\ Letter(TTY, m) \in Queue(FS)'
      BY <2>4, <1>6 DEF Blocked, Changes, Finds
    <3>2. Letter(TTY, m).type.op = "RESUME_PROC"
      BY <1>5 DEF Letter
    <3>3. ResumeQueued' /\ ~ResumeFound'
      BY <1>3, <3>1, <3>2 DEF ResumeQueued, ResumeFound
    <3>4. Suspending' <=> Suspending
      BY <1>1, <2>2, <3>1, <3>2 DEF Suspending
    <3>5. ~FSActive'
      BY <1>3, <2>2, <3>1, <3>4 DEF FSActive
    <3> QED
      BY <1>3, <2>1, <2>2, <2>3, <3>3, <3>5 DEF AnsweredOnce, ReaderKept, Resuming
  <2>5. CASE Passed(TTY, FS, m)
    <3>1. pc[FS] = "got" /\ status[FS] = "receiving"
      BY <1>8, <2>5 DEF Passed, IInv, Stances, Stands
    <3>2. /\ Finds(FS, "got")' /\ inbox'[FS] = Letter(TTY, m) /\ pc'[FS] = "got" /\ pc'[TTY] = "resumed"
          /\ Queue(FS)' = Queue(FS)
      BY <1>6, <2>5, <3>1 DEF Passed, Changes, Finds
    <3>3. Letter(TTY, m).type.op = "RESUME_PROC" /\ Letter(TTY, m).source = TTY
      BY <1>5 DEF Letter
    <3>4. ~ResumeQueued' /\ ResumeFound'
      BY <1>3, <3>2, <3>3 DEF ResumeQueued, ResumeFound
    <3>5. job[FS] = NoJob
      BY <3>1 DEF IInv, Jobs
    <3>6. ~FSActive'
      BY <2>2, <3>2, <3>3, <3>5 DEF FSActive
    <3> QED
      BY <1>3, <2>1, <2>2, <2>3, <3>4, <3>6 DEF AnsweredOnce, ReaderKept, Resuming
  <2> QED
    BY <1>6, <2>4, <2>5
<1>18. DiskInStep'
  BY <1>1, <1>2, <1>3, <1>4, <1>5, <1>6, <1>7, <1>8, <1>9, DiskFrame DEF Blocked,
     Passed, Changes, IInv, Stances, Stands
<1>19. KeysSeen'
  BY <1>1, <1>2, <1>3, <1>4, <1>5, <1>6, <1>7, <1>8, <1>9
  DEF IInv, KeysSeen, keyboard, Letter, Blocked, Passed, Changes
<1> QED
  BY <1>1, <1>2, <1>3, <1>4, <1>5, <1>6, <1>7, <1>8, <1>9, <1>10, <1>11, <1>12,
     <1>13, <1>14, <1>15, <1>16, <1>17, <1>18, <1>19 DEF IInv

(* TTY answers FS, which awaits it.  *)
LEMMA TTYReplyIInv == IInv /\ TTYReply => IInv'
<1> SUFFICES ASSUME IInv, TTYReply PROVE IInv'
  OBVIOUS
<1> USE ProcsDiffer
<1> DEFINE m == job[TTY].type
<1>1. /\ pc[TTY] = "reply" /\ status[TTY] = "ready"
      /\ job' = [job EXCEPT ![TTY] = NoJob] /\ Changes(job, job', TTY, NoJob)
      /\ UNCHANGED <<transfers, disk, keyboard, terminal>>
      /\ Send(TTY, job[TTY].source, m, "read_keys")
  BY DEF TTYReply, At, IInv, TypeOK, LoopsTypeOK, Changes
<1>2. /\ job[TTY].source = FS /\ Answers(m) /\ m \in Body
  BY <1>1 DEF IInv, Jobs, TypeOK, LoopsTypeOK
<1> HIDE DEF m
<1>3. /\ KernelInv' /\ (Blocked(TTY, FS, m) \/ Passed(TTY, FS, m))
      /\ pc' = [pc EXCEPT ![TTY] = "read_keys"] /\ Changes(pc, pc', TTY, "read_keys")
      /\ Letter(TTY, m) \in Mail
  BY <1>1, <1>2, Sent
<1>4. \A c \in Procs : \A x \in Queue(c) : x.source # TTY
  BY <1>1, Senders
<1>5. /\ Awaiting(FS, TTY) /\ pc[FS] \in {"tty_await", "tty_got"} /\ ~Finds(FS, "tty_got") /\ ~Finds(FS, "got")
      /\ pc[FS] = "tty_await" => status[FS] = "ready" /\ Calling(FS, TTY)
      /\ pc[FS] = "tty_got" => status[FS] = "receiving" /\ partner[FS] = TTY
  <2>1. Awaiting(FS, TTY)
      BY <1>1 DEF IInv, Served, Serving
    <2> QED
      BY <2>1 DEF Awaiting, Calling, IInv, Stances, Stands, Finds
<1>6. Letter(TTY, m).source = TTY /\ Letter(TTY, m).type = m
  BY DEF Letter
<1>7. /\ Blocked(TTY, FS, m) => pc[FS] = "tty_await"
      /\ Passed(TTY, FS, m) => pc[FS] = "tty_got"
  BY <1>5 DEF Blocked, Passed
<1>8. TypeOK'
  <2>1. LoopsTypeOK'
    BY <1>1, <1>2, <1>3, <1>4, <1>5, <1>6, <1>7, NoJobType DEF IInv, TypeOK,
       LoopsTypeOK, Mail, keyboard
  <2> QED
    BY <1>1, <1>2, <1>3, <1>4, <1>5, <1>6, <1>7, <2>1, TypesKept DEF IInv
<1>9. Points'
  BY <1>1, <1>2, <1>3, <1>4, <1>5, <1>6, <1>7
  DEF IInv, Points, Changes
<1>10. Stances'
  BY <1>1, <1>2, <1>3, <1>4, <1>5, <1>6, <1>7
  DEF IInv, Stances, Stands, Letter, Blocked, Passed, Changes
<1>11. Contents'
  BY <1>1, <1>2, <1>3, <1>4, <1>5, <1>6, <1>7
  DEF IInv, Contents, Commands, ToShell, ToFS, ToTTY, ToSYS, IsCommand, IsRequest,
     IsAnswer, Answers, IsResume, Letter, Blocked, Passed, Changes, keyboard
<1>12. Found'
  <2>1. FoundShell'
    BY <1>1, <1>2, <1>3, <1>4, <1>5, <1>6, <1>7
    DEF IInv, Jobs, Found, FoundShell, Stances, Stands, Finds, ToShell, Server,
       Letter, Blocked, Passed, Changes
  <2>2. FoundFS'
    BY <1>1, <1>2, <1>3, <1>4, <1>5, <1>6, <1>7
    DEF IInv, Jobs, Found, FoundFS, Stances, Stands, Finds, IsRequest, IsResume,
       IsAnswer, Answers, Letter, Blocked, Passed, Changes
  <2>3. FoundTTY'
    BY <1>1, <1>2, <1>3, <1>4, <1>5, <1>6, <1>7
    DEF IInv, Jobs, Found, FoundTTY, Stances, Stands, Finds, ToTTY, Letter, Blocked,
       Passed, Changes
  <2>4. FoundHD'
    BY <1>1, <1>2, <1>3, <1>4, <1>5, <1>6, <1>7
    DEF IInv, Jobs, Found, FoundHD, Stances, Stands, Finds, Commands, IsCommand,
       keyboard, Letter, Blocked, Passed, Changes
  <2>5. FoundSYS'
    BY <1>1, <1>2, <1>3, <1>4, <1>5, <1>6, <1>7
    DEF IInv, Jobs, Found, FoundSYS, Stances, Stands, Finds, ToSYS, IsRequest,
       Letter, Blocked, Passed, Changes
  <2> QED
    BY <2>1, <2>2, <2>3, <2>4, <2>5 DEF Found
<1>13. Jobs'
  BY <1>1, <1>2, <1>3, <1>4, <1>5, <1>6, <1>7
  DEF IInv, Jobs, Answers, IsRequest, ToSYS, OnDisk, OnTerminal, OnSectors, Letter,
     Blocked, Passed, Changes
<1>14. Served'
  BY <1>1, <1>2, <1>3, <1>4, <1>5, <1>6, <1>7
  DEF IInv, Served, Serving, Awaiting, Calling, Finds, IsReply, Stances, Stands,
     OnSectors, Letter, Blocked, Passed, Changes
<1>15. AnsweredOnce' /\ ReaderKept'
  <2>1. TTYOwes' <=> TTYOwes
    BY <1>1, <1>2, <1>3, <1>4, <1>5, <1>6, <1>7 DEF TTYOwes, Changes, terminal
  <2>2. job'[FS] = job[FS] /\ job'[Shell] = job[Shell] /\ Queue(Shell)' = Queue(Shell) /\ reader' = reader
    BY <1>1, <1>2, <1>3, <1>4, <1>5, <1>6, <1>7 DEF Blocked, Passed, Changes, terminal
  <2>3. Awaiting(Shell, FS)' <=> Awaiting(Shell, FS)
    BY <1>1, <1>2, <1>3, <1>4, <1>5, <1>6, <1>7, <2>2 DEF Awaiting, Calling, Blocked,
       Passed, Changes
  <2>4. /\ ResumeQueued' <=> ResumeQueued
        /\ ResumeFound' <=> ResumeFound
    <3>1. m.op # "RESUME_PROC"
      BY <1>2 DEF Answers
    <3>2. ~ResumeFound /\ ~ResumeFound'
      BY <1>3, <1>5 DEF ResumeFound, Finds, Changes
    <3> QED
      BY <1>1, <1>2, <1>3, <1>4, <1>5, <1>6, <1>7, <3>1, <3>2 DEF ResumeQueued,
         Blocked, Passed
  <2>5. \A x \in Queue(FS) : x.type.op # "SUSPEND_PROC"
    <3> SUFFICES ASSUME NEW x \in Queue(FS), x.type.op = "SUSPEND_PROC" PROVE FALSE
      OBVIOUS
    <3>1. ToFS(x) /\ ~IsRequest(x) /\ x.source # TTY
      BY <1>4, RequestOfShell DEF IsRequest, IInv, Contents
    <3> QED
      BY <3>1 DEF ToFS, IsAnswer, IsResume, Commands
  <2>6. Suspending <=> m.op = "SUSPEND_PROC"
    BY <1>1, <1>5, <2>5 DEF Suspending, m
  <2>7. Suspending' <=> m.op = "SUSPEND_PROC"
    <3>1. CASE Blocked(TTY, FS, m)
      <4>1. pc'[TTY] # "reply" /\ pc'[FS] = "tty_await" /\ Queue(FS)' = Queue(FS) \union {Letter(TTY, m)}
        BY <1>3, <1>7, <3>1 DEF Blocked, Changes
      <4> QED
        BY <1>6, <2>5, <4>1 DEF Suspending, Finds
    <3>2. CASE Passed(TTY, FS, m)
      <4>1. /\ pc'[TTY] # "reply" /\ pc'[FS] = "tty_got" /\ Queue(FS)' = Queue(FS)
            /\ inbox'[FS] = Letter(TTY, m) /\ status'[FS] = "ready"
        BY <1>3, <1>7, <3>2 DEF Passed, Changes
      <4> QED
        BY <1>6, <2>5, <4>1 DEF Suspending, Finds
    <3> QED
      BY <1>3, <3>1, <3>2
  <2>8. FSActive' <=> FSActive
    <3>1. ~Finds(FS, "got") /\ ~Finds(FS, "got")'
      BY <1>3, <1>5 DEF Finds, Changes
    <3> QED
      BY <2>2, <2>6, <2>7, <3>1 DEF FSActive
  <2>9. FSActive \/ TTYOwes \/ Resuming => Awaiting(Shell, FS)'
    BY <2>3 DEF IInv, AnsweredOnce
  <2> QED
    BY <2>1, <2>2, <2>4, <2>6, <2>7, <2>8, <2>9, AnsweredFrame
<1>16. DiskInStep'
  BY <1>1, <1>2, <1>3, <1>4, <1>5, <1>6, <1>7, DiskFrame DEF Blocked, Passed,
     Changes, IInv, Stances, Stands
<1>17. KeysSeen'
  BY <1>1, <1>2, <1>3, <1>4, <1>5, <1>6, <1>7
  DEF IInv, KeysSeen, keyboard, Letter, Blocked, Passed, Changes
<1> QED
  BY <1>1, <1>2, <1>3, <1>4, <1>5, <1>6, <1>7, <1>8, <1>9, <1>10, <1>11, <1>12,
     <1>13, <1>14, <1>15, <1>16, <1>17 DEF IInv

(* TTY takes a request of FS or an interrupt.  *)
LEMMA TTYReceiveIInv == IInv /\ TTYReceive => IInv'
<1> SUFFICES ASSUME IInv, TTYReceive PROVE IInv'
  OBVIOUS
<1> USE ProcsDiffer
<1>1. /\ pc[TTY] = "write_keys" /\ status[TTY] = "ready" /\ Receive(TTY, ANY, "got")
      /\ UNCHANGED <<job, transfers, disk, keyboard, terminal>>
  BY DEF TTYReceive, At
<1>2. ANY \in Procs \union {ANY, INTERRUPT}
  BY DEF Server
<1>3. /\ KernelInv'
      /\ (\E m \in Queue(TTY) : Took(TTY, ANY, m)) \/ Waited(TTY, ANY) \/ TookInterrupt(TTY)
      /\ pc' = [pc EXCEPT ![TTY] = "got"] /\ Changes(pc, pc', TTY, "got")
  BY <1>1, <1>2, Received DEF IInv, KernelInv, PendingInformed, TookInterrupt, Informed
<1>4. TypeOK'
  <2>1. LoopsTypeOK'
    BY <1>1, <1>3 DEF IInv, TypeOK, LoopsTypeOK, keyboard
  <2> QED
    BY <1>1, <2>1, TypesKept DEF IInv
<1>5. Points'
  BY <1>3 DEF IInv, Points, Changes
<1>6. ASSUME NEW m \in Queue(TTY), Took(TTY, ANY, m) PROVE IInv'
  <2>1. m.source \in Procs /\ m \in Mail /\ status[m.source] = "sending" /\ partner[m.source] = TTY
    BY Senders
  <2>2. /\ \A x \in Looking : \A q \in Procs : q # TTY => (Finds(q, x)' <=> Finds(q, x))
        /\ \A c \in Procs, s \in Procs : c # TTY =>
                /\ Calling(c, s)' <=> Calling(c, s)
                /\ Awaiting(c, s) => Awaiting(c, s)'
        /\ \A c \in Procs : status[c] = "ready" => status'[c] = "ready"
        /\ \A x \in Queue(TTY) : x.source = m.source => x = m
    BY <1>1, <1>3, <1>6, SenderFreed, OneMail
  <2>3. ToTTY(m) /\ m.source = FS
    BY <1>6 DEF IInv, Contents, ToTTY
  <2>4. \A s \in Procs : ~Calling(TTY, s)
    BY DEF Calling
  <2>5. /\ status'[FS] = "ready" /\ pc'[FS] = pc[FS] /\ pc'[TTY] = "got"
        /\ job' = job /\ reader' = reader /\ Queue(FS)' = Queue(FS)
    BY <1>1, <1>3, <1>6, <2>1, <2>3 DEF Took, Changes, terminal
  <2>6. Awaiting(FS, TTY)' /\ pc[FS] = "tty_await"
    BY <1>3, <1>6, <2>1, <2>3 DEF Took, Changes, IInv, Stances, Stands, Awaiting,
       Calling
  <2>7. Stances'
    BY <1>1, <1>3, <1>4, <1>5, <1>6, <2>1, <2>2, <2>3, <2>4, <2>5, <2>6
    DEF IInv, Stances, Stands, Took, Changes
  <2>8. Contents'
    BY <1>1, <1>3, <1>4, <1>5, <1>6, <2>1, <2>2, <2>3, <2>4, <2>5, <2>6
    DEF IInv, Contents, Commands, ToShell, ToFS, ToTTY, ToSYS, IsCommand, IsRequest,
       IsAnswer, Answers, IsResume, Took, Changes, keyboard
  <2>9. Found'
    <3>1. FoundShell' /\ FoundFS' /\ FoundTTY' /\ FoundHD' /\ FoundSYS'
      <4>1. {"got", "answered", "tty_got"} \subseteq Looking
        BY DEF Looking
      <4>2. FoundShell'
        BY <1>1, <1>3, <1>4, <1>5, <1>6, <2>1, <2>2, <2>3, <2>4, <2>5, <2>6, <4>1
        DEF IInv, Found, Took, Changes, FoundShell, ToShell
      <4>3. FoundFS'
        BY <1>1, <1>3, <1>4, <1>5, <1>6, <2>1, <2>2, <2>3, <2>4, <2>5, <2>6, <4>1
        DEF IInv, Found, Took, Changes, FoundFS, IsRequest, IsResume, IsAnswer, Answers
      <4>4. FoundTTY'
        BY <1>1, <1>3, <1>4, <1>5, <1>6, <2>1, <2>2, <2>3, <2>4, <2>5, <2>6, <4>1
        DEF IInv, Found, Took, Changes, FoundTTY, ToTTY
      <4>5. FoundHD'
        BY <1>1, <1>3, <1>4, <1>5, <1>6, <2>1, <2>2, <2>3, <2>4, <2>5, <2>6, <4>1
        DEF IInv, Found, Took, Changes, FoundHD, Commands, IsCommand, keyboard
      <4>6. FoundSYS'
        BY <1>1, <1>3, <1>4, <1>5, <1>6, <2>1, <2>2, <2>3, <2>4, <2>5, <2>6, <4>1
        DEF IInv, Found, Took, Changes, FoundSYS, ToSYS, IsRequest
      <4> QED
        BY <4>2, <4>3, <4>4, <4>5, <4>6
    <3> QED
      BY <3>1 DEF Found
  <2>10. Jobs'
    BY <1>1, <1>3, <1>4, <1>5, <1>6, <2>1, <2>2, <2>3, <2>4, <2>5, <2>6
    DEF IInv, Jobs, Answers, IsRequest, ToSYS, OnDisk, OnTerminal, OnSectors, Took,
       Changes
  <2>11. Served'
    <3>1. \A s \in {TTY, HD, SYS}, c \in Procs : Serving(s, c)' => Awaiting(c, s)'
      <4>1. "got" \in Looking
        BY DEF Looking
      <4>2. \A s \in {TTY, HD, SYS} \ {TTY}, c \in Procs : Serving(s, c)' => Serving(s, c)
        BY <1>1, <1>3, <1>4, <1>5, <1>6, <2>1, <2>2, <2>3, <2>4, <2>5, <2>6, <4>1
           DEF Took, Changes, Serving
      <4>3. \A c \in Procs : Serving(TTY, c)' => c = FS
        BY <1>1, <1>3, <1>4, <1>5, <1>6, <2>1, <2>2, <2>3, <2>4, <2>5, <2>6 DEF Took,
           Changes, Serving
      <4> QED
        BY <1>1, <1>3, <1>4, <1>5, <1>6, <2>1, <2>2, <2>3, <2>4, <2>5, <2>6, <4>2,
           <4>3 DEF IInv, Served, Awaiting, Calling
    <3>2. \A c \in Procs : \A x \in Queue(c)' : IsReply(c, x)' => status'[c] = "ready" /\ Calling(c, x.source)'
      BY <1>1, <1>3, <1>4, <1>5, <1>6, <2>1, <2>2, <2>3, <2>4, <2>5, <2>6, Senders
         DEF IInv, Served, IsReply, Took
    <3> QED
      BY <3>1, <3>2 DEF Served
  <2>12. AnsweredOnce' /\ ReaderKept'
    <3>1. {"got", "tty_got"} \subseteq Looking
      BY DEF Looking
    <3>2. /\ FSActive' <=> FSActive
          /\ TTYOwes' <=> TTYOwes
          /\ ResumeQueued' <=> ResumeQueued
          /\ ResumeFound' <=> ResumeFound
          /\ Suspending' <=> Suspending
      BY <1>1, <2>4, <2>5, <2>6 DEF FSActive, TTYOwes, ResumeFound, ResumeQueued,
         Suspending, Finds
    <3>3. FSActive \/ TTYOwes \/ Resuming => Awaiting(Shell, FS)'
      BY <1>1, <1>3, <1>4, <1>5, <1>6, <2>1, <2>2, <2>3, <2>4, <2>5, <2>6 DEF IInv,
         AnsweredOnce
    <3>4. \A x \in Queue(Shell)' : x \in Queue(Shell) \/ x.source # FS
      BY <1>1, <1>3, <1>4, <1>5, <1>6, <2>1, <2>2, <2>3, <2>4, <2>5, <2>6 DEF Took
    <3> QED
      BY <1>1, <1>3, <1>4, <1>5, <1>6, <2>1, <2>2, <2>3, <2>4, <2>5, <2>6, <3>2,
         <3>3, <3>4, AnsweredFrame DEF terminal
  <2>13. DiskInStep'
    BY <1>1, <1>3, <1>4, <1>5, <1>6, <2>1, <2>2, <2>3, <2>4, <2>5, <2>6, DiskFrame
       DEF Took, Changes, IInv, Stances, Stands
  <2>14. KeysSeen'
    BY <1>1, <1>3, <1>4, <1>5, <1>6, <2>1, <2>2, <2>3, <2>4, <2>5, <2>6
    DEF IInv, KeysSeen, keyboard, Took, Changes
  <2> QED
    BY <1>1, <1>3, <1>4, <1>5, <1>6, <2>1, <2>2, <2>3, <2>4, <2>5, <2>6, <2>7, <2>8,
       <2>9, <2>10, <2>11, <2>12, <2>13, <2>14 DEF IInv
<1>7. ASSUME Waited(TTY, ANY) PROVE IInv'
  <2>1. Stances'
    BY <1>1, <1>3, <1>4, <1>5, <1>7
    DEF IInv, Stances, Stands, Waited, Changes
  <2>2. Contents'
    BY <1>1, <1>3, <1>4, <1>5, <1>7
    DEF IInv, Contents, Commands, ToShell, ToFS, ToTTY, ToSYS, IsCommand, IsRequest,
       IsAnswer, Answers, IsResume, Waited, Changes, keyboard
  <2>3. Found'
    <3>1. FoundShell'
      BY <1>1, <1>3, <1>4, <1>5, <1>7
      DEF IInv, Jobs, Found, FoundShell, Stances, Stands, Finds, ToShell, Server,
         Waited, Changes
    <3>2. FoundFS'
      BY <1>1, <1>3, <1>4, <1>5, <1>7
      DEF IInv, Jobs, Found, FoundFS, Stances, Stands, Finds, IsRequest, IsResume,
         IsAnswer, Answers, Waited, Changes
    <3>3. FoundTTY'
      BY <1>1, <1>3, <1>4, <1>5, <1>7
      DEF IInv, Jobs, Found, FoundTTY, Stances, Stands, Finds, ToTTY, Waited, Changes
    <3>4. FoundHD'
      BY <1>1, <1>3, <1>4, <1>5, <1>7
      DEF IInv, Jobs, Found, FoundHD, Stances, Stands, Finds, Commands, IsCommand,
         keyboard, Waited, Changes
    <3>5. FoundSYS'
      BY <1>1, <1>3, <1>4, <1>5, <1>7
      DEF IInv, Jobs, Found, FoundSYS, Stances, Stands, Finds, ToSYS, IsRequest,
         Waited, Changes
    <3> QED
      BY <3>1, <3>2, <3>3, <3>4, <3>5 DEF Found
  <2>4. Jobs'
    BY <1>1, <1>3, <1>4, <1>5, <1>7
    DEF IInv, Jobs, Answers, IsRequest, ToSYS, OnDisk, OnTerminal, OnSectors, Waited,
       Changes
  <2>5. Served'
    <3>1. \A s \in {TTY, HD, SYS}, c \in Procs : Serving(s, c)' => Serving(s, c)
      BY <1>1, <1>3, <1>4, <1>5, <1>7 DEF Waited, Changes, Serving, Finds, K!IntMessage
    <3>2. \A c \in Procs, s \in Procs : (Calling(c, s)' <=> Calling(c, s)) /\ (c # TTY => (Awaiting(c, s)' <=> Awaiting(c, s)))
      BY <1>1, <1>3, <1>4, <1>5, <1>7 DEF Changes, Calling, Awaiting, Waited
    <3>3. \A s \in Procs : ~Awaiting(TTY, s)
      BY <1>1, <1>3, <1>4, <1>5, <1>7 DEF Awaiting, Calling
    <3>4. \A s \in {TTY, HD, SYS}, c \in Procs : Serving(s, c)' => Awaiting(c, s)'
      BY <3>1, <3>2, <3>3 DEF IInv, Served
    <3>5. \A c \in Procs : \A x \in Queue(c)' : IsReply(c, x)' => status'[c] = "ready" /\ Calling(c, x.source)'
      <4> SUFFICES ASSUME NEW c \in Procs, NEW x \in Queue(c)', IsReply(c, x)'
                   PROVE  status'[c] = "ready" /\ Calling(c, x.source)'
        OBVIOUS
      <4>1. x \in Queue(c) /\ x.source \in Procs
        BY <1>1, <1>3, <1>4, <1>5, <1>7, Senders DEF Waited
      <4>2. status[c] = "ready" /\ Calling(c, x.source) /\ c # TTY
        BY <4>1 DEF IInv, Served, IsReply, Calling
      <4> QED
        BY <1>1, <1>3, <1>4, <1>5, <1>7, <3>2, <4>1, <4>2 DEF Waited, Changes
    <3> QED
      BY <3>4, <3>5 DEF Served
  <2>6. AnsweredOnce' /\ ReaderKept'
    <3>1. /\ FSActive' <=> FSActive
          /\ TTYOwes' <=> TTYOwes
          /\ ResumeQueued' <=> ResumeQueued
          /\ ResumeFound' <=> ResumeFound
          /\ Suspending' <=> Suspending
      BY <1>1, <1>3, <1>4, <1>5, <1>7 DEF FSActive, TTYOwes, ResumeFound,
         ResumeQueued, Suspending, Waited, Changes, Finds, terminal
    <3>2. FSActive \/ TTYOwes \/ Resuming => Awaiting(Shell, FS)'
      BY <1>1, <1>3, <1>4, <1>5, <1>7 DEF IInv, AnsweredOnce, Awaiting, Calling,
         Waited, Changes
    <3> QED
      BY <1>1, <1>3, <1>4, <1>5, <1>7, <3>1, <3>2, AnsweredFrame DEF Waited, terminal
  <2>7. DiskInStep'
    BY <1>1, <1>3, <1>4, <1>5, <1>7, DiskFrame DEF Waited, Changes, IInv, Stances,
       Stands
  <2>8. KeysSeen'
    BY <1>1, <1>3, <1>4, <1>5, <1>7
    DEF IInv, KeysSeen, keyboard, Waited, Changes
  <2> QED
    BY <1>1, <1>3, <1>4, <1>5, <1>7, <2>1, <2>2, <2>3, <2>4, <2>5, <2>6, <2>7, <2>8
       DEF IInv
<1>8. ASSUME TookInterrupt(TTY) PROVE IInv'
  <2>1. Stances'
    BY <1>1, <1>3, <1>4, <1>5, <1>8
    DEF IInv, Stances, Stands, TookInterrupt, Changes
  <2>2. Contents'
    BY <1>1, <1>3, <1>4, <1>5, <1>8
    DEF IInv, Contents, Commands, ToShell, ToFS, ToTTY, ToSYS, IsCommand, IsRequest,
       IsAnswer, Answers, IsResume, TookInterrupt, Changes, keyboard
  <2>3. Found'
    <3>1. FoundShell'
      BY <1>1, <1>3, <1>4, <1>5, <1>8
      DEF IInv, Jobs, Found, FoundShell, Stances, Stands, Finds, ToShell, Server,
         TookInterrupt, Changes
    <3>2. FoundFS'
      BY <1>1, <1>3, <1>4, <1>5, <1>8
      DEF IInv, Jobs, Found, FoundFS, Stances, Stands, Finds, IsRequest, IsResume,
         IsAnswer, Answers, TookInterrupt, Changes
    <3>3. FoundTTY'
      BY <1>1, <1>3, <1>4, <1>5, <1>8
      DEF IInv, Jobs, Found, FoundTTY, Stances, Stands, Finds, ToTTY, TookInterrupt,
         Changes, K!IntMessage
    <3>4. FoundHD'
      BY <1>1, <1>3, <1>4, <1>5, <1>8
      DEF IInv, Jobs, Found, FoundHD, Stances, Stands, Finds, Commands, IsCommand,
         keyboard, TookInterrupt, Changes
    <3>5. FoundSYS'
      BY <1>1, <1>3, <1>4, <1>5, <1>8
      DEF IInv, Jobs, Found, FoundSYS, Stances, Stands, Finds, ToSYS, IsRequest,
         TookInterrupt, Changes
    <3> QED
      BY <3>1, <3>2, <3>3, <3>4, <3>5 DEF Found
  <2>4. Jobs'
    BY <1>1, <1>3, <1>4, <1>5, <1>8
    DEF IInv, Jobs, Answers, IsRequest, ToSYS, OnDisk, OnTerminal, OnSectors,
       TookInterrupt, Changes
  <2>5. Served'
    <3>1. \A s \in {TTY, HD, SYS}, c \in Procs : Serving(s, c)' => Serving(s, c)
      BY <1>1, <1>3, <1>4, <1>5, <1>8 DEF TookInterrupt, Changes, Serving, Finds,
         K!IntMessage
    <3>2. \A c \in Procs, s \in Procs : (Calling(c, s)' <=> Calling(c, s)) /\ (c # TTY => (Awaiting(c, s)' <=> Awaiting(c, s)))
      BY <1>1, <1>3, <1>4, <1>5, <1>8 DEF Changes, Calling, Awaiting, TookInterrupt
    <3>3. \A s \in Procs : ~Awaiting(TTY, s)
      BY <1>1, <1>3, <1>4, <1>5, <1>8 DEF Awaiting, Calling
    <3>4. \A s \in {TTY, HD, SYS}, c \in Procs : Serving(s, c)' => Awaiting(c, s)'
      BY <3>1, <3>2, <3>3 DEF IInv, Served
    <3>5. \A c \in Procs : \A x \in Queue(c)' : IsReply(c, x)' => status'[c] = "ready" /\ Calling(c, x.source)'
      <4> SUFFICES ASSUME NEW c \in Procs, NEW x \in Queue(c)', IsReply(c, x)'
                   PROVE  status'[c] = "ready" /\ Calling(c, x.source)'
        OBVIOUS
      <4>1. x \in Queue(c) /\ x.source \in Procs
        BY <1>1, <1>3, <1>4, <1>5, <1>8, Senders DEF TookInterrupt
      <4>2. status[c] = "ready" /\ Calling(c, x.source) /\ c # TTY
        BY <4>1 DEF IInv, Served, IsReply, Calling
      <4> QED
        BY <1>1, <1>3, <1>4, <1>5, <1>8, <3>2, <4>1, <4>2 DEF TookInterrupt, Changes
    <3> QED
      BY <3>4, <3>5 DEF Served
  <2>6. AnsweredOnce' /\ ReaderKept'
    <3>1. /\ FSActive' <=> FSActive
          /\ TTYOwes' <=> TTYOwes
          /\ ResumeQueued' <=> ResumeQueued
          /\ ResumeFound' <=> ResumeFound
          /\ Suspending' <=> Suspending
      BY <1>1, <1>3, <1>4, <1>5, <1>8 DEF FSActive, TTYOwes, ResumeFound,
         ResumeQueued, Suspending, TookInterrupt, Changes, Finds, terminal
    <3>2. FSActive \/ TTYOwes \/ Resuming => Awaiting(Shell, FS)'
      BY <1>1, <1>3, <1>4, <1>5, <1>8 DEF IInv, AnsweredOnce, Awaiting, Calling,
         TookInterrupt, Changes
    <3> QED
      BY <1>1, <1>3, <1>4, <1>5, <1>8, <3>1, <3>2, AnsweredFrame DEF TookInterrupt,
         terminal
  <2>7. DiskInStep'
    BY <1>1, <1>3, <1>4, <1>5, <1>8, DiskFrame DEF TookInterrupt, Changes, IInv,
       Stances, Stands
  <2>8. KeysSeen'
    BY <1>1, <1>3, <1>4, <1>5, <1>8
    DEF IInv, KeysSeen, keyboard, TookInterrupt, Changes
  <2> QED
    BY <1>1, <1>3, <1>4, <1>5, <1>8, <2>1, <2>2, <2>3, <2>4, <2>5, <2>6, <2>7, <2>8
       DEF IInv
<1> QED
  BY <1>3, <1>6, <1>7, <1>8

(* HD finds a command, never an interrupt, and starts on it.  *)
LEMMA HDDispatchIInv == IInv /\ HDDispatch => IInv'
<1> SUFFICES ASSUME IInv, HDDispatch PROVE IInv'
  OBVIOUS
<1> USE ProcsDiffer
<1>1. inbox[HD] \in Mail /\ IsCommand(inbox[HD]) /\ inbox[HD].source = FS /\ inbox[HD].type.op \in Commands /\ inbox[HD].type \in Body
  BY DEF HDDispatch, At, IInv, Found, FoundHD, Finds, IsCommand, Mail
<1>2. /\ pc[HD] = "got" /\ status[HD] = "ready" /\ Accept(HD, inbox[HD], "ask")
      /\ UNCHANGED <<transfers, device, announced, keyboard, terminal>>
      /\ waitfor' = [mask |-> "BSY", started |-> FALSE]
      /\ sectors' \in IF inbox[HD].type.op = "DEV_OPEN" THEN 2..load.sectors ELSE {inbox[HD].type.cnt}
  BY <1>1 DEF HDDispatch, At, Poll
<1>3. /\ KernelInv' /\ UNCHANGED <<status, partner, pending>>
      /\ Changes(inbox, inbox', HD, NO_TASK) /\ \A c \in Procs : Queue(c)' = Queue(c)
      /\ pc' = [pc EXCEPT ![HD] = "ask"] /\ Changes(pc, pc', HD, "ask")
      /\ job' = [job EXCEPT ![HD] = inbox[HD]] /\ Changes(job, job', HD, inbox[HD])
  BY <1>2, Accepted
<1>4. sectors' \in 1..load.sectors
  BY <1>1, <1>2, LoadFields DEF IsCommand
<1>5. TypeOK'
  <2>1. LoopsTypeOK'
    BY <1>1, <1>2, <1>3, <1>4, NoJobType DEF IInv, TypeOK, LoopsTypeOK, Mail, keyboard
  <2>2. KeysTypeOK' /\ TerminalTypeOK'
    BY <1>1, <1>2, <1>3, <1>4 DEF IInv, TypeOK, KeysTypeOK, TerminalTypeOK, keyboard,
       terminal
  <2>3. DiskTypeOK'
    <3>1. load' = load /\ load.sectors \in 2..MaxSectors
      BY <1>1, <1>2, <1>3, <1>4, LoadFields DEF keyboard
    <3>2. sectors' \in 0..load.sectors /\ announced' \in 0..load.sectors
      BY <1>1, <1>2, <1>3, <1>4, <3>1, LoadFields DEF IInv, TypeOK, DiskTypeOK,
         DiskInStep, OnSectors
    <3>3. device' \in {"idle", "fetch", "data", "prepare", "drq", "store"}
      BY <1>1, <1>2, <1>3, <1>4 DEF IInv, TypeOK, DiskTypeOK
    <3>4. waitfor' \in [mask : {"BSY", "DRQ"}, started : BOOLEAN]
      BY <1>1, <1>2, <1>3, <1>4 DEF IInv, TypeOK, DiskTypeOK
    <3> QED
      BY <3>1, <3>2, <3>3, <3>4 DEF DiskTypeOK
  <2> QED
    BY <2>1, <2>2, <2>3 DEF TypeOK
<1>6. Points'
  BY <1>1, <1>2, <1>3, <1>4
  DEF IInv, Points, Changes
<1>7. Stances'
  BY <1>1, <1>2, <1>3, <1>4
  DEF IInv, Stances, Stands, Changes
<1>8. Contents'
  BY <1>1, <1>2, <1>3, <1>4
  DEF IInv, Contents, Commands, ToShell, ToFS, ToTTY, ToSYS, IsCommand, IsRequest,
     IsAnswer, Answers, IsResume, Changes, keyboard
<1>9. Found'
  <2>1. FoundShell'
    BY <1>1, <1>2, <1>3, <1>4
    DEF IInv, Jobs, Found, FoundShell, Stances, Stands, Finds, ToShell, Server, Changes
  <2>2. FoundFS'
    BY <1>1, <1>2, <1>3, <1>4
    DEF IInv, Jobs, Found, FoundFS, Stances, Stands, Finds, IsRequest, IsResume,
       IsAnswer, Answers, Changes
  <2>3. FoundTTY'
    BY <1>1, <1>2, <1>3, <1>4
    DEF IInv, Jobs, Found, FoundTTY, Stances, Stands, Finds, ToTTY, Changes
  <2>4. FoundHD'
    BY <1>1, <1>2, <1>3, <1>4
    DEF IInv, Jobs, Found, FoundHD, Stances, Stands, Finds, Commands, IsCommand,
       keyboard, Changes
  <2>5. FoundSYS'
    BY <1>1, <1>2, <1>3, <1>4
    DEF IInv, Jobs, Found, FoundSYS, Stances, Stands, Finds, ToSYS, IsRequest, Changes
  <2> QED
    BY <2>1, <2>2, <2>3, <2>4, <2>5 DEF Found
<1>10. Jobs'
  BY <1>1, <1>2, <1>3, <1>4
  DEF IInv, Jobs, Answers, IsRequest, ToSYS, OnDisk, OnTerminal, OnSectors, Changes
<1>11. Served'
  <2>1. \A s \in {TTY, HD, SYS}, c \in Procs : Serving(s, c)' => Serving(s, c)
    BY <1>1, <1>2, <1>3, <1>4 DEF Changes, Serving, Finds, OnSectors
  <2>2. \A c \in Procs, s \in Procs : (Calling(c, s)' <=> Calling(c, s)) /\ (Awaiting(c, s)' <=> Awaiting(c, s))
    BY <1>1, <1>2, <1>3, <1>4 DEF Changes, Calling, Awaiting
  <2> QED
    BY <1>1, <1>2, <1>3, <1>4, <2>1, <2>2, Senders DEF IInv, Served, IsReply
<1>12. AnsweredOnce' /\ ReaderKept'
  <2>1. /\ FSActive' <=> FSActive
        /\ TTYOwes' <=> TTYOwes
        /\ ResumeQueued' <=> ResumeQueued
        /\ ResumeFound' <=> ResumeFound
        /\ Suspending' <=> Suspending
    BY <1>1, <1>2, <1>3, <1>4, RequestFrame DEF Changes, terminal, Finds
  <2>2. FSActive \/ TTYOwes \/ Resuming => Awaiting(Shell, FS)'
    BY <1>1, <1>2, <1>3, <1>4 DEF IInv, AnsweredOnce, Awaiting, Calling, Changes
  <2> QED
    BY <1>1, <1>2, <1>3, <1>4, <2>1, <2>2, AnsweredFrame DEF terminal, Changes
<1>13. DiskInStep'
  BY <1>1, <1>2, <1>3, <1>4 DEF IInv, DiskInStep, SectorOnItsWay, Interrupted, Finds,
     OnSectors, Changes
<1>14. KeysSeen'
  BY <1>1, <1>2, <1>3, <1>4
  DEF IInv, KeysSeen, keyboard, Changes
<1> QED
  BY <1>1, <1>2, <1>3, <1>4, <1>5, <1>6, <1>7, <1>8, <1>9, <1>10, <1>11, <1>12,
     <1>13, <1>14 DEF IInv

(* HD polls again, or sees that the disk is ready for it.  *)
LEMMA HDPollIInv == IInv /\ HDPoll => IInv'
<1> SUFFICES ASSUME IInv, HDPoll PROVE IInv'
  OBVIOUS
<1> USE ProcsDiffer
<1> DEFINE nxt == IF ~(waitfor.started /\ InStatus(waitfor.mask)) THEN "ask"
                     ELSE IF waitfor.mask = "BSY" THEN "command" ELSE "port_write"
<1>1. /\ pc[HD] = "ticks" /\ status[HD] = "ready" /\ K!Reuse(HD) /\ Go(HD, nxt)
      /\ waitfor' = [waitfor EXCEPT !.started = TRUE]
      /\ UNCHANGED <<job, transfers, sectors, device, announced, keyboard, terminal>>
  BY DEF HDPoll, At
<1>2. /\ nxt \in {"ask", "command", "port_write"}
      /\ nxt = "command" => waitfor.mask = "BSY"
      /\ nxt = "port_write" => waitfor.mask # "BSY" /\ InStatus(waitfor.mask)
  OBVIOUS
<1> HIDE DEF nxt
<1>3. /\ KernelInv' /\ UNCHANGED <<status, partner, pending>>
      /\ Changes(inbox, inbox', HD, NO_TASK) /\ \A c \in Procs : Queue(c)' = Queue(c)
      /\ pc' = [pc EXCEPT ![HD] = nxt] /\ Changes(pc, pc', HD, nxt)
  BY <1>1, Reuses DEF Go, IInv, TypeOK, LoopsTypeOK, Changes
<1>4. waitfor' \in [mask : {"BSY", "DRQ"}, started : BOOLEAN] /\ waitfor'.mask = waitfor.mask
  BY <1>1 DEF IInv, TypeOK, DiskTypeOK
<1>5. job[HD].source = FS /\ job[HD].type.op \in Commands
  BY <1>1 DEF IInv, Jobs, OnSectors
<1>6. TypeOK'
  <2>1. LoopsTypeOK'
    BY <1>1, <1>2, <1>3, <1>4, <1>5, NoJobType DEF IInv, TypeOK, LoopsTypeOK, Mail,
       keyboard
  <2>2. KeysTypeOK' /\ TerminalTypeOK'
    BY <1>1, <1>2, <1>3, <1>4, <1>5 DEF IInv, TypeOK, KeysTypeOK, TerminalTypeOK,
       keyboard, terminal
  <2>3. DiskTypeOK'
    <3>1. load' = load /\ load.sectors \in 2..MaxSectors
      BY <1>1, <1>2, <1>3, <1>4, <1>5, LoadFields DEF keyboard
    <3>2. sectors' \in 0..load.sectors /\ announced' \in 0..load.sectors
      BY <1>1, <1>2, <1>3, <1>4, <1>5, <3>1, LoadFields DEF IInv, TypeOK, DiskTypeOK,
         DiskInStep, OnSectors
    <3>3. device' \in {"idle", "fetch", "data", "prepare", "drq", "store"}
      BY <1>1, <1>2, <1>3, <1>4, <1>5 DEF IInv, TypeOK, DiskTypeOK
    <3>4. waitfor' \in [mask : {"BSY", "DRQ"}, started : BOOLEAN]
      BY <1>1, <1>2, <1>3, <1>4, <1>5 DEF IInv, TypeOK, DiskTypeOK
    <3> QED
      BY <3>1, <3>2, <3>3, <3>4 DEF DiskTypeOK
  <2> QED
    BY <2>1, <2>2, <2>3 DEF TypeOK
<1>7. Points'
  BY <1>1, <1>2, <1>3, <1>4, <1>5
  DEF IInv, Points, Changes
<1>8. Stances'
  BY <1>1, <1>2, <1>3, <1>4, <1>5
  DEF IInv, Stances, Stands, Changes
<1>9. Contents'
  BY <1>1, <1>2, <1>3, <1>4, <1>5
  DEF IInv, Contents, Commands, ToShell, ToFS, ToTTY, ToSYS, IsCommand, IsRequest,
     IsAnswer, Answers, IsResume, Changes, keyboard
<1>10. Found'
  <2>1. FoundShell'
    BY <1>1, <1>2, <1>3, <1>4, <1>5
    DEF IInv, Jobs, Found, FoundShell, Stances, Stands, Finds, ToShell, Server, Changes
  <2>2. FoundFS'
    BY <1>1, <1>2, <1>3, <1>4, <1>5
    DEF IInv, Jobs, Found, FoundFS, Stances, Stands, Finds, IsRequest, IsResume,
       IsAnswer, Answers, Changes
  <2>3. FoundTTY'
    BY <1>1, <1>2, <1>3, <1>4, <1>5
    DEF IInv, Jobs, Found, FoundTTY, Stances, Stands, Finds, ToTTY, Changes,
       K!IntMessage
  <2>4. FoundHD'
    BY <1>1, <1>2, <1>3, <1>4, <1>5
    DEF IInv, Jobs, Found, FoundHD, Stances, Stands, Finds, Commands, IsCommand,
       keyboard, Changes
  <2>5. FoundSYS'
    BY <1>1, <1>2, <1>3, <1>4, <1>5
    DEF IInv, Jobs, Found, FoundSYS, Stances, Stands, Finds, ToSYS, IsRequest, Changes
  <2> QED
    BY <2>1, <2>2, <2>3, <2>4, <2>5 DEF Found
<1>11. Jobs'
  BY <1>1, <1>2, <1>3, <1>4, <1>5
  DEF IInv, Jobs, Answers, IsRequest, ToSYS, OnDisk, OnTerminal, OnSectors, Changes
<1>12. Served'
  <2>1. \A s \in {TTY, HD, SYS}, c \in Procs : Serving(s, c)' => Serving(s, c)
    BY <1>1, <1>2, <1>3, <1>4, <1>5 DEF Changes, Serving, Finds, OnSectors
  <2>2. \A c \in Procs, s \in Procs : (Calling(c, s)' <=> Calling(c, s)) /\ (Awaiting(c, s)' <=> Awaiting(c, s))
    BY <1>1, <1>2, <1>3, <1>4, <1>5 DEF Changes, Calling, Awaiting
  <2> QED
    BY <1>1, <1>2, <1>3, <1>4, <1>5, <2>1, <2>2, Senders DEF IInv, Served, IsReply
<1>13. AnsweredOnce' /\ ReaderKept'
  <2>1. /\ FSActive' <=> FSActive
        /\ TTYOwes' <=> TTYOwes
        /\ ResumeQueued' <=> ResumeQueued
        /\ ResumeFound' <=> ResumeFound
        /\ Suspending' <=> Suspending
    BY <1>1, <1>2, <1>3, <1>4, <1>5, RequestFrame DEF Changes, terminal, Finds
  <2>2. FSActive \/ TTYOwes \/ Resuming => Awaiting(Shell, FS)'
    BY <1>1, <1>2, <1>3, <1>4, <1>5 DEF IInv, AnsweredOnce, Awaiting, Calling, Changes
  <2> QED
    BY <1>1, <1>2, <1>3, <1>4, <1>5, <2>1, <2>2, AnsweredFrame DEF terminal, Changes
<1>14. DiskInStep'
  BY <1>1, <1>2, <1>3, <1>4, <1>5 DEF IInv, DiskInStep, SectorOnItsWay, Interrupted,
     Finds, OnSectors, Changes, InStatus
<1>15. KeysSeen'
  BY <1>1, <1>2, <1>3, <1>4, <1>5
  DEF IInv, KeysSeen, keyboard, Changes
<1> QED
  BY <1>1, <1>2, <1>3, <1>4, <1>5, <1>6, <1>7, <1>8, <1>9, <1>10, <1>11, <1>12,
     <1>13, <1>14, <1>15 DEF IInv

(* A command announces to the disk the sectors HD will move.  *)
LEMMA HDCommandIInv == IInv /\ HDCommand => IInv'
<1> SUFFICES ASSUME IInv, HDCommand PROVE IInv'
  OBVIOUS
<1> USE ProcsDiffer
<1> DEFINE nxt == IF job[HD].type.op = "DEV_WRITE" THEN "ask" ELSE "wait"
<1>1. /\ pc[HD] = "command" /\ status[HD] = "ready" /\ Go(HD, nxt) /\ UNCHANGED kernel
      /\ announced' = IF job[HD].type.op = "DEV_OPEN" THEN 1 ELSE sectors
      /\ device' = IF job[HD].type.op = "DEV_WRITE" THEN "prepare" ELSE "fetch"
      /\ waitfor' = IF job[HD].type.op = "DEV_WRITE" THEN [mask |-> "DRQ", started |-> FALSE] ELSE waitfor
      /\ UNCHANGED <<job, transfers, sectors, keyboard, terminal>>
  BY DEF HDCommand, At, Poll
<1>2. nxt = IF job[HD].type.op = "DEV_WRITE" THEN "ask" ELSE "wait"
  OBVIOUS
<1> HIDE DEF nxt
<1>3. /\ KernelInv' /\ UNCHANGED <<status, partner, inbox, pending>>
      /\ \A c \in Procs : Queue(c)' = Queue(c)
      /\ pc' = [pc EXCEPT ![HD] = nxt] /\ Changes(pc, pc', HD, nxt)
  BY <1>1, KernelSame DEF Go, IInv, TypeOK, LoopsTypeOK, Changes
<1>4. job[HD].source = FS /\ job[HD].type.op \in Commands
  BY <1>1 DEF IInv, Jobs, OnSectors
<1>5. TypeOK'
  <2>1. LoopsTypeOK'
    BY <1>1, <1>2, <1>3, <1>4, NoJobType DEF IInv, TypeOK, LoopsTypeOK, Mail, keyboard
  <2>2. KeysTypeOK' /\ TerminalTypeOK'
    BY <1>1, <1>2, <1>3, <1>4 DEF IInv, TypeOK, KeysTypeOK, TerminalTypeOK, keyboard,
       terminal
  <2>3. DiskTypeOK'
    <3>1. load' = load /\ load.sectors \in 2..MaxSectors
      BY <1>1, <1>2, <1>3, <1>4, LoadFields DEF keyboard
    <3>2. sectors' \in 0..load.sectors /\ announced' \in 0..load.sectors
      BY <1>1, <1>2, <1>3, <1>4, <3>1, LoadFields DEF IInv, TypeOK, DiskTypeOK,
         DiskInStep, OnSectors
    <3>3. device' \in {"idle", "fetch", "data", "prepare", "drq", "store"}
      BY <1>1, <1>2, <1>3, <1>4 DEF IInv, TypeOK, DiskTypeOK
    <3>4. waitfor' \in [mask : {"BSY", "DRQ"}, started : BOOLEAN]
      BY <1>1, <1>2, <1>3, <1>4 DEF IInv, TypeOK, DiskTypeOK
    <3> QED
      BY <3>1, <3>2, <3>3, <3>4 DEF DiskTypeOK
  <2> QED
    BY <2>1, <2>2, <2>3 DEF TypeOK
<1>6. Points'
  BY <1>1, <1>2, <1>3, <1>4
  DEF IInv, Points, Changes
<1>7. Stances'
  BY <1>1, <1>2, <1>3, <1>4
  DEF IInv, Stances, Stands, Changes
<1>8. Contents'
  BY <1>1, <1>2, <1>3, <1>4
  DEF IInv, Contents, Commands, ToShell, ToFS, ToTTY, ToSYS, IsCommand, IsRequest,
     IsAnswer, Answers, IsResume, Changes, keyboard
<1>9. Found'
  <2>1. FoundShell'
    BY <1>1, <1>2, <1>3, <1>4
    DEF IInv, Jobs, Found, FoundShell, Stances, Stands, Finds, ToShell, Server, Changes
  <2>2. FoundFS'
    BY <1>1, <1>2, <1>3, <1>4
    DEF IInv, Jobs, Found, FoundFS, Stances, Stands, Finds, IsRequest, IsResume,
       IsAnswer, Answers, Changes
  <2>3. FoundTTY'
    BY <1>1, <1>2, <1>3, <1>4
    DEF IInv, Jobs, Found, FoundTTY, Stances, Stands, Finds, ToTTY, Changes,
       K!IntMessage
  <2>4. FoundHD'
    BY <1>1, <1>2, <1>3, <1>4
    DEF IInv, Jobs, Found, FoundHD, Stances, Stands, Finds, Commands, IsCommand,
       keyboard, Changes
  <2>5. FoundSYS'
    BY <1>1, <1>2, <1>3, <1>4
    DEF IInv, Jobs, Found, FoundSYS, Stances, Stands, Finds, ToSYS, IsRequest, Changes
  <2> QED
    BY <2>1, <2>2, <2>3, <2>4, <2>5 DEF Found
<1>10. Jobs'
  BY <1>1, <1>2, <1>3, <1>4
  DEF IInv, Jobs, Answers, IsRequest, ToSYS, OnDisk, OnTerminal, OnSectors, Changes
<1>11. Served'
  <2>1. \A s \in {TTY, HD, SYS}, c \in Procs : Serving(s, c)' => Serving(s, c)
    BY <1>1, <1>2, <1>3, <1>4 DEF Changes, Serving, Finds, OnSectors
  <2>2. \A c \in Procs, s \in Procs : (Calling(c, s)' <=> Calling(c, s)) /\ (Awaiting(c, s)' <=> Awaiting(c, s))
    BY <1>1, <1>2, <1>3, <1>4 DEF Changes, Calling, Awaiting
  <2> QED
    BY <1>1, <1>2, <1>3, <1>4, <2>1, <2>2, Senders DEF IInv, Served, IsReply
<1>12. AnsweredOnce' /\ ReaderKept'
  <2>1. /\ FSActive' <=> FSActive
        /\ TTYOwes' <=> TTYOwes
        /\ ResumeQueued' <=> ResumeQueued
        /\ ResumeFound' <=> ResumeFound
        /\ Suspending' <=> Suspending
    BY <1>1, <1>2, <1>3, <1>4, RequestFrame DEF Changes, terminal, Finds
  <2>2. FSActive \/ TTYOwes \/ Resuming => Awaiting(Shell, FS)'
    BY <1>1, <1>2, <1>3, <1>4 DEF IInv, AnsweredOnce, Awaiting, Calling, Changes
  <2> QED
    BY <1>1, <1>2, <1>3, <1>4, <2>1, <2>2, AnsweredFrame DEF terminal, Changes
<1>13. DiskInStep'
  BY <1>1, <1>2, <1>3, <1>4 DEF IInv, DiskInStep, SectorOnItsWay, Interrupted, Finds,
     OnSectors, Changes
<1>14. KeysSeen'
  BY <1>1, <1>2, <1>3, <1>4
  DEF IInv, KeysSeen, keyboard, Changes
<1> QED
  BY <1>1, <1>2, <1>3, <1>4, <1>5, <1>6, <1>7, <1>8, <1>9, <1>10, <1>11, <1>12,
     <1>13, <1>14 DEF IInv

(* HD hands over a sector that the disk has asked for.  *)
LEMMA HDPortWriteIInv == IInv /\ HDPortWrite => IInv'
<1> SUFFICES ASSUME IInv, HDPortWrite PROVE IInv'
  OBVIOUS
<1> USE ProcsDiffer
<1>1. /\ pc[HD] = "port_write" /\ status[HD] = "ready" /\ Go(HD, "wait") /\ UNCHANGED kernel
      /\ device' = "store"
      /\ UNCHANGED <<job, transfers, sectors, announced, waitfor, keyboard, terminal>>
  BY DEF HDPortWrite, At
<1>2. /\ KernelInv' /\ UNCHANGED <<status, partner, inbox, pending>>
      /\ \A c \in Procs : Queue(c)' = Queue(c)
      /\ pc' = [pc EXCEPT ![HD] = "wait"] /\ Changes(pc, pc', HD, "wait")
  BY <1>1, KernelSame DEF Go, IInv, TypeOK, LoopsTypeOK, Changes
<1>3. job[HD].source = FS /\ job[HD].type.op \in Commands
  BY <1>1 DEF IInv, Jobs, OnSectors
<1>4. TypeOK'
  <2>1. LoopsTypeOK'
    BY <1>1, <1>2, <1>3, NoJobType DEF IInv, TypeOK, LoopsTypeOK, Mail, keyboard
  <2>2. KeysTypeOK' /\ TerminalTypeOK'
    BY <1>1, <1>2, <1>3 DEF IInv, TypeOK, KeysTypeOK, TerminalTypeOK, keyboard, terminal
  <2>3. DiskTypeOK'
    <3>1. load' = load /\ load.sectors \in 2..MaxSectors
      BY <1>1, <1>2, <1>3, LoadFields DEF keyboard
    <3>2. sectors' \in 0..load.sectors /\ announced' \in 0..load.sectors
      BY <1>1, <1>2, <1>3, <3>1, LoadFields DEF IInv, TypeOK, DiskTypeOK, DiskInStep,
         OnSectors
    <3>3. device' \in {"idle", "fetch", "data", "prepare", "drq", "store"}
      BY <1>1, <1>2, <1>3 DEF IInv, TypeOK, DiskTypeOK
    <3>4. waitfor' \in [mask : {"BSY", "DRQ"}, started : BOOLEAN]
      BY <1>1, <1>2, <1>3 DEF IInv, TypeOK, DiskTypeOK
    <3> QED
      BY <3>1, <3>2, <3>3, <3>4 DEF DiskTypeOK
  <2> QED
    BY <2>1, <2>2, <2>3 DEF TypeOK
<1>5. Points'
  BY <1>1, <1>2, <1>3
  DEF IInv, Points, Changes
<1>6. Stances'
  BY <1>1, <1>2, <1>3
  DEF IInv, Stances, Stands, Changes
<1>7. Contents'
  BY <1>1, <1>2, <1>3
  DEF IInv, Contents, Commands, ToShell, ToFS, ToTTY, ToSYS, IsCommand, IsRequest,
     IsAnswer, Answers, IsResume, Changes, keyboard
<1>8. Found'
  <2>1. FoundShell'
    BY <1>1, <1>2, <1>3
    DEF IInv, Jobs, Found, FoundShell, Stances, Stands, Finds, ToShell, Server, Changes
  <2>2. FoundFS'
    BY <1>1, <1>2, <1>3
    DEF IInv, Jobs, Found, FoundFS, Stances, Stands, Finds, IsRequest, IsResume,
       IsAnswer, Answers, Changes
  <2>3. FoundTTY'
    BY <1>1, <1>2, <1>3
    DEF IInv, Jobs, Found, FoundTTY, Stances, Stands, Finds, ToTTY, Changes,
       K!IntMessage
  <2>4. FoundHD'
    BY <1>1, <1>2, <1>3
    DEF IInv, Jobs, Found, FoundHD, Stances, Stands, Finds, Commands, IsCommand,
       keyboard, Changes
  <2>5. FoundSYS'
    BY <1>1, <1>2, <1>3
    DEF IInv, Jobs, Found, FoundSYS, Stances, Stands, Finds, ToSYS, IsRequest, Changes
  <2> QED
    BY <2>1, <2>2, <2>3, <2>4, <2>5 DEF Found
<1>9. Jobs'
  BY <1>1, <1>2, <1>3
  DEF IInv, Jobs, Answers, IsRequest, ToSYS, OnDisk, OnTerminal, OnSectors, Changes
<1>10. Served'
  <2>1. \A s \in {TTY, HD, SYS}, c \in Procs : Serving(s, c)' => Serving(s, c)
    BY <1>1, <1>2, <1>3 DEF Changes, Serving, Finds, OnSectors
  <2>2. \A c \in Procs, s \in Procs : (Calling(c, s)' <=> Calling(c, s)) /\ (Awaiting(c, s)' <=> Awaiting(c, s))
    BY <1>1, <1>2, <1>3 DEF Changes, Calling, Awaiting
  <2> QED
    BY <1>1, <1>2, <1>3, <2>1, <2>2, Senders DEF IInv, Served, IsReply
<1>11. AnsweredOnce' /\ ReaderKept'
  <2>1. /\ FSActive' <=> FSActive
        /\ TTYOwes' <=> TTYOwes
        /\ ResumeQueued' <=> ResumeQueued
        /\ ResumeFound' <=> ResumeFound
        /\ Suspending' <=> Suspending
    BY <1>1, <1>2, <1>3, RequestFrame DEF Changes, terminal, Finds
  <2>2. FSActive \/ TTYOwes \/ Resuming => Awaiting(Shell, FS)'
    BY <1>1, <1>2, <1>3 DEF IInv, AnsweredOnce, Awaiting, Calling, Changes
  <2> QED
    BY <1>1, <1>2, <1>3, <2>1, <2>2, AnsweredFrame DEF terminal, Changes
<1>12. DiskInStep'
  BY <1>1, <1>2, <1>3 DEF IInv, DiskInStep, SectorOnItsWay, Interrupted, Finds,
     OnSectors, Changes
<1>13. KeysSeen'
  BY <1>1, <1>2, <1>3
  DEF IInv, KeysSeen, keyboard, Changes
<1> QED
  BY <1>1, <1>2, <1>3, <1>4, <1>5, <1>6, <1>7, <1>8, <1>9, <1>10, <1>11, <1>12, <1>13
     DEF IInv

(* HD and the disk have one sector less to move.  *)
LEMMA HDSectorReadIInv == IInv /\ HDSectorRead => IInv'
<1> SUFFICES ASSUME IInv, HDSectorRead PROVE IInv'
  OBVIOUS
<1> USE ProcsDiffer
<1> DEFINE nxt == IF sectors = 1 THEN "reply" ELSE IF job[HD].type.op = "DEV_READ" THEN "wait" ELSE "ask"
           mask == IF job[HD].type.op = "DEV_WRITE" THEN "DRQ" ELSE "BSY"
<1>1. /\ pc[HD] = "interrupted" /\ status[HD] = "ready" /\ job[HD].type.op # "DEV_WRITE"
      /\ job[HD].source = FS /\ job[HD].type.op \in Commands
  BY DEF HDSectorRead, At, IInv, Jobs, OnSectors
<1>2. /\ K!Reuse(HD) /\ Go(HD, nxt) /\ sectors' = sectors - 1
      /\ nxt = "ask" => waitfor' = [mask |-> mask, started |-> FALSE]
      /\ nxt # "ask" => waitfor' = waitfor
      /\ device' = (IF announced > 1 THEN "fetch" ELSE "idle") /\ announced' = announced - 1
      /\ UNCHANGED <<job, transfers, keyboard, terminal>>
  BY <1>1 DEF HDSectorRead, NextSector, Poll, Commands
<1>3. /\ nxt = IF sectors = 1 THEN "reply" ELSE IF job[HD].type.op = "DEV_READ" THEN "wait" ELSE "ask"
      /\ mask = IF job[HD].type.op = "DEV_WRITE" THEN "DRQ" ELSE "BSY"
  OBVIOUS
<1> HIDE DEF nxt, mask
<1>4. /\ KernelInv' /\ UNCHANGED <<status, partner, pending>>
      /\ Changes(inbox, inbox', HD, NO_TASK) /\ \A c \in Procs : Queue(c)' = Queue(c)
      /\ pc' = [pc EXCEPT ![HD] = nxt] /\ Changes(pc, pc', HD, nxt)
  BY <1>2, Reuses DEF Go, IInv, TypeOK, LoopsTypeOK, Changes
<1>5. Interrupted /\ SectorOnItsWay /\ sectors >= 1 /\ ~pending[HD] /\ sectors \in 0..load.sectors /\ announced \in 0..load.sectors /\ load.sectors \in Nat
  BY <1>1, LoadFields DEF IInv, DiskInStep, Interrupted, Finds, OnSectors, TypeOK,
     DiskTypeOK
<1>6. waitfor' \in [mask : {"BSY", "DRQ"}, started : BOOLEAN]
  <2>1. mask \in {"BSY", "DRQ"}
      BY <1>3
    <2>2. waitfor \in [mask : {"BSY", "DRQ"}, started : BOOLEAN]
      BY DEF IInv, TypeOK, DiskTypeOK
    <2>3. waitfor' = [mask |-> mask, started |-> FALSE] \/ waitfor' = waitfor
      BY <1>2
    <2>4. [mask |-> mask, started |-> FALSE] \in [mask : {"BSY", "DRQ"}, started : BOOLEAN]
      BY <2>1
    <2> QED
      BY <2>2, <2>3, <2>4, Zenon
<1>7. sectors' \in 0..load.sectors /\ announced' \in 0..load.sectors
  BY <1>1, <1>2, <1>5 DEF SectorOnItsWay
<1>8. TypeOK'
  <2>1. LoopsTypeOK'
    BY <1>1, <1>2, <1>3, <1>4, <1>5, <1>6, <1>7, NoJobType DEF IInv, TypeOK,
       LoopsTypeOK, Mail, keyboard
  <2>2. KeysTypeOK' /\ TerminalTypeOK'
    BY <1>1, <1>2, <1>3, <1>4, <1>5, <1>6, <1>7 DEF IInv, TypeOK, KeysTypeOK,
       TerminalTypeOK, keyboard, terminal
  <2>3. DiskTypeOK'
    <3>1. load' = load /\ load.sectors \in 2..MaxSectors
      BY <1>1, <1>2, <1>3, <1>4, <1>5, <1>6, <1>7, LoadFields DEF keyboard
    <3>2. sectors' \in 0..load.sectors /\ announced' \in 0..load.sectors
      BY <1>1, <1>2, <1>3, <1>4, <1>5, <1>6, <1>7, <3>1, LoadFields DEF IInv, TypeOK,
         DiskTypeOK, DiskInStep, OnSectors
    <3>3. device' \in {"idle", "fetch", "data", "prepare", "drq", "store"}
      BY <1>1, <1>2, <1>3, <1>4, <1>5, <1>6, <1>7 DEF IInv, TypeOK, DiskTypeOK
    <3>4. waitfor' \in [mask : {"BSY", "DRQ"}, started : BOOLEAN]
      BY <1>1, <1>2, <1>3, <1>4, <1>5, <1>6, <1>7 DEF IInv, TypeOK, DiskTypeOK
    <3> QED
      BY <3>1, <3>2, <3>3, <3>4 DEF DiskTypeOK
  <2> QED
    BY <2>1, <2>2, <2>3 DEF TypeOK
<1>9. Points'
  BY <1>1, <1>2, <1>3, <1>4, <1>5, <1>6, <1>7
  DEF IInv, Points, Changes
<1>10. Stances'
  BY <1>1, <1>2, <1>3, <1>4, <1>5, <1>6, <1>7
  DEF IInv, Stances, Stands, Changes
<1>11. Contents'
  BY <1>1, <1>2, <1>3, <1>4, <1>5, <1>6, <1>7
  DEF IInv, Contents, Commands, ToShell, ToFS, ToTTY, ToSYS, IsCommand, IsRequest,
     IsAnswer, Answers, IsResume, Changes, keyboard
<1>12. Found'
  <2>1. FoundShell'
    BY <1>1, <1>2, <1>3, <1>4, <1>5, <1>6, <1>7
    DEF IInv, Jobs, Found, FoundShell, Stances, Stands, Finds, ToShell, Server, Changes
  <2>2. FoundFS'
    BY <1>1, <1>2, <1>3, <1>4, <1>5, <1>6, <1>7
    DEF IInv, Jobs, Found, FoundFS, Stances, Stands, Finds, IsRequest, IsResume,
       IsAnswer, Answers, Changes
  <2>3. FoundTTY'
    BY <1>1, <1>2, <1>3, <1>4, <1>5, <1>6, <1>7
    DEF IInv, Jobs, Found, FoundTTY, Stances, Stands, Finds, ToTTY, Changes,
       K!IntMessage
  <2>4. FoundHD'
    BY <1>1, <1>2, <1>3, <1>4, <1>5, <1>6, <1>7
    DEF IInv, Jobs, Found, FoundHD, Stances, Stands, Finds, Commands, IsCommand,
       keyboard, Changes
  <2>5. FoundSYS'
    BY <1>1, <1>2, <1>3, <1>4, <1>5, <1>6, <1>7
    DEF IInv, Jobs, Found, FoundSYS, Stances, Stands, Finds, ToSYS, IsRequest, Changes
  <2> QED
    BY <2>1, <2>2, <2>3, <2>4, <2>5 DEF Found
<1>13. Jobs'
  BY <1>1, <1>2, <1>3, <1>4, <1>5, <1>6, <1>7
  DEF IInv, Jobs, Answers, IsRequest, ToSYS, OnDisk, OnTerminal, OnSectors, Changes
<1>14. Served'
  <2>1. \A s \in {TTY, HD, SYS}, c \in Procs : Serving(s, c)' => Serving(s, c)
    BY <1>1, <1>2, <1>3, <1>4, <1>5, <1>6, <1>7 DEF Changes, Serving, Finds, OnSectors
  <2>2. \A c \in Procs, s \in Procs : (Calling(c, s)' <=> Calling(c, s)) /\ (Awaiting(c, s)' <=> Awaiting(c, s))
    BY <1>1, <1>2, <1>3, <1>4, <1>5, <1>6, <1>7 DEF Changes, Calling, Awaiting
  <2> QED
    BY <1>1, <1>2, <1>3, <1>4, <1>5, <1>6, <1>7, <2>1, <2>2, Senders DEF IInv,
       Served, IsReply
<1>15. AnsweredOnce' /\ ReaderKept'
  <2>1. /\ FSActive' <=> FSActive
        /\ TTYOwes' <=> TTYOwes
        /\ ResumeQueued' <=> ResumeQueued
        /\ ResumeFound' <=> ResumeFound
        /\ Suspending' <=> Suspending
    BY <1>1, <1>2, <1>3, <1>4, <1>5, <1>6, <1>7, RequestFrame DEF Changes, terminal,
       Finds
  <2>2. FSActive \/ TTYOwes \/ Resuming => Awaiting(Shell, FS)'
    BY <1>1, <1>2, <1>3, <1>4, <1>5, <1>6, <1>7 DEF IInv, AnsweredOnce, Awaiting,
       Calling, Changes
  <2> QED
    BY <1>1, <1>2, <1>3, <1>4, <1>5, <1>6, <1>7, <2>1, <2>2, AnsweredFrame
       DEF terminal, Changes
<1>16. DiskInStep'
  BY <1>1, <1>2, <1>3, <1>4, <1>5, <1>6, <1>7 DEF IInv, DiskInStep, SectorOnItsWay,
     Interrupted, Finds, OnSectors, Changes, Commands
<1>17. KeysSeen'
  BY <1>1, <1>2, <1>3, <1>4, <1>5, <1>6, <1>7
  DEF IInv, KeysSeen, keyboard, Changes
<1> QED
  BY <1>1, <1>2, <1>3, <1>4, <1>5, <1>6, <1>7, <1>8, <1>9, <1>10, <1>11, <1>12,
     <1>13, <1>14, <1>15, <1>16, <1>17 DEF IInv

(* HD counts a sector that the disk has counted.  *)
LEMMA HDSectorWrittenIInv == IInv /\ HDSectorWritten => IInv'
<1> SUFFICES ASSUME IInv, HDSectorWritten PROVE IInv'
  OBVIOUS
<1> USE ProcsDiffer
<1> DEFINE nxt == IF sectors = 1 THEN "reply" ELSE IF job[HD].type.op = "DEV_READ" THEN "wait" ELSE "ask"
           mask == IF job[HD].type.op = "DEV_WRITE" THEN "DRQ" ELSE "BSY"
<1>1. /\ pc[HD] = "interrupted" /\ status[HD] = "ready" /\ job[HD].type.op = "DEV_WRITE"
      /\ job[HD].source = FS /\ job[HD].type.op \in Commands
  BY DEF HDSectorWritten, At, IInv, Jobs, OnSectors
<1>2. /\ K!Reuse(HD) /\ Go(HD, nxt) /\ sectors' = sectors - 1
      /\ nxt = "ask" => waitfor' = [mask |-> mask, started |-> FALSE]
      /\ nxt # "ask" => waitfor' = waitfor
      /\ UNCHANGED <<job, transfers, device, announced, keyboard, terminal>>
  BY <1>1 DEF HDSectorWritten, NextSector, Poll, Commands
<1>3. /\ nxt = IF sectors = 1 THEN "reply" ELSE IF job[HD].type.op = "DEV_READ" THEN "wait" ELSE "ask"
      /\ mask = IF job[HD].type.op = "DEV_WRITE" THEN "DRQ" ELSE "BSY"
  OBVIOUS
<1> HIDE DEF nxt, mask
<1>4. /\ KernelInv' /\ UNCHANGED <<status, partner, pending>>
      /\ Changes(inbox, inbox', HD, NO_TASK) /\ \A c \in Procs : Queue(c)' = Queue(c)
      /\ pc' = [pc EXCEPT ![HD] = nxt] /\ Changes(pc, pc', HD, nxt)
  BY <1>2, Reuses DEF Go, IInv, TypeOK, LoopsTypeOK, Changes
<1>5. Interrupted /\ SectorOnItsWay /\ sectors >= 1 /\ ~pending[HD] /\ sectors \in 0..load.sectors /\ announced \in 0..load.sectors /\ load.sectors \in Nat
  BY <1>1, LoadFields DEF IInv, DiskInStep, Interrupted, Finds, OnSectors, TypeOK,
     DiskTypeOK
<1>6. waitfor' \in [mask : {"BSY", "DRQ"}, started : BOOLEAN]
  <2>1. mask \in {"BSY", "DRQ"}
      BY <1>3
    <2>2. waitfor \in [mask : {"BSY", "DRQ"}, started : BOOLEAN]
      BY DEF IInv, TypeOK, DiskTypeOK
    <2>3. waitfor' = [mask |-> mask, started |-> FALSE] \/ waitfor' = waitfor
      BY <1>2
    <2>4. [mask |-> mask, started |-> FALSE] \in [mask : {"BSY", "DRQ"}, started : BOOLEAN]
      BY <2>1
    <2> QED
      BY <2>2, <2>3, <2>4, Zenon
<1>7. sectors' \in 0..load.sectors /\ announced' \in 0..load.sectors
  BY <1>1, <1>2, <1>5 DEF SectorOnItsWay
<1>8. TypeOK'
  <2>1. LoopsTypeOK'
    BY <1>1, <1>2, <1>3, <1>4, <1>5, <1>6, <1>7, NoJobType DEF IInv, TypeOK,
       LoopsTypeOK, Mail, keyboard
  <2>2. KeysTypeOK' /\ TerminalTypeOK'
    BY <1>1, <1>2, <1>3, <1>4, <1>5, <1>6, <1>7 DEF IInv, TypeOK, KeysTypeOK,
       TerminalTypeOK, keyboard, terminal
  <2>3. DiskTypeOK'
    <3>1. load' = load /\ load.sectors \in 2..MaxSectors
      BY <1>1, <1>2, <1>3, <1>4, <1>5, <1>6, <1>7, LoadFields DEF keyboard
    <3>2. sectors' \in 0..load.sectors /\ announced' \in 0..load.sectors
      BY <1>1, <1>2, <1>3, <1>4, <1>5, <1>6, <1>7, <3>1, LoadFields DEF IInv, TypeOK,
         DiskTypeOK, DiskInStep, OnSectors
    <3>3. device' \in {"idle", "fetch", "data", "prepare", "drq", "store"}
      BY <1>1, <1>2, <1>3, <1>4, <1>5, <1>6, <1>7 DEF IInv, TypeOK, DiskTypeOK
    <3>4. waitfor' \in [mask : {"BSY", "DRQ"}, started : BOOLEAN]
      BY <1>1, <1>2, <1>3, <1>4, <1>5, <1>6, <1>7 DEF IInv, TypeOK, DiskTypeOK
    <3> QED
      BY <3>1, <3>2, <3>3, <3>4 DEF DiskTypeOK
  <2> QED
    BY <2>1, <2>2, <2>3 DEF TypeOK
<1>9. Points'
  BY <1>1, <1>2, <1>3, <1>4, <1>5, <1>6, <1>7
  DEF IInv, Points, Changes
<1>10. Stances'
  BY <1>1, <1>2, <1>3, <1>4, <1>5, <1>6, <1>7
  DEF IInv, Stances, Stands, Changes
<1>11. Contents'
  BY <1>1, <1>2, <1>3, <1>4, <1>5, <1>6, <1>7
  DEF IInv, Contents, Commands, ToShell, ToFS, ToTTY, ToSYS, IsCommand, IsRequest,
     IsAnswer, Answers, IsResume, Changes, keyboard
<1>12. Found'
  <2>1. FoundShell'
    BY <1>1, <1>2, <1>3, <1>4, <1>5, <1>6, <1>7
    DEF IInv, Jobs, Found, FoundShell, Stances, Stands, Finds, ToShell, Server, Changes
  <2>2. FoundFS'
    BY <1>1, <1>2, <1>3, <1>4, <1>5, <1>6, <1>7
    DEF IInv, Jobs, Found, FoundFS, Stances, Stands, Finds, IsRequest, IsResume,
       IsAnswer, Answers, Changes
  <2>3. FoundTTY'
    BY <1>1, <1>2, <1>3, <1>4, <1>5, <1>6, <1>7
    DEF IInv, Jobs, Found, FoundTTY, Stances, Stands, Finds, ToTTY, Changes,
       K!IntMessage
  <2>4. FoundHD'
    BY <1>1, <1>2, <1>3, <1>4, <1>5, <1>6, <1>7
    DEF IInv, Jobs, Found, FoundHD, Stances, Stands, Finds, Commands, IsCommand,
       keyboard, Changes
  <2>5. FoundSYS'
    BY <1>1, <1>2, <1>3, <1>4, <1>5, <1>6, <1>7
    DEF IInv, Jobs, Found, FoundSYS, Stances, Stands, Finds, ToSYS, IsRequest, Changes
  <2> QED
    BY <2>1, <2>2, <2>3, <2>4, <2>5 DEF Found
<1>13. Jobs'
  BY <1>1, <1>2, <1>3, <1>4, <1>5, <1>6, <1>7
  DEF IInv, Jobs, Answers, IsRequest, ToSYS, OnDisk, OnTerminal, OnSectors, Changes
<1>14. Served'
  <2>1. \A s \in {TTY, HD, SYS}, c \in Procs : Serving(s, c)' => Serving(s, c)
    BY <1>1, <1>2, <1>3, <1>4, <1>5, <1>6, <1>7 DEF Changes, Serving, Finds, OnSectors
  <2>2. \A c \in Procs, s \in Procs : (Calling(c, s)' <=> Calling(c, s)) /\ (Awaiting(c, s)' <=> Awaiting(c, s))
    BY <1>1, <1>2, <1>3, <1>4, <1>5, <1>6, <1>7 DEF Changes, Calling, Awaiting
  <2> QED
    BY <1>1, <1>2, <1>3, <1>4, <1>5, <1>6, <1>7, <2>1, <2>2, Senders DEF IInv,
       Served, IsReply
<1>15. AnsweredOnce' /\ ReaderKept'
  <2>1. /\ FSActive' <=> FSActive
        /\ TTYOwes' <=> TTYOwes
        /\ ResumeQueued' <=> ResumeQueued
        /\ ResumeFound' <=> ResumeFound
        /\ Suspending' <=> Suspending
    BY <1>1, <1>2, <1>3, <1>4, <1>5, <1>6, <1>7, RequestFrame DEF Changes, terminal,
       Finds
  <2>2. FSActive \/ TTYOwes \/ Resuming => Awaiting(Shell, FS)'
    BY <1>1, <1>2, <1>3, <1>4, <1>5, <1>6, <1>7 DEF IInv, AnsweredOnce, Awaiting,
       Calling, Changes
  <2> QED
    BY <1>1, <1>2, <1>3, <1>4, <1>5, <1>6, <1>7, <2>1, <2>2, AnsweredFrame
       DEF terminal, Changes
<1>16. DiskInStep'
  BY <1>1, <1>2, <1>3, <1>4, <1>5, <1>6, <1>7 DEF IInv, DiskInStep, SectorOnItsWay,
     Interrupted, Finds, OnSectors, Changes, Commands
<1>17. KeysSeen'
  BY <1>1, <1>2, <1>3, <1>4, <1>5, <1>6, <1>7
  DEF IInv, KeysSeen, keyboard, Changes
<1> QED
  BY <1>1, <1>2, <1>3, <1>4, <1>5, <1>6, <1>7, <1>8, <1>9, <1>10, <1>11, <1>12,
     <1>13, <1>14, <1>15, <1>16, <1>17 DEF IInv

(* HD takes a command of FS; no interrupt is pending.  *)
LEMMA HDReceiveIInv == IInv /\ HDReceive => IInv'
<1> SUFFICES ASSUME IInv, HDReceive PROVE IInv'
  OBVIOUS
<1> USE ProcsDiffer
<1>1. /\ pc[HD] = "receive" /\ status[HD] = "ready" /\ Receive(HD, ANY, "got")
      /\ UNCHANGED <<job, transfers, disk, keyboard, terminal>>
  BY DEF HDReceive, At
<1>2. ANY \in Procs \union {ANY, INTERRUPT}
  BY DEF Server
<1>3. /\ KernelInv'
      /\ (\E m \in Queue(HD) : Took(HD, ANY, m)) \/ Waited(HD, ANY)
      /\ pc' = [pc EXCEPT ![HD] = "got"] /\ Changes(pc, pc', HD, "got")
  BY <1>1, <1>2, Received DEF IInv, KernelInv, PendingInformed, TookInterrupt,
     Informed, DiskInStep
<1>4. TypeOK'
  <2>1. LoopsTypeOK'
    BY <1>1, <1>3 DEF IInv, TypeOK, LoopsTypeOK, keyboard
  <2> QED
    BY <1>1, <2>1, TypesKept DEF IInv
<1>5. Points'
  BY <1>3 DEF IInv, Points, Changes
<1>6. ASSUME NEW m \in Queue(HD), Took(HD, ANY, m) PROVE IInv'
  <2>1. m.source \in Procs /\ m \in Mail /\ status[m.source] = "sending" /\ partner[m.source] = HD
    BY Senders
  <2>2. /\ \A x \in Looking : \A q \in Procs : q # HD => (Finds(q, x)' <=> Finds(q, x))
        /\ \A c \in Procs, s \in Procs : c # HD =>
                /\ Calling(c, s)' <=> Calling(c, s)
                /\ Awaiting(c, s) => Awaiting(c, s)'
        /\ \A c \in Procs : status[c] = "ready" => status'[c] = "ready"
        /\ \A x \in Queue(HD) : x.source = m.source => x = m
    BY <1>1, <1>3, <1>6, SenderFreed, OneMail
  <2>3. \A s \in Procs : ~Calling(HD, s)
    BY <1>1 DEF Calling
  <2>4. m.source # SYS /\ IsCommand(m) /\ m.source = FS
    BY <2>3 DEF IInv, Contents, IsCommand, Served, IsReply
  <2>5. Awaiting(FS, HD)' /\ pc[FS] = "hd_await"
    BY <1>3, <1>6, <2>1, <2>4 DEF Took, Changes, IInv, Stances, Stands, Awaiting,
       Calling
  <2>6. Stances'
    BY <1>1, <1>3, <1>4, <1>5, <1>6, <2>1, <2>2, <2>3, <2>4, <2>5
    DEF IInv, Stances, Stands, Took, Changes
  <2>7. Contents'
    BY <1>1, <1>3, <1>4, <1>5, <1>6, <2>1, <2>2, <2>3, <2>4, <2>5
    DEF IInv, Contents, Commands, ToShell, ToFS, ToTTY, ToSYS, IsCommand, IsRequest,
       IsAnswer, Answers, IsResume, Took, Changes, keyboard
  <2>8. Found'
    <3>1. FoundShell' /\ FoundFS' /\ FoundTTY' /\ FoundHD' /\ FoundSYS'
      <4>1. {"got", "answered", "tty_got"} \subseteq Looking
        BY DEF Looking
      <4>2. FoundShell'
        BY <1>1, <1>3, <1>4, <1>5, <1>6, <2>1, <2>2, <2>3, <2>4, <2>5, <4>1
        DEF IInv, Found, Took, Changes, FoundShell, ToShell
      <4>3. FoundFS'
        BY <1>1, <1>3, <1>4, <1>5, <1>6, <2>1, <2>2, <2>3, <2>4, <2>5, <4>1
        DEF IInv, Found, Took, Changes, FoundFS, IsRequest, IsResume, IsAnswer, Answers
      <4>4. FoundTTY'
        BY <1>1, <1>3, <1>4, <1>5, <1>6, <2>1, <2>2, <2>3, <2>4, <2>5, <4>1
        DEF IInv, Found, Took, Changes, FoundTTY, ToTTY
      <4>5. FoundHD'
        BY <1>1, <1>3, <1>4, <1>5, <1>6, <2>1, <2>2, <2>3, <2>4, <2>5, <4>1
        DEF IInv, Found, Took, Changes, FoundHD, Commands, IsCommand, keyboard
      <4>6. FoundSYS'
        BY <1>1, <1>3, <1>4, <1>5, <1>6, <2>1, <2>2, <2>3, <2>4, <2>5, <4>1
        DEF IInv, Found, Took, Changes, FoundSYS, ToSYS, IsRequest
      <4> QED
        BY <4>2, <4>3, <4>4, <4>5, <4>6
    <3> QED
      BY <3>1 DEF Found
  <2>9. Jobs'
    BY <1>1, <1>3, <1>4, <1>5, <1>6, <2>1, <2>2, <2>3, <2>4, <2>5
    DEF IInv, Jobs, Answers, IsRequest, ToSYS, OnDisk, OnTerminal, OnSectors, Took,
       Changes
  <2>10. Served'
    <3>1. \A s \in {TTY, HD, SYS}, c \in Procs : Serving(s, c)' => Awaiting(c, s)'
      <4>1. "got" \in Looking
        BY DEF Looking
      <4>2. \A s \in {TTY, HD, SYS} \ {HD}, c \in Procs : Serving(s, c)' => Serving(s, c)
        BY <1>1, <1>3, <1>4, <1>5, <1>6, <2>1, <2>2, <2>3, <2>4, <2>5, <4>1 DEF Took,
           Changes, Serving
      <4>3. \A c \in Procs : Serving(HD, c)' => c = FS
        BY <1>1, <1>3, <1>4, <1>5, <1>6, <2>1, <2>2, <2>3, <2>4, <2>5 DEF Took,
           Changes, Serving
      <4> QED
        BY <1>1, <1>3, <1>4, <1>5, <1>6, <2>1, <2>2, <2>3, <2>4, <2>5, <4>2, <4>3
           DEF IInv, Served, Awaiting, Calling
    <3>2. \A c \in Procs : \A x \in Queue(c)' : IsReply(c, x)' => status'[c] = "ready" /\ Calling(c, x.source)'
      BY <1>1, <1>3, <1>4, <1>5, <1>6, <2>1, <2>2, <2>3, <2>4, <2>5, Senders
         DEF IInv, Served, IsReply, Took
    <3> QED
      BY <3>1, <3>2 DEF Served
  <2>11. AnsweredOnce' /\ ReaderKept'
    <3>1. {"got", "tty_got"} \subseteq Looking
      BY DEF Looking
    <3>2. /\ FSActive' <=> FSActive
          /\ TTYOwes' <=> TTYOwes
          /\ ResumeQueued' <=> ResumeQueued
          /\ ResumeFound' <=> ResumeFound
          /\ Suspending' <=> Suspending
      BY <1>1, <1>3, <1>4, <1>5, <1>6, <2>1, <2>2, <2>3, <2>4, <2>5, <3>1,
         RequestFrame DEF Took, Changes, terminal
    <3>3. FSActive \/ TTYOwes \/ Resuming => Awaiting(Shell, FS)'
      BY <1>1, <1>3, <1>4, <1>5, <1>6, <2>1, <2>2, <2>3, <2>4, <2>5 DEF IInv,
         AnsweredOnce
    <3>4. \A x \in Queue(Shell)' : x \in Queue(Shell) \/ x.source # FS
      BY <1>1, <1>3, <1>4, <1>5, <1>6, <2>1, <2>2, <2>3, <2>4, <2>5 DEF Took
    <3> QED
      BY <1>1, <1>3, <1>4, <1>5, <1>6, <2>1, <2>2, <2>3, <2>4, <2>5, <3>2, <3>3,
         <3>4, AnsweredFrame DEF terminal
  <2>12. DiskInStep'
    BY <1>1, <1>3, <1>4, <1>5, <1>6, <2>1, <2>2, <2>3, <2>4, <2>5 DEF IInv,
       DiskInStep, SectorOnItsWay, Interrupted, Finds, OnSectors, disk, Changes, Took
  <2>13. KeysSeen'
    BY <1>1, <1>3, <1>4, <1>5, <1>6, <2>1, <2>2, <2>3, <2>4, <2>5
    DEF IInv, KeysSeen, keyboard, Took, Changes
  <2> QED
    BY <1>1, <1>3, <1>4, <1>5, <1>6, <2>1, <2>2, <2>3, <2>4, <2>5, <2>6, <2>7, <2>8,
       <2>9, <2>10, <2>11, <2>12, <2>13 DEF IInv
<1>7. ASSUME Waited(HD, ANY) PROVE IInv'
  <2>1. Stances'
    BY <1>1, <1>3, <1>4, <1>5, <1>7
    DEF IInv, Stances, Stands, Waited, Changes
  <2>2. Contents'
    BY <1>1, <1>3, <1>4, <1>5, <1>7
    DEF IInv, Contents, Commands, ToShell, ToFS, ToTTY, ToSYS, IsCommand, IsRequest,
       IsAnswer, Answers, IsResume, Waited, Changes, keyboard
  <2>3. Found'
    <3>1. FoundShell'
      BY <1>1, <1>3, <1>4, <1>5, <1>7
      DEF IInv, Jobs, Found, FoundShell, Stances, Stands, Finds, ToShell, Server,
         Waited, Changes
    <3>2. FoundFS'
      BY <1>1, <1>3, <1>4, <1>5, <1>7
      DEF IInv, Jobs, Found, FoundFS, Stances, Stands, Finds, IsRequest, IsResume,
         IsAnswer, Answers, Waited, Changes
    <3>3. FoundTTY'
      BY <1>1, <1>3, <1>4, <1>5, <1>7
      DEF IInv, Jobs, Found, FoundTTY, Stances, Stands, Finds, ToTTY, Waited, Changes
    <3>4. FoundHD'
      BY <1>1, <1>3, <1>4, <1>5, <1>7
      DEF IInv, Jobs, Found, FoundHD, Stances, Stands, Finds, Commands, IsCommand,
         keyboard, Waited, Changes
    <3>5. FoundSYS'
      BY <1>1, <1>3, <1>4, <1>5, <1>7
      DEF IInv, Jobs, Found, FoundSYS, Stances, Stands, Finds, ToSYS, IsRequest,
         Waited, Changes
    <3> QED
      BY <3>1, <3>2, <3>3, <3>4, <3>5 DEF Found
  <2>4. Jobs'
    BY <1>1, <1>3, <1>4, <1>5, <1>7
    DEF IInv, Jobs, Answers, IsRequest, ToSYS, OnDisk, OnTerminal, OnSectors, Waited,
       Changes
  <2>5. Served'
    <3>1. \A s \in {TTY, HD, SYS}, c \in Procs : Serving(s, c)' => Serving(s, c)
      BY <1>1, <1>3, <1>4, <1>5, <1>7 DEF Waited, Changes, Serving, Finds, OnSectors,
         K!IntMessage
    <3>2. \A c \in Procs, s \in Procs : (Calling(c, s)' <=> Calling(c, s)) /\ (c # HD => (Awaiting(c, s)' <=> Awaiting(c, s)))
      BY <1>1, <1>3, <1>4, <1>5, <1>7 DEF Changes, Calling, Awaiting, Waited
    <3>3. \A s \in Procs : ~Awaiting(HD, s)
      BY <1>1, <1>3, <1>4, <1>5, <1>7 DEF Awaiting, Calling, IInv, Stances, Stands
    <3>4. \A s \in {TTY, HD, SYS}, c \in Procs : Serving(s, c)' => Awaiting(c, s)'
      BY <3>1, <3>2, <3>3 DEF IInv, Served
    <3>5. \A c \in Procs : \A x \in Queue(c)' : IsReply(c, x)' => status'[c] = "ready" /\ Calling(c, x.source)'
      <4> SUFFICES ASSUME NEW c \in Procs, NEW x \in Queue(c)', IsReply(c, x)'
                   PROVE  status'[c] = "ready" /\ Calling(c, x.source)'
        OBVIOUS
      <4>1. x \in Queue(c) /\ x.source \in Procs
        BY <1>1, <1>3, <1>4, <1>5, <1>7, Senders DEF Waited
      <4>2. status[c] = "ready" /\ Calling(c, x.source)
        BY <4>1 DEF IInv, Served, IsReply
      <4> QED
        BY <1>1, <1>3, <1>4, <1>5, <1>7, <3>2, <4>1, <4>2 DEF Waited, Changes
    <3> QED
      BY <3>4, <3>5 DEF Served
  <2>6. AnsweredOnce' /\ ReaderKept'
    <3>1. /\ FSActive' <=> FSActive
          /\ TTYOwes' <=> TTYOwes
          /\ ResumeQueued' <=> ResumeQueued
          /\ ResumeFound' <=> ResumeFound
          /\ Suspending' <=> Suspending
      BY <1>1, <1>3, <1>4, <1>5, <1>7, RequestFrame DEF Waited, Changes, terminal, Finds
    <3>2. FSActive \/ TTYOwes \/ Resuming => Awaiting(Shell, FS)'
      BY <1>1, <1>3, <1>4, <1>5, <1>7 DEF IInv, AnsweredOnce, Awaiting, Calling,
         Waited, Changes
    <3> QED
      BY <1>1, <1>3, <1>4, <1>5, <1>7, <3>1, <3>2, AnsweredFrame DEF Waited, terminal
  <2>7. DiskInStep'
    BY <1>1, <1>3, <1>4, <1>5, <1>7 DEF IInv, DiskInStep, SectorOnItsWay,
       Interrupted, Finds, OnSectors, disk, Changes, Waited
  <2>8. KeysSeen'
    BY <1>1, <1>3, <1>4, <1>5, <1>7
    DEF IInv, KeysSeen, keyboard, Waited, Changes
  <2> QED
    BY <1>1, <1>3, <1>4, <1>5, <1>7, <2>1, <2>2, <2>3, <2>4, <2>5, <2>6, <2>7, <2>8
       DEF IInv
<1> QED
  BY <1>3, <1>6, <1>7

(* HD takes the time from SYS, or waits for it.  *)
LEMMA HDAskAwaitIInv == IInv /\ HDAskAwait => IInv'
<1> SUFFICES ASSUME IInv, HDAskAwait PROVE IInv'
  OBVIOUS
<1> USE ProcsDiffer
<1>1. /\ pc[HD] = "ask_await" /\ status[HD] = "ready" /\ Receive(HD, SYS, "ticks")
      /\ UNCHANGED <<job, transfers, disk, keyboard, terminal>>
  BY DEF HDAskAwait, At
<1>2. SYS \in Procs \union {ANY, INTERRUPT}
  BY DEF Server
<1>3. /\ KernelInv'
      /\ (\E m \in Queue(HD) : Took(HD, SYS, m)) \/ Waited(HD, SYS)
      /\ pc' = [pc EXCEPT ![HD] = "ticks"] /\ Changes(pc, pc', HD, "ticks")
  BY <1>1, <1>2, Received DEF IInv, KernelInv, PendingInformed, TookInterrupt,
     Informed, DiskInStep
<1>4. TypeOK'
  <2>1. LoopsTypeOK'
    BY <1>1, <1>3 DEF IInv, TypeOK, LoopsTypeOK, keyboard
  <2> QED
    BY <1>1, <2>1, TypesKept DEF IInv
<1>5. Points'
  BY <1>3 DEF IInv, Points, Changes
<1>6. ASSUME NEW m \in Queue(HD), Took(HD, SYS, m) PROVE IInv'
  <2>1. m.source \in Procs /\ m \in Mail /\ status[m.source] = "sending" /\ partner[m.source] = HD
    BY Senders
  <2>2. /\ \A x \in Looking : \A q \in Procs : q # HD => (Finds(q, x)' <=> Finds(q, x))
        /\ \A c \in Procs, s \in Procs : c # HD =>
                /\ Calling(c, s)' <=> Calling(c, s)
                /\ Awaiting(c, s) => Awaiting(c, s)'
        /\ \A c \in Procs : status[c] = "ready" => status'[c] = "ready"
        /\ \A x \in Queue(HD) : x.source = m.source => x = m
    BY <1>1, <1>3, <1>6, SenderFreed, OneMail
  <2>3. m.source = SYS /\ IsReply(HD, m)
    BY <1>6 DEF Took, IsReply
  <2>4. Calling(HD, SYS) /\ status[HD] = "ready" /\ \A x \in Queue(HD) : IsReply(HD, x) => x = m
    BY <1>1, <2>2, <2>3, Senders DEF IInv, Served, IsReply, Calling
  <2>5. pc[SYS] = "receive" /\ status[SYS] = "sending" /\ \A s \in {TTY, HD, SYS} : ~Serving(s, HD)
    <3>1. pc[SYS] = "receive" /\ status[SYS] = "sending"
        BY <2>1, <2>3 DEF IInv, Stances, Stands
      <3> QED
        BY <3>1 DEF IInv, Served, Serving, Finds, Awaiting, Calling
  <2>6. Stances'
    BY <1>1, <1>3, <1>4, <1>5, <1>6, <2>1, <2>2, <2>3, <2>4, <2>5
    DEF IInv, Stances, Stands, Took, Changes
  <2>7. Contents'
    BY <1>1, <1>3, <1>4, <1>5, <1>6, <2>1, <2>2, <2>3, <2>4, <2>5
    DEF IInv, Contents, Commands, ToShell, ToFS, ToTTY, ToSYS, IsCommand, IsRequest,
       IsAnswer, Answers, IsResume, Took, Changes, keyboard
  <2>8. Found'
    <3>1. FoundShell' /\ FoundFS' /\ FoundTTY' /\ FoundHD' /\ FoundSYS'
      <4>1. {"got", "answered", "tty_got"} \subseteq Looking
        BY DEF Looking
      <4>2. FoundShell'
        BY <1>1, <1>3, <1>4, <1>5, <1>6, <2>1, <2>2, <2>3, <2>4, <2>5, <4>1
        DEF IInv, Found, Took, Changes, FoundShell, ToShell
      <4>3. FoundFS'
        BY <1>1, <1>3, <1>4, <1>5, <1>6, <2>1, <2>2, <2>3, <2>4, <2>5, <4>1
        DEF IInv, Found, Took, Changes, FoundFS, IsRequest, IsResume, IsAnswer, Answers
      <4>4. FoundTTY'
        BY <1>1, <1>3, <1>4, <1>5, <1>6, <2>1, <2>2, <2>3, <2>4, <2>5, <4>1
        DEF IInv, Found, Took, Changes, FoundTTY, ToTTY
      <4>5. FoundHD'
        BY <1>1, <1>3, <1>4, <1>5, <1>6, <2>1, <2>2, <2>3, <2>4, <2>5, <4>1
        DEF IInv, Found, Took, Changes, FoundHD, Commands, IsCommand, keyboard, Finds
      <4>6. FoundSYS'
        BY <1>1, <1>3, <1>4, <1>5, <1>6, <2>1, <2>2, <2>3, <2>4, <2>5, <4>1
        DEF IInv, Found, Took, Changes, FoundSYS, ToSYS, IsRequest
      <4> QED
        BY <4>2, <4>3, <4>4, <4>5, <4>6
    <3> QED
      BY <3>1 DEF Found
  <2>9. Jobs'
    BY <1>1, <1>3, <1>4, <1>5, <1>6, <2>1, <2>2, <2>3, <2>4, <2>5
    DEF IInv, Jobs, Answers, IsRequest, ToSYS, OnDisk, OnTerminal, OnSectors, Took,
       Changes
  <2>10. Served'
    <3>1. \A s \in {TTY, HD, SYS}, c \in Procs : Serving(s, c)' => Awaiting(c, s)'
      <4>1. "got" \in Looking
        BY DEF Looking
      <4>2. \A s \in {TTY, HD, SYS} \ {HD}, c \in Procs : Serving(s, c)' => Serving(s, c)
        BY <1>1, <1>3, <1>4, <1>5, <1>6, <2>1, <2>2, <2>3, <2>4, <2>5, <4>1 DEF Took,
           Changes, Serving
      <4>3. \A c \in Procs : Serving(HD, c)' => Serving(HD, c)
        BY <1>1, <1>3, <1>4, <1>5, <1>6, <2>1, <2>2, <2>3, <2>4, <2>5 DEF Took,
           Changes, Serving, OnSectors, Finds
      <4> QED
        BY <1>1, <1>3, <1>4, <1>5, <1>6, <2>1, <2>2, <2>3, <2>4, <2>5, <4>2, <4>3
           DEF IInv, Served
    <3>2. \A c \in Procs : \A x \in Queue(c)' : IsReply(c, x)' => status'[c] = "ready" /\ Calling(c, x.source)'
      BY <1>1, <1>3, <1>4, <1>5, <1>6, <2>1, <2>2, <2>3, <2>4, <2>5, Senders
         DEF IInv, Served, IsReply, Took
    <3> QED
      BY <3>1, <3>2 DEF Served
  <2>11. AnsweredOnce' /\ ReaderKept'
    <3>1. {"got", "tty_got"} \subseteq Looking
      BY DEF Looking
    <3>2. /\ FSActive' <=> FSActive
          /\ TTYOwes' <=> TTYOwes
          /\ ResumeQueued' <=> ResumeQueued
          /\ ResumeFound' <=> ResumeFound
          /\ Suspending' <=> Suspending
      BY <1>1, <1>3, <1>4, <1>5, <1>6, <2>1, <2>2, <2>3, <2>4, <2>5, <3>1,
         RequestFrame DEF Took, Changes, terminal
    <3>3. FSActive \/ TTYOwes \/ Resuming => Awaiting(Shell, FS)'
      BY <1>1, <1>3, <1>4, <1>5, <1>6, <2>1, <2>2, <2>3, <2>4, <2>5 DEF IInv,
         AnsweredOnce
    <3>4. \A x \in Queue(Shell)' : x \in Queue(Shell) \/ x.source # FS
      BY <1>1, <1>3, <1>4, <1>5, <1>6, <2>1, <2>2, <2>3, <2>4, <2>5 DEF Took
    <3> QED
      BY <1>1, <1>3, <1>4, <1>5, <1>6, <2>1, <2>2, <2>3, <2>4, <2>5, <3>2, <3>3,
         <3>4, AnsweredFrame DEF terminal
  <2>12. DiskInStep'
    BY <1>1, <1>3, <1>4, <1>5, <1>6, <2>1, <2>2, <2>3, <2>4, <2>5 DEF IInv,
       DiskInStep, SectorOnItsWay, Interrupted, Finds, OnSectors, disk, Changes, Took
  <2>13. KeysSeen'
    BY <1>1, <1>3, <1>4, <1>5, <1>6, <2>1, <2>2, <2>3, <2>4, <2>5
    DEF IInv, KeysSeen, keyboard, Took, Changes
  <2> QED
    BY <1>1, <1>3, <1>4, <1>5, <1>6, <2>1, <2>2, <2>3, <2>4, <2>5, <2>6, <2>7, <2>8,
       <2>9, <2>10, <2>11, <2>12, <2>13 DEF IInv
<1>7. ASSUME Waited(HD, SYS) PROVE IInv'
  <2>1. Stances'
    BY <1>1, <1>3, <1>4, <1>5, <1>7
    DEF IInv, Stances, Stands, Waited, Changes
  <2>2. Contents'
    BY <1>1, <1>3, <1>4, <1>5, <1>7
    DEF IInv, Contents, Commands, ToShell, ToFS, ToTTY, ToSYS, IsCommand, IsRequest,
       IsAnswer, Answers, IsResume, Waited, Changes, keyboard
  <2>3. Found'
    <3>1. FoundShell'
      BY <1>1, <1>3, <1>4, <1>5, <1>7
      DEF IInv, Jobs, Found, FoundShell, Stances, Stands, Finds, ToShell, Server,
         Waited, Changes
    <3>2. FoundFS'
      BY <1>1, <1>3, <1>4, <1>5, <1>7
      DEF IInv, Jobs, Found, FoundFS, Stances, Stands, Finds, IsRequest, IsResume,
         IsAnswer, Answers, Waited, Changes
    <3>3. FoundTTY'
      BY <1>1, <1>3, <1>4, <1>5, <1>7
      DEF IInv, Jobs, Found, FoundTTY, Stances, Stands, Finds, ToTTY, Waited, Changes
    <3>4. FoundHD'
      BY <1>1, <1>3, <1>4, <1>5, <1>7
      DEF IInv, Jobs, Found, FoundHD, Stances, Stands, Finds, Commands, IsCommand,
         keyboard, Waited, Changes
    <3>5. FoundSYS'
      BY <1>1, <1>3, <1>4, <1>5, <1>7
      DEF IInv, Jobs, Found, FoundSYS, Stances, Stands, Finds, ToSYS, IsRequest,
         Waited, Changes
    <3> QED
      BY <3>1, <3>2, <3>3, <3>4, <3>5 DEF Found
  <2>4. Jobs'
    BY <1>1, <1>3, <1>4, <1>5, <1>7
    DEF IInv, Jobs, Answers, IsRequest, ToSYS, OnDisk, OnTerminal, OnSectors, Waited,
       Changes
  <2>5. Served'
    <3>1. \A s \in {TTY, HD, SYS}, c \in Procs : Serving(s, c)' => Serving(s, c)
      BY <1>1, <1>3, <1>4, <1>5, <1>7 DEF Waited, Changes, Serving, Finds, OnSectors
    <3>2. \A c \in Procs, s \in Procs : c # HD => (Calling(c, s)' <=> Calling(c, s)) /\ (Awaiting(c, s)' <=> Awaiting(c, s))
      BY <1>1, <1>3, <1>4, <1>5, <1>7 DEF Changes, Calling, Awaiting, Waited
    <3>3. \A s \in Procs : Awaiting(HD, s) => Awaiting(HD, s)'
      BY <1>1, <1>3, <1>4, <1>5, <1>7 DEF Waited, Changes, Awaiting, Calling
    <3>4. \A s \in {TTY, HD, SYS}, c \in Procs : Serving(s, c)' => Awaiting(c, s)'
      BY <3>1, <3>2, <3>3 DEF IInv, Served
    <3>5. \A c \in Procs : \A x \in Queue(c)' : IsReply(c, x)' => status'[c] = "ready" /\ Calling(c, x.source)'
      <4> SUFFICES ASSUME NEW c \in Procs, NEW x \in Queue(c)', IsReply(c, x)'
                   PROVE  status'[c] = "ready" /\ Calling(c, x.source)'
        OBVIOUS
      <4>1. x \in Queue(c) /\ x.source \in Procs /\ status[c] = "ready" /\ Calling(c, x.source)
        BY <1>1, <1>3, <1>4, <1>5, <1>7, Senders DEF Waited, IInv, Served, IsReply
      <4>2. c # HD
        BY <1>1, <1>3, <1>4, <1>5, <1>7, <4>1 DEF Waited, Calling
      <4> QED
        BY <1>1, <1>3, <1>4, <1>5, <1>7, <3>2, <4>1, <4>2 DEF Waited, Changes
    <3> QED
      BY <3>4, <3>5 DEF Served
  <2>6. AnsweredOnce' /\ ReaderKept'
    <3>1. /\ FSActive' <=> FSActive
          /\ TTYOwes' <=> TTYOwes
          /\ ResumeQueued' <=> ResumeQueued
          /\ ResumeFound' <=> ResumeFound
          /\ Suspending' <=> Suspending
      BY <1>1, <1>3, <1>4, <1>5, <1>7, RequestFrame DEF Waited, Changes, terminal, Finds
    <3>2. FSActive \/ TTYOwes \/ Resuming => Awaiting(Shell, FS)'
      BY <1>1, <1>3, <1>4, <1>5, <1>7 DEF IInv, AnsweredOnce, Awaiting, Calling,
         Waited, Changes
    <3> QED
      BY <1>1, <1>3, <1>4, <1>5, <1>7, <3>1, <3>2, AnsweredFrame DEF Waited, terminal
  <2>7. DiskInStep'
    BY <1>1, <1>3, <1>4, <1>5, <1>7 DEF IInv, DiskInStep, SectorOnItsWay,
       Interrupted, Finds, OnSectors, disk, Changes, Waited
  <2>8. KeysSeen'
    BY <1>1, <1>3, <1>4, <1>5, <1>7
    DEF IInv, KeysSeen, keyboard, Waited, Changes
  <2> QED
    BY <1>1, <1>3, <1>4, <1>5, <1>7, <2>1, <2>2, <2>3, <2>4, <2>5, <2>6, <2>7, <2>8
       DEF IInv
<1> QED
  BY <1>3, <1>6, <1>7

(* HD takes the interrupt of its sector, or waits for it.  *)
LEMMA HDWaitIInv == IInv /\ HDWait => IInv'
<1> SUFFICES ASSUME IInv, HDWait PROVE IInv'
  OBVIOUS
<1> USE ProcsDiffer
<1>1. /\ pc[HD] = "wait" /\ status[HD] = "ready" /\ Receive(HD, INTERRUPT, "interrupted")
      /\ UNCHANGED <<job, transfers, disk, keyboard, terminal>>
  BY DEF HDWait, At
<1>2. INTERRUPT \in Procs \union {ANY, INTERRUPT}
  BY DEF Server
<1>3. /\ KernelInv'
      /\ (\E m \in Queue(HD) : Took(HD, INTERRUPT, m)) \/ Waited(HD, INTERRUPT) \/ TookInterrupt(HD)
      /\ pc' = [pc EXCEPT ![HD] = "interrupted"] /\ Changes(pc, pc', HD, "interrupted")
  BY <1>1, <1>2, Received DEF IInv, KernelInv, PendingInformed, TookInterrupt,
     Informed, DiskInStep
<1>4. TypeOK'
  <2>1. LoopsTypeOK'
    BY <1>1, <1>3 DEF IInv, TypeOK, LoopsTypeOK, keyboard
  <2> QED
    BY <1>1, <2>1, TypesKept DEF IInv
<1>5. Points'
  BY <1>3 DEF IInv, Points, Changes
<1>6. ASSUME NEW m \in Queue(HD), Took(HD, INTERRUPT, m) PROVE FALSE
  BY <1>6, Senders DEF Took
<1>7. ASSUME Waited(HD, INTERRUPT) PROVE IInv'
  <2>1. ~pending[HD]
    BY <1>1, <1>7, ReceivedPending DEF Waited, TookInterrupt, Changes
  <2>2. Stances'
    BY <1>1, <1>3, <1>4, <1>5, <1>7, <2>1
    DEF IInv, Stances, Stands, Waited, Changes
  <2>3. Contents'
    BY <1>1, <1>3, <1>4, <1>5, <1>7, <2>1
    DEF IInv, Contents, Commands, ToShell, ToFS, ToTTY, ToSYS, IsCommand, IsRequest,
       IsAnswer, Answers, IsResume, Waited, Changes, keyboard
  <2>4. Found'
    <3>1. FoundShell'
      BY <1>1, <1>3, <1>4, <1>5, <1>7, <2>1
      DEF IInv, Jobs, Found, FoundShell, Stances, Stands, Finds, ToShell, Server,
         Waited, Changes
    <3>2. FoundFS'
      BY <1>1, <1>3, <1>4, <1>5, <1>7, <2>1
      DEF IInv, Jobs, Found, FoundFS, Stances, Stands, Finds, IsRequest, IsResume,
         IsAnswer, Answers, Waited, Changes
    <3>3. FoundTTY'
      BY <1>1, <1>3, <1>4, <1>5, <1>7, <2>1
      DEF IInv, Jobs, Found, FoundTTY, Stances, Stands, Finds, ToTTY, Waited, Changes
    <3>4. FoundHD'
      BY <1>1, <1>3, <1>4, <1>5, <1>7, <2>1
      DEF IInv, Jobs, Found, FoundHD, Stances, Stands, Finds, Commands, IsCommand,
         keyboard, Waited, Changes
    <3>5. FoundSYS'
      BY <1>1, <1>3, <1>4, <1>5, <1>7, <2>1
      DEF IInv, Jobs, Found, FoundSYS, Stances, Stands, Finds, ToSYS, IsRequest,
         Waited, Changes
    <3> QED
      BY <3>1, <3>2, <3>3, <3>4, <3>5 DEF Found
  <2>5. Jobs'
    BY <1>1, <1>3, <1>4, <1>5, <1>7, <2>1
    DEF IInv, Jobs, Answers, IsRequest, ToSYS, OnDisk, OnTerminal, OnSectors, Waited,
       Changes
  <2>6. Served'
    <3>1. \A s \in {TTY, HD, SYS}, c \in Procs : Serving(s, c)' => Serving(s, c)
      BY <1>1, <1>3, <1>4, <1>5, <1>7, <2>1 DEF Waited, Changes, Serving, Finds,
         OnSectors
    <3>2. \A c \in Procs, s \in Procs : c # HD => (Calling(c, s)' <=> Calling(c, s)) /\ (Awaiting(c, s)' <=> Awaiting(c, s))
      BY <1>1, <1>3, <1>4, <1>5, <1>7, <2>1 DEF Changes, Calling, Awaiting, Waited
    <3>3. \A s \in Procs : ~Awaiting(HD, s)
      BY <1>1, <1>3, <1>4, <1>5, <1>7, <2>1 DEF Awaiting, Calling
    <3>4. \A s \in {TTY, HD, SYS}, c \in Procs : Serving(s, c)' => Awaiting(c, s)'
      BY <3>1, <3>2, <3>3 DEF IInv, Served
    <3>5. \A c \in Procs : \A x \in Queue(c)' : IsReply(c, x)' => status'[c] = "ready" /\ Calling(c, x.source)'
      <4> SUFFICES ASSUME NEW c \in Procs, NEW x \in Queue(c)', IsReply(c, x)'
                   PROVE  status'[c] = "ready" /\ Calling(c, x.source)'
        OBVIOUS
      <4>1. x \in Queue(c) /\ x.source \in Procs /\ status[c] = "ready" /\ Calling(c, x.source)
        BY <1>1, <1>3, <1>4, <1>5, <1>7, <2>1, Senders DEF Waited, IInv, Served, IsReply
      <4>2. c # HD
        BY <1>1, <1>3, <1>4, <1>5, <1>7, <2>1, <4>1 DEF Waited, Calling
      <4> QED
        BY <1>1, <1>3, <1>4, <1>5, <1>7, <2>1, <3>2, <4>1, <4>2 DEF Waited, Changes
    <3> QED
      BY <3>4, <3>5 DEF Served
  <2>7. AnsweredOnce' /\ ReaderKept'
    <3>1. /\ FSActive' <=> FSActive
          /\ TTYOwes' <=> TTYOwes
          /\ ResumeQueued' <=> ResumeQueued
          /\ ResumeFound' <=> ResumeFound
          /\ Suspending' <=> Suspending
      BY <1>1, <1>3, <1>4, <1>5, <1>7, <2>1, RequestFrame DEF Waited, Changes,
         terminal, Finds
    <3>2. FSActive \/ TTYOwes \/ Resuming => Awaiting(Shell, FS)'
      BY <1>1, <1>3, <1>4, <1>5, <1>7, <2>1 DEF IInv, AnsweredOnce, Awaiting,
         Calling, Waited, Changes
    <3> QED
      BY <1>1, <1>3, <1>4, <1>5, <1>7, <2>1, <3>1, <3>2, AnsweredFrame DEF Waited,
         terminal
  <2>8. DiskInStep'
    BY <1>1, <1>3, <1>4, <1>5, <1>7, <2>1 DEF IInv, DiskInStep, SectorOnItsWay,
       Interrupted, Finds, OnSectors, disk, Changes, Waited
  <2>9. KeysSeen'
    BY <1>1, <1>3, <1>4, <1>5, <1>7, <2>1
    DEF IInv, KeysSeen, keyboard, Waited, Changes
  <2> QED
    BY <1>1, <1>3, <1>4, <1>5, <1>7, <2>1, <2>2, <2>3, <2>4, <2>5, <2>6, <2>7, <2>8,
       <2>9 DEF IInv
<1>8. ASSUME TookInterrupt(HD) PROVE IInv'
  <2>1. Stances'
    BY <1>1, <1>3, <1>4, <1>5, <1>8
    DEF IInv, Stances, Stands, TookInterrupt, Changes
  <2>2. Contents'
    BY <1>1, <1>3, <1>4, <1>5, <1>8
    DEF IInv, Contents, Commands, ToShell, ToFS, ToTTY, ToSYS, IsCommand, IsRequest,
       IsAnswer, Answers, IsResume, TookInterrupt, Changes, keyboard
  <2>3. Found'
    <3>1. FoundShell'
      BY <1>1, <1>3, <1>4, <1>5, <1>8
      DEF IInv, Jobs, Found, FoundShell, Stances, Stands, Finds, ToShell, Server,
         TookInterrupt, Changes
    <3>2. FoundFS'
      BY <1>1, <1>3, <1>4, <1>5, <1>8
      DEF IInv, Jobs, Found, FoundFS, Stances, Stands, Finds, IsRequest, IsResume,
         IsAnswer, Answers, TookInterrupt, Changes
    <3>3. FoundTTY'
      BY <1>1, <1>3, <1>4, <1>5, <1>8
      DEF IInv, Jobs, Found, FoundTTY, Stances, Stands, Finds, ToTTY, TookInterrupt,
         Changes, K!IntMessage
    <3>4. FoundHD'
      BY <1>1, <1>3, <1>4, <1>5, <1>8
      DEF IInv, Jobs, Found, FoundHD, Stances, Stands, Finds, Commands, IsCommand,
         keyboard, TookInterrupt, Changes
    <3>5. FoundSYS'
      BY <1>1, <1>3, <1>4, <1>5, <1>8
      DEF IInv, Jobs, Found, FoundSYS, Stances, Stands, Finds, ToSYS, IsRequest,
         TookInterrupt, Changes
    <3> QED
      BY <3>1, <3>2, <3>3, <3>4, <3>5 DEF Found
  <2>4. Jobs'
    BY <1>1, <1>3, <1>4, <1>5, <1>8
    DEF IInv, Jobs, Answers, IsRequest, ToSYS, OnDisk, OnTerminal, OnSectors,
       TookInterrupt, Changes
  <2>5. Served'
    <3>1. \A s \in {TTY, HD, SYS}, c \in Procs : Serving(s, c)' => Serving(s, c)
      BY <1>1, <1>3, <1>4, <1>5, <1>8 DEF TookInterrupt, Changes, Serving, Finds,
         OnSectors
    <3>2. \A c \in Procs, s \in Procs : c # HD => (Calling(c, s)' <=> Calling(c, s)) /\ (Awaiting(c, s)' <=> Awaiting(c, s))
      BY <1>1, <1>3, <1>4, <1>5, <1>8 DEF Changes, Calling, Awaiting, TookInterrupt
    <3>3. \A s \in Procs : ~Awaiting(HD, s)
      BY <1>1, <1>3, <1>4, <1>5, <1>8 DEF Awaiting, Calling
    <3>4. \A s \in {TTY, HD, SYS}, c \in Procs : Serving(s, c)' => Awaiting(c, s)'
      BY <3>1, <3>2, <3>3 DEF IInv, Served
    <3>5. \A c \in Procs : \A x \in Queue(c)' : IsReply(c, x)' => status'[c] = "ready" /\ Calling(c, x.source)'
      <4> SUFFICES ASSUME NEW c \in Procs, NEW x \in Queue(c)', IsReply(c, x)'
                   PROVE  status'[c] = "ready" /\ Calling(c, x.source)'
        OBVIOUS
      <4>1. x \in Queue(c) /\ x.source \in Procs /\ status[c] = "ready" /\ Calling(c, x.source)
        BY <1>1, <1>3, <1>4, <1>5, <1>8, Senders DEF TookInterrupt, IInv, Served,
           IsReply
      <4>2. c # HD
        BY <1>1, <1>3, <1>4, <1>5, <1>8, <4>1 DEF TookInterrupt, Calling
      <4> QED
        BY <1>1, <1>3, <1>4, <1>5, <1>8, <3>2, <4>1, <4>2 DEF TookInterrupt, Changes
    <3> QED
      BY <3>4, <3>5 DEF Served
  <2>6. AnsweredOnce' /\ ReaderKept'
    <3>1. /\ FSActive' <=> FSActive
          /\ TTYOwes' <=> TTYOwes
          /\ ResumeQueued' <=> ResumeQueued
          /\ ResumeFound' <=> ResumeFound
          /\ Suspending' <=> Suspending
      BY <1>1, <1>3, <1>4, <1>5, <1>8, RequestFrame DEF TookInterrupt, Changes,
         terminal, Finds
    <3>2. FSActive \/ TTYOwes \/ Resuming => Awaiting(Shell, FS)'
      BY <1>1, <1>3, <1>4, <1>5, <1>8 DEF IInv, AnsweredOnce, Awaiting, Calling,
         TookInterrupt, Changes
    <3> QED
      BY <1>1, <1>3, <1>4, <1>5, <1>8, <3>1, <3>2, AnsweredFrame DEF TookInterrupt,
         terminal
  <2>7. DiskInStep'
    BY <1>1, <1>3, <1>4, <1>5, <1>8 DEF IInv, DiskInStep, SectorOnItsWay,
       Interrupted, Finds, OnSectors, disk, Changes, TookInterrupt
  <2>8. KeysSeen'
    BY <1>1, <1>3, <1>4, <1>5, <1>8
    DEF IInv, KeysSeen, keyboard, TookInterrupt, Changes
  <2> QED
    BY <1>1, <1>3, <1>4, <1>5, <1>8, <2>1, <2>2, <2>3, <2>4, <2>5, <2>6, <2>7, <2>8
       DEF IInv
<1> QED
  BY <1>3, <1>6, <1>7, <1>8

(* HD asks SYS, which does nothing for HD yet.  *)
LEMMA HDAskIInv == IInv /\ HDAsk => IInv'
<1> SUFFICES ASSUME IInv, HDAsk PROVE IInv'
  OBVIOUS
<1> USE ProcsDiffer
<1> DEFINE m == Msg("GET_TICKS", "file", NO_TASK, 0)
<1>1. /\ pc[HD] = "ask" /\ status[HD] = "ready"
      /\ UNCHANGED <<job, transfers, disk, keyboard, terminal>>
      /\ Send(HD, SYS, m, "ask_await")
  BY DEF HDAsk, At
<1>2. m \in Body /\ m.op = "GET_TICKS"
  BY ServicesAssumption DEF Msg, Body, MaxSectors
<1> HIDE DEF m
<1>3. /\ KernelInv' /\ (Blocked(HD, SYS, m) \/ Passed(HD, SYS, m))
      /\ pc' = [pc EXCEPT ![HD] = "ask_await"] /\ Changes(pc, pc', HD, "ask_await")
      /\ Letter(HD, m) \in Mail
  BY <1>1, <1>2, Sent
<1>4. \A c \in Procs : \A x \in Queue(c) : x.source # HD
  BY <1>1, Senders
<1>5. Letter(HD, m).source = HD
  BY DEF Letter
<1>6. \A s \in Procs : ~Awaiting(HD, s) /\ ~Calling(HD, s)
  BY <1>1 DEF Awaiting, Calling
<1>7. TypeOK'
  <2>1. LoopsTypeOK'
    BY <1>1, <1>2, <1>3, <1>4, <1>5, <1>6, NoJobType DEF IInv, TypeOK, LoopsTypeOK,
       Mail, keyboard
  <2> QED
    BY <1>1, <1>2, <1>3, <1>4, <1>5, <1>6, <2>1, TypesKept DEF IInv
<1>8. Points'
  BY <1>1, <1>2, <1>3, <1>4, <1>5, <1>6
  DEF IInv, Points, Changes
<1>9. Stances'
  BY <1>1, <1>2, <1>3, <1>4, <1>5, <1>6
  DEF IInv, Stances, Stands, Letter, Blocked, Passed, Changes
<1>10. Contents'
  BY <1>1, <1>2, <1>3, <1>4, <1>5, <1>6
  DEF IInv, Contents, Commands, ToShell, ToFS, ToTTY, ToSYS, IsCommand, IsRequest,
     IsAnswer, Answers, IsResume, Letter, Blocked, Passed, Changes, keyboard
<1>11. Found'
  <2>1. FoundShell'
    BY <1>1, <1>2, <1>3, <1>4, <1>5, <1>6
    DEF IInv, Jobs, Found, FoundShell, Stances, Stands, Finds, ToShell, Server,
       Letter, Blocked, Passed, Changes
  <2>2. FoundFS'
    BY <1>1, <1>2, <1>3, <1>4, <1>5, <1>6
    DEF IInv, Jobs, Found, FoundFS, Stances, Stands, Finds, IsRequest, IsResume,
       IsAnswer, Answers, Letter, Blocked, Passed, Changes
  <2>3. FoundTTY'
    BY <1>1, <1>2, <1>3, <1>4, <1>5, <1>6
    DEF IInv, Jobs, Found, FoundTTY, Stances, Stands, Finds, ToTTY, Letter, Blocked,
       Passed, Changes, K!IntMessage
  <2>4. FoundHD'
    BY <1>1, <1>2, <1>3, <1>4, <1>5, <1>6
    DEF IInv, Jobs, Found, FoundHD, Stances, Stands, Finds, Commands, IsCommand,
       keyboard, Letter, Blocked, Passed, Changes
  <2>5. FoundSYS'
    BY <1>1, <1>2, <1>3, <1>4, <1>5, <1>6
    DEF IInv, Jobs, Found, FoundSYS, Stances, Stands, Finds, ToSYS, IsRequest,
       Letter, Blocked, Passed, Changes
  <2> QED
    BY <2>1, <2>2, <2>3, <2>4, <2>5 DEF Found
<1>12. Jobs'
  BY <1>1, <1>2, <1>3, <1>4, <1>5, <1>6
  DEF IInv, Jobs, Answers, IsRequest, ToSYS, OnDisk, OnTerminal, OnSectors, Letter,
     Blocked, Passed, Changes
<1>13. Served'
  <2>1. \A s \in {TTY, HD, SYS}, c \in Procs : Serving(s, c)' => Serving(s, c) \/ (s = SYS /\ c = HD /\ Passed(HD, SYS, m))
    BY <1>1, <1>2, <1>3, <1>4, <1>5, <1>6 DEF Blocked, Passed, Changes, Serving,
       Finds, OnSectors
  <2>2. \A c \in Procs, s \in Procs : c # HD => (Calling(c, s)' <=> Calling(c, s))
    BY <1>1, <1>2, <1>3, <1>4, <1>5, <1>6 DEF Changes, Calling
  <2>3. \A c \in Procs, s \in Procs : c # HD /\ Awaiting(c, s) => Awaiting(c, s)' \/ c = SYS
    BY <1>1, <1>2, <1>3, <1>4, <1>5, <1>6, <2>2 DEF Changes, Awaiting, Blocked, Passed
  <2>4. Passed(HD, SYS, m) => Awaiting(HD, SYS)'
    BY <1>1, <1>2, <1>3, <1>4, <1>5, <1>6 DEF Changes, Awaiting, Calling, Passed
  <2>5. \A s \in {TTY, HD, SYS}, c \in Procs : Serving(s, c)' => Awaiting(c, s)'
    BY <1>1, <1>2, <1>3, <1>4, <1>5, <1>6, <2>1, <2>3, <2>4 DEF IInv, Served,
       Serving, Awaiting, Calling, Stances, Stands
  <2>6. \A c \in Procs : \A x \in Queue(c)' : IsReply(c, x)' => status'[c] = "ready" /\ Calling(c, x.source)'
    <3> SUFFICES ASSUME NEW c \in Procs, NEW x \in Queue(c)', IsReply(c, x)'
                 PROVE  status'[c] = "ready" /\ Calling(c, x.source)'
      OBVIOUS
    <3>1. x \in Queue(c)
      BY <1>1, <1>2, <1>3, <1>4, <1>5, <1>6 DEF Blocked, Passed, IsReply
    <3>2. status[c] = "ready" /\ Calling(c, x.source) /\ x.source \in Procs
      BY <3>1, Senders DEF IInv, Served, IsReply
    <3>3. c # HD
      BY <1>1, <1>2, <1>3, <1>4, <1>5, <1>6, <3>2
    <3> QED
      BY <1>1, <1>2, <1>3, <1>4, <1>5, <1>6, <2>2, <3>2, <3>3 DEF Blocked, Passed,
         Changes
  <2> QED
    BY <2>5, <2>6 DEF Served
<1>14. AnsweredOnce' /\ ReaderKept'
  <2>1. /\ FSActive' <=> FSActive
        /\ TTYOwes' <=> TTYOwes
        /\ ResumeQueued' <=> ResumeQueued
        /\ ResumeFound' <=> ResumeFound
        /\ Suspending' <=> Suspending
    BY <1>1, <1>2, <1>3, <1>4, <1>5, <1>6, RequestFrame DEF Blocked, Passed, Changes,
       terminal, Finds
  <2>2. FSActive \/ TTYOwes \/ Resuming => Awaiting(Shell, FS)'
    BY <1>1, <1>2, <1>3, <1>4, <1>5, <1>6 DEF IInv, AnsweredOnce, Awaiting, Calling,
       Blocked, Passed, Changes
  <2> QED
    BY <1>1, <1>2, <1>3, <1>4, <1>5, <1>6, <2>1, <2>2, AnsweredFrame DEF Blocked,
       Passed, terminal
<1>15. DiskInStep'
  BY <1>1, <1>2, <1>3, <1>4, <1>5, <1>6 DEF IInv, DiskInStep, SectorOnItsWay,
     Interrupted, Finds, OnSectors, disk, Changes, Blocked, Passed
<1>16. KeysSeen'
  BY <1>1, <1>2, <1>3, <1>4, <1>5, <1>6
  DEF IInv, KeysSeen, keyboard, Letter, Blocked, Passed, Changes
<1> QED
  BY <1>1, <1>2, <1>3, <1>4, <1>5, <1>6, <1>7, <1>8, <1>9, <1>10, <1>11, <1>12,
     <1>13, <1>14, <1>15, <1>16 DEF IInv

(* HD answers FS, which awaits it; the disk is idle.  *)
LEMMA HDReplyIInv == IInv /\ HDReply => IInv'
<1> SUFFICES ASSUME IInv, HDReply PROVE IInv'
  OBVIOUS
<1> USE ProcsDiffer
<1> DEFINE m == job[HD].type
<1>1. /\ pc[HD] = "reply" /\ status[HD] = "ready"
      /\ job' = [job EXCEPT ![HD] = NoJob] /\ Changes(job, job', HD, NoJob)
      /\ UNCHANGED <<transfers, disk, keyboard, terminal>>
      /\ Send(HD, job[HD].source, m, "receive")
  BY DEF HDReply, At, IInv, TypeOK, LoopsTypeOK, Changes
<1>2. job[HD].source = FS /\ m.op \in Commands /\ m \in Body
  BY <1>1 DEF IInv, Jobs, TypeOK, LoopsTypeOK
<1> HIDE DEF m
<1>3. /\ KernelInv' /\ (Blocked(HD, FS, m) \/ Passed(HD, FS, m))
      /\ pc' = [pc EXCEPT ![HD] = "receive"] /\ Changes(pc, pc', HD, "receive")
      /\ Letter(HD, m) \in Mail
  BY <1>1, <1>2, Sent
<1>4. \A c \in Procs : \A x \in Queue(c) : x.source # HD
  BY <1>1, Senders
<1>5. /\ Awaiting(FS, HD) /\ pc[FS] \in {"hd_await", "hd_got"} /\ ~Finds(FS, "tty_got") /\ ~Finds(FS, "got")
      /\ pc[FS] = "hd_await" => status[FS] = "ready" /\ Calling(FS, HD)
      /\ pc[FS] = "hd_got" => status[FS] = "receiving" /\ partner[FS] = HD
  <2>1. Awaiting(FS, HD)
      BY <1>1 DEF IInv, Served, Serving
    <2> QED
      BY <2>1 DEF Awaiting, Calling, IInv, Stances, Stands, Finds
<1>6. Letter(HD, m).source = HD /\ Letter(HD, m).type = m
  BY DEF Letter
<1>7. /\ Blocked(HD, FS, m) => pc[FS] = "hd_await"
      /\ Passed(HD, FS, m) => pc[FS] = "hd_got"
  BY <1>5 DEF Blocked, Passed
<1>8. TypeOK'
  <2>1. LoopsTypeOK'
    BY <1>1, <1>2, <1>3, <1>4, <1>5, <1>6, <1>7, NoJobType DEF IInv, TypeOK,
       LoopsTypeOK, Mail, keyboard
  <2> QED
    BY <1>1, <1>2, <1>3, <1>4, <1>5, <1>6, <1>7, <2>1, TypesKept DEF IInv
<1>9. Points'
  BY <1>1, <1>2, <1>3, <1>4, <1>5, <1>6, <1>7
  DEF IInv, Points, Changes
<1>10. Stances'
  BY <1>1, <1>2, <1>3, <1>4, <1>5, <1>6, <1>7
  DEF IInv, Stances, Stands, Letter, Blocked, Passed, Changes
<1>11. Contents'
  BY <1>1, <1>2, <1>3, <1>4, <1>5, <1>6, <1>7
  DEF IInv, Contents, Commands, ToShell, ToFS, ToTTY, ToSYS, IsCommand, IsRequest,
     IsAnswer, Answers, IsResume, Letter, Blocked, Passed, Changes, keyboard
<1>12. Found'
  <2>1. FoundShell'
    BY <1>1, <1>2, <1>3, <1>4, <1>5, <1>6, <1>7
    DEF IInv, Jobs, Found, FoundShell, Stances, Stands, Finds, ToShell, Server,
       Letter, Blocked, Passed, Changes
  <2>2. FoundFS'
    BY <1>1, <1>2, <1>3, <1>4, <1>5, <1>6, <1>7
    DEF IInv, Jobs, Found, FoundFS, Stances, Stands, Finds, IsRequest, IsResume,
       IsAnswer, Answers, Letter, Blocked, Passed, Changes
  <2>3. FoundTTY'
    BY <1>1, <1>2, <1>3, <1>4, <1>5, <1>6, <1>7
    DEF IInv, Jobs, Found, FoundTTY, Stances, Stands, Finds, ToTTY, Letter, Blocked,
       Passed, Changes, K!IntMessage
  <2>4. FoundHD'
    BY <1>1, <1>2, <1>3, <1>4, <1>5, <1>6, <1>7
    DEF IInv, Jobs, Found, FoundHD, Stances, Stands, Finds, Commands, IsCommand,
       keyboard, Letter, Blocked, Passed, Changes
  <2>5. FoundSYS'
    BY <1>1, <1>2, <1>3, <1>4, <1>5, <1>6, <1>7
    DEF IInv, Jobs, Found, FoundSYS, Stances, Stands, Finds, ToSYS, IsRequest,
       Letter, Blocked, Passed, Changes
  <2> QED
    BY <2>1, <2>2, <2>3, <2>4, <2>5 DEF Found
<1>13. Jobs'
  BY <1>1, <1>2, <1>3, <1>4, <1>5, <1>6, <1>7
  DEF IInv, Jobs, Answers, IsRequest, ToSYS, OnDisk, OnTerminal, OnSectors, Letter,
     Blocked, Passed, Changes
<1>14. Served'
  BY <1>1, <1>2, <1>3, <1>4, <1>5, <1>6, <1>7
  DEF IInv, Served, Serving, Awaiting, Calling, Finds, IsReply, Stances, Stands,
     OnSectors, Letter, Blocked, Passed, Changes
<1>15. AnsweredOnce' /\ ReaderKept'
  <2>1. TTYOwes' <=> TTYOwes
    BY <1>1, <1>2, <1>3, <1>4, <1>5, <1>6, <1>7 DEF TTYOwes, Changes, terminal
  <2>2. /\ job'[FS] = job[FS] /\ job'[Shell] = job[Shell] /\ job'[TTY] = job[TTY]
        /\ Queue(Shell)' = Queue(Shell) /\ reader' = reader
        /\ pc'[FS] = pc[FS] /\ pc'[TTY] = pc[TTY]
    BY <1>1, <1>2, <1>3, <1>4, <1>5, <1>6, <1>7 DEF Blocked, Passed, Changes, terminal
  <2>3. Awaiting(Shell, FS)' <=> Awaiting(Shell, FS)
    BY <1>1, <1>2, <1>3, <1>4, <1>5, <1>6, <1>7, <2>2 DEF Awaiting, Calling, Blocked,
       Passed, Changes
  <2>4. /\ ~Finds(FS, "got") /\ ~Finds(FS, "got")'
        /\ ~Finds(FS, "tty_got") /\ ~Finds(FS, "tty_got")'
    BY <1>5, <2>2 DEF Finds
  <2>5. /\ \A x \in Queue(FS)' : x \in Queue(FS) \/ x.type = m
        /\ \A x \in Queue(FS) : x \in Queue(FS)'
    BY <1>3, <1>6 DEF Blocked, Passed
  <2>6. m.op \notin {"RESUME_PROC", "SUSPEND_PROC"}
    BY <1>2 DEF Commands
  <2>7. /\ ResumeQueued' <=> ResumeQueued
        /\ ResumeFound' <=> ResumeFound
    BY <2>4, <2>5, <2>6 DEF ResumeQueued, ResumeFound
  <2>8. Suspending' <=> Suspending
    BY <2>2, <2>4, <2>5, <2>6 DEF Suspending
  <2>9. FSActive' <=> FSActive
    BY <2>2, <2>4, <2>8 DEF FSActive
  <2>10. FSActive \/ TTYOwes \/ Resuming => Awaiting(Shell, FS)'
    BY <2>3 DEF IInv, AnsweredOnce
  <2> QED
    BY <2>1, <2>2, <2>7, <2>8, <2>9, <2>10, AnsweredFrame
<1>16. DiskInStep'
  BY <1>1, <1>2, <1>3, <1>4, <1>5, <1>6, <1>7 DEF IInv, DiskInStep, SectorOnItsWay,
     Interrupted, Finds, OnSectors, disk, Changes, Blocked, Passed
<1>17. KeysSeen'
  BY <1>1, <1>2, <1>3, <1>4, <1>5, <1>6, <1>7
  DEF IInv, KeysSeen, keyboard, Letter, Blocked, Passed, Changes
<1> QED
  BY <1>1, <1>2, <1>3, <1>4, <1>5, <1>6, <1>7, <1>8, <1>9, <1>10, <1>11, <1>12,
     <1>13, <1>14, <1>15, <1>16, <1>17 DEF IInv

(* The clock tells TTY of a key.  *)
LEMMA ClockTickIInv == IInv /\ ClockTick => IInv'
<1> SUFFICES ASSUME IInv, ClockTick PROVE IInv'
  OBVIOUS
<1> USE ProcsDiffer
<1>1. /\ key_pressed /\ K!Interrupt(TTY)
      /\ UNCHANGED <<pc, job, transfers, disk, keyboard, terminal>>
  BY DEF ClockTick
<1>2. KernelInv' /\ (Woke(TTY) \/ Remembered(TTY))
  BY <1>1, Interrupts DEF Informed, IInv, Changes
<1>3. TypeOK'
  <2>1. LoopsTypeOK'
    BY <1>1, <1>2, NoJobType DEF IInv, TypeOK, LoopsTypeOK, Mail, keyboard
  <2> QED
    BY <1>1, <1>2, <2>1, TypesKept DEF IInv
<1>4. Points'
  BY <1>1, <1>2
  DEF IInv, Points, Changes
<1>5. Stances'
  BY <1>1, <1>2
  DEF IInv, Stances, Stands, Woke, Remembered, Changes
<1>6. Contents'
  BY <1>1, <1>2
  DEF IInv, Contents, Commands, ToShell, ToFS, ToTTY, ToSYS, IsCommand, IsRequest,
     IsAnswer, Answers, IsResume, Woke, Remembered, Changes, keyboard
<1>7. Found'
  <2>1. FoundShell'
    BY <1>1, <1>2
    DEF IInv, Jobs, Found, FoundShell, Stances, Stands, Finds, ToShell, Server, Woke,
       Remembered, Changes
  <2>2. FoundFS'
    BY <1>1, <1>2
    DEF IInv, Jobs, Found, FoundFS, Stances, Stands, Finds, IsRequest, IsResume,
       IsAnswer, Answers, Woke, Remembered, Changes
  <2>3. FoundTTY'
    BY <1>1, <1>2
    DEF IInv, Jobs, Found, FoundTTY, Stances, Stands, Finds, ToTTY, Woke, Remembered,
       Changes, K!IntMessage
  <2>4. FoundHD'
    BY <1>1, <1>2
    DEF IInv, Jobs, Found, FoundHD, Stances, Stands, Finds, Commands, IsCommand,
       keyboard, Woke, Remembered, Changes, K!IntMessage, keyboard
  <2>5. FoundSYS'
    BY <1>1, <1>2
    DEF IInv, Jobs, Found, FoundSYS, Stances, Stands, Finds, ToSYS, IsRequest, Woke,
       Remembered, Changes
  <2> QED
    BY <2>1, <2>2, <2>3, <2>4, <2>5 DEF Found
<1>8. Jobs'
  BY <1>1, <1>2
  DEF IInv, Jobs, Answers, IsRequest, ToSYS, OnDisk, OnTerminal, OnSectors, Woke,
     Remembered, Changes
<1>9. Served'
  <2>1. \A s \in {TTY, HD, SYS}, c \in Procs : Serving(s, c)' => Serving(s, c)
    BY <1>1, <1>2 DEF Woke, Remembered, Changes, Serving, Finds, K!IntMessage, OnSectors
  <2>2. \A c \in Procs, s \in Procs : Calling(c, s)' <=> Calling(c, s)
    BY <1>1, <1>2 DEF Calling
  <2>3. \A c \in Procs, s \in Procs : Awaiting(c, s) => Awaiting(c, s)'
    BY <1>1, <1>2, <2>2 DEF Awaiting, Woke, Remembered, Changes
  <2>4. \A s \in {TTY, HD, SYS}, c \in Procs : Serving(s, c)' => Awaiting(c, s)'
    BY <2>1, <2>3 DEF IInv, Served
  <2>5. \A c \in Procs : \A x \in Queue(c)' : IsReply(c, x)' => status'[c] = "ready" /\ Calling(c, x.source)'
    <3> SUFFICES ASSUME NEW c \in Procs, NEW x \in Queue(c)', IsReply(c, x)'
                 PROVE  status'[c] = "ready" /\ Calling(c, x.source)'
      OBVIOUS
    <3>1. x \in Queue(c) /\ x.source \in Procs /\ status[c] = "ready" /\ Calling(c, x.source)
      <4>1. x \in Queue(c)
        BY <1>2 DEF Woke, Remembered
      <4>2. IsReply(c, x)
        BY DEF IsReply
      <4> QED
        BY <4>1, <4>2, Senders DEF IInv, Served
    <3> QED
      BY <1>1, <1>2, <2>2, <3>1 DEF Woke, Remembered, Changes
  <2> QED
    BY <2>4, <2>5 DEF Served
<1>10. AnsweredOnce' /\ ReaderKept'
  <2>1. /\ FSActive' <=> FSActive
        /\ TTYOwes' <=> TTYOwes
        /\ ResumeQueued' <=> ResumeQueued
        /\ ResumeFound' <=> ResumeFound
        /\ Suspending' <=> Suspending
    BY <1>1, <1>2, RequestFrame DEF Woke, Remembered, Changes, terminal, Finds
  <2>2. FSActive \/ TTYOwes \/ Resuming => Awaiting(Shell, FS)'
    BY <1>1, <1>2 DEF IInv, AnsweredOnce, Awaiting, Calling, Woke, Remembered, Changes
  <2> QED
    BY <1>1, <1>2, <2>1, <2>2, AnsweredFrame DEF Woke, Remembered, terminal
<1>11. DiskInStep'
  BY <1>1, <1>2, DiskFrame DEF Woke, Remembered, Changes
<1>12. KeysSeen'
  BY <1>1, <1>2
  DEF IInv, KeysSeen, keyboard, Woke, Remembered, Changes
<1> QED
  BY <1>1, <1>2, <1>3, <1>4, <1>5, <1>6, <1>7, <1>8, <1>9, <1>10, <1>11, <1>12 DEF IInv

(* The interrupt of a sector that was read finds HD waiting, or stays      *)
(* pending.                                                                *)
LEMMA DiskFetchedIInv == IInv /\ DiskFetched => IInv'
<1> SUFFICES ASSUME IInv, DiskFetched PROVE IInv'
  OBVIOUS
<1> USE ProcsDiffer
<1>1. /\ device = "fetch" /\ device' = "data" /\ K!Interrupt(HD)
      /\ UNCHANGED <<pc, job, transfers, sectors, announced, waitfor, keyboard, terminal>>
  BY DEF DiskFetched
<1>2. KernelInv' /\ (Woke(HD) \/ Remembered(HD))
  BY <1>1, Interrupts DEF Informed, IInv, Changes
<1>3. /\ pc[HD] \in {"wait", "interrupted"} /\ SectorOnItsWay /\ ~Interrupted /\ sectors >= 1
      /\ job[HD].type.op \in Commands /\ job[HD].source = FS
      /\ device = "store" <=> job[HD].type.op = "DEV_WRITE"
  BY <1>1, DiskBusy
<1>4. /\ pc[HD] = "wait" => ~(status[HD] = "receiving" /\ partner[HD] \in {ANY, INTERRUPT})
      /\ pc[HD] = "interrupted" => status[HD] = "receiving" /\ partner[HD] = INTERRUPT
  BY <1>1, <1>3 DEF IInv, KernelInv, KernelTypeOK, Stances, Stands, Interrupted, Finds
<1>5. /\ pc[HD] = "wait" => Remembered(HD)
      /\ pc[HD] = "interrupted" => Woke(HD)
  BY <1>2, <1>4 DEF Woke, Remembered
<1>6. sectors \in 0..load.sectors /\ announced \in 0..load.sectors /\ load.sectors \in Nat
  BY LoadFields DEF IInv, TypeOK, DiskTypeOK
<1>7. TypeOK'
  <2>1. LoopsTypeOK' /\ KeysTypeOK' /\ TerminalTypeOK' /\ load' = load
    BY <1>1, <1>2, <1>3, <1>4, <1>5, <1>6 DEF IInv, TypeOK, LoopsTypeOK, KeysTypeOK,
       TerminalTypeOK, keyboard, terminal
  <2>2. sectors' \in 0..load.sectors /\ announced' \in 0..load.sectors /\ device' \in {"idle", "fetch", "data", "prepare", "drq", "store"}
    BY <1>1, <1>2, <1>3, <1>4, <1>5, <1>6, LoadFields DEF IInv, TypeOK, DiskTypeOK
  <2>3. DiskTypeOK'
    BY <1>1, <1>2, <1>3, <1>4, <1>5, <1>6, <2>1, <2>2 DEF IInv, TypeOK, DiskTypeOK
  <2> QED
    BY <2>1, <2>3 DEF TypeOK
<1>8. Points'
  BY <1>1, <1>2, <1>3, <1>4, <1>5, <1>6
  DEF IInv, Points, Changes
<1>9. Stances'
  BY <1>1, <1>2, <1>3, <1>4, <1>5, <1>6
  DEF IInv, Stances, Stands, Woke, Remembered, Changes
<1>10. Contents'
  BY <1>1, <1>2, <1>3, <1>4, <1>5, <1>6
  DEF IInv, Contents, Commands, ToShell, ToFS, ToTTY, ToSYS, IsCommand, IsRequest,
     IsAnswer, Answers, IsResume, Woke, Remembered, Changes, keyboard
<1>11. Found'
  <2>1. FoundShell'
    BY <1>1, <1>2, <1>3, <1>4, <1>5, <1>6
    DEF IInv, Jobs, Found, FoundShell, Stances, Stands, Finds, ToShell, Server, Woke,
       Remembered, Changes
  <2>2. FoundFS'
    BY <1>1, <1>2, <1>3, <1>4, <1>5, <1>6
    DEF IInv, Jobs, Found, FoundFS, Stances, Stands, Finds, IsRequest, IsResume,
       IsAnswer, Answers, Woke, Remembered, Changes
  <2>3. FoundTTY'
    BY <1>1, <1>2, <1>3, <1>4, <1>5, <1>6
    DEF IInv, Jobs, Found, FoundTTY, Stances, Stands, Finds, ToTTY, Woke, Remembered,
       Changes, K!IntMessage
  <2>4. FoundHD'
    BY <1>1, <1>2, <1>3, <1>4, <1>5, <1>6
    DEF IInv, Jobs, Found, FoundHD, Stances, Stands, Finds, Commands, IsCommand,
       keyboard, Woke, Remembered, Changes, K!IntMessage, keyboard
  <2>5. FoundSYS'
    BY <1>1, <1>2, <1>3, <1>4, <1>5, <1>6
    DEF IInv, Jobs, Found, FoundSYS, Stances, Stands, Finds, ToSYS, IsRequest, Woke,
       Remembered, Changes
  <2> QED
    BY <2>1, <2>2, <2>3, <2>4, <2>5 DEF Found
<1>12. Jobs'
  BY <1>1, <1>2, <1>3, <1>4, <1>5, <1>6
  DEF IInv, Jobs, Answers, IsRequest, ToSYS, OnDisk, OnTerminal, OnSectors, Woke,
     Remembered, Changes
<1>13. Served'
  <2>1. \A s \in {TTY, HD, SYS}, c \in Procs : Serving(s, c)' => Serving(s, c)
    BY <1>1, <1>2, <1>3, <1>4, <1>5, <1>6 DEF Woke, Remembered, Changes, Serving,
       Finds, K!IntMessage, OnSectors
  <2>2. \A c \in Procs, s \in Procs : Calling(c, s)' <=> Calling(c, s)
    BY <1>1, <1>2, <1>3, <1>4, <1>5, <1>6 DEF Calling
  <2>3. \A c \in Procs, s \in Procs : Awaiting(c, s) => Awaiting(c, s)'
    BY <1>1, <1>2, <1>3, <1>4, <1>5, <1>6, <2>2 DEF Awaiting, Woke, Remembered, Changes
  <2>4. \A s \in {TTY, HD, SYS}, c \in Procs : Serving(s, c)' => Awaiting(c, s)'
    BY <2>1, <2>3 DEF IInv, Served
  <2>5. \A c \in Procs : \A x \in Queue(c)' : IsReply(c, x)' => status'[c] = "ready" /\ Calling(c, x.source)'
    <3> SUFFICES ASSUME NEW c \in Procs, NEW x \in Queue(c)', IsReply(c, x)'
                 PROVE  status'[c] = "ready" /\ Calling(c, x.source)'
      OBVIOUS
    <3>1. x \in Queue(c) /\ x.source \in Procs /\ status[c] = "ready" /\ Calling(c, x.source)
      <4>1. x \in Queue(c)
        BY <1>2 DEF Woke, Remembered
      <4>2. IsReply(c, x)
        BY DEF IsReply
      <4> QED
        BY <4>1, <4>2, Senders DEF IInv, Served
    <3> QED
      BY <1>1, <1>2, <1>3, <1>4, <1>5, <1>6, <2>2, <3>1 DEF Woke, Remembered, Changes
  <2> QED
    BY <2>4, <2>5 DEF Served
<1>14. AnsweredOnce' /\ ReaderKept'
  <2>1. /\ FSActive' <=> FSActive
        /\ TTYOwes' <=> TTYOwes
        /\ ResumeQueued' <=> ResumeQueued
        /\ ResumeFound' <=> ResumeFound
        /\ Suspending' <=> Suspending
    BY <1>1, <1>2, <1>3, <1>4, <1>5, <1>6, RequestFrame DEF Woke, Remembered,
       Changes, terminal, Finds
  <2>2. FSActive \/ TTYOwes \/ Resuming => Awaiting(Shell, FS)'
    BY <1>1, <1>2, <1>3, <1>4, <1>5, <1>6 DEF IInv, AnsweredOnce, Awaiting, Calling,
       Woke, Remembered, Changes
  <2> QED
    BY <1>1, <1>2, <1>3, <1>4, <1>5, <1>6, <2>1, <2>2, AnsweredFrame DEF Woke,
       Remembered, terminal
<1>15. DiskInStep'
  <2>1. Interrupted'
    BY <1>1, <1>2, <1>3, <1>4, <1>5, <1>6 DEF Woke, Remembered, Changes, Interrupted,
       Finds
  <2>2. SectorOnItsWay'
    BY <1>1, <1>2, <1>3, <1>4, <1>5, <1>6, <2>1 DEF SectorOnItsWay, Commands
  <2>3. pending'[HD] => pc[HD] = "wait"
    BY <1>1, <1>2, <1>3, <1>4, <1>5, <1>6 DEF Woke, Remembered, Changes, Interrupted,
       Finds
  <2> QED
    BY <1>1, <1>2, <1>3, <1>4, <1>5, <1>6, <2>2, <2>3 DEF DiskInStep, OnSectors
<1>16. KeysSeen'
  BY <1>1, <1>2, <1>3, <1>4, <1>5, <1>6
  DEF IInv, KeysSeen, keyboard, Woke, Remembered, Changes
<1> QED
  BY <1>1, <1>2, <1>3, <1>4, <1>5, <1>6, <1>7, <1>8, <1>9, <1>10, <1>11, <1>12,
     <1>13, <1>14, <1>15, <1>16 DEF IInv

(* The interrupt of a sector that was stored finds HD waiting, or stays    *)
(* pending.                                                                *)
LEMMA DiskStoredIInv == IInv /\ DiskStored => IInv'
<1> SUFFICES ASSUME IInv, DiskStored PROVE IInv'
  OBVIOUS
<1> USE ProcsDiffer
<1>1. /\ device = "store" /\ announced' = announced - 1
      /\ device' = (IF announced > 1 THEN "drq" ELSE "idle") /\ K!Interrupt(HD)
      /\ UNCHANGED <<pc, job, transfers, sectors, waitfor, keyboard, terminal>>
  BY DEF DiskStored
<1>2. KernelInv' /\ (Woke(HD) \/ Remembered(HD))
  BY <1>1, Interrupts DEF Informed, IInv, Changes
<1>3. /\ pc[HD] \in {"wait", "interrupted"} /\ SectorOnItsWay /\ ~Interrupted /\ sectors >= 1
      /\ job[HD].type.op \in Commands /\ job[HD].source = FS
      /\ device = "store" <=> job[HD].type.op = "DEV_WRITE"
  BY <1>1, DiskBusy
<1>4. /\ pc[HD] = "wait" => ~(status[HD] = "receiving" /\ partner[HD] \in {ANY, INTERRUPT})
      /\ pc[HD] = "interrupted" => status[HD] = "receiving" /\ partner[HD] = INTERRUPT
  BY <1>1, <1>3 DEF IInv, KernelInv, KernelTypeOK, Stances, Stands, Interrupted, Finds
<1>5. /\ pc[HD] = "wait" => Remembered(HD)
      /\ pc[HD] = "interrupted" => Woke(HD)
  BY <1>2, <1>4 DEF Woke, Remembered
<1>6. sectors \in 0..load.sectors /\ announced \in 0..load.sectors /\ load.sectors \in Nat
  BY LoadFields DEF IInv, TypeOK, DiskTypeOK
<1>7. announced = sectors
  BY <1>1, <1>3 DEF SectorOnItsWay
<1>8. TypeOK'
  <2>1. LoopsTypeOK' /\ KeysTypeOK' /\ TerminalTypeOK' /\ load' = load
    BY <1>1, <1>2, <1>3, <1>4, <1>5, <1>6, <1>7 DEF IInv, TypeOK, LoopsTypeOK,
       KeysTypeOK, TerminalTypeOK, keyboard, terminal
  <2>2. sectors' \in 0..load.sectors /\ announced' \in 0..load.sectors /\ device' \in {"idle", "fetch", "data", "prepare", "drq", "store"}
    BY <1>1, <1>2, <1>3, <1>4, <1>5, <1>6, <1>7, LoadFields DEF IInv, TypeOK, DiskTypeOK
  <2>3. DiskTypeOK'
    BY <1>1, <1>2, <1>3, <1>4, <1>5, <1>6, <1>7, <2>1, <2>2 DEF IInv, TypeOK, DiskTypeOK
  <2> QED
    BY <2>1, <2>3 DEF TypeOK
<1>9. Points'
  BY <1>1, <1>2, <1>3, <1>4, <1>5, <1>6, <1>7
  DEF IInv, Points, Changes
<1>10. Stances'
  BY <1>1, <1>2, <1>3, <1>4, <1>5, <1>6, <1>7
  DEF IInv, Stances, Stands, Woke, Remembered, Changes
<1>11. Contents'
  BY <1>1, <1>2, <1>3, <1>4, <1>5, <1>6, <1>7
  DEF IInv, Contents, Commands, ToShell, ToFS, ToTTY, ToSYS, IsCommand, IsRequest,
     IsAnswer, Answers, IsResume, Woke, Remembered, Changes, keyboard
<1>12. Found'
  <2>1. FoundShell'
    BY <1>1, <1>2, <1>3, <1>4, <1>5, <1>6, <1>7
    DEF IInv, Jobs, Found, FoundShell, Stances, Stands, Finds, ToShell, Server, Woke,
       Remembered, Changes
  <2>2. FoundFS'
    BY <1>1, <1>2, <1>3, <1>4, <1>5, <1>6, <1>7
    DEF IInv, Jobs, Found, FoundFS, Stances, Stands, Finds, IsRequest, IsResume,
       IsAnswer, Answers, Woke, Remembered, Changes
  <2>3. FoundTTY'
    BY <1>1, <1>2, <1>3, <1>4, <1>5, <1>6, <1>7
    DEF IInv, Jobs, Found, FoundTTY, Stances, Stands, Finds, ToTTY, Woke, Remembered,
       Changes, K!IntMessage
  <2>4. FoundHD'
    BY <1>1, <1>2, <1>3, <1>4, <1>5, <1>6, <1>7
    DEF IInv, Jobs, Found, FoundHD, Stances, Stands, Finds, Commands, IsCommand,
       keyboard, Woke, Remembered, Changes, K!IntMessage, keyboard
  <2>5. FoundSYS'
    BY <1>1, <1>2, <1>3, <1>4, <1>5, <1>6, <1>7
    DEF IInv, Jobs, Found, FoundSYS, Stances, Stands, Finds, ToSYS, IsRequest, Woke,
       Remembered, Changes
  <2> QED
    BY <2>1, <2>2, <2>3, <2>4, <2>5 DEF Found
<1>13. Jobs'
  BY <1>1, <1>2, <1>3, <1>4, <1>5, <1>6, <1>7
  DEF IInv, Jobs, Answers, IsRequest, ToSYS, OnDisk, OnTerminal, OnSectors, Woke,
     Remembered, Changes
<1>14. Served'
  <2>1. \A s \in {TTY, HD, SYS}, c \in Procs : Serving(s, c)' => Serving(s, c)
    BY <1>1, <1>2, <1>3, <1>4, <1>5, <1>6, <1>7 DEF Woke, Remembered, Changes,
       Serving, Finds, K!IntMessage, OnSectors
  <2>2. \A c \in Procs, s \in Procs : Calling(c, s)' <=> Calling(c, s)
    BY <1>1, <1>2, <1>3, <1>4, <1>5, <1>6, <1>7 DEF Calling
  <2>3. \A c \in Procs, s \in Procs : Awaiting(c, s) => Awaiting(c, s)'
    BY <1>1, <1>2, <1>3, <1>4, <1>5, <1>6, <1>7, <2>2 DEF Awaiting, Woke, Remembered,
       Changes
  <2>4. \A s \in {TTY, HD, SYS}, c \in Procs : Serving(s, c)' => Awaiting(c, s)'
    BY <2>1, <2>3 DEF IInv, Served
  <2>5. \A c \in Procs : \A x \in Queue(c)' : IsReply(c, x)' => status'[c] = "ready" /\ Calling(c, x.source)'
    <3> SUFFICES ASSUME NEW c \in Procs, NEW x \in Queue(c)', IsReply(c, x)'
                 PROVE  status'[c] = "ready" /\ Calling(c, x.source)'
      OBVIOUS
    <3>1. x \in Queue(c) /\ x.source \in Procs /\ status[c] = "ready" /\ Calling(c, x.source)
      <4>1. x \in Queue(c)
        BY <1>2 DEF Woke, Remembered
      <4>2. IsReply(c, x)
        BY DEF IsReply
      <4> QED
        BY <4>1, <4>2, Senders DEF IInv, Served
    <3> QED
      BY <1>1, <1>2, <1>3, <1>4, <1>5, <1>6, <1>7, <2>2, <3>1 DEF Woke, Remembered,
         Changes
  <2> QED
    BY <2>4, <2>5 DEF Served
<1>15. AnsweredOnce' /\ ReaderKept'
  <2>1. /\ FSActive' <=> FSActive
        /\ TTYOwes' <=> TTYOwes
        /\ ResumeQueued' <=> ResumeQueued
        /\ ResumeFound' <=> ResumeFound
        /\ Suspending' <=> Suspending
    BY <1>1, <1>2, <1>3, <1>4, <1>5, <1>6, <1>7, RequestFrame DEF Woke, Remembered,
       Changes, terminal, Finds
  <2>2. FSActive \/ TTYOwes \/ Resuming => Awaiting(Shell, FS)'
    BY <1>1, <1>2, <1>3, <1>4, <1>5, <1>6, <1>7 DEF IInv, AnsweredOnce, Awaiting,
       Calling, Woke, Remembered, Changes
  <2> QED
    BY <1>1, <1>2, <1>3, <1>4, <1>5, <1>6, <1>7, <2>1, <2>2, AnsweredFrame DEF Woke,
       Remembered, terminal
<1>16. DiskInStep'
  <2>1. Interrupted'
    BY <1>1, <1>2, <1>3, <1>4, <1>5, <1>6, <1>7 DEF Woke, Remembered, Changes,
       Interrupted, Finds
  <2>2. SectorOnItsWay'
    BY <1>1, <1>2, <1>3, <1>4, <1>5, <1>6, <1>7, <2>1 DEF SectorOnItsWay, Commands
  <2>3. pending'[HD] => pc[HD] = "wait"
    BY <1>1, <1>2, <1>3, <1>4, <1>5, <1>6, <1>7 DEF Woke, Remembered, Changes,
       Interrupted, Finds
  <2> QED
    BY <1>1, <1>2, <1>3, <1>4, <1>5, <1>6, <1>7, <2>2, <2>3 DEF DiskInStep, OnSectors
<1>17. KeysSeen'
  BY <1>1, <1>2, <1>3, <1>4, <1>5, <1>6, <1>7
  DEF IInv, KeysSeen, keyboard, Woke, Remembered, Changes
<1> QED
  BY <1>1, <1>2, <1>3, <1>4, <1>5, <1>6, <1>7, <1>8, <1>9, <1>10, <1>11, <1>12,
     <1>13, <1>14, <1>15, <1>16, <1>17 DEF IInv

(* The disk asks for the first sector of a write.  *)
LEMMA DiskPreparedIInv == IInv /\ DiskPrepared => IInv'
<1> SUFFICES ASSUME IInv, DiskPrepared PROVE IInv'
  OBVIOUS
<1>1. /\ device = "prepare" /\ device' = "drq"
      /\ UNCHANGED <<kernel, pc, job, transfers, sectors, announced, waitfor, keyboard, terminal>>
  BY DEF DiskPrepared
<1>2. UNCHANGED <<status, pending, kb_in, key_pressed, keys, load, ibuf, reader>>
  BY <1>1 DEF kernel, keyboard, terminal
<1>3. TypeOK'
  <2>1. LoopsTypeOK' /\ KeysTypeOK' /\ TerminalTypeOK'
    BY <1>1, <1>2 DEF IInv, TypeOK, LoopsTypeOK, KeysTypeOK, TerminalTypeOK
  <2>2. DiskTypeOK'
    BY <1>1, <1>2 DEF IInv, TypeOK, DiskTypeOK
  <2> QED
    BY <2>1, <2>2 DEF TypeOK
<1>4. DiskInStep'
  <2>1. pc[HD] \notin {"wait", "interrupted"}
    BY <1>1 DEF IInv, DiskInStep, SectorOnItsWay
  <2> QED
    BY <1>1, <1>2, <2>1 DEF IInv, DiskInStep, OnSectors
<1>5. KeysSeen'
  BY <1>1, <1>2 DEF IInv, KeysSeen
<1> QED
  BY <1>1, <1>2, <1>3, <1>4, <1>5, LoopsFrame DEF IInv

-----------------------------------------------------------------------------
(* The invariant, and what follows from it.  *)

(* Every step keeps the invariant.  *)
LEMMA NextIInv == IInv /\ [Next]_vars => IInv'
<1> SUFFICES ASSUME IInv, [Next]_vars PROVE IInv'
  OBVIOUS
<1>1. CASE ShellStep
  BY <1>1, ShellCallIInv, ShellAwaitIInv, ShellReturnIInv DEF ShellStep
<1>2. CASE FSStep
  BY <1>2, FSInitIInv, FSReceiveIInv, FSResumeIInv, FSTerminalIInv, FSRequestIInv,
     FSTransferIInv, FSDiskAwaitIInv, FSDiskDoneIInv, FSWorkDoneIInv, FSTtyIInv,
     FSTtyAwaitIInv, FSTtyDoneIInv, FSReplyIInv, FSSuspendIInv DEF FSStep
<1>3. CASE TTYStep
  BY <1>3, TTYReadKeyIInv, TTYKeysReadIInv, TTYWriteKeyIInv, TTYResumeIInv,
     TTYResumedIInv, TTYReceiveIInv, TTYHardIntIInv, TTYDoReadIInv, TTYDoOtherIInv,
     TTYReplyIInv DEF TTYStep
<1>4. CASE HDStep
  BY <1>4, HDReceiveIInv, HDDispatchIInv, HDAskIInv, HDAskAwaitIInv, HDPollIInv,
     HDCommandIInv, HDPortWriteIInv, HDWaitIInv, HDSectorReadIInv,
     HDSectorWrittenIInv, HDReplyIInv DEF HDStep
<1>5. CASE SYSStep
  BY <1>5, SYSReceiveIInv, SYSGetTicksIInv, SYSReplyIInv DEF SYSStep
<1>6. CASE DiskStep
  BY <1>6, DiskFetchedIInv, DiskPreparedIInv, DiskStoredIInv DEF DiskStep
<1>7. CASE KeyPress
  BY <1>7, KeyPressIInv
<1>8. CASE ClockTick
  BY <1>8, ClockTickIInv
<1>9. CASE UNCHANGED vars
  BY <1>9, StutterIInv
<1> QED
  BY <1>1, <1>2, <1>3, <1>4, <1>5, <1>6, <1>7, <1>8, <1>9 DEF Next

(* Whatever the processes do, the invariant holds: who is blocked where, on *)
(* whom and for what fits together over all the loops and the disk.         *)
THEOREM Invariant == Spec => []IInv
<1>1. IInv /\ [Next]_vars => IInv'
  BY NextIInv
<1> QED
  BY InitIInv, <1>1, PTL DEF Spec

(* The buffers of the keyboard and of the terminal never overflow, and the *)
(* counters of a reader stay within what it asked for, for every size.     *)
THEOREM TypeCorrect == Spec => []TypeOK
<1>1. IInv => TypeOK
  BY DEF IInv
<1> QED
  BY <1>1, Invariant, PTL

(* TTY does not sleep on keys that nobody will wake it for (tty.c:116).    *)
THEOREM KeysNotStranded == Spec => []NoStrandedKey
<1>1. IInv => NoStrandedKey
  BY ProcsDiffer DEF IInv, KeysSeen, Stances, Stands, NoStrandedKey
<1> QED
  BY <1>1, Invariant, PTL

(* A process that awaits a server waits for its answer.  *)
LEMMA ShellAwaits ==
  ASSUME IInv, Awaiting(Shell, FS)
  PROVE  Awaits(Shell)
  BY ProcsDiffer DEF IInv, Stances, Stands, Awaiting, Calling, Awaits

(* Keys go to a process that is still waiting in its read, and into room   *)
(* it has (tty_dev_write).                                                 *)
THEOREM KeysReachReader == Spec => []KeysGoToReader
<1>1. IInv => KeysGoToReader
  <2> SUFFICES ASSUME IInv, reader.left > 0, pc[TTY] # "resumed"
               PROVE  /\ Awaits(reader.proc)
                      /\ job[reader.proc].type.op = "READ" /\ job[reader.proc].type.on = "tty"
                      /\ reader.left + reader.trans = job[reader.proc].type.cnt
    BY DEF KeysGoToReader
  <2>1. TTYOwes
    BY DEF TTYOwes
  <2> QED
    BY <2>1, ShellAwaits DEF IInv, AnsweredOnce, ReaderKept
<1> QED
  BY <1>1, Invariant, PTL

(* What FS is about to answer is awaited, and an answer is of the kind and *)
(* of the size its receiver counts on (open.c, read_write.c:70).           *)
THEOREM AnswersFit == Spec => []AnswersMatch
<1>1. IInv => AnswersMatch
  <2> SUFFICES ASSUME IInv PROVE AnswersMatch
    OBVIOUS
  <2> USE ProcsDiffer
  <2>1. ASSUME pc[FS] = "reply", job[FS].type.op # "SUSPEND_PROC"
        PROVE  Awaits(job[FS].source)
    <3>1. status[FS] # "receiving"
      BY <2>1 DEF IInv, Stances, Stands
    <3>2. job[FS] # NoJob /\ job[FS].source = Shell
      BY <2>1 DEF IInv, Jobs
    <3>3. ~Suspending
      BY <2>1, <3>1, NobodyAnswersFS DEF Suspending, Finds
    <3>4. Awaiting(Shell, FS)
      BY <3>2, <3>3 DEF FSActive, IInv, AnsweredOnce
    <3> QED
      BY <3>2, <3>4, ShellAwaits
  <2>2. ASSUME pc[Shell] = "answered", status[Shell] = "ready"
        PROVE  /\ inbox[Shell].source = Server(job[Shell].type)
               /\ inbox[Shell].source = FS => inbox[Shell].type.op = "SYSCALL_RET"
               /\ inbox[Shell].type.cnt <= job[Shell].type.cnt
    BY <2>2 DEF IInv, Found, FoundShell, Finds, ToShell
  <2>3. pc[FS] = "tty_got" /\ status[FS] = "ready" => inbox[FS].type.cnt = job[FS].type.cnt
    BY DEF IInv, Found, FoundFS, Finds, IsAnswer, Answers
  <2> QED
    BY <2>1, <2>2, <2>3 DEF AnswersMatch
<1> QED
  BY <1>1, Invariant, PTL

(* No disk interrupt is left over for a loop that does not know it, and    *)
(* HD never waits for SYS with one pending (hd.c:83, proc.c:587).          *)
THEOREM InterruptsExpected == Spec => []NoStrayDiskInterrupt
<1>1. IInv => NoStrayDiskInterrupt
  BY DEF IInv, Points, DiskInStep, NoStrayDiskInterrupt
<1> QED
  BY <1>1, Invariant, PTL

(* The disk has nothing left of a command when HD answers it.              *)
THEOREM CommandsEnd == Spec => []CommandsComplete
<1>1. IInv => CommandsComplete
  BY DEF IInv, DiskInStep, CommandsComplete
<1> QED
  BY <1>1, Invariant, PTL

-----------------------------------------------------------------------------
(* Nobody closes a cycle of senders.  *)

(* Process q sends to t, or is about to.  *)
SendsTo(q, t) ==
  \/ status[q] = "sending" /\ partner[q] = t
  \/ status[q] = "ready" /\ t \in Destinations(q)

(* Nobody who is waiting for an answer sends.  *)
LEMMA AwaitingSendsNot ==
  ASSUME IInv, NEW c \in Procs, NEW s \in Procs, Awaiting(c, s)
  PROVE  \A t : ~SendsTo(c, t)
<1>1. CASE status[c] = "receiving"
  BY <1>1 DEF SendsTo
<1>2. CASE status[c] = "ready" /\ Calling(c, s)
  <2>1. pc[c] \in {"await", "hd_await", "tty_await", "ask_await"}
    BY <1>2 DEF Calling
  <2>2. Destinations(c) = {}
    BY <2>1 DEF Destinations
  <2> QED
    BY <1>2, <2>2 DEF SendsTo
<1> QED
  BY <1>1, <1>2 DEF Awaiting

(* A sender's message waits for its receiver.  *)
LEMMA SenderMail ==
  ASSUME IInv, NEW q \in Procs, status[q] = "sending"
  PROVE  \E d \in Procs : partner[q] = d /\ \E m \in Queue(d) : m.source = q
  BY DEF IInv, KernelInv, SendersWait

(* Who answers SYS's clients is awaited by them.  *)
LEMMA SYSSends ==
  ASSUME IInv, NEW t, SendsTo(SYS, t)
  PROVE  t \in Procs /\ \A u : ~SendsTo(t, u)
<1> USE ProcsDiffer
<1>1. CASE status[SYS] = "sending"
  <2>1. PICK d \in Procs : partner[SYS] = d /\ \E m \in Queue(d) : m.source = SYS
    BY <1>1, SenderMail
  <2>2. PICK m \in Queue(d) : m.source = SYS
    BY <2>1
  <2>3. Awaiting(d, SYS)
    BY <2>2 DEF IInv, Served, IsReply, Awaiting
  <2> QED
    BY <1>1, <2>1, <2>3, AwaitingSendsNot DEF SendsTo
<1>2. CASE status[SYS] = "ready" /\ t \in Destinations(SYS)
  <2>1. pc[SYS] = "reply" /\ t = job[SYS].source
    BY <1>2 DEF Destinations
  <2>2. t \in Procs /\ Awaiting(t, SYS)
    BY <2>1 DEF IInv, Jobs, ToSYS, IsRequest, Served, Serving
  <2> QED
    BY <2>2, AwaitingSendsNot
<1> QED
  BY <1>1, <1>2 DEF SendsTo

(* HD asks SYS, or answers FS, which awaits it.  *)
LEMMA HDSends ==
  ASSUME IInv, NEW t, SendsTo(HD, t)
  PROVE  t = SYS \/ (t = FS /\ \A u : ~SendsTo(FS, u))
<1> USE ProcsDiffer
<1>1. CASE status[HD] = "sending"
  <2>1. PICK d \in Procs : partner[HD] = d /\ \E m \in Queue(d) : m.source = HD
    BY <1>1, SenderMail
  <2>2. d = t /\ (d = SYS \/ d = FS)
    BY <1>1, <2>1 DEF SendsTo, IInv, Stances, Stands
  <2>3. d = FS => Awaiting(FS, HD)
    BY <2>1 DEF IInv, Served, IsReply, Awaiting
  <2> QED
    BY <2>2, <2>3, AwaitingSendsNot
<1>2. CASE status[HD] = "ready" /\ t \in Destinations(HD)
  <2>1. (pc[HD] = "ask" /\ t = SYS) \/ (pc[HD] = "reply" /\ t = job[HD].source)
    BY <1>2 DEF Destinations
  <2>2. pc[HD] = "reply" => job[HD].source = FS /\ Awaiting(FS, HD)
    BY DEF IInv, Jobs, Served, Serving
  <2> QED
    BY <2>1, <2>2, AwaitingSendsNot
<1> QED
  BY <1>1, <1>2 DEF SendsTo

(* FS calls HD, answers the shell, which awaits it, or asks TTY.  *)
LEMMA FSSends ==
  ASSUME IInv, NEW t, SendsTo(FS, t)
  PROVE  \/ t = HD
         \/ t = Shell /\ \A u : ~SendsTo(Shell, u)
         \/ t = TTY /\ job[FS] # NoJob /\ ~Finds(FS, "tty_got") /\ pc[FS] # "reply"
              /\ ~\E s \in Procs : Awaiting(FS, s)
<1> USE ProcsDiffer
<1>1. CASE status[FS] = "sending"
  <2>1. PICK d \in Procs : partner[FS] = d /\ \E m \in Queue(d) : m.source = FS
    BY <1>1, SenderMail
  <2>2. d = t /\ (d = Shell \/ d = HD \/ (d = TTY /\ pc[FS] = "tty_await"))
    BY <1>1, <2>1 DEF SendsTo, IInv, Stances, Stands
  <2>3. d = Shell => Awaiting(Shell, FS)
    BY <2>1 DEF IInv, Served, IsReply, Awaiting
  <2>4. pc[FS] = "tty_await" => job[FS] # NoJob
    BY DEF IInv, Jobs, OnTerminal
  <2>5. ~\E s \in Procs : Awaiting(FS, s)
    BY <1>1 DEF Awaiting
  <2> QED
    BY <1>1, <2>2, <2>3, <2>4, <2>5, AwaitingSendsNot DEF Finds
<1>2. CASE status[FS] = "ready" /\ t \in Destinations(FS)
  <2>1. \/ t = HD
        \/ pc[FS] = "tty" /\ t = TTY
        \/ pc[FS] = "reply" /\ job[FS].type.op # "SUSPEND_PROC" /\ t = job[FS].source
    BY <1>2 DEF Destinations
  <2>2. ASSUME pc[FS] = "reply", job[FS].type.op # "SUSPEND_PROC"
        PROVE  job[FS].source = Shell /\ Awaiting(Shell, FS)
    <3>1. job[FS] # NoJob /\ job[FS].source = Shell
      BY <2>2 DEF IInv, Jobs
    <3>2. ~Suspending
      BY <1>2, <2>2, NobodyAnswersFS DEF Suspending, Finds
    <3> QED
      BY <3>1, <3>2 DEF FSActive, IInv, AnsweredOnce
  <2>3. ASSUME pc[FS] = "tty"
        PROVE  job[FS] # NoJob /\ ~\E s \in Procs : Awaiting(FS, s)
    BY <1>2, <2>3 DEF IInv, Jobs, OnTerminal, Awaiting, Calling
  <2> QED
    BY <2>1, <2>2, <2>3, AwaitingSendsNot DEF Finds
<1> QED
  BY <1>1, <1>2 DEF SendsTo

(* TTY answers FS, which awaits it, or has it resume a reader.  *)
LEMMA TTYSends ==
  ASSUME IInv, NEW t, SendsTo(TTY, t)
  PROVE  /\ t = FS
         /\ \/ \A u : ~SendsTo(FS, u)
            \/ pc[TTY] # "reply" /\ (TTYOwes \/ Resuming)
<1> USE ProcsDiffer
<1>1. CASE status[TTY] = "sending"
  <2>1. PICK d \in Procs : partner[TTY] = d /\ \E m \in Queue(d) : m.source = TTY
    BY <1>1, SenderMail
  <2>2. d = t /\ d = FS /\ pc[TTY] # "reply"
    BY <1>1, <2>1 DEF SendsTo, IInv, Stances, Stands
  <2>3. PICK m \in Queue(FS) : m.source = TTY
    BY <2>1, <2>2
  <2>4. m.type.op = "RESUME_PROC" \/ Awaiting(FS, TTY)
    BY <2>3 DEF IInv, Served, IsReply, Awaiting
  <2> QED
    BY <2>2, <2>4, AwaitingSendsNot DEF Resuming, ResumeQueued
<1>2. CASE status[TTY] = "ready" /\ t \in Destinations(TTY)
  <2>1. pc[TTY] = "reply" => job[TTY].source = FS /\ Awaiting(FS, TTY)
    BY DEF IInv, Jobs, Served, Serving
  <2>2. (pc[TTY] = "resume" /\ t = FS) \/ (pc[TTY] = "reply" /\ t = FS)
    BY <1>2, <2>1 DEF Destinations
  <2> QED
    BY <2>1, <2>2, AwaitingSendsNot DEF TTYOwes
<1> QED
  BY <1>1, <1>2 DEF SendsTo

(* FS and TTY are never about to send to each other.  *)
LEMMA NotBothWays ==
  ASSUME IInv, SendsTo(FS, TTY), SendsTo(TTY, FS)
  PROVE  FALSE
<1> USE ProcsDiffer
<1>1. job[FS] # NoJob /\ ~Finds(FS, "tty_got") /\ pc[FS] # "reply" /\ ~\E s \in Procs : Awaiting(FS, s)
  BY FSSends
<1>2. pc[TTY] # "reply" /\ (TTYOwes \/ Resuming)
  BY TTYSends
<1>3. \A m \in Queue(FS) : m.type.op # "SUSPEND_PROC"
  <2> SUFFICES ASSUME NEW m \in Queue(FS), m.type.op = "SUSPEND_PROC" PROVE FALSE
    OBVIOUS
  <2>1. ToFS(m) /\ ~IsRequest(m) /\ m.source \in Procs
    BY Senders, RequestOfShell DEF IsRequest, IInv, Contents
  <2>2. ~IsReply(FS, m)
    BY <1>1, <2>1 DEF IInv, Served, Awaiting
  <2> QED
    BY <2>1, <2>2 DEF ToFS, IsAnswer, IsResume, IsReply, Commands
<1>4. FSActive
  BY <1>1, <1>2, <1>3 DEF FSActive, Suspending
<1> QED
  BY <1>2, <1>4 DEF IInv, AnsweredOnce

(* No set of processes sends among itself only.  *)
LEMMA NoCycle ==
  ASSUME IInv, NEW S \in SUBSET Procs, S # {},
         \A q \in S : \E t \in S : SendsTo(q, t)
  PROVE  FALSE
<1> USE ProcsDiffer
<1>1. SYS \notin S
  BY SYSSends
<1>2. HD \notin S
  BY <1>1, HDSends
<1>3. FS \in S => TTY \in S /\ SendsTo(FS, TTY)
  BY <1>2, FSSends
<1>4. TTY \in S => FS \in S /\ SendsTo(TTY, FS)
  BY TTYSends
<1>5. FS \notin S /\ TTY \notin S
  BY <1>3, <1>4, NotBothWays
<1>6. \A t \in S : t = Shell
  BY <1>1, <1>2, <1>5 DEF Procs
<1>7. SendsTo(Shell, Shell)
  BY <1>6
<1> QED
  BY <1>7 DEF SendsTo, Destinations, IInv, Points, Stances, Stands, Server

(* No send of a task or of the shell closes a cycle of senders, so that    *)
(* msg_send never panics: of the ways in which one process can send to     *)
(* another, only FS and TTY could close one, and TTY resumes a reader only *)
(* while FS has nothing to ask of it (tty.c:271).                          *)
THEOREM NoSendPanics == Spec => []NoDeadlockPanic
<1>1. IInv => NoDeadlockPanic
  <2> SUFFICES ASSUME IInv, NEW p \in Procs, status[p] = "ready", NEW d \in Destinations(p),
                      NEW S \in (SUBSET Procs) \ {{}},
                      \A q \in S : /\ [status EXCEPT ![p] = "sending"][q] = "sending"
                                   /\ [partner EXCEPT ![p] = d][q] \in S
               PROVE  FALSE
    BY DEF NoDeadlockPanic, K!Acyclic
  <2>1. status \in [Procs -> {"ready", "sending", "receiving"}]
        /\ partner \in [Procs -> Procs \union {ANY, INTERRUPT, NO_TASK}]
    BY DEF IInv, KernelInv, KernelTypeOK
  <2>2. ASSUME NEW q \in S PROVE \E t \in S : SendsTo(q, t)
    <3>1. CASE q = p
      <4>1. [partner EXCEPT ![p] = d][q] = d
        BY <2>1, <3>1
      <4> QED
        BY <3>1, <4>1 DEF SendsTo
    <3>2. CASE q # p
      <4>1. [status EXCEPT ![p] = "sending"][q] = status[q] /\ [partner EXCEPT ![p] = d][q] = partner[q]
        BY <2>1, <3>2
      <4> QED
        BY <4>1 DEF SendsTo
    <3> QED
      BY <3>1, <3>2
  <2> QED
    BY <2>2, NoCycle
<1> QED
  BY <1>1, Invariant, PTL
=============================================================================
