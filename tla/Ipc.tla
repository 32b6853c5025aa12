--------------------------------- MODULE Ipc ---------------------------------
(***************************************************************************)
(* Synchronous message passing of the kernel (kernel/proc.c): sys_sendrec, *)
(* msg_send, msg_receive, deadlock and inform_int.                         *)
(*                                                                         *)
(* sys_call (kernel/kernel.asm) executes sti before it calls the handler,  *)
(* so a system call runs with interrupts enabled.  While it runs k_reenter *)
(* is 0, a nested clock interrupt sees a positive k_reenter and does not   *)
(* schedule: at most one system call is in progress, and only inform_int,  *)
(* called by interrupt handlers, interleaves with it.  kpc is the point    *)
(* that call has reached; a step of the module is the code between two     *)
(* points at which an interrupt changes what the call does next.           *)
(*                                                                         *)
(* Which runnable process enters the kernel next is left open: the choice  *)
(* made by schedule() is the subject of module Sched.                      *)
(***************************************************************************)
EXTENDS Naturals, Sequences, SequencesExt

CONSTANTS
  Procs,        (* indices of proc_table in use                            *)
  Informed,     (* processes that interrupt handlers inform: TTY and HD    *)
  Types,        (* message types a process may send                        *)
  ANY, INTERRUPT, NO_TASK,  (* the special process numbers of const.h      *)
  HARD_INT      (* type of the message made up for an interrupt            *)

ASSUME IpcAssumption ==
  /\ Informed \subseteq Procs
  /\ ANY \notin Procs /\ INTERRUPT \notin Procs /\ NO_TASK \notin Procs
  /\ ANY # INTERRUPT /\ ANY # NO_TASK /\ INTERRUPT # NO_TASK
  /\ HARD_INT \notin Types

SendPoints == {"send_test", "send_assert", "send_copy", "send_null", "send_finish"}

ReceivePoints == {"recv_test", "recv_int_check", "recv_queue", "recv_from",
                  "recv_block", "recv_check"}

(* "user": no system call is in progress.  "halted": an assertion failed,  *)
(* or panic() was called, in the kernel, which never returns from it.      *)
Points == {"user", "halted"} \union SendPoints \union ReceivePoints

Message == [source : Procs \union {INTERRUPT}, type : Types \union {HARD_INT}]

(* Why the kernel stopped: the deadlock panic, or the line of proc.c that  *)
(* holds the assertion.                                                    *)
Causes == {"none", "deadlock", "268", "364", "467", "583", "587"}

VARIABLES
  p_flags,      (* the set of SENDING and RECEIVING; a process is runnable *)
                (* iff its set is empty                                    *)
  p_msg,        (* whether the pointer p_msg is not null; a process's      *)
                (* p_msg only ever points to its own MESSAGE, msg[p]       *)
  p_recvfrom, p_sendto, has_int_msg,
  q_sending,    (* the list linked by next_sending, as a sequence          *)
  msg,          (* the MESSAGE each process passed to sendrec              *)
  kpc, current, peer,   (* the call in progress, its caller and src_dest   *)
  cause         (* why the kernel halted                                   *)

procVars == <<p_flags, p_msg, p_recvfrom, p_sendto, q_sending>>
vars == <<procVars, has_int_msg, msg, kpc, current, peer, cause>>

Sending(p) == "SENDING" \in p_flags[p]
Receiving(p) == "RECEIVING" \in p_flags[p]

Init ==
  /\ p_flags = [p \in Procs |-> {}]
  /\ p_msg = [p \in Procs |-> FALSE]
  /\ p_recvfrom = [p \in Procs |-> NO_TASK]
  /\ p_sendto = [p \in Procs |-> NO_TASK]
  /\ has_int_msg = [p \in Procs |-> FALSE]
  /\ q_sending = [p \in Procs |-> <<>>]
  /\ \E t \in Types : msg = [p \in Procs |-> [source |-> p, type |-> t]]
  /\ kpc = "user" /\ current = NO_TASK /\ peer = NO_TASK
  /\ cause = "none"

GoTo(point) == kpc' = point /\ UNCHANGED <<current, peer, cause>>

Return == kpc' = "user" /\ current' = NO_TASK /\ peer' = NO_TASK /\ UNCHANGED cause

Halt(why) == kpc' = "halted" /\ cause' = why /\ UNCHANGED <<current, peer>>

-----------------------------------------------------------------------------
(* sys_sendrec *)

(* A runnable process p traps into the kernel.  Its own number is stamped  *)
(* on the message whatever the call is.                                    *)
Enter(p, point, srcDest, type) ==
  /\ kpc = "user"
  /\ p_flags[p] = {}
  /\ srcDest # p
  /\ msg' = [msg EXCEPT ![p] = [source |-> p, type |-> type]]
  /\ kpc' = point /\ current' = p /\ peer' = srcDest
  /\ UNCHANGED <<procVars, has_int_msg, cause>>

CallSend(p) == \E d \in Procs, t \in Types : Enter(p, "send_test", d, t)

CallReceive(p) ==
  \E s \in Procs \union {ANY, INTERRUPT} : Enter(p, "recv_test", s, msg[p].type)

-----------------------------------------------------------------------------
(* msg_send: the sender is current, the destination is peer.  *)

(* The processes reached from dest along p_sendto are contained in every   *)
(* set that holds dest and is closed under p_sendto; deadlock() follows    *)
(* that chain and stops at the first process that is sending to src.       *)
ClosedUnderSendto(T) == \A p \in T : Sending(p) => p_sendto[p] \in T

SendsTo(T, src) == \E p \in T : Sending(p) /\ p_sendto[p] = src

(* Fault: only the destination itself is looked at.  *)
deadlockFirstHop(src, dest) == Sending(dest) /\ p_sendto[dest] = src

deadlock(src, dest) ==
  \A T \in SUBSET Procs :
    dest \in T /\ ClosedUnderSendto(T) => SendsTo(T, src)

(* Fault: any waiting destination is taken to wait for this sender.  *)
WaitsForSomebody(dest, src) == Receiving(dest)

(* dest is blocked waiting for a message of src.  *)
WaitsFor(dest, src) == Receiving(dest) /\ p_recvfrom[dest] \in {src, ANY}

SendDeadlock ==
  /\ kpc = "send_test"
  /\ deadlock(current, peer)
  /\ Halt("deadlock")
  /\ UNCHANGED <<procVars, has_int_msg, msg>>

SendMatch ==
  /\ kpc = "send_test"
  /\ ~deadlock(current, peer)
  /\ WaitsFor(peer, current)
  /\ GoTo("send_assert")
  /\ UNCHANGED <<procVars, has_int_msg, msg>>

(* Fault: the sender is put at the front of the list.  *)
SendBlockInFront ==
  /\ kpc = "send_test"
  /\ ~deadlock(current, peer)
  /\ ~WaitsFor(peer, current)
  /\ p_flags' = [p_flags EXCEPT ![current] = @ \union {"SENDING"}]
  /\ p_sendto' = [p_sendto EXCEPT ![current] = peer]
  /\ p_msg' = [p_msg EXCEPT ![current] = TRUE]
  /\ q_sending' = [q_sending EXCEPT ![peer] = <<current>> \o @]
  /\ Return
  /\ UNCHANGED <<p_recvfrom, has_int_msg, msg>>

(* dest is not waiting: append the sender to its list and block.  *)
SendBlock ==
  /\ kpc = "send_test"
  /\ ~deadlock(current, peer)
  /\ ~WaitsFor(peer, current)
  /\ p_flags' = [p_flags EXCEPT ![current] = @ \union {"SENDING"}]
  /\ p_sendto' = [p_sendto EXCEPT ![current] = peer]
  /\ p_msg' = [p_msg EXCEPT ![current] = TRUE]
  /\ q_sending' = [q_sending EXCEPT ![peer] = Append(@, current)]
  /\ Return
  /\ UNCHANGED <<p_recvfrom, has_int_msg, msg>>

SendAssert ==
  /\ kpc = "send_assert"
  /\ IF p_msg[peer] THEN GoTo("send_copy") ELSE Halt("364")
  /\ UNCHANGED <<procVars, has_int_msg, msg>>

(* phys_copy to the destination's buffer.  p_msg is read again: when an    *)
(* interrupt nulled it the copy goes to address 0 of dest's segment.       *)
SendCopy ==
  /\ kpc = "send_copy"
  /\ msg' = IF p_msg[peer] THEN [msg EXCEPT ![peer] = msg[current]] ELSE msg
  /\ GoTo("send_null")
  /\ UNCHANGED <<procVars, has_int_msg>>

SendNull ==
  /\ kpc = "send_null"
  /\ p_msg' = [p_msg EXCEPT ![peer] = FALSE]
  /\ GoTo("send_finish")
  /\ UNCHANGED <<p_flags, p_recvfrom, p_sendto, q_sending, has_int_msg, msg>>

(* Fault: the destination keeps the source it was waiting for.  *)
SendFinishStale ==
  /\ kpc = "send_finish"
  /\ p_flags' = [p_flags EXCEPT ![peer] = @ \ {"RECEIVING"}]
  /\ Return
  /\ UNCHANGED <<p_msg, p_recvfrom, p_sendto, q_sending, has_int_msg, msg>>

SendFinish ==
  /\ kpc = "send_finish"
  /\ p_flags' = [p_flags EXCEPT ![peer] = @ \ {"RECEIVING"}]
  /\ p_recvfrom' = [p_recvfrom EXCEPT ![peer] = NO_TASK]
  /\ Return
  /\ UNCHANGED <<p_msg, p_sendto, q_sending, has_int_msg, msg>>

-----------------------------------------------------------------------------
(* msg_receive: the receiver is current, the source it names is peer.  *)

TakesInterrupts(src) == src \in {ANY, INTERRUPT}

(* A pending interrupt is answered first, with a message made up here.  *)
ReceiveInterrupt ==
  /\ kpc = "recv_test"
  /\ has_int_msg[current] /\ TakesInterrupts(peer)
  /\ msg' = [msg EXCEPT ![current] = [source |-> INTERRUPT, type |-> HARD_INT]]
  /\ has_int_msg' = [has_int_msg EXCEPT ![current] = FALSE]
  /\ GoTo("recv_int_check")
  /\ UNCHANGED procVars

ReceiveInterruptCheck ==
  /\ kpc = "recv_int_check"
  /\ IF has_int_msg[current] THEN Halt("467") ELSE Return
  /\ UNCHANGED <<procVars, has_int_msg, msg>>

ReceiveNoInterrupt ==
  /\ kpc = "recv_test"
  /\ ~(has_int_msg[current] /\ TakesInterrupts(peer))
  /\ GoTo("recv_queue")
  /\ UNCHANGED <<procVars, has_int_msg, msg>>

(* Fault: a named source is found only at the front of the list.  *)
CandidatesInFront(p, src) ==
  {i \in DOMAIN q_sending[p] : i = 1 /\ src \in {ANY, q_sending[p][1]}}

(* The position in p's list from which a message is taken: the first for   *)
(* ANY, the place of src when src is sending to p.                         *)
Candidates(p, src) ==
  {i \in DOMAIN q_sending[p] :
     \/ src = ANY /\ i = 1
     \/ /\ src = q_sending[p][i]
        /\ Sending(src) /\ p_sendto[src] = p}

TakeMessage(from) ==
  /\ msg' = [msg EXCEPT ![current] = msg[from]]
  /\ p_msg' = [p_msg EXCEPT ![from] = FALSE]
  /\ p_sendto' = [p_sendto EXCEPT ![from] = NO_TASK]
  /\ p_flags' = [p_flags EXCEPT ![from] = @ \ {"SENDING"}]

(* Fault: the first sender is unlinked, not the one that was taken.  *)
ReceiveTakeUnlinksFirst ==
  /\ kpc = "recv_queue"
  /\ \E i \in Candidates(current, peer) :
       /\ TakeMessage(q_sending[current][i])
       /\ q_sending' = [q_sending EXCEPT ![current] = Tail(@)]
  /\ Return
  /\ UNCHANGED <<p_recvfrom, has_int_msg>>

(* Fault: the link is overwritten with null instead of being bypassed.  *)
ReceiveTakeLeavesNull ==
  /\ kpc = "recv_queue"
  /\ \E i \in Candidates(current, peer) :
       /\ TakeMessage(q_sending[current][i])
       /\ q_sending' = [q_sending EXCEPT ![current][i] = NO_TASK]
  /\ Return
  /\ UNCHANGED <<p_recvfrom, has_int_msg>>

(* Copy the message of a blocked sender, unlink it and unblock it.  *)
ReceiveTake ==
  /\ kpc = "recv_queue"
  /\ \E i \in Candidates(current, peer) :
       /\ TakeMessage(q_sending[current][i])
       /\ q_sending' = [q_sending EXCEPT ![current] = RemoveAt(@, i)]
  /\ Return
  /\ UNCHANGED <<p_recvfrom, has_int_msg>>

(* Fault: the buffer is not recorded.  *)
ReceiveFlagNoBuffer ==
  /\ kpc = "recv_queue"
  /\ Candidates(current, peer) = {}
  /\ p_flags' = [p_flags EXCEPT ![current] = @ \union {"RECEIVING"}]
  /\ GoTo("recv_from")
  /\ UNCHANGED <<p_msg, p_recvfrom, p_sendto, q_sending, has_int_msg, msg>>

ReceiveFlag ==
  /\ kpc = "recv_queue"
  /\ Candidates(current, peer) = {}
  /\ p_flags' = [p_flags EXCEPT ![current] = @ \union {"RECEIVING"}]
  /\ p_msg' = [p_msg EXCEPT ![current] = TRUE]
  /\ GoTo("recv_from")
  /\ UNCHANGED <<p_recvfrom, p_sendto, q_sending, has_int_msg, msg>>

ReceiveFrom ==
  /\ kpc = "recv_from"
  /\ p_recvfrom' = [p_recvfrom EXCEPT ![current] = peer]
  /\ GoTo("recv_block")
  /\ UNCHANGED <<p_flags, p_msg, p_sendto, q_sending, has_int_msg, msg>>

(* block(): assert(p->p_flags), then schedule().  *)
ReceiveBlock ==
  /\ kpc = "recv_block"
  /\ IF p_flags[current] # {} THEN GoTo("recv_check") ELSE Halt("268")
  /\ UNCHANGED <<procVars, has_int_msg, msg>>

(* The assertions after block() returns; p_msg and p_recvfrom change only  *)
(* together with p_flags, and p_sendto is never set here.                  *)
ReceiveCheck ==
  /\ kpc = "recv_check"
  /\ IF p_flags[current] # {"RECEIVING"} THEN Halt("583")
     ELSE IF has_int_msg[current] THEN Halt("587") ELSE Return
  /\ UNCHANGED <<procVars, has_int_msg, msg>>

-----------------------------------------------------------------------------
(* inform_int, called by the keyboard, mouse, clock and disk handlers.  *)

AcceptsInterrupt(t) == Receiving(t) /\ TakesInterrupts(p_recvfrom[t])

InformReceiver(t) ==
  /\ AcceptsInterrupt(t)
  /\ msg' = IF p_msg[t]
            THEN [msg EXCEPT ![t] = [source |-> INTERRUPT, type |-> HARD_INT]]
            ELSE msg
  /\ p_msg' = [p_msg EXCEPT ![t] = FALSE]
  /\ has_int_msg' = [has_int_msg EXCEPT ![t] = FALSE]
  /\ p_flags' = [p_flags EXCEPT ![t] = @ \ {"RECEIVING"}]
  /\ p_recvfrom' = [p_recvfrom EXCEPT ![t] = NO_TASK]
  /\ UNCHANGED <<p_sendto, q_sending, kpc, current, peer, cause>>

InformBusy(t) ==
  /\ ~AcceptsInterrupt(t)
  /\ has_int_msg' = [has_int_msg EXCEPT ![t] = TRUE]
  /\ UNCHANGED <<procVars, msg, kpc, current, peer, cause>>

inform_int(t) == InformReceiver(t) \/ InformBusy(t)

-----------------------------------------------------------------------------
msg_send == \/ SendDeadlock \/ SendMatch \/ SendBlock
            \/ SendAssert \/ SendCopy \/ SendNull \/ SendFinish

msg_receive == \/ ReceiveInterrupt \/ ReceiveInterruptCheck \/ ReceiveNoInterrupt
               \/ ReceiveTake \/ ReceiveFlag
               \/ ReceiveFrom \/ ReceiveBlock \/ ReceiveCheck

KernelStep == msg_send \/ msg_receive

Next ==
  \/ \E p \in Procs : CallSend(p) \/ CallReceive(p)
  \/ KernelStep
  \/ \E t \in Informed : inform_int(t)

Spec == Init /\ [][Next]_vars

-----------------------------------------------------------------------------
(* Properties *)

(* Types of the process table's message fields and of the call's locals.   *)
TypeOK ==
  /\ p_flags \in [Procs -> SUBSET {"SENDING", "RECEIVING"}]
  /\ p_msg \in [Procs -> BOOLEAN]
  /\ p_recvfrom \in [Procs -> Procs \union {ANY, INTERRUPT, NO_TASK}]
  /\ p_sendto \in [Procs -> Procs \union {NO_TASK}]
  /\ has_int_msg \in [Procs -> BOOLEAN]
  /\ q_sending \in [Procs -> Seq(Procs)]
  /\ msg \in [Procs -> Message]
  /\ kpc \in Points
  /\ current \in Procs \union {NO_TASK}
  /\ peer \in Procs \union {ANY, INTERRUPT, NO_TASK}
  /\ cause \in Causes

(* The list of a process holds exactly the processes that are blocked      *)
(* sending to it, each once: msg_send and msg_receive keep the list, the   *)
(* SENDING flags and p_sendto in step.                                     *)
QueueExact ==
  \A d \in Procs :
    /\ \A i, j \in DOMAIN q_sending[d] : q_sending[d][i] = q_sending[d][j] => i = j
    /\ \A s \in Procs :
         (\E i \in DOMAIN q_sending[d] : q_sending[d][i] = s)
           <=> Sending(s) /\ p_sendto[s] = d

(* No set of processes wait for each other to receive: the walk of         *)
(* deadlock(), which looks from one process only and only before a send,   *)
(* keeps the whole messaging graph free of cycles (proc.c, comment above   *)
(* deadlock: "A -> B -> C -> A").                                          *)
NoSendCycle ==
  \A S \in (SUBSET Procs) \ {{}} :
    \E p \in S : ~(Sending(p) /\ p_sendto[p] \in S)

(* Nobody waits for a process that is at the same time blocked sending to  *)
(* it: a rendezvous that is possible has happened, even though msg_receive *)
(* looks at the list long before it publishes p_recvfrom.                  *)
NoMissedRendezvous ==
  \A s, d \in Procs : Sending(s) /\ p_sendto[s] = d => ~WaitsFor(d, s)

(* The assertions of msg_send, msg_receive and inform_int on which the     *)
(* actions above do not branch (proc.c 375-382, 387, 408-411, 464-466,     *)
(* 484-492, 512-535, 560 and 614-620) are true where the code makes them,  *)
(* wherever interrupts arrive.                                             *)
OtherAssertionsHold ==
  /\ kpc \in SendPoints \union {"recv_test", "recv_int_check", "recv_queue"} =>
       /\ p_flags[current] = {} /\ ~p_msg[current]
       /\ p_recvfrom[current] = NO_TASK /\ p_sendto[current] = NO_TASK
  /\ kpc = "send_finish" =>
       ~p_msg[peer] /\ p_sendto[peer] = NO_TASK /\ ~Sending(peer)
  /\ kpc = "recv_queue" =>
       /\ \A i \in Candidates(current, peer) :
            LET from == q_sending[current][i] IN
            /\ p_flags[from] = {"SENDING"} /\ p_msg[from]
            /\ p_recvfrom[from] = NO_TASK /\ p_sendto[from] = current
       /\ peer \in Procs /\ Sending(peer) /\ p_sendto[peer] = current =>
            Candidates(current, peer) # {}
  /\ \A t \in Procs : AcceptsInterrupt(t) =>
       ~Sending(t) /\ p_sendto[t] = NO_TASK

(* What the message fields of a process say of each other at every point,  *)
(* and what the call in progress has established so far.                   *)
FieldsConsistent ==
  \A p \in Procs :
    /\ Sending(p) => p_flags[p] = {"SENDING"} /\ p_msg[p] /\ p_recvfrom[p] = NO_TASK
    /\ Sending(p) <=> p_sendto[p] # NO_TASK
    /\ p_recvfrom[p] # NO_TASK => Receiving(p)
    /\ Receiving(p) /\ p_recvfrom[p] = NO_TASK => kpc = "recv_from" /\ p = current
    /\ p_msg[p] => p_flags[p] # {}

CallConsistent ==
  /\ kpc \in SendPoints => current \in Procs /\ peer \in Procs /\ peer # current
  /\ kpc \in ReceivePoints =>
       current \in Procs /\ peer \in Procs \union {ANY, INTERRUPT} /\ peer # current
  /\ kpc \in SendPoints \union {"recv_test", "recv_int_check", "recv_queue"} =>
       p_flags[current] = {}
  /\ kpc \in SendPoints \ {"send_test"} => ~Sending(peer)
  /\ kpc = "send_finish" => ~p_msg[peer]
  /\ kpc = "recv_from" =>
       /\ Receiving(current) /\ p_recvfrom[current] = NO_TASK
       /\ \A s \in Procs : Sending(s) /\ p_sendto[s] = current => peer \notin {s, ANY}
  /\ kpc \in {"recv_block", "recv_check"} => ~Sending(current)

(* The inductive invariant of the module.  *)
IInv ==
  /\ TypeOK
  /\ FieldsConsistent
  /\ CallConsistent
  /\ QueueExact
  /\ NoSendCycle
  /\ NoMissedRendezvous

(* Messages from ANY are taken in the order of arrival: a sender joins a   *)
(* list at its end, and passes an earlier one only when the receiver asked *)
(* for it by number.                                                       *)
Place(q, s) == CHOOSE i \in DOMAIN q : q[i] = s

KeepsOrder(d) ==
  LET q == q_sending[d]
      new == q_sending'[d]
  IN \A a, b \in Procs :
       /\ a \in ToSet(q) /\ b \in ToSet(new) \ ToSet(q) /\ a \in ToSet(new)
            => Place(new, a) < Place(new, b)
       /\ a # b /\ {a, b} \subseteq ToSet(q) /\ Place(q, a) < Place(q, b) =>
            /\ {a, b} \subseteq ToSet(new) => Place(new, a) < Place(new, b)
            /\ a \in ToSet(new) /\ b \notin ToSet(new) => peer = b

NoOvertaking == [][\A d \in Procs : KeepsOrder(d)]_vars

(* A process that blocks to wait for interrupts has none pending: the      *)
(* assertion of proc.c line 587, has_int_msg == 0.                         *)
BlockedWithoutInterrupt ==
  kpc = "recv_check" /\ p_flags[current] = {"RECEIVING"} /\ TakesInterrupts(peer)
    => ~has_int_msg[current]

(* When msg_send found the destination waiting and returns, the            *)
(* destination holds the message that was sent (proc.c, comment above      *)
(* msg_send: "copy the message to it and unblock dest").                   *)
SentMessageDelivered == kpc = "send_finish" => msg[peer] = msg[current]

(* What the kernel promises has happened when the message was copied: the  *)
(* destination no longer waits, although its fields still say so.          *)
Hidden(p) == kpc \in {"send_null", "send_finish"} /\ p = peer

(* An assertion stops the kernel only in a call of, or in a send to, a     *)
(* process that interrupts inform: processes that exchange messages among  *)
(* themselves never meet one, wherever interrupts arrive (proc.c lines     *)
(* 364, 467, 583, 587 and block()'s line 268).                             *)
StopsOnlyForInformed ==
  /\ cause = "364" => peer \in Informed
  /\ cause \in {"268", "467", "583", "587"} => current \in Informed

(* What a call in progress may still rely on when interrupts arrive at any *)
(* point: a process that waits has a buffer and a sender's message names   *)
(* it; the destination that was found waiting waits for the same call or   *)
(* was woken by an interrupt, and still holds what was copied unless one   *)
(* overwrote it; only an informed process is woken or has one pending.     *)
CallInterrupted ==
  /\ \A p \in Procs : Receiving(p) /\ ~Hidden(p) => p_msg[p]
  /\ \A p \in Procs : Sending(p) => msg[p].source = p
  /\ kpc \in SendPoints => msg[current].source = current
  /\ kpc \in {"send_assert", "send_copy"} /\ Receiving(peer) => WaitsFor(peer, current)
  /\ kpc \in {"send_null", "send_finish"} /\ Receiving(peer) => msg[peer] = msg[current]
  /\ kpc \in SendPoints \ {"send_test"} => Receiving(peer) \/ peer \in Informed
  /\ kpc \in {"recv_from", "recv_block", "recv_check"} =>
       Receiving(current) \/ current \in Informed
  /\ \A p \in Procs \ Informed : ~has_int_msg[p]
  /\ cause # "none" => kpc = "halted"
  /\ StopsOnlyForInformed

(* The state of Rendezvous that a state of the kernel stands for, and the  *)
(* refinement: the message system keeps the promise of Rendezvous, but for *)
(* what SpecInterrupted says interrupts inside a call do.                  *)
Status(p) ==
  IF Sending(p) THEN "sending"
  ELSE IF Receiving(p) /\ p_recvfrom[p] # NO_TASK /\ ~Hidden(p)
       THEN "receiving" ELSE "ready"

Partner(p) ==
  IF Sending(p) THEN p_sendto[p] ELSE IF Hidden(p) THEN NO_TASK ELSE p_recvfrom[p]

StatusBar == [p \in Procs |-> Status(p)]
PartnerBar == [p \in Procs |-> Partner(p)]

WaitingBar ==
  [d \in Procs |-> [i \in DOMAIN q_sending[d] |-> msg[q_sending[d][i]]]]

Inbox(p) == IF msg[p].source = p THEN NO_TASK ELSE msg[p]

InboxBar == [p \in Procs |-> Inbox(p)]

R == INSTANCE Rendezvous WITH
  status <- StatusBar, partner <- PartnerBar, waiting <- WaitingBar,
  inbox <- InboxBar, pending <- has_int_msg

Rendezvous == R!SpecInterrupted
=============================================================================
