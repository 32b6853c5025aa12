------------------------------ MODULE Rendezvous ------------------------------
(***************************************************************************)
(* What the message system of the kernel promises its processes, with no   *)
(* intermediate states: a message passes from sender to receiver in one    *)
(* step, whichever of the two came first; messages for a process that      *)
(* waits for ANY arrive in order; an interrupt wakes the process that      *)
(* waits for it and is remembered otherwise, once; nobody starts a send    *)
(* that closes a cycle of senders.  Spec is the promise; SpecInterrupted   *)
(* adds what the kernel does when interrupts arrive in the middle of a     *)
(* call.                                                                   *)
(***************************************************************************)
EXTENDS Naturals, Sequences, SequencesExt

CONSTANTS Procs, Informed, Types, ANY, INTERRUPT, NO_TASK, HARD_INT

VARIABLES
  status,     (* "ready", "sending" or "receiving"                         *)
  partner,    (* whom a blocked process waits for                          *)
  waiting,    (* the messages waiting for a process, in order of arrival   *)
  inbox,      (* the message a process got last, or NO_TASK                *)
  pending     (* whether an interrupt is remembered for a process          *)

vars == <<status, partner, waiting, inbox, pending>>

IntMessage == [source |-> INTERRUPT, type |-> HARD_INT]

Init ==
  /\ status = [p \in Procs |-> "ready"]
  /\ partner = [p \in Procs |-> NO_TASK]
  /\ waiting = [p \in Procs |-> <<>>]
  /\ inbox = [p \in Procs |-> NO_TASK]
  /\ pending = [p \in Procs |-> FALSE]

Expects(d, s) == status[d] = "receiving" /\ partner[d] \in {s, ANY}

(* A process starts another call: the message it got last is gone.  *)
Reuse(p) ==
  /\ status[p] = "ready"
  /\ inbox' = [inbox EXCEPT ![p] = NO_TASK]
  /\ UNCHANGED <<status, partner, waiting, pending>>

(* No set of processes all send to members of the set.  *)
Acyclic(st, to) ==
  ~\E S \in (SUBSET Procs) \ {{}} :
     \A p \in S : st[p] = "sending" /\ to[p] \in S

SendWait(s, d, t) ==
  /\ status[s] = "ready" /\ s # d /\ ~Expects(d, s)
  /\ status' = [status EXCEPT ![s] = "sending"]
  /\ partner' = [partner EXCEPT ![s] = d]
  /\ Acyclic(status', partner')
  /\ waiting' = [waiting EXCEPT ![d] = Append(@, [source |-> s, type |-> t])]
  /\ UNCHANGED <<inbox, pending>>

SendDeliver(s, d, t) ==
  /\ status[s] = "ready" /\ Expects(d, s)
  /\ status' = [status EXCEPT ![d] = "ready"]
  /\ partner' = [partner EXCEPT ![d] = NO_TASK]
  /\ inbox' = [inbox EXCEPT ![d] = [source |-> s, type |-> t]]
  /\ UNCHANGED <<waiting, pending>>

(* The messages process d may take when it asks for src: any from src, the *)
(* oldest one for ANY.                                                     *)
Acceptable(d, src) ==
  {i \in DOMAIN waiting[d] : IF src = ANY THEN i = 1 ELSE waiting[d][i].source = src}

AnswersInterrupt(d, src) == pending[d] /\ src \in {ANY, INTERRUPT}

ReceiveTake(d, src) ==
  /\ status[d] = "ready" /\ ~AnswersInterrupt(d, src)
  /\ \E i \in Acceptable(d, src) :
       LET m == waiting[d][i] IN
       /\ inbox' = [inbox EXCEPT ![d] = m]
       /\ waiting' = [waiting EXCEPT ![d] = RemoveAt(@, i)]
       /\ status' = [status EXCEPT ![m.source] = "ready"]
       /\ partner' = [partner EXCEPT ![m.source] = NO_TASK]
  /\ UNCHANGED pending

ReceiveInterrupt(d) ==
  /\ status[d] = "ready" /\ pending[d]
  /\ inbox' = [inbox EXCEPT ![d] = IntMessage]
  /\ pending' = [pending EXCEPT ![d] = FALSE]
  /\ UNCHANGED <<status, partner, waiting>>

ReceiveWait(d, src) ==
  /\ status[d] = "ready" /\ ~AnswersInterrupt(d, src) /\ Acceptable(d, src) = {}
  /\ status' = [status EXCEPT ![d] = "receiving"]
  /\ partner' = [partner EXCEPT ![d] = src]
  /\ UNCHANGED <<waiting, inbox, pending>>

Interrupt(t) ==
  IF status[t] = "receiving" /\ partner[t] \in {ANY, INTERRUPT}
  THEN /\ status' = [status EXCEPT ![t] = "ready"]
       /\ partner' = [partner EXCEPT ![t] = NO_TASK]
       /\ inbox' = [inbox EXCEPT ![t] = IntMessage]
       /\ UNCHANGED <<waiting, pending>>
  ELSE /\ pending' = [pending EXCEPT ![t] = TRUE]
       /\ UNCHANGED <<status, partner, waiting, inbox>>

Next ==
  \/ \E p \in Procs : Reuse(p) \/ ReceiveInterrupt(p)
  \/ \E s, d \in Procs, t \in Types \union {HARD_INT} :
       SendWait(s, d, t) \/ SendDeliver(s, d, t)
  \/ \E d \in Procs, src \in Procs \union {ANY, INTERRUPT} :
       ReceiveTake(d, src) \/ ReceiveWait(d, src)
  \/ \E t \in Informed : Interrupt(t)

Spec == Init /\ [][Next]_vars

-----------------------------------------------------------------------------
(* The kernel runs a call with interrupts enabled and keeps less than that *)
(* promise to the processes that interrupts inform.  These steps are what  *)
(* an interrupt in the middle of a call may do to them besides Interrupt;  *)
(* no step of another process is affected.                                 *)

(* A process takes a message, or waits, although an interrupt that it      *)
(* would take instead has arrived since the call looked for one.           *)
TakeAnyway(d, src) ==
  /\ status[d] = "ready" /\ AnswersInterrupt(d, src)
  /\ \E i \in Acceptable(d, src) :
       LET m == waiting[d][i] IN
       /\ inbox' = [inbox EXCEPT ![d] = m]
       /\ waiting' = [waiting EXCEPT ![d] = RemoveAt(@, i)]
       /\ status' = [status EXCEPT ![m.source] = "ready"]
       /\ partner' = [partner EXCEPT ![m.source] = NO_TASK]
  /\ UNCHANGED pending

WaitAnyway(d, src) ==
  /\ status[d] = "ready" /\ AnswersInterrupt(d, src) /\ Acceptable(d, src) = {}
  /\ status' = [status EXCEPT ![d] = "receiving"]
  /\ partner' = [partner EXCEPT ![d] = src]
  /\ UNCHANGED <<waiting, inbox, pending>>

(* The next interrupt wakes such a waiter; the earlier one is forgotten.   *)
WakeLate(t) ==
  /\ status[t] = "receiving" /\ AnswersInterrupt(t, partner[t])
  /\ status' = [status EXCEPT ![t] = "ready"]
  /\ partner' = [partner EXCEPT ![t] = NO_TASK]
  /\ inbox' = [inbox EXCEPT ![t] = IntMessage]
  /\ pending' = [pending EXCEPT ![t] = FALSE]
  /\ UNCHANGED waiting

(* An interrupt finds a process to which a message was just delivered      *)
(* still marked as waiting: it is not remembered, nor is an earlier one,   *)
(* and the message may be overwritten.                                     *)
Overrun(t) ==
  /\ status[t] = "ready"
  /\ \E s \in Procs, type \in Types \union {HARD_INT} :
       inbox[t] = [source |-> s, type |-> type]
  /\ inbox' \in {inbox, [inbox EXCEPT ![t] = IntMessage]}
  /\ pending' = [pending EXCEPT ![t] = FALSE]
  /\ UNCHANGED <<status, partner, waiting>>

NextInterrupted ==
  \/ Next
  \/ \E d \in Informed : WakeLate(d) \/ Overrun(d)
  \/ \E d \in Informed, src \in {ANY, INTERRUPT} : TakeAnyway(d, src) \/ WaitAnyway(d, src)

SpecInterrupted == Init /\ [][NextInterrupted]_vars
=============================================================================
