------------------------------ MODULE IpcProofs ------------------------------
(***************************************************************************)
(* The safety properties of Ipc hold for every set of processes, of        *)
(* informed tasks and of message types, and wherever interrupts arrive;    *)
(* and the kernel implements Rendezvous!SpecInterrupted.                   *)
(***************************************************************************)
EXTENDS Ipc, RemovalLemmas, SequenceTheorems, TLAPS

-----------------------------------------------------------------------------
(* The initial states *)

LEMMA InitInvariant == Init => IInv
<1> SUFFICES ASSUME Init PROVE IInv
  OBVIOUS
<1> USE IpcAssumption DEF Init
<1>1. TypeOK
  BY DEF TypeOK, Message, Points, Causes
<1>2. FieldsConsistent
  BY DEF FieldsConsistent, Sending, Receiving
<1>3. CallConsistent
  BY DEF CallConsistent, SendPoints, ReceivePoints
<1>4. QueueExact
  BY DEF QueueExact, Sending
<1>5. NoSendCycle
  BY DEF NoSendCycle, Sending
<1>6. NoMissedRendezvous
  BY DEF NoMissedRendezvous, Sending
<1> QED BY <1>1, <1>2, <1>3, <1>4, <1>5, <1>6 DEF IInv

-----------------------------------------------------------------------------
(* Steps that change neither who is sending to whom nor the lists.  *)

SameSenders ==
  /\ UNCHANGED <<p_sendto, q_sending>>
  /\ \A p \in Procs : Sending(p)' <=> Sending(p)

LEMMA SameSendersStep ==
  QueueExact /\ NoSendCycle /\ SameSenders => QueueExact' /\ NoSendCycle'
<1> SUFFICES ASSUME QueueExact, NoSendCycle, SameSenders
             PROVE  QueueExact' /\ NoSendCycle'
  OBVIOUS
<1>1. QueueExact'
  BY DEF QueueExact, SameSenders
<1>2. NoSendCycle'
  BY DEF NoSendCycle, SameSenders
<1> QED BY <1>1, <1>2

(* Steps that leave the message fields alone.  *)
LEMMA SameProcVars ==
  QueueExact /\ NoSendCycle /\ NoMissedRendezvous /\ UNCHANGED procVars
    => QueueExact' /\ NoSendCycle' /\ NoMissedRendezvous'
BY DEF QueueExact, NoSendCycle, NoMissedRendezvous, WaitsFor, Sending, Receiving, procVars

LEMMA EnterStep ==
  ASSUME NEW p \in Procs, NEW point \in {"send_test", "recv_test"},
         NEW srcDest \in Procs \union {ANY, INTERRUPT}, NEW type \in Types \union {HARD_INT},
         point = "send_test" => srcDest \in Procs
  PROVE  IInv /\ Enter(p, point, srcDest, type) => IInv'
<1> SUFFICES ASSUME IInv, Enter(p, point, srcDest, type) PROVE IInv'
  OBVIOUS
<1> USE IpcAssumption DEF IInv, Enter
<1>1. TypeOK'
  BY DEF TypeOK, procVars, CallConsistent, Message, Points, SendPoints, ReceivePoints, Causes
<1>2. FieldsConsistent'
  BY DEF TypeOK, FieldsConsistent, CallConsistent, Sending, Receiving, procVars,
         SendPoints, ReceivePoints
<1>3. CallConsistent'
  BY DEF TypeOK, FieldsConsistent, CallConsistent, SendPoints, ReceivePoints,
         Sending, Receiving, procVars
<1>4. QueueExact' /\ NoSendCycle' /\ NoMissedRendezvous'
  BY SameProcVars
<1> QED BY <1>1, <1>2, <1>3, <1>4

(* msg_send *)

LEMMA SendDeadlockStep ==
  IInv /\ SendDeadlock => IInv'
<1> SUFFICES ASSUME IInv, SendDeadlock PROVE IInv'
  OBVIOUS
<1> USE IpcAssumption DEF IInv, SendDeadlock, Halt
<1>1. TypeOK'
  BY DEF TypeOK, procVars, CallConsistent, Message, Points, SendPoints, ReceivePoints, Causes
<1>2. FieldsConsistent'
  BY DEF TypeOK, FieldsConsistent, CallConsistent, Sending, Receiving, procVars,
         SendPoints, ReceivePoints
<1>3. CallConsistent'
  BY DEF TypeOK, FieldsConsistent, CallConsistent, SendPoints, ReceivePoints,
         Sending, Receiving, procVars
<1>4. QueueExact' /\ NoSendCycle' /\ NoMissedRendezvous'
  BY SameProcVars
<1> QED BY <1>1, <1>2, <1>3, <1>4

LEMMA SendMatchStep ==
  IInv /\ SendMatch => IInv'
<1> SUFFICES ASSUME IInv, SendMatch PROVE IInv'
  OBVIOUS
<1> USE IpcAssumption DEF IInv, SendMatch, GoTo
<1>1. TypeOK'
  BY DEF TypeOK, procVars, CallConsistent, Message, Points, SendPoints, ReceivePoints, Causes
<1>2. FieldsConsistent'
  BY DEF TypeOK, FieldsConsistent, CallConsistent, Sending, Receiving, procVars,
         SendPoints, ReceivePoints, WaitsFor
<1>3. CallConsistent'
  BY DEF TypeOK, FieldsConsistent, CallConsistent, SendPoints, ReceivePoints,
         Sending, Receiving, procVars, WaitsFor
<1>4. QueueExact' /\ NoSendCycle' /\ NoMissedRendezvous'
  BY SameProcVars
<1> QED BY <1>1, <1>2, <1>3, <1>4

(* The new edge closes no cycle: a cycle through the sender would run      *)
(* along the chain that deadlock() followed from the destination.          *)
LEMMA SendBlockNoCycle ==
  IInv /\ SendBlock => NoSendCycle'
<1> SUFFICES ASSUME IInv, SendBlock, NEW S \in SUBSET Procs, S # {},
                    \A p \in S : Sending(p)' /\ p_sendto'[p] \in S
             PROVE  FALSE
  BY DEF NoSendCycle
<1>1. current \in Procs /\ peer \in Procs /\ peer # current /\ p_flags[current] = {}
  BY DEF IInv, CallConsistent, SendBlock, SendPoints
<1>2. \A p \in Procs \ {current} :
        (Sending(p)' <=> Sending(p)) /\ p_sendto'[p] = p_sendto[p]
  BY <1>1 DEF IInv, TypeOK, SendBlock, Sending
<1>3. CASE current \notin S
  BY <1>2, <1>3 DEF IInv, NoSendCycle
<1>4. CASE current \in S
  <2>1. peer \in S
    BY <1>1, <1>4 DEF SendBlock, IInv, TypeOK
  <2>2. PICK T \in SUBSET Procs : /\ peer \in T /\ ClosedUnderSendto(T)
                                 /\ ~SendsTo(T, current)
    BY DEF SendBlock, deadlock
  <2> DEFINE U == (S \intersect T) \ {current}
  <2>3. U \in (SUBSET Procs) \ {{}}
    BY <1>1, <2>1, <2>2
  <2>4. ASSUME NEW p \in U PROVE Sending(p) /\ p_sendto[p] \in U
    <3>1. Sending(p) /\ p_sendto[p] \in S
      BY <1>2
    <3>2. p_sendto[p] \in T /\ p_sendto[p] # current
      BY <2>2, <3>1 DEF ClosedUnderSendto, SendsTo
    <3> QED BY <3>1, <3>2
  <2> HIDE DEF U
  <2> QED BY <2>3, <2>4 DEF IInv, NoSendCycle
<1> QED BY <1>3, <1>4

LEMMA SendBlockStep ==
  IInv /\ SendBlock => IInv'
<1> SUFFICES ASSUME IInv, SendBlock PROVE IInv'
  OBVIOUS
<1> USE IpcAssumption DEF IInv, SendBlock, Return
<1>1. TypeOK'
  BY DEF TypeOK, CallConsistent, Message, Points, SendPoints, ReceivePoints, Causes
<1>2. FieldsConsistent'
  BY DEF TypeOK, FieldsConsistent, CallConsistent, Sending, Receiving,
         SendPoints, ReceivePoints
<1>3. CallConsistent'
  BY DEF CallConsistent, SendPoints, ReceivePoints
<1>4. QueueExact'
  <2>1. current \in Procs /\ peer \in Procs /\ ~Sending(current)
    BY DEF CallConsistent, SendPoints, Sending
  <2>2. \A s \in Procs : /\ Sending(s)' <=> (Sending(s) \/ s = current)
                         /\ p_sendto'[s] = IF s = current THEN peer ELSE p_sendto[s]
    BY <2>1 DEF TypeOK, Sending
  <2> SUFFICES ASSUME NEW d \in Procs
               PROVE  /\ \A i, j \in DOMAIN q_sending'[d] :
                           q_sending'[d][i] = q_sending'[d][j] => i = j
                      /\ \A s \in Procs :
                           (\E i \in DOMAIN q_sending'[d] : q_sending'[d][i] = s)
                             <=> Sending(s)' /\ p_sendto'[s] = d
    BY DEF QueueExact
  <2> DEFINE q == q_sending[d]
  <2>3. /\ \A i, j \in DOMAIN q : q[i] = q[j] => i = j
        /\ \A s \in Procs : (\E i \in DOMAIN q : q[i] = s) <=> Sending(s) /\ p_sendto[s] = d
    BY DEF QueueExact
  <2>4. CASE d = peer
    <3>1. q_sending'[d] = Append(q, current) /\ q \in Seq(Procs)
      BY <2>4 DEF TypeOK
    <3>2. /\ DOMAIN q = 1..Len(q) /\ Len(q) \in Nat
          /\ DOMAIN Append(q, current) = 1..(Len(q) + 1)
          /\ \A i \in 1..Len(q) : Append(q, current)[i] = q[i]
          /\ Append(q, current)[Len(q) + 1] = current
      BY <2>1, <3>1
    <3>3. \A i \in DOMAIN q : q[i] # current
      BY <2>1, <2>3
    <3> HIDE DEF q
    <3>4. \A i, j \in 1..(Len(q) + 1) :
            Append(q, current)[i] = Append(q, current)[j] => i = j
      BY <2>3, <3>2, <3>3
    <3>5. ASSUME NEW s \in Procs
          PROVE  (\E i \in 1..(Len(q) + 1) : Append(q, current)[i] = s)
                   <=> s = current \/ \E i \in DOMAIN q : q[i] = s
      BY <3>2
    <3> DEFINE r == Append(q, current)
    <3>6. DOMAIN r = 1..(Len(q) + 1) /\ q_sending'[d] = r
      BY <3>1, <3>2
    <3>7. \A s \in Procs : Sending(s)' /\ p_sendto'[s] = d
                            <=> s = current \/ \E i \in DOMAIN q : q[i] = s
      BY <2>1, <2>2, <2>3, <2>4
    <3>8. \A i, j \in 1..(Len(q) + 1) : r[i] = r[j] => i = j
      BY <3>4
    <3>9. \A s \in Procs : (\E i \in 1..(Len(q) + 1) : r[i] = s)
                            <=> s = current \/ \E i \in DOMAIN q : q[i] = s
      BY <3>5
    <3> HIDE DEF r
    <3>10. \A i, j \in DOMAIN q_sending'[d] :
             q_sending'[d][i] = q_sending'[d][j] => i = j
      BY <3>6, <3>8
    <3>11. ASSUME NEW s \in Procs
           PROVE  (\E i \in DOMAIN q_sending'[d] : q_sending'[d][i] = s)
                    <=> Sending(s)' /\ p_sendto'[s] = d
      <4>1. (\E i \in DOMAIN q_sending'[d] : q_sending'[d][i] = s)
              <=> s = current \/ \E i \in DOMAIN q : q[i] = s
        BY <3>6, <3>9
      <4> QED BY <4>1, <3>7
    <3> QED BY <3>10, <3>11
  <2>5. CASE d # peer
    <3>1. q_sending'[d] = q
      BY <2>5 DEF TypeOK
    <3> HIDE DEF q
    <3> QED BY <2>1, <2>2, <2>3, <2>5, <3>1
  <2> QED BY <2>4, <2>5
<1>5. NoSendCycle'
  BY SendBlockNoCycle
<1>6. NoMissedRendezvous'
  BY DEF NoMissedRendezvous, TypeOK, CallConsistent, SendPoints, WaitsFor, Sending, Receiving
<1> QED BY <1>1, <1>2, <1>3, <1>4, <1>5, <1>6

LEMMA SendAssertStep ==
  IInv /\ SendAssert => IInv'
<1> SUFFICES ASSUME IInv, SendAssert PROVE IInv'
  OBVIOUS
<1> USE IpcAssumption DEF IInv, SendAssert, GoTo, Halt
<1>1. TypeOK'
  BY DEF TypeOK, procVars, CallConsistent, Message, Points, SendPoints, ReceivePoints, Causes
<1>2. FieldsConsistent'
  BY DEF TypeOK, FieldsConsistent, CallConsistent, Sending, Receiving, procVars,
         SendPoints, ReceivePoints
<1>3. CallConsistent'
  BY DEF TypeOK, FieldsConsistent, CallConsistent, SendPoints, ReceivePoints,
         Sending, Receiving, procVars
<1>4. QueueExact' /\ NoSendCycle' /\ NoMissedRendezvous'
  BY SameProcVars
<1> QED BY <1>1, <1>2, <1>3, <1>4

LEMMA SendCopyStep ==
  IInv /\ SendCopy => IInv'
<1> SUFFICES ASSUME IInv, SendCopy PROVE IInv'
  OBVIOUS
<1> USE IpcAssumption DEF IInv, SendCopy, GoTo
<1>1. TypeOK'
  BY DEF TypeOK, procVars, CallConsistent, Message, Points, SendPoints, ReceivePoints, Causes
<1>2. FieldsConsistent'
  BY DEF TypeOK, FieldsConsistent, CallConsistent, Sending, Receiving, procVars,
         SendPoints, ReceivePoints
<1>3. CallConsistent'
  BY DEF TypeOK, FieldsConsistent, CallConsistent, SendPoints, ReceivePoints,
         Sending, Receiving, procVars
<1>4. QueueExact' /\ NoSendCycle' /\ NoMissedRendezvous'
  BY SameProcVars
<1> QED BY <1>1, <1>2, <1>3, <1>4

LEMMA SendNullStep ==
  IInv /\ SendNull => IInv'
<1> SUFFICES ASSUME IInv, SendNull PROVE IInv'
  OBVIOUS
<1> USE IpcAssumption DEF IInv, SendNull, GoTo
<1>1. TypeOK'
  BY DEF TypeOK, CallConsistent, Message, Points, SendPoints, ReceivePoints, Causes
<1>2. FieldsConsistent'
  BY DEF TypeOK, FieldsConsistent, CallConsistent, Sending, Receiving,
         SendPoints, ReceivePoints
<1>3. CallConsistent'
  BY DEF TypeOK, FieldsConsistent, CallConsistent, SendPoints, ReceivePoints,
         Sending, Receiving
<1>4. SameSenders
  BY DEF SameSenders, Sending, TypeOK
<1>5. QueueExact' /\ NoSendCycle'
  BY <1>4, SameSendersStep
<1>6. NoMissedRendezvous'
  BY DEF NoMissedRendezvous, WaitsFor, Sending, Receiving, TypeOK, CallConsistent,
         SendPoints, ReceivePoints
<1> QED BY <1>1, <1>2, <1>3, <1>5, <1>6

LEMMA SendFinishStep ==
  IInv /\ SendFinish => IInv'
<1> SUFFICES ASSUME IInv, SendFinish PROVE IInv'
  OBVIOUS
<1> USE IpcAssumption DEF IInv, SendFinish, Return
<1>1. TypeOK'
  BY DEF TypeOK, CallConsistent, Message, Points, SendPoints, ReceivePoints, Causes
<1>2. FieldsConsistent'
  BY DEF TypeOK, FieldsConsistent, CallConsistent, Sending, Receiving,
         SendPoints, ReceivePoints
<1>3. CallConsistent'
  BY DEF TypeOK, FieldsConsistent, CallConsistent, SendPoints, ReceivePoints,
         Sending, Receiving
<1>4. SameSenders
  BY DEF SameSenders, Sending, TypeOK
<1>5. QueueExact' /\ NoSendCycle'
  BY <1>4, SameSendersStep
<1>6. NoMissedRendezvous'
  BY DEF NoMissedRendezvous, WaitsFor, Sending, Receiving, TypeOK, CallConsistent,
         SendPoints, ReceivePoints
<1> QED BY <1>1, <1>2, <1>3, <1>5, <1>6

(* msg_receive *)

LEMMA ReceiveInterruptStep ==
  IInv /\ ReceiveInterrupt => IInv'
<1> SUFFICES ASSUME IInv, ReceiveInterrupt PROVE IInv'
  OBVIOUS
<1> USE IpcAssumption DEF IInv, ReceiveInterrupt, GoTo
<1>1. TypeOK'
  BY DEF TypeOK, procVars, CallConsistent, Message, Points, SendPoints, ReceivePoints, Causes
<1>2. FieldsConsistent'
  BY DEF TypeOK, FieldsConsistent, CallConsistent, Sending, Receiving, procVars,
         SendPoints, ReceivePoints
<1>3. CallConsistent'
  BY DEF TypeOK, FieldsConsistent, CallConsistent, SendPoints, ReceivePoints,
         Sending, Receiving, procVars
<1>4. QueueExact' /\ NoSendCycle' /\ NoMissedRendezvous'
  BY SameProcVars
<1> QED BY <1>1, <1>2, <1>3, <1>4

LEMMA ReceiveInterruptCheckStep ==
  IInv /\ ReceiveInterruptCheck => IInv'
<1> SUFFICES ASSUME IInv, ReceiveInterruptCheck PROVE IInv'
  OBVIOUS
<1> USE IpcAssumption DEF IInv, ReceiveInterruptCheck, Return, Halt
<1>1. TypeOK'
  BY DEF TypeOK, procVars, CallConsistent, Message, Points, SendPoints, ReceivePoints, Causes
<1>2. FieldsConsistent'
  BY DEF TypeOK, FieldsConsistent, CallConsistent, Sending, Receiving, procVars,
         SendPoints, ReceivePoints
<1>3. CallConsistent'
  BY DEF TypeOK, FieldsConsistent, CallConsistent, SendPoints, ReceivePoints,
         Sending, Receiving, procVars
<1>4. QueueExact' /\ NoSendCycle' /\ NoMissedRendezvous'
  BY SameProcVars
<1> QED BY <1>1, <1>2, <1>3, <1>4

LEMMA ReceiveNoInterruptStep ==
  IInv /\ ReceiveNoInterrupt => IInv'
<1> SUFFICES ASSUME IInv, ReceiveNoInterrupt PROVE IInv'
  OBVIOUS
<1> USE IpcAssumption DEF IInv, ReceiveNoInterrupt, GoTo
<1>1. TypeOK'
  BY DEF TypeOK, procVars, CallConsistent, Message, Points, SendPoints, ReceivePoints, Causes
<1>2. FieldsConsistent'
  BY DEF TypeOK, FieldsConsistent, CallConsistent, Sending, Receiving, procVars,
         SendPoints, ReceivePoints
<1>3. CallConsistent'
  BY DEF TypeOK, FieldsConsistent, CallConsistent, SendPoints, ReceivePoints,
         Sending, Receiving, procVars
<1>4. QueueExact' /\ NoSendCycle' /\ NoMissedRendezvous'
  BY SameProcVars
<1> QED BY <1>1, <1>2, <1>3, <1>4

LEMMA ReceiveTakeStep ==
  IInv /\ ReceiveTake => IInv'
<1> SUFFICES ASSUME IInv, ReceiveTake,
                    NEW k \in Candidates(current, peer),
                    TakeMessage(q_sending[current][k]),
                    q_sending' = [q_sending EXCEPT ![current] = RemoveAt(@, k)]
             PROVE  IInv'
  BY DEF ReceiveTake
<1> USE IpcAssumption DEF IInv, Return, TakeMessage
<1> DEFINE q == q_sending[current]
           from == q[k]
<1>1. /\ kpc = "recv_queue" /\ kpc' = "user" /\ current' = NO_TASK /\ peer' = NO_TASK
      /\ UNCHANGED <<p_recvfrom, has_int_msg, cause>>
  BY DEF ReceiveTake
<1>2. current \in Procs /\ p_flags[current] = {}
  BY <1>1 DEF CallConsistent, ReceivePoints
<1>3. q \in Seq(Procs) /\ k \in DOMAIN q /\ from \in Procs
  BY <1>2 DEF TypeOK, Candidates
<1>4. Sending(from) /\ p_sendto[from] = current /\ from # current
  BY <1>2, <1>3 DEF QueueExact, Sending
<1>5. /\ p_flags' = [p_flags EXCEPT ![from] = @ \ {"SENDING"}]
      /\ p_sendto' = [p_sendto EXCEPT ![from] = NO_TASK]
      /\ p_msg' = [p_msg EXCEPT ![from] = FALSE]
      /\ msg' = [msg EXCEPT ![current] = msg[from]]
  OBVIOUS
<1>6. /\ RemoveAt(q, k) \in Seq(Procs)
      /\ DOMAIN RemoveAt(q, k) = 1..(Len(q) - 1)
      /\ \A j \in 1..(Len(q) - 1) : RemoveAt(q, k)[j] = IF j < k THEN q[j] ELSE q[j + 1]
  BY <1>3, RemoveAtProperties
<1>7. q_sending' = [d \in Procs |-> IF d = current THEN RemoveAt(q, k) ELSE q_sending[d]]
  <2>1. DOMAIN q_sending = Procs
    BY DEF TypeOK
  <2> HIDE DEF IInv, TakeMessage
  <2> QED BY <2>1, Zenon
<1> HIDE DEF q, from
<1>8. TypeOK'
  <2>1. q_sending' \in [Procs -> Seq(Procs)]
    <3>1. RemoveAt(q, k) \in Seq(Procs) /\ \A d \in Procs : q_sending[d] \in Seq(Procs)
      BY <1>6 DEF TypeOK
    <3> QED BY ONLY <1>7, <3>1, Zenon
  <2>2. /\ p_flags' \in [Procs -> SUBSET {"SENDING", "RECEIVING"}]
        /\ p_msg' \in [Procs -> BOOLEAN]
        /\ p_sendto' \in [Procs -> Procs \union {NO_TASK}]
        /\ msg' \in [Procs -> Message]
    <3>1. msg[from] \in Message /\ msg' \in [Procs -> Message]
      BY <1>2, <1>3, <1>5 DEF TypeOK
    <3>2. p_sendto' \in [Procs -> Procs \union {NO_TASK}] /\ p_msg' \in [Procs -> BOOLEAN]
      BY <1>3, <1>5 DEF TypeOK
    <3>3. p_flags' \in [Procs -> SUBSET {"SENDING", "RECEIVING"}]
      <4> DEFINE F == SUBSET {"SENDING", "RECEIVING"}
      <4>1. p_flags \in [Procs -> F] /\ p_flags[from] \ {"SENDING"} \in F
        BY <1>3 DEF TypeOK
      <4>2. p_flags' = [p_flags EXCEPT ![from] = p_flags[from] \ {"SENDING"}]
        BY <1>5
      <4> HIDE DEF F
      <4>3. p_flags' \in [Procs -> F]
        BY ONLY <4>1, <4>2
      <4> QED BY <4>3 DEF F
    <3> QED BY <3>1, <3>2, <3>3
  <2> QED BY <2>1, <2>2, <1>1 DEF TypeOK, Points
<1>9. \A s \in Procs : /\ Sending(s)' <=> Sending(s) /\ s # from
                       /\ p_sendto'[s] = IF s = from THEN NO_TASK ELSE p_sendto[s]
                       /\ Receiving(s)' <=> Receiving(s)
  BY <1>3, <1>5 DEF TypeOK, Sending, Receiving
<1>10. FieldsConsistent'
  BY <1>1, <1>3, <1>4, <1>5 DEF TypeOK, FieldsConsistent, Sending, Receiving
<1>11. CallConsistent'
  BY <1>1 DEF CallConsistent, SendPoints, ReceivePoints
<1>12. QueueExact'
  <2> SUFFICES ASSUME NEW d \in Procs
               PROVE  /\ \A i, j \in DOMAIN q_sending'[d] :
                           q_sending'[d][i] = q_sending'[d][j] => i = j
                      /\ \A s \in Procs :
                           (\E i \in DOMAIN q_sending'[d] : q_sending'[d][i] = s)
                             <=> Sending(s)' /\ p_sendto'[s] = d
    BY DEF QueueExact
  <2>1. CASE d = current
    <3> DEFINE r == RemoveAt(q, k)
    <3>1. q_sending'[d] = r
      BY <2>1, <1>2, <1>7 DEF TypeOK
    <3>2. /\ \A i, j \in DOMAIN q : q[i] = q[j] => i = j
          /\ \A s \in Procs : (\E i \in DOMAIN q : q[i] = s)
                              <=> Sending(s) /\ p_sendto[s] = current
      BY <1>2 DEF QueueExact, q
    <3>3. Len(q) \in Nat /\ DOMAIN q = 1..Len(q) /\ k \in 1..Len(q)
      BY <1>3
    <3>4. DOMAIN r = 1..(Len(q) - 1)
      BY <1>6
    <3>5. \A j \in 1..(Len(q) - 1) : r[j] = IF j < k THEN q[j] ELSE q[j + 1]
      BY <1>6
    <3> HIDE DEF r
    <3>6. \A i, j \in 1..(Len(q) - 1) : r[i] = r[j] => i = j
      BY <3>2, <3>3, <3>5
    <3>7. ASSUME NEW s \in Procs
          PROVE  (\E i \in 1..(Len(q) - 1) : r[i] = s)
                   <=> s # from /\ \E i \in DOMAIN q : q[i] = s
      <4>1. ASSUME NEW i \in 1..(Len(q) - 1), r[i] = s
            PROVE  s # from /\ \E j \in DOMAIN q : q[j] = s
        BY <4>1, <3>2, <3>3, <3>5 DEF from
      <4>2. ASSUME s # from, NEW i \in DOMAIN q, q[i] = s
            PROVE  \E j \in 1..(Len(q) - 1) : r[j] = s
        <5>1. CASE i < k
          <6>1. i \in 1..(Len(q) - 1) /\ r[i] = s
            BY <5>1, <4>2, <3>3, <3>5
          <6> QED BY <6>1
        <5>2. CASE i > k
          <6>1. i - 1 \in 1..(Len(q) - 1) /\ r[i - 1] = s
            BY <5>2, <4>2, <3>3, <3>5
          <6> QED BY <6>1
        <5>3. i # k
          BY <4>2 DEF from
        <5> QED BY <5>1, <5>2, <5>3, <3>3
      <4> QED BY <4>1, <4>2
    <3> QED BY <2>1, <3>1, <3>2, <3>4, <3>6, <3>7, <1>2, <1>9
  <2>2. CASE d # current
    <3>1. q_sending'[d] = q_sending[d]
      BY <2>2, <1>7 DEF TypeOK
    <3>2. \A s \in Procs : Sending(s)' /\ p_sendto'[s] = d <=> Sending(s) /\ p_sendto[s] = d
      BY <2>2, <1>4, <1>9
    <3> QED BY <3>1, <3>2 DEF QueueExact
  <2> QED BY <2>1, <2>2
<1>13. NoSendCycle'
  BY <1>9 DEF NoSendCycle
<1>14. NoMissedRendezvous'
  BY <1>1, <1>9 DEF NoMissedRendezvous, WaitsFor
<1> QED BY <1>8, <1>10, <1>11, <1>12, <1>13, <1>14

LEMMA ReceiveFlagStep ==
  IInv /\ ReceiveFlag => IInv'
<1> SUFFICES ASSUME IInv, ReceiveFlag PROVE IInv'
  OBVIOUS
<1> USE IpcAssumption DEF IInv, ReceiveFlag, GoTo
<1>1. TypeOK'
  BY DEF TypeOK, CallConsistent, Message, Points, SendPoints, ReceivePoints, Causes
<1>2. FieldsConsistent'
  BY DEF TypeOK, FieldsConsistent, CallConsistent, Sending, Receiving,
         SendPoints, ReceivePoints
<1>3. ASSUME NEW s \in Procs, Sending(s), p_sendto[s] = current
      PROVE  peer \notin {s, ANY}
  <2>1. PICK i \in DOMAIN q_sending[current] : q_sending[current][i] = s
    BY <1>3 DEF QueueExact, CallConsistent, ReceivePoints
  <2>2. q_sending[current] \in Seq(Procs)
    BY DEF TypeOK, CallConsistent, ReceivePoints
  <2>3. peer # s
    BY <1>3, <2>1 DEF Candidates
  <2>4. peer # ANY
    BY <2>1, <2>2 DEF Candidates
  <2> QED BY <2>3, <2>4
<1>4. CallConsistent'
  BY <1>3 DEF TypeOK, FieldsConsistent, CallConsistent, SendPoints, ReceivePoints,
              Sending, Receiving
<1>5. SameSenders
  BY DEF SameSenders, Sending, TypeOK
<1>6. QueueExact' /\ NoSendCycle'
  BY <1>5, SameSendersStep
<1>7. NoMissedRendezvous'
  BY DEF NoMissedRendezvous, WaitsFor, Sending, Receiving, TypeOK, CallConsistent, FieldsConsistent,
         SendPoints, ReceivePoints
<1> QED BY <1>1, <1>2, <1>4, <1>6, <1>7

LEMMA ReceiveFromStep ==
  IInv /\ ReceiveFrom => IInv'
<1> SUFFICES ASSUME IInv, ReceiveFrom PROVE IInv'
  OBVIOUS
<1> USE IpcAssumption DEF IInv, ReceiveFrom, GoTo
<1>1. TypeOK'
  BY DEF TypeOK, CallConsistent, Message, Points, SendPoints, ReceivePoints, Causes
<1>2. FieldsConsistent'
  BY DEF TypeOK, FieldsConsistent, CallConsistent, Sending, Receiving,
         SendPoints, ReceivePoints
<1>3. CallConsistent'
  BY DEF TypeOK, FieldsConsistent, CallConsistent, SendPoints, ReceivePoints,
         Sending, Receiving
<1>4. SameSenders
  BY DEF SameSenders, Sending, TypeOK
<1>5. QueueExact' /\ NoSendCycle'
  BY <1>4, SameSendersStep
<1>6. NoMissedRendezvous'
  BY DEF NoMissedRendezvous, WaitsFor, Sending, Receiving, TypeOK, CallConsistent,
         SendPoints, ReceivePoints
<1> QED BY <1>1, <1>2, <1>3, <1>5, <1>6

LEMMA ReceiveBlockStep ==
  IInv /\ ReceiveBlock => IInv'
<1> SUFFICES ASSUME IInv, ReceiveBlock PROVE IInv'
  OBVIOUS
<1> USE IpcAssumption DEF IInv, ReceiveBlock, GoTo, Halt
<1>1. TypeOK'
  BY DEF TypeOK, procVars, CallConsistent, Message, Points, SendPoints, ReceivePoints, Causes
<1>2. FieldsConsistent'
  BY DEF TypeOK, FieldsConsistent, CallConsistent, Sending, Receiving, procVars,
         SendPoints, ReceivePoints
<1>3. CallConsistent'
  BY DEF TypeOK, FieldsConsistent, CallConsistent, SendPoints, ReceivePoints,
         Sending, Receiving, procVars
<1>4. QueueExact' /\ NoSendCycle' /\ NoMissedRendezvous'
  BY SameProcVars
<1> QED BY <1>1, <1>2, <1>3, <1>4

LEMMA ReceiveCheckStep ==
  IInv /\ ReceiveCheck => IInv'
<1> SUFFICES ASSUME IInv, ReceiveCheck PROVE IInv'
  OBVIOUS
<1> USE IpcAssumption DEF IInv, ReceiveCheck, Return, Halt
<1>1. TypeOK'
  BY DEF TypeOK, procVars, CallConsistent, Message, Points, SendPoints, ReceivePoints, Causes
<1>2. FieldsConsistent'
  BY DEF TypeOK, FieldsConsistent, CallConsistent, Sending, Receiving, procVars,
         SendPoints, ReceivePoints
<1>3. CallConsistent'
  BY DEF TypeOK, FieldsConsistent, CallConsistent, SendPoints, ReceivePoints,
         Sending, Receiving, procVars
<1>4. QueueExact' /\ NoSendCycle' /\ NoMissedRendezvous'
  BY SameProcVars
<1> QED BY <1>1, <1>2, <1>3, <1>4

(* inform_int *)

LEMMA InformReceiverStep ==
  ASSUME NEW t \in Procs
  PROVE  IInv /\ InformReceiver(t) => IInv'
<1> SUFFICES ASSUME IInv, InformReceiver(t) PROVE IInv'
  OBVIOUS
<1> USE IpcAssumption DEF IInv, InformReceiver
<1>1. TypeOK'
  BY DEF TypeOK, CallConsistent, Message, Points, SendPoints, ReceivePoints, Causes
<1>2. FieldsConsistent'
  BY DEF TypeOK, FieldsConsistent, CallConsistent, Sending, Receiving,
         SendPoints, ReceivePoints, AcceptsInterrupt, TakesInterrupts
<1>3. CallConsistent'
  BY DEF TypeOK, FieldsConsistent, CallConsistent, SendPoints, ReceivePoints,
         Sending, Receiving, AcceptsInterrupt, TakesInterrupts
<1>4. SameSenders
  BY DEF SameSenders, Sending, TypeOK
<1>5. QueueExact' /\ NoSendCycle'
  BY <1>4, SameSendersStep
<1>6. NoMissedRendezvous'
  BY DEF NoMissedRendezvous, WaitsFor, Sending, Receiving, TypeOK, CallConsistent,
         SendPoints, ReceivePoints
<1> QED BY <1>1, <1>2, <1>3, <1>5, <1>6

LEMMA InformBusyStep ==
  ASSUME NEW t \in Procs
  PROVE  IInv /\ InformBusy(t) => IInv'
<1> SUFFICES ASSUME IInv, InformBusy(t) PROVE IInv'
  OBVIOUS
<1> USE IpcAssumption DEF IInv, InformBusy
<1>1. TypeOK'
  BY DEF TypeOK, procVars, CallConsistent, Message, Points, SendPoints, ReceivePoints, Causes
<1>2. FieldsConsistent'
  BY DEF TypeOK, FieldsConsistent, CallConsistent, Sending, Receiving, procVars,
         SendPoints, ReceivePoints, AcceptsInterrupt, TakesInterrupts
<1>3. CallConsistent'
  BY DEF TypeOK, FieldsConsistent, CallConsistent, SendPoints, ReceivePoints,
         Sending, Receiving, procVars, AcceptsInterrupt, TakesInterrupts
<1>4. QueueExact' /\ NoSendCycle' /\ NoMissedRendezvous'
  BY SameProcVars
<1> QED BY <1>1, <1>2, <1>3, <1>4

-----------------------------------------------------------------------------
(* The inductive invariant, and what follows from it.  *)

LEMMA NextInvariant == IInv /\ [Next]_vars => IInv'
<1> SUFFICES ASSUME IInv, [Next]_vars PROVE IInv'
  OBVIOUS
<1>1. ASSUME NEW p \in Procs, CallSend(p) PROVE IInv'
  <2>1. PICK d \in Procs, t \in Types : Enter(p, "send_test", d, t)
    BY <1>1 DEF CallSend
  <2> QED BY <2>1, EnterStep
<1>2. ASSUME NEW p \in Procs, CallReceive(p) PROVE IInv'
  <2>1. PICK s \in Procs \union {ANY, INTERRUPT} : Enter(p, "recv_test", s, msg[p].type)
    BY <1>2 DEF CallReceive
  <2>2. msg[p].type \in Types \union {HARD_INT}
    BY DEF IInv, TypeOK, Message
  <2> QED BY <2>1, <2>2, EnterStep
<1>3. CASE msg_send
  BY <1>3, SendDeadlockStep, SendMatchStep, SendBlockStep, SendAssertStep, SendCopyStep,
     SendNullStep, SendFinishStep DEF msg_send
<1>4. CASE msg_receive
  BY <1>4, ReceiveInterruptStep, ReceiveInterruptCheckStep, ReceiveNoInterruptStep,
     ReceiveTakeStep, ReceiveFlagStep, ReceiveFromStep, ReceiveBlockStep,
     ReceiveCheckStep DEF msg_receive
<1>5. ASSUME NEW t \in Informed, inform_int(t) PROVE IInv'
  BY <1>5, IpcAssumption, InformReceiverStep, InformBusyStep DEF inform_int
<1>6. CASE UNCHANGED vars
  <2>1. QueueExact' /\ NoSendCycle' /\ NoMissedRendezvous'
    BY <1>6, SameProcVars DEF vars, IInv
  <2>2. TypeOK'
    BY <1>6 DEF vars, procVars, IInv, TypeOK
  <2>3. FieldsConsistent' /\ CallConsistent'
    BY <1>6 DEF vars, procVars, IInv, FieldsConsistent, CallConsistent, Sending, Receiving
  <2> QED BY <2>1, <2>2, <2>3 DEF IInv
<1> QED BY <1>1, <1>2, <1>3, <1>4, <1>5, <1>6 DEF Next, KernelStep

(* The message fields agree with each other and with what the call in      *)
(* progress has established, in every state and wherever interrupts arrive *)
(* (msg_send, msg_receive and inform_int of proc.c).                       *)
THEOREM Invariant == Spec => []IInv
BY InitInvariant, NextInvariant, PTL DEF Spec

(* The message fields always have their types.  *)
THEOREM TypeCorrect == Spec => []TypeOK
<1>1. IInv => TypeOK
  BY DEF IInv
<1> QED BY <1>1, Invariant, PTL

(* The lists always hold exactly the blocked senders.  *)
THEOREM QueuesExact == Spec => []QueueExact
<1>1. IInv => QueueExact
  BY DEF IInv
<1> QED BY <1>1, Invariant, PTL

(* deadlock() keeps the messaging graph free of cycles.  *)
THEOREM SendsAcyclic == Spec => []NoSendCycle
<1>1. IInv => NoSendCycle
  BY DEF IInv
<1> QED BY <1>1, Invariant, PTL

(* No receiver ever waits for a process that is blocked sending to it.  *)
THEOREM RendezvousNeverMissed == Spec => []NoMissedRendezvous
<1>1. IInv => NoMissedRendezvous
  BY DEF IInv
<1> QED BY <1>1, Invariant, PTL

(* None of the assertions the module does not branch on can fail.  *)
LEMMA AssertionsFromInvariant == IInv => OtherAssertionsHold
<1> SUFFICES ASSUME IInv PROVE OtherAssertionsHold
  OBVIOUS
<1> USE IpcAssumption DEF IInv
<1>1. ASSUME kpc \in SendPoints \union {"recv_test", "recv_int_check", "recv_queue"}
      PROVE  /\ p_flags[current] = {} /\ ~p_msg[current]
             /\ p_recvfrom[current] = NO_TASK /\ p_sendto[current] = NO_TASK
  BY <1>1 DEF CallConsistent, FieldsConsistent, Sending, Receiving, SendPoints,
              ReceivePoints, TypeOK
<1>2. ASSUME kpc = "send_finish"
      PROVE  ~p_msg[peer] /\ p_sendto[peer] = NO_TASK /\ ~Sending(peer)
  BY <1>2 DEF CallConsistent, FieldsConsistent, SendPoints
<1>3. ASSUME kpc = "recv_queue", NEW i \in Candidates(current, peer)
      PROVE  LET from == q_sending[current][i] IN
             /\ p_flags[from] = {"SENDING"} /\ p_msg[from]
             /\ p_recvfrom[from] = NO_TASK /\ p_sendto[from] = current
  <2>1. /\ current \in Procs /\ i \in DOMAIN q_sending[current]
        /\ q_sending[current] \in Seq(Procs)
    BY <1>3 DEF CallConsistent, ReceivePoints, Candidates, TypeOK
  <2>2. q_sending[current][i] \in Procs
    BY <2>1
  <2> QED BY <2>1, <2>2 DEF QueueExact, FieldsConsistent
<1>4. ASSUME kpc = "recv_queue", peer \in Procs, Sending(peer), p_sendto[peer] = current
      PROVE  Candidates(current, peer) # {}
  <2>1. current \in Procs
    BY <1>4 DEF CallConsistent, ReceivePoints
  <2>2. PICK i \in DOMAIN q_sending[current] : q_sending[current][i] = peer
    BY <1>4, <2>1 DEF QueueExact
  <2> QED BY <1>4, <2>2 DEF Candidates
<1>5. ASSUME NEW t \in Procs, AcceptsInterrupt(t)
      PROVE  ~Sending(t) /\ p_sendto[t] = NO_TASK
  BY <1>5 DEF AcceptsInterrupt, TakesInterrupts, FieldsConsistent, Sending, Receiving
<1> QED BY <1>1, <1>2, <1>3, <1>4, <1>5 DEF OtherAssertionsHold

(* The assertions of proc.c that the module does not branch on never fail, *)
(* wherever interrupts arrive.                                             *)
THEOREM AssertionsHold == Spec => []OtherAssertionsHold
BY AssertionsFromInvariant, Invariant, PTL

-----------------------------------------------------------------------------
(* The order of the lists.  *)

(* The place of a process in a list that holds it once.  *)
LEMMA PlaceUnique ==
  ASSUME NEW S, NEW q \in Seq(S), NEW i \in DOMAIN q,
         \A j, k \in DOMAIN q : q[j] = q[k] => j = k
  PROVE  Place(q, q[i]) = i
BY DEF Place

(* Who is in a list, and where.  *)
LEMMA InList ==
  ASSUME NEW S, NEW q \in Seq(S), NEW s, s \in ToSet(q),
         \A j, k \in DOMAIN q : q[j] = q[k] => j = k
  PROVE  /\ Place(q, s) \in 1..Len(q)
         /\ q[Place(q, s)] = s
<1>1. PICK i \in DOMAIN q : q[i] = s
  BY DEF ToSet
<1>2. Place(q, q[i]) = i
  BY PlaceUnique
<1> QED BY <1>1, <1>2

LEMMA ListMember ==
  ASSUME NEW S, NEW q \in Seq(S), NEW i \in 1..Len(q)
  PROVE  q[i] \in ToSet(q)
BY DEF ToSet

LEMMA SendBlockKeepsOrder ==
  ASSUME IInv, SendBlock, NEW d \in Procs
  PROVE  KeepsOrder(d)
<1> DEFINE q == q_sending[d]
           new == q_sending'[d]
<1>1. current \in Procs /\ peer \in Procs /\ p_flags[current] = {}
  BY DEF IInv, CallConsistent, SendBlock, SendPoints
<1>2. q \in Seq(Procs) /\ new \in Seq(Procs)
  BY SendBlockStep DEF IInv, TypeOK
<1>3. /\ \A i, j \in DOMAIN q : q[i] = q[j] => i = j
      /\ \A i, j \in DOMAIN new : new[i] = new[j] => i = j
  BY SendBlockStep DEF IInv, QueueExact
<1>4. new = IF d = peer THEN Append(q, current) ELSE q
  BY <1>1 DEF SendBlock, IInv, TypeOK
<1> HIDE DEF q, new
<1>5. CASE new = q
  BY <1>5 DEF KeepsOrder, q, new
<1>6. CASE new = Append(q, current)
  <2>1. /\ Len(new) = Len(q) + 1 /\ Len(q) \in Nat
        /\ \A i \in 1..Len(q) : new[i] = q[i]
        /\ new[Len(q) + 1] = current
    BY <1>1, <1>2, <1>6
  <2>2. ASSUME NEW a \in ToSet(q)
        PROVE  a \in ToSet(new) /\ Place(new, a) = Place(q, a) /\ Place(q, a) \in 1..Len(q)
    <3>1. Place(q, a) \in 1..Len(q) /\ q[Place(q, a)] = a
      BY <1>2, <1>3, InList
    <3>2. Place(q, a) \in 1..Len(new) /\ new[Place(q, a)] = a
      BY <2>1, <3>1
    <3>3. Place(new, new[Place(q, a)]) = Place(q, a)
      BY <1>2, <1>3, <3>2, PlaceUnique
    <3> QED BY <3>1, <3>2, <3>3, <1>2, ListMember
  <2>3. ASSUME NEW b \in ToSet(new) \ ToSet(q) PROVE Place(new, b) = Len(q) + 1
    <3>1. Place(new, b) \in 1..Len(new) /\ new[Place(new, b)] = b
      BY <1>2, <1>3, InList
    <3>2. ASSUME Place(new, b) \in 1..Len(q) PROVE FALSE
      BY <3>1, <3>2, <2>1, <1>2, ListMember
    <3> QED BY <3>1, <3>2, <2>1
  <2>4. \A a, b \in Procs :
          /\ a \in ToSet(q) /\ b \in ToSet(new) \ ToSet(q) /\ a \in ToSet(new)
               => Place(new, a) < Place(new, b)
          /\ a # b /\ {a, b} \subseteq ToSet(q) /\ Place(q, a) < Place(q, b) =>
               /\ {a, b} \subseteq ToSet(new) => Place(new, a) < Place(new, b)
               /\ a \in ToSet(new) /\ b \notin ToSet(new) => peer = b
    BY <2>1, <2>2, <2>3
  <2> QED BY <2>4, Zenon DEF KeepsOrder, q, new
<1> QED BY <1>4, <1>5, <1>6

LEMMA ReceiveTakeKeepsOrder ==
  ASSUME IInv, ReceiveTake, NEW d \in Procs
  PROVE  KeepsOrder(d)
<1> DEFINE q == q_sending[d]
           new == q_sending'[d]
<1>1. PICK k \in Candidates(current, peer) :
        q_sending' = [q_sending EXCEPT ![current] = RemoveAt(@, k)]
  BY DEF ReceiveTake
<1>2. current \in Procs /\ k \in DOMAIN q_sending[current]
  BY DEF IInv, CallConsistent, ReceiveTake, ReceivePoints, Candidates
<1>3. q \in Seq(Procs) /\ new \in Seq(Procs)
  BY ReceiveTakeStep DEF IInv, TypeOK
<1>4. /\ \A i, j \in DOMAIN q : q[i] = q[j] => i = j
      /\ \A i, j \in DOMAIN new : new[i] = new[j] => i = j
  BY ReceiveTakeStep DEF IInv, QueueExact
<1>5. new = IF d = current THEN RemoveAt(q, k) ELSE q
  BY <1>1, <1>2 DEF IInv, TypeOK
<1>6. d = current => k \in DOMAIN q /\ (k = 1 \/ peer = q[k])
  BY <1>2 DEF Candidates
<1> HIDE DEF q, new
<1>7. CASE new = q
  BY <1>7 DEF KeepsOrder, q, new
<1>8. CASE d = current
  <2>1. /\ Len(new) = Len(q) - 1 /\ Len(q) \in Nat /\ k \in 1..Len(q)
        /\ \A j \in 1..(Len(q) - 1) : new[j] = IF j < k THEN q[j] ELSE q[j + 1]
    BY <1>3, <1>5, <1>6, <1>8, RemoveAtProperties
  <2>2. ASSUME NEW a \in ToSet(new)
        PROVE  /\ a \in ToSet(q)
               /\ Place(new, a) \in 1..Len(new)
               /\ Place(q, a) = IF Place(new, a) < k THEN Place(new, a) ELSE Place(new, a) + 1
    <3> DEFINE j == Place(new, a)
               i == IF j < k THEN j ELSE j + 1
    <3>1. j \in 1..Len(new) /\ new[j] = a
      BY <1>3, <1>4, InList
    <3> HIDE DEF j
    <3>2. i \in 1..Len(q) /\ q[i] = a
      BY <2>1, <3>1
    <3> HIDE DEF i
    <3>3. Place(q, q[i]) = i
      BY <1>3, <1>4, <3>2, PlaceUnique
    <3> QED BY <3>1, <3>2, <3>3, <1>3, ListMember DEF i, j
  <2>3. ASSUME NEW b \in ToSet(q) \ ToSet(new) PROVE b = q[k] /\ Place(q, b) = k
    <3> DEFINE i == Place(q, b)
    <3>1. i \in 1..Len(q) /\ q[i] = b
      BY <1>3, <1>4, InList
    <3> HIDE DEF i
    <3>2. ASSUME i < k PROVE FALSE
      <4>1. i \in 1..Len(new) /\ new[i] = b
        BY <2>1, <3>1, <3>2
      <4> QED BY <4>1, <1>3, ListMember
    <3>3. ASSUME k < i PROVE FALSE
      <4>1. i - 1 \in 1..Len(new) /\ new[i - 1] = b
        BY <2>1, <3>1, <3>3
      <4> QED BY <4>1, <1>3, ListMember
    <3>4. i = k
      BY <2>1, <3>1, <3>2, <3>3
    <3> QED BY <3>1, <3>4 DEF i
  <2>4. \A a, b \in Procs :
          /\ a \in ToSet(q) /\ b \in ToSet(new) \ ToSet(q) /\ a \in ToSet(new)
               => Place(new, a) < Place(new, b)
          /\ a # b /\ {a, b} \subseteq ToSet(q) /\ Place(q, a) < Place(q, b) =>
               /\ {a, b} \subseteq ToSet(new) => Place(new, a) < Place(new, b)
               /\ a \in ToSet(new) /\ b \notin ToSet(new) => peer = b
    <3>1. ToSet(new) \ ToSet(q) = {}
      BY <2>2
    <3>2. ASSUME NEW a, NEW b, {a, b} \subseteq ToSet(q), Place(q, a) < Place(q, b),
                 {a, b} \subseteq ToSet(new)
          PROVE  Place(new, a) < Place(new, b)
      BY <2>1, <2>2, <3>2
    <3>3. ASSUME NEW a, NEW b, Place(q, a) < Place(q, b), a \in ToSet(new),
                 b \in ToSet(q) \ ToSet(new)
          PROVE  peer = b
      <4>1. Place(q, a) \in 1..Len(q) /\ b = q[k] /\ Place(q, b) = k
        BY <2>2, <2>3, <3>3, <1>3, <1>4, InList
      <4> QED BY <4>1, <3>3, <1>6, <1>8, <2>1
    <3> QED BY <3>1, <3>2, <3>3
  <2> QED BY <2>4, Zenon DEF KeepsOrder, q, new
<1> QED BY <1>5, <1>7, <1>8

LEMMA OtherStepsKeepLists ==
  ASSUME UNCHANGED q_sending, IInv, NEW d \in Procs PROVE KeepsOrder(d)
<1>1. \A i, j \in DOMAIN q_sending[d] : q_sending[d][i] = q_sending[d][j] => i = j
  BY DEF IInv, QueueExact
<1> QED BY DEF KeepsOrder

(* Messages are taken from a list in the order in which they joined it,    *)
(* but for the one that the receiver names.                                *)
THEOREM OvertakingOnlyByName == Spec => NoOvertaking
<1>1. IInv /\ [Next]_vars => [\A d \in Procs : KeepsOrder(d)]_vars
  <2> SUFFICES ASSUME IInv, Next, NEW d \in Procs PROVE KeepsOrder(d)
    OBVIOUS
  <2>1. CASE SendBlock
    BY <2>1, SendBlockKeepsOrder
  <2>2. CASE ReceiveTake
    BY <2>2, ReceiveTakeKeepsOrder
  <2>3. CASE ~SendBlock /\ ~ReceiveTake
    <3>1. UNCHANGED q_sending
      BY <2>3 DEF Next, CallSend, CallReceive, Enter, KernelStep, msg_send, msg_receive,
         SendDeadlock, SendMatch, SendAssert, SendCopy, SendNull, SendFinish, ReceiveInterrupt,
         ReceiveInterruptCheck, ReceiveNoInterrupt, ReceiveFlag, ReceiveFrom, ReceiveBlock,
         ReceiveCheck, inform_int, InformReceiver, InformBusy, procVars
    <3> QED BY <3>1, OtherStepsKeepLists
  <2> QED BY <2>1, <2>2, <2>3
<1> QED BY <1>1, Invariant, PTL DEF Spec, NoOvertaking

-----------------------------------------------------------------------------
(* What a call may still rely on when interrupts arrive in the middle of   *)
(* it, and which calls an assertion may stop.                              *)

LEMMA InitInterrupted == Init => CallInterrupted
BY IpcAssumption DEF Init, CallInterrupted, SendPoints, Receiving, StopsOnlyForInformed

LEMMA SendDeadlockInterrupted ==
  IInv /\ CallInterrupted /\ SendDeadlock => CallInterrupted'
BY IpcAssumption
   DEF CallInterrupted, SendDeadlock, Halt, procVars, IInv, TypeOK, Message, FieldsConsistent,
       CallConsistent, SendPoints, ReceivePoints, Sending, Receiving, WaitsFor, Hidden,
       AcceptsInterrupt, TakesInterrupts, StopsOnlyForInformed

LEMMA SendMatchInterrupted ==
  IInv /\ CallInterrupted /\ SendMatch => CallInterrupted'
BY IpcAssumption
   DEF CallInterrupted, SendMatch, GoTo, procVars, IInv, TypeOK, Message, FieldsConsistent,
       CallConsistent, SendPoints, ReceivePoints, Sending, Receiving, WaitsFor, Hidden,
       AcceptsInterrupt, TakesInterrupts, StopsOnlyForInformed

LEMMA SendBlockInterrupted ==
  IInv /\ CallInterrupted /\ SendBlock => CallInterrupted'
BY IpcAssumption
   DEF CallInterrupted, SendBlock, Return, IInv, TypeOK, Message, FieldsConsistent,
       CallConsistent, SendPoints, ReceivePoints, Sending, Receiving, WaitsFor, Hidden,
       AcceptsInterrupt, TakesInterrupts, StopsOnlyForInformed

LEMMA SendAssertInterrupted ==
  IInv /\ CallInterrupted /\ SendAssert => CallInterrupted'
BY IpcAssumption
   DEF CallInterrupted, SendAssert, GoTo, Halt, procVars, IInv, TypeOK, Message, FieldsConsistent,
       CallConsistent, SendPoints, ReceivePoints, Sending, Receiving, WaitsFor, Hidden,
       AcceptsInterrupt, TakesInterrupts, StopsOnlyForInformed

LEMMA SendCopyInterrupted ==
  IInv /\ CallInterrupted /\ SendCopy => CallInterrupted'
BY IpcAssumption
   DEF CallInterrupted, SendCopy, GoTo, procVars, IInv, TypeOK, Message, FieldsConsistent,
       CallConsistent, SendPoints, ReceivePoints, Sending, Receiving, WaitsFor, Hidden,
       AcceptsInterrupt, TakesInterrupts, StopsOnlyForInformed

LEMMA SendNullInterrupted ==
  IInv /\ CallInterrupted /\ SendNull => CallInterrupted'
BY IpcAssumption
   DEF CallInterrupted, SendNull, GoTo, IInv, TypeOK, Message, FieldsConsistent,
       CallConsistent, SendPoints, ReceivePoints, Sending, Receiving, WaitsFor, Hidden,
       AcceptsInterrupt, TakesInterrupts, StopsOnlyForInformed

LEMMA SendFinishInterrupted ==
  IInv /\ CallInterrupted /\ SendFinish => CallInterrupted'
BY IpcAssumption
   DEF CallInterrupted, SendFinish, Return, IInv, TypeOK, Message, FieldsConsistent,
       CallConsistent, SendPoints, ReceivePoints, Sending, Receiving, WaitsFor, Hidden,
       AcceptsInterrupt, TakesInterrupts, StopsOnlyForInformed

LEMMA ReceiveInterruptInterrupted ==
  IInv /\ CallInterrupted /\ ReceiveInterrupt => CallInterrupted'
BY IpcAssumption
   DEF CallInterrupted, ReceiveInterrupt, GoTo, procVars, IInv, TypeOK, Message, FieldsConsistent,
       CallConsistent, SendPoints, ReceivePoints, Sending, Receiving, WaitsFor, Hidden,
       AcceptsInterrupt, TakesInterrupts, StopsOnlyForInformed

LEMMA ReceiveInterruptCheckInterrupted ==
  IInv /\ CallInterrupted /\ ReceiveInterruptCheck => CallInterrupted'
BY IpcAssumption
   DEF CallInterrupted, ReceiveInterruptCheck, Halt, Return, procVars, IInv, TypeOK, Message,
       FieldsConsistent, CallConsistent, SendPoints, ReceivePoints, Sending, Receiving,
       WaitsFor, Hidden, AcceptsInterrupt, TakesInterrupts, StopsOnlyForInformed

LEMMA ReceiveNoInterruptInterrupted ==
  IInv /\ CallInterrupted /\ ReceiveNoInterrupt => CallInterrupted'
BY IpcAssumption
   DEF CallInterrupted, ReceiveNoInterrupt, GoTo, procVars, IInv, TypeOK, Message, FieldsConsistent,
       CallConsistent, SendPoints, ReceivePoints, Sending, Receiving, WaitsFor, Hidden,
       AcceptsInterrupt, TakesInterrupts, StopsOnlyForInformed

LEMMA ReceiveFlagInterrupted ==
  IInv /\ CallInterrupted /\ ReceiveFlag => CallInterrupted'
BY IpcAssumption
   DEF CallInterrupted, ReceiveFlag, GoTo, IInv, TypeOK, Message, FieldsConsistent,
       CallConsistent, SendPoints, ReceivePoints, Sending, Receiving, WaitsFor, Hidden,
       AcceptsInterrupt, TakesInterrupts, StopsOnlyForInformed

LEMMA ReceiveFromInterrupted ==
  IInv /\ CallInterrupted /\ ReceiveFrom => CallInterrupted'
BY IpcAssumption
   DEF CallInterrupted, ReceiveFrom, GoTo, IInv, TypeOK, Message, FieldsConsistent,
       CallConsistent, SendPoints, ReceivePoints, Sending, Receiving, WaitsFor, Hidden,
       AcceptsInterrupt, TakesInterrupts, StopsOnlyForInformed

LEMMA ReceiveBlockInterrupted ==
  IInv /\ CallInterrupted /\ ReceiveBlock => CallInterrupted'
BY IpcAssumption
   DEF CallInterrupted, ReceiveBlock, GoTo, Halt, procVars, IInv, TypeOK, Message, FieldsConsistent,
       CallConsistent, SendPoints, ReceivePoints, Sending, Receiving, WaitsFor, Hidden,
       AcceptsInterrupt, TakesInterrupts, StopsOnlyForInformed

LEMMA ReceiveCheckInterrupted ==
  IInv /\ CallInterrupted /\ ReceiveCheck => CallInterrupted'
BY IpcAssumption
   DEF CallInterrupted, ReceiveCheck, Return, Halt, procVars, IInv, TypeOK, Message,
       FieldsConsistent, CallConsistent, SendPoints, ReceivePoints, Sending, Receiving,
       WaitsFor, Hidden, AcceptsInterrupt, TakesInterrupts, StopsOnlyForInformed

LEMMA EnterInterrupted ==
  ASSUME NEW p \in Procs, NEW point \in {"send_test", "recv_test"},
         NEW srcDest \in Procs \union {ANY, INTERRUPT}, NEW type \in Types \union {HARD_INT}
  PROVE  IInv /\ CallInterrupted /\ Enter(p, point, srcDest, type) => CallInterrupted'
BY IpcAssumption
   DEF CallInterrupted, Enter, procVars, IInv, TypeOK, Message, FieldsConsistent,
       SendPoints, Sending, Receiving, WaitsFor, Hidden, AcceptsInterrupt,
       TakesInterrupts, StopsOnlyForInformed

(* The message that msg_receive takes is the one its sender called with.  *)
LEMMA TakenFromSender ==
  ASSUME IInv, kpc = "recv_queue", NEW k \in Candidates(current, peer)
  PROVE  /\ current \in Procs
         /\ q_sending[current] \in Seq(Procs) /\ k \in DOMAIN q_sending[current]
         /\ q_sending[current][k] \in Procs
         /\ Sending(q_sending[current][k]) /\ q_sending[current][k] # current
         /\ p_sendto[q_sending[current][k]] = current
<1>1. current \in Procs /\ p_flags[current] = {}
  BY DEF IInv, CallConsistent, ReceivePoints
<1>2. k \in DOMAIN q_sending[current] /\ q_sending[current] \in Seq(Procs)
  BY <1>1 DEF IInv, TypeOK, Candidates
<1>3. q_sending[current][k] \in Procs
  BY <1>2
<1>4. /\ Sending(q_sending[current][k])
      /\ p_sendto[q_sending[current][k]] = current
  BY <1>1, <1>2, <1>3 DEF IInv, QueueExact
<1> QED BY <1>1, <1>2, <1>3, <1>4 DEF Sending

LEMMA ReceiveTakeInterrupted ==
  IInv /\ CallInterrupted /\ ReceiveTake => CallInterrupted'
<1> SUFFICES ASSUME IInv, CallInterrupted, ReceiveTake,
                    NEW k \in Candidates(current, peer),
                    TakeMessage(q_sending[current][k])
             PROVE  CallInterrupted'
  BY DEF ReceiveTake
<1> DEFINE from == q_sending[current][k]
<1>1. /\ current \in Procs /\ from \in Procs /\ Sending(from) /\ from # current
      /\ p_flags[current] = {}
  BY TakenFromSender DEF ReceiveTake, IInv, CallConsistent, ReceivePoints
<1>2. /\ p_flags' = [p_flags EXCEPT ![from] = @ \ {"SENDING"}]
      /\ p_msg' = [p_msg EXCEPT ![from] = FALSE]
      /\ msg' = [msg EXCEPT ![current] = msg[from]]
  BY DEF TakeMessage
<1> HIDE DEF from
<1> QED BY <1>1, <1>2
        DEF CallInterrupted, ReceiveTake, Return, IInv, TypeOK, FieldsConsistent, Sending,
            Receiving, WaitsFor, Hidden, SendPoints, ReceivePoints, AcceptsInterrupt,
            TakesInterrupts, StopsOnlyForInformed

LEMMA InformInterrupted ==
  ASSUME NEW t \in Procs, t \in Informed
  PROVE  IInv /\ CallInterrupted /\ inform_int(t) => CallInterrupted'
<1> SUFFICES ASSUME IInv, CallInterrupted, inform_int(t) PROVE CallInterrupted'
  OBVIOUS
<1>1. UNCHANGED <<kpc, current, peer, cause>> /\ \A p \in Procs : Hidden(p)' = Hidden(p)
  BY DEF inform_int, InformReceiver, InformBusy, Hidden
<1>2. CASE InformReceiver(t)
  <2>1. p_flags[t] = {"RECEIVING"}
    BY <1>2 DEF InformReceiver, AcceptsInterrupt, TakesInterrupts, IInv, TypeOK,
                FieldsConsistent, Sending, Receiving
  <2>2. /\ p_flags'[t] = {}
        /\ \A p \in Procs \ {t} :
             /\ p_flags'[p] = p_flags[p] /\ p_msg'[p] = p_msg[p]
             /\ msg'[p] = msg[p] /\ has_int_msg'[p] = has_int_msg[p]
             /\ p_recvfrom'[p] = p_recvfrom[p]
    BY <1>2, <2>1 DEF InformReceiver, IInv, TypeOK
  <2>3. /\ \A p \in Procs : Receiving(p)' /\ ~Hidden(p)' => p_msg'[p]
        /\ \A p \in Procs : Sending(p)' => msg'[p].source = p
        /\ \A p \in Procs \ Informed : ~has_int_msg'[p]
    BY <1>1, <2>2 DEF CallInterrupted, Sending, Receiving
  <2>4. kpc \in SendPoints => current \in Procs /\ peer \in Procs /\ peer # current
                              /\ p_flags[current] = {}
    BY DEF IInv, CallConsistent
  <2>5. kpc \in {"recv_from", "recv_block", "recv_check"} => current \in Procs
    BY DEF IInv, CallConsistent, ReceivePoints
  <2>6. kpc \in SendPoints => msg'[current].source = current
    BY <2>1, <2>2, <2>4 DEF CallInterrupted
  <2>7. /\ kpc \in {"send_assert", "send_copy"} /\ Receiving(peer)' => WaitsFor(peer, current)'
        /\ kpc \in {"send_null", "send_finish"} /\ Receiving(peer)' => msg'[peer] = msg'[current]
        /\ kpc \in SendPoints \ {"send_test"} => Receiving(peer)' \/ peer \in Informed
    BY <1>1, <2>1, <2>2, <2>4 DEF CallInterrupted, Receiving, WaitsFor, SendPoints
  <2>8. kpc \in {"recv_from", "recv_block", "recv_check"} =>
          Receiving(current)' \/ current \in Informed
    BY <1>1, <2>2, <2>5 DEF CallInterrupted, Receiving
  <2> QED BY <1>1, <2>3, <2>6, <2>7, <2>8 DEF CallInterrupted, StopsOnlyForInformed
<1>3. CASE InformBusy(t)
  <2>1. \A p \in Procs \ {t} : has_int_msg'[p] = has_int_msg[p]
    BY <1>3 DEF InformBusy, IInv, TypeOK
  <2>2. \A p \in Procs \ Informed : ~has_int_msg'[p]
    BY <2>1 DEF CallInterrupted
  <2> QED BY <1>1, <1>3, <2>2
          DEF InformBusy, procVars, CallInterrupted, Sending, Receiving, WaitsFor, StopsOnlyForInformed
<1> QED BY <1>2, <1>3 DEF inform_int

LEMMA NextInterrupted ==
  IInv /\ CallInterrupted /\ [Next]_vars => CallInterrupted'
<1> SUFFICES ASSUME IInv, CallInterrupted, [Next]_vars PROVE CallInterrupted'
  OBVIOUS
<1>1. ASSUME NEW p \in Procs, CallSend(p) PROVE CallInterrupted'
  BY <1>1, EnterInterrupted DEF CallSend
<1>2. ASSUME NEW p \in Procs, CallReceive(p) PROVE CallInterrupted'
  <2>1. msg[p].type \in Types \union {HARD_INT}
    BY DEF IInv, TypeOK, Message
  <2> QED BY <1>2, <2>1, EnterInterrupted DEF CallReceive
<1>3. CASE msg_send
  BY <1>3, SendDeadlockInterrupted, SendMatchInterrupted, SendBlockInterrupted,
     SendAssertInterrupted, SendCopyInterrupted, SendNullInterrupted, SendFinishInterrupted
     DEF msg_send
<1>4. CASE msg_receive
  BY <1>4, ReceiveInterruptInterrupted, ReceiveInterruptCheckInterrupted,
     ReceiveNoInterruptInterrupted, ReceiveTakeInterrupted, ReceiveFlagInterrupted,
     ReceiveFromInterrupted, ReceiveBlockInterrupted, ReceiveCheckInterrupted DEF msg_receive
<1>5. ASSUME NEW t \in Informed, inform_int(t) PROVE CallInterrupted'
  BY <1>5, IpcAssumption, InformInterrupted
<1>6. CASE UNCHANGED vars
  BY <1>6 DEF vars, procVars, CallInterrupted, Receiving, Sending, WaitsFor, Hidden,
              AcceptsInterrupt, StopsOnlyForInformed
<1> QED BY <1>1, <1>2, <1>3, <1>4, <1>5, <1>6 DEF Next, KernelStep

(* What the call in progress relies on holds wherever interrupts arrive.   *)
THEOREM CallsInterrupted == Spec => [](IInv /\ CallInterrupted)
BY InitInvariant, NextInvariant, InitInterrupted, NextInterrupted, PTL DEF Spec

(* An assertion stops the kernel only in a call of, or a send to, a        *)
(* process that interrupts inform, wherever interrupts arrive: processes   *)
(* that exchange messages among themselves never meet one.                 *)
THEOREM OnlyInformedCallsStop == Spec => []StopsOnlyForInformed
<1>1. CallInterrupted => StopsOnlyForInformed
  BY DEF CallInterrupted
<1> QED BY <1>1, CallsInterrupted, PTL

-----------------------------------------------------------------------------
(* The kernel implements Rendezvous under the mapping at the end of Ipc:   *)
(* first the steps that Rendezvous does not see, then one lemma for each   *)
(* step in which something happens.                                        *)

(* The senders in a list are in no call and have not been answered.  *)
LEMMA WaitingUnchanged ==
  ASSUME IInv, UNCHANGED q_sending,
         \A s \in Procs : Sending(s) => msg'[s] = msg[s]
  PROVE  WaitingBar' = WaitingBar
<1>1. ASSUME NEW d \in Procs, NEW i \in DOMAIN q_sending[d]
      PROVE  msg'[q_sending[d][i]] = msg[q_sending[d][i]]
  <2>1. q_sending[d] \in Seq(Procs)
    BY DEF IInv, TypeOK
  <2>2. q_sending[d][i] \in Procs
    BY <2>1
  <2>3. Sending(q_sending[d][i])
    BY <2>2 DEF IInv, QueueExact
  <2> QED BY <2>2, <2>3
<1> QED BY <1>1 DEF WaitingBar

LEMMA InitRefines == Init => R!Init
<1> SUFFICES ASSUME Init PROVE R!Init
  OBVIOUS
<1>1. StatusBar = [p \in Procs |-> "ready"]
  BY DEF Init, StatusBar, Status, Sending, Receiving
<1>2. PartnerBar = [p \in Procs |-> NO_TASK]
  BY DEF Init, PartnerBar, Partner, Sending, Hidden
<1>3. WaitingBar = [p \in Procs |-> <<>>]
  BY DEF Init, WaitingBar
<1>4. InboxBar = [p \in Procs |-> NO_TASK]
  BY DEF Init, InboxBar, Inbox
<1> QED BY <1>1, <1>2, <1>3, <1>4 DEF R!Init, Init

(* A step that changes no process as Rendezvous sees it.  *)
LEMMA BarsUnchanged ==
  ASSUME \A p \in Procs : Status(p)' = Status(p) /\ Partner(p)' = Partner(p)
  PROVE  StatusBar' = StatusBar /\ PartnerBar' = PartnerBar
<1>1. StatusBar' = StatusBar
  BY SMT DEF StatusBar
<1>2. PartnerBar' = PartnerBar
  BY SMT DEF PartnerBar
<1> QED BY <1>1, <1>2

LEMMA Stutters ==
  ASSUME IInv, UNCHANGED <<q_sending, msg, has_int_msg>>,
         \A p \in Procs : Status(p)' = Status(p) /\ Partner(p)' = Partner(p)
  PROVE  UNCHANGED R!vars
<1>1. StatusBar' = StatusBar /\ PartnerBar' = PartnerBar
  BY BarsUnchanged
<1>2. WaitingBar' = WaitingBar
  BY WaitingUnchanged
<1>3. InboxBar' = InboxBar
  BY SMT DEF InboxBar, Inbox
<1> QED BY <1>1, <1>2, <1>3 DEF R!vars

LEMMA SendDeadlockStutters ==
  IInv /\ CallInterrupted /\ SendDeadlock => UNCHANGED R!vars
<1> SUFFICES ASSUME IInv, CallInterrupted, SendDeadlock PROVE UNCHANGED R!vars
  OBVIOUS
<1>1. \A p \in Procs : Status(p)' = Status(p) /\ Partner(p)' = Partner(p)
  BY IpcAssumption
     DEF SendDeadlock, Halt, procVars, Status, Partner, IInv, TypeOK, FieldsConsistent,
         CallConsistent, CallInterrupted, SendPoints, ReceivePoints, Sending, Receiving,
         WaitsFor, Hidden
<1>2. UNCHANGED <<q_sending, msg, has_int_msg>>
  BY DEF SendDeadlock, procVars
<1> QED BY <1>1, <1>2, Stutters

LEMMA SendMatchStutters ==
  IInv /\ CallInterrupted /\ SendMatch => UNCHANGED R!vars
<1> SUFFICES ASSUME IInv, CallInterrupted, SendMatch PROVE UNCHANGED R!vars
  OBVIOUS
<1>1. \A p \in Procs : Status(p)' = Status(p) /\ Partner(p)' = Partner(p)
  BY IpcAssumption
     DEF SendMatch, GoTo, procVars, Status, Partner, IInv, TypeOK, FieldsConsistent, CallConsistent,
         CallInterrupted, SendPoints, ReceivePoints, Sending, Receiving, WaitsFor, Hidden
<1>2. UNCHANGED <<q_sending, msg, has_int_msg>>
  BY DEF SendMatch, procVars
<1> QED BY <1>1, <1>2, Stutters

LEMMA SendAssertStutters ==
  IInv /\ CallInterrupted /\ SendAssert => UNCHANGED R!vars
<1> SUFFICES ASSUME IInv, CallInterrupted, SendAssert PROVE UNCHANGED R!vars
  OBVIOUS
<1>1. \A p \in Procs : Status(p)' = Status(p) /\ Partner(p)' = Partner(p)
  BY IpcAssumption
     DEF SendAssert, GoTo, Halt, procVars, Status, Partner, IInv, TypeOK, FieldsConsistent,
         CallConsistent, CallInterrupted, SendPoints, ReceivePoints, Sending, Receiving,
         WaitsFor, Hidden
<1>2. UNCHANGED <<q_sending, msg, has_int_msg>>
  BY DEF SendAssert, procVars
<1> QED BY <1>1, <1>2, Stutters

LEMMA SendNullStutters ==
  IInv /\ CallInterrupted /\ SendNull => UNCHANGED R!vars
<1> SUFFICES ASSUME IInv, CallInterrupted, SendNull PROVE UNCHANGED R!vars
  OBVIOUS
<1>1. \A p \in Procs : Status(p)' = Status(p) /\ Partner(p)' = Partner(p)
  BY IpcAssumption
     DEF SendNull, GoTo, procVars, Status, Partner, IInv, TypeOK, FieldsConsistent, CallConsistent,
         CallInterrupted, SendPoints, ReceivePoints, Sending, Receiving, WaitsFor, Hidden
<1>2. UNCHANGED <<q_sending, msg, has_int_msg>>
  BY DEF SendNull, procVars
<1> QED BY <1>1, <1>2, Stutters

LEMMA SendFinishStutters ==
  IInv /\ CallInterrupted /\ SendFinish => UNCHANGED R!vars
<1> SUFFICES ASSUME IInv, CallInterrupted, SendFinish PROVE UNCHANGED R!vars
  OBVIOUS
<1>1. \A p \in Procs : Status(p)' = Status(p) /\ Partner(p)' = Partner(p)
  BY IpcAssumption
     DEF SendFinish, Return, procVars, Status, Partner, IInv, TypeOK, FieldsConsistent,
         CallConsistent, CallInterrupted, SendPoints, ReceivePoints, Sending, Receiving,
         WaitsFor, Hidden
<1>2. UNCHANGED <<q_sending, msg, has_int_msg>>
  BY DEF SendFinish, procVars
<1> QED BY <1>1, <1>2, Stutters

LEMMA ReceiveInterruptCheckStutters ==
  IInv /\ CallInterrupted /\ ReceiveInterruptCheck => UNCHANGED R!vars
<1> SUFFICES ASSUME IInv, CallInterrupted, ReceiveInterruptCheck PROVE UNCHANGED R!vars
  OBVIOUS
<1>1. \A p \in Procs : Status(p)' = Status(p) /\ Partner(p)' = Partner(p)
  BY IpcAssumption
     DEF ReceiveInterruptCheck, Halt, Return, procVars, Status, Partner, IInv, TypeOK,
         FieldsConsistent, CallConsistent, CallInterrupted, SendPoints, ReceivePoints, Sending,
         Receiving, WaitsFor, Hidden
<1>2. UNCHANGED <<q_sending, msg, has_int_msg>>
  BY DEF ReceiveInterruptCheck, procVars
<1> QED BY <1>1, <1>2, Stutters

LEMMA ReceiveNoInterruptStutters ==
  IInv /\ CallInterrupted /\ ReceiveNoInterrupt => UNCHANGED R!vars
<1> SUFFICES ASSUME IInv, CallInterrupted, ReceiveNoInterrupt PROVE UNCHANGED R!vars
  OBVIOUS
<1>1. \A p \in Procs : Status(p)' = Status(p) /\ Partner(p)' = Partner(p)
  BY IpcAssumption
     DEF ReceiveNoInterrupt, GoTo, procVars, Status, Partner, IInv, TypeOK, FieldsConsistent,
         CallConsistent, CallInterrupted, SendPoints, ReceivePoints, Sending, Receiving,
         WaitsFor, Hidden
<1>2. UNCHANGED <<q_sending, msg, has_int_msg>>
  BY DEF ReceiveNoInterrupt, procVars
<1> QED BY <1>1, <1>2, Stutters

LEMMA ReceiveFlagStutters ==
  IInv /\ CallInterrupted /\ ReceiveFlag => UNCHANGED R!vars
<1> SUFFICES ASSUME IInv, CallInterrupted, ReceiveFlag PROVE UNCHANGED R!vars
  OBVIOUS
<1>1. \A p \in Procs : Status(p)' = Status(p) /\ Partner(p)' = Partner(p)
  BY IpcAssumption
     DEF ReceiveFlag, GoTo, procVars, Status, Partner, IInv, TypeOK, FieldsConsistent,
         CallConsistent, CallInterrupted, SendPoints, ReceivePoints, Sending, Receiving,
         WaitsFor, Hidden
<1>2. UNCHANGED <<q_sending, msg, has_int_msg>>
  BY DEF ReceiveFlag, procVars
<1> QED BY <1>1, <1>2, Stutters

LEMMA ReceiveBlockStutters ==
  IInv /\ CallInterrupted /\ ReceiveBlock => UNCHANGED R!vars
<1> SUFFICES ASSUME IInv, CallInterrupted, ReceiveBlock PROVE UNCHANGED R!vars
  OBVIOUS
<1>1. \A p \in Procs : Status(p)' = Status(p) /\ Partner(p)' = Partner(p)
  BY IpcAssumption
     DEF ReceiveBlock, GoTo, Halt, procVars, Status, Partner, IInv, TypeOK, FieldsConsistent,
         CallConsistent, CallInterrupted, SendPoints, ReceivePoints, Sending, Receiving,
         WaitsFor, Hidden
<1>2. UNCHANGED <<q_sending, msg, has_int_msg>>
  BY DEF ReceiveBlock, procVars
<1> QED BY <1>1, <1>2, Stutters

LEMMA ReceiveCheckStutters ==
  IInv /\ CallInterrupted /\ ReceiveCheck => UNCHANGED R!vars
<1> SUFFICES ASSUME IInv, CallInterrupted, ReceiveCheck PROVE UNCHANGED R!vars
  OBVIOUS
<1>1. \A p \in Procs : Status(p)' = Status(p) /\ Partner(p)' = Partner(p)
  BY IpcAssumption
     DEF ReceiveCheck, Return, Halt, procVars, Status, Partner, IInv, TypeOK, FieldsConsistent,
         CallConsistent, CallInterrupted, SendPoints, ReceivePoints, Sending, Receiving,
         WaitsFor, Hidden
<1>2. UNCHANGED <<q_sending, msg, has_int_msg>>
  BY DEF ReceiveCheck, procVars
<1> QED BY <1>1, <1>2, Stutters

LEMMA FunctionUpdate ==
  ASSUME NEW S, NEW f, NEW g, f = [r \in S |-> f[r]], g = [r \in S |-> g[r]],
         NEW p \in S, \A r \in S \ {p} : g[r] = f[r]
  PROVE  g = [f EXCEPT ![p] = g[p]]
BY SMT

(* A step that changes one process as Rendezvous sees it.  *)
LEMMA StatusUpdate ==
  ASSUME NEW p \in Procs, NEW v, Status(p)' = v,
         \A r \in Procs \ {p} : Status(r)' = Status(r)
  PROVE  StatusBar' = [StatusBar EXCEPT ![p] = v]
<1>1. \A r \in Procs : StatusBar[r] = Status(r) /\ StatusBar'[r] = Status(r)'
  BY DEF StatusBar
<1>2. StatusBar = [r \in Procs |-> StatusBar[r]] /\ StatusBar' = [r \in Procs |-> StatusBar'[r]]
  BY DEF StatusBar
<1> QED BY <1>1, <1>2, FunctionUpdate

LEMMA PartnerUpdate ==
  ASSUME NEW p \in Procs, NEW v, Partner(p)' = v,
         \A r \in Procs \ {p} : Partner(r)' = Partner(r)
  PROVE  PartnerBar' = [PartnerBar EXCEPT ![p] = v]
<1>1. \A r \in Procs : PartnerBar[r] = Partner(r) /\ PartnerBar'[r] = Partner(r)'
  BY DEF PartnerBar
<1>2. PartnerBar = [r \in Procs |-> PartnerBar[r]] /\ PartnerBar' = [r \in Procs |-> PartnerBar'[r]]
  BY DEF PartnerBar
<1> QED BY <1>1, <1>2, FunctionUpdate

LEMMA InboxUpdate ==
  ASSUME NEW p \in Procs, NEW v, Inbox(p)' = v,
         \A r \in Procs \ {p} : msg'[r] = msg[r]
  PROVE  InboxBar' = [InboxBar EXCEPT ![p] = v]
<1>1. \A r \in Procs : InboxBar[r] = Inbox(r) /\ InboxBar'[r] = Inbox(r)'
  BY DEF InboxBar
<1>2. InboxBar = [r \in Procs |-> InboxBar[r]] /\ InboxBar' = [r \in Procs |-> InboxBar'[r]]
  BY DEF InboxBar
<1> QED BY <1>1, <1>2, FunctionUpdate DEF Inbox

LEMMA InboxUnchanged == ASSUME UNCHANGED msg PROVE InboxBar' = InboxBar
BY SMT DEF InboxBar, Inbox

LEMMA BarValue ==
  ASSUME NEW p \in Procs
  PROVE  StatusBar[p] = Status(p) /\ PartnerBar[p] = Partner(p)
BY DEF StatusBar, PartnerBar

LEMMA EnterRefines ==
  ASSUME NEW p \in Procs, NEW point \in {"send_test", "recv_test"},
         NEW srcDest, NEW type, IInv, Enter(p, point, srcDest, type)
  PROVE  R!Reuse(p)
<1>1. \A r \in Procs : Status(r)' = Status(r) /\ Partner(r)' = Partner(r)
  BY DEF Enter, procVars, Status, Partner, Sending, Receiving, Hidden
<1>2. StatusBar' = StatusBar /\ PartnerBar' = PartnerBar
  BY <1>1, BarsUnchanged
<1>3. p_flags[p] = {} /\ \A r \in Procs \ {p} : msg'[r] = msg[r]
  BY DEF Enter, IInv, TypeOK
<1>4. Inbox(p)' = NO_TASK
  BY DEF Enter, Inbox, IInv, TypeOK
<1>5. InboxBar' = [InboxBar EXCEPT ![p] = NO_TASK]
  BY <1>3, <1>4, InboxUpdate
<1>6. WaitingBar' = WaitingBar
  BY <1>3, WaitingUnchanged DEF Enter, procVars, Sending
<1>7. StatusBar[p] = "ready"
  BY <1>3, BarValue DEF Status, Sending, Receiving
<1> QED BY <1>2, <1>5, <1>6, <1>7 DEF R!Reuse, Enter

LEMMA ReceiveInterruptRefines ==
  ASSUME IInv, ReceiveInterrupt
  PROVE  current \in Procs /\ R!ReceiveInterrupt(current)
<1>1. current \in Procs /\ p_flags[current] = {}
  BY DEF ReceiveInterrupt, IInv, CallConsistent, ReceivePoints
<1>2. \A r \in Procs : Status(r)' = Status(r) /\ Partner(r)' = Partner(r)
  BY DEF ReceiveInterrupt, GoTo, procVars, Status, Partner, Sending, Receiving, Hidden
<1>3. StatusBar' = StatusBar /\ PartnerBar' = PartnerBar
  BY <1>2, BarsUnchanged
<1>4. Inbox(current)' = R!IntMessage
  BY <1>1, IpcAssumption DEF ReceiveInterrupt, GoTo, Inbox, IInv, TypeOK, R!IntMessage
<1>5. InboxBar' = [InboxBar EXCEPT ![current] = R!IntMessage]
  <2>1. \A r \in Procs \ {current} : msg'[r] = msg[r]
    BY <1>1 DEF ReceiveInterrupt, IInv, TypeOK
  <2> QED BY <2>1, <1>1, <1>4, InboxUpdate DEF ReceiveInterrupt, GoTo
<1>6. WaitingBar' = WaitingBar
  BY <1>1, WaitingUnchanged DEF ReceiveInterrupt, procVars, Sending, IInv, TypeOK
<1>7. StatusBar[current] = "ready"
  BY <1>1, BarValue DEF Status, Sending, Receiving
<1> QED BY <1>1, <1>3, <1>5, <1>6, <1>7 DEF R!ReceiveInterrupt, ReceiveInterrupt

LEMMA SendCopyRefines ==
  ASSUME IInv, CallInterrupted, SendCopy, p_msg[peer]
  PROVE  /\ current \in Procs /\ peer \in Procs /\ msg[current].type \in Types \union {HARD_INT}
         /\ R!SendDeliver(current, peer, msg[current].type)
<1>1. /\ current \in Procs /\ peer \in Procs /\ peer # current
      /\ p_flags[current] = {} /\ ~Sending(peer) /\ WaitsFor(peer, current)
      /\ kpc = "send_copy" /\ kpc' = "send_null"
      /\ msg[current] \in Message /\ msg[current].source = current
  <2>1. /\ current \in Procs /\ peer \in Procs /\ peer # current
        /\ p_flags[current] = {} /\ ~Sending(peer) /\ kpc = "send_copy"
        /\ p_flags[peer] # {} /\ p_flags[peer] \subseteq {"SENDING", "RECEIVING"}
    BY DEF SendCopy, IInv, TypeOK, FieldsConsistent, CallConsistent, SendPoints
  <2>2. Receiving(peer)
    BY <2>1 DEF Sending, Receiving
  <2> QED BY <2>1, <2>2 DEF SendCopy, GoTo, IInv, TypeOK, CallInterrupted, SendPoints
<1>2. msg[current] = [source |-> current, type |-> msg[current].type]
      /\ msg[current].type \in Types \union {HARD_INT}
  BY <1>1 DEF Message
<1>3. msg' = [msg EXCEPT ![peer] = msg[current]]
  BY DEF SendCopy
<1>4. UNCHANGED <<procVars, has_int_msg, current, peer>>
  BY DEF SendCopy, GoTo
<1>5. /\ Status(peer) = "receiving" /\ Partner(peer) = p_recvfrom[peer]
      /\ Status(peer)' = "ready" /\ Partner(peer)' = NO_TASK
  BY <1>1, <1>4, IpcAssumption
     DEF procVars, Status, Partner, Sending, Receiving, WaitsFor, Hidden
<1>6. \A r \in Procs \ {peer} : Status(r)' = Status(r) /\ Partner(r)' = Partner(r)
  BY <1>1, <1>4 DEF procVars, Status, Partner, Sending, Receiving, Hidden
<1>7. /\ StatusBar' = [StatusBar EXCEPT ![peer] = "ready"]
      /\ PartnerBar' = [PartnerBar EXCEPT ![peer] = NO_TASK]
  BY <1>1, <1>4, <1>5, <1>6, StatusUpdate, PartnerUpdate
<1>8. InboxBar' = [InboxBar EXCEPT ![peer] = msg[current]]
  <2>1. Inbox(peer)' = msg[current] /\ \A r \in Procs \ {peer} : msg'[r] = msg[r]
    BY <1>1, <1>3, <1>4 DEF Inbox, IInv, TypeOK
  <2> QED BY <2>1, <1>1, <1>4, InboxUpdate
<1>9. WaitingBar' = WaitingBar
  BY <1>1, <1>3, <1>4, WaitingUnchanged DEF procVars, IInv, TypeOK
<1>10. StatusBar[current] = "ready"
  BY <1>1, BarValue DEF Status, Sending, Receiving
<1>11. R!Expects(peer, current)
  BY <1>1, <1>5, BarValue DEF R!Expects, WaitsFor
<1> QED BY <1>1, <1>2, <1>4, <1>7, <1>8, <1>9, <1>10, <1>11 DEF R!SendDeliver

(* An interrupt took the buffer away: the message is lost.  *)
LEMMA SendCopyStutters ==
  ASSUME IInv, CallInterrupted, SendCopy, ~p_msg[peer]
  PROVE  UNCHANGED R!vars
<1>1. /\ peer \in Procs /\ ~Sending(peer) /\ kpc = "send_copy"
      /\ Receiving(peer) => p_msg[peer]
  BY DEF SendCopy, IInv, CallConsistent, SendPoints, CallInterrupted, Hidden
<1>2. ~Receiving(peer) /\ p_recvfrom[peer] = NO_TASK
  BY <1>1 DEF IInv, FieldsConsistent
<1>3. UNCHANGED <<procVars, has_int_msg, msg, peer>> /\ kpc' = "send_null"
  BY DEF SendCopy, GoTo
<1>4. \A p \in Procs : Status(p)' = Status(p) /\ Partner(p)' = Partner(p)
  BY <1>1, <1>2, <1>3 DEF procVars, Status, Partner, Sending, Receiving, Hidden
<1> QED BY <1>3, <1>4, Stutters DEF procVars

LEMMA ReceiveFromRefines ==
  ASSUME IInv, CallInterrupted, ReceiveFrom
  PROVE  /\ current \in Procs /\ peer \in Procs \union {ANY, INTERRUPT}
         /\ \/ R!ReceiveWait(current, peer)
            \/ /\ current \in Informed /\ peer \in {ANY, INTERRUPT}
               /\ R!WaitAnyway(current, peer)
<1>1. /\ current \in Procs /\ peer \in Procs \union {ANY, INTERRUPT}
      /\ Receiving(current) /\ p_recvfrom[current] = NO_TASK /\ ~Sending(current)
      /\ kpc = "recv_from" /\ kpc' = "recv_block"
      /\ \A s \in Procs : Sending(s) /\ p_sendto[s] = current => peer \notin {s, ANY}
  BY DEF ReceiveFrom, GoTo, IInv, FieldsConsistent, CallConsistent, CallInterrupted,
         ReceivePoints, Receiving, Sending
<1>2. p_recvfrom' = [p_recvfrom EXCEPT ![current] = peer]
      /\ UNCHANGED <<p_flags, p_sendto, q_sending, has_int_msg, msg, current, peer>>
  BY DEF ReceiveFrom, GoTo
<1>3. /\ Status(current) = "ready" /\ Status(current)' = "receiving" /\ Partner(current)' = peer
  BY <1>1, <1>2, IpcAssumption
     DEF IInv, TypeOK, Status, Partner, Sending, Receiving, Hidden
<1>4. \A r \in Procs \ {current} : Status(r)' = Status(r) /\ Partner(r)' = Partner(r)
  BY <1>1, <1>2 DEF IInv, TypeOK, Status, Partner, Sending, Receiving, Hidden
<1>5. /\ StatusBar' = [StatusBar EXCEPT ![current] = "receiving"]
      /\ PartnerBar' = [PartnerBar EXCEPT ![current] = peer]
  BY <1>1, <1>2, <1>3, <1>4, StatusUpdate, PartnerUpdate
<1>6. WaitingBar' = WaitingBar /\ InboxBar' = InboxBar
  BY <1>2, WaitingUnchanged, InboxUnchanged
<1>7. R!Acceptable(current, peer) = {}
  <2> SUFFICES ASSUME NEW i \in R!Acceptable(current, peer) PROVE FALSE
    OBVIOUS
  <2> DEFINE q == q_sending[current]
  <2>1. WaitingBar[current] = [j \in DOMAIN q |-> msg[q[j]]]
    BY <1>1 DEF WaitingBar
  <2>2. i \in DOMAIN q /\ (peer = ANY \/ msg[q[i]].source = peer)
    BY <2>1 DEF R!Acceptable
  <2>3. q \in Seq(Procs)
    BY <1>1 DEF IInv, TypeOK
  <2>4. q[i] \in Procs
    BY <2>2, <2>3
  <2>5. Sending(q[i]) /\ p_sendto[q[i]] = current
    BY <2>2, <2>4, <1>1 DEF IInv, QueueExact
  <2>6. msg[q[i]].source = q[i]
    BY <2>4, <2>5, <1>1 DEF CallInterrupted, Sending, Hidden
  <2> QED BY <1>1, <2>2, <2>4, <2>5, <2>6
<1>8. R!AnswersInterrupt(current, peer) => current \in Informed /\ peer \in {ANY, INTERRUPT}
  BY <1>1 DEF R!AnswersInterrupt, CallInterrupted
<1>9. StatusBar[current] = "ready"
  BY <1>1, <1>3, BarValue
<1> QED BY <1>1, <1>2, <1>5, <1>6, <1>7, <1>8, <1>9 DEF R!ReceiveWait, R!WaitAnyway


(* Mapping the members of a list commutes with appending one.  *)
LEMMA MapAppend ==
  ASSUME NEW S, NEW q \in Seq(S), NEW e, NEW f
  PROVE  [i \in DOMAIN Append(q, e) |-> f[Append(q, e)[i]]]
           = Append([i \in DOMAIN q |-> f[q[i]]], f[e])
OBVIOUS

LEMMA SendBlockRefines ==
  ASSUME IInv, CallInterrupted, SendBlock,
         NEW s \in Procs, s = current, NEW d \in Procs, d = peer
  PROVE  /\ msg[s].type \in Types \union {HARD_INT}
         /\ R!SendWait(s, d, msg[s].type)
<1> DEFINE m == [source |-> s, type |-> msg[s].type]
<1>1. /\ s # d /\ p_flags[s] = {} /\ ~WaitsFor(d, s)
      /\ kpc = "send_test" /\ kpc' = "user"
      /\ msg[s] \in Message /\ msg[s].source = s
  BY DEF SendBlock, Return, IInv, TypeOK, CallConsistent, CallInterrupted, SendPoints
<1>2. msg[s] = m /\ msg[s].type \in Types \union {HARD_INT}
  BY <1>1 DEF Message
<1>3. /\ p_flags' = [p_flags EXCEPT ![s] = @ \union {"SENDING"}]
      /\ p_sendto' = [p_sendto EXCEPT ![s] = d]
      /\ q_sending' = [q_sending EXCEPT ![d] = Append(@, s)]
      /\ UNCHANGED <<p_recvfrom, has_int_msg, msg>>
  BY DEF SendBlock
<1>4. IInv'
  BY SendBlockStep
<1>5. /\ Status(s)' = "sending" /\ Partner(s)' = d
      /\ \A r \in Procs \ {s} : Status(r)' = Status(r) /\ Partner(r)' = Partner(r)
  BY <1>1, <1>3 DEF IInv, TypeOK, Status, Partner, Sending, Receiving, Hidden
<1>6. StatusBar' = [StatusBar EXCEPT ![s] = "sending"]
  BY <1>5, StatusUpdate
<1>7. PartnerBar' = [PartnerBar EXCEPT ![s] = d]
  BY <1>5, PartnerUpdate
<1>8. WaitingBar' = [WaitingBar EXCEPT ![d] = Append(@, m)]
  <2> DEFINE w(q) == [i \in DOMAIN q |-> msg[q[i]]]
  <2>1. \A r \in Procs : WaitingBar[r] = w(q_sending[r]) /\ WaitingBar'[r] = w(q_sending'[r])
    BY <1>3 DEF WaitingBar
  <2>2. WaitingBar = [r \in Procs |-> WaitingBar[r]]
        /\ WaitingBar' = [r \in Procs |-> WaitingBar'[r]]
    BY DEF WaitingBar
  <2>3. \A r \in Procs \ {d} : q_sending'[r] = q_sending[r]
    BY <1>1, <1>3 DEF IInv, TypeOK
  <2>4. q_sending[d] \in Seq(Procs) /\ q_sending'[d] = Append(q_sending[d], s)
    BY <1>1, <1>3 DEF IInv, TypeOK
  <2>5. w(Append(q_sending[d], s)) = Append(w(q_sending[d]), m)
    BY <1>1, <1>2, <2>4, MapAppend
  <2> HIDE DEF w, m
  <2>6. WaitingBar'[d] = Append(WaitingBar[d], m)
    BY <1>1, <2>1, <2>4, <2>5
  <2>7. \A r \in Procs \ {d} : WaitingBar'[r] = WaitingBar[r]
    BY <2>1, <2>3
  <2> QED BY <1>1, <2>2, <2>6, <2>7, FunctionUpdate
<1>9. InboxBar' = InboxBar
  BY <1>3, InboxUnchanged
<1>10. StatusBar[s] = "ready"
  BY <1>1, BarValue DEF Status, Sending, Receiving
<1>11. ~R!Expects(d, s)
  BY <1>1, BarValue DEF R!Expects, Status, Partner, WaitsFor, Hidden
<1>12. R!Acyclic(StatusBar', PartnerBar')
  <2> SUFFICES ASSUME NEW S \in (SUBSET Procs) \ {{}},
                      \A p \in S : StatusBar'[p] = "sending" /\ PartnerBar'[p] \in S
               PROVE  FALSE
    BY DEF R!Acyclic
  <2>1. \A p \in Procs : StatusBar'[p] = Status(p)' /\ PartnerBar'[p] = Partner(p)'
    BY DEF StatusBar, PartnerBar
  <2>2. \A p \in Procs : Status(p)' = "sending" => Sending(p)' /\ Partner(p)' = p_sendto'[p]
    BY DEF Status, Partner
  <2>3. \A p \in S : Sending(p)' /\ p_sendto'[p] \in S
    BY <2>1, <2>2
  <2> QED BY <1>4, <2>3 DEF IInv, NoSendCycle
<1> QED BY <1>1, <1>2, <1>3, <1>6, <1>7, <1>8, <1>9, <1>10, <1>11, <1>12 DEF R!SendWait

LEMMA InterruptRefines ==
  ASSUME NEW t \in Procs, IInv, CallInterrupted, inform_int(t)
  PROVE  R!Interrupt(t) \/ R!WakeLate(t) \/ R!Overrun(t)
<1>1. /\ UNCHANGED <<p_sendto, q_sending, kpc, current, peer>>
      /\ \A p \in Procs : Hidden(p)' = Hidden(p)
  BY DEF inform_int, InformReceiver, InformBusy, procVars, Hidden
<1>2. CASE InformReceiver(t)
  <2>1. /\ p_flags[t] = {"RECEIVING"} /\ ~Sending(t) /\ Receiving(t)
        /\ p_recvfrom[t] \in {ANY, INTERRUPT}
    BY <1>2 DEF InformReceiver, AcceptsInterrupt, TakesInterrupts, IInv, TypeOK,
                FieldsConsistent, Sending, Receiving
  <2>2. /\ p_flags' = [p_flags EXCEPT ![t] = {}]
        /\ p_recvfrom' = [p_recvfrom EXCEPT ![t] = NO_TASK]
        /\ msg' = IF p_msg[t] THEN [msg EXCEPT ![t] = R!IntMessage] ELSE msg
        /\ has_int_msg' = [has_int_msg EXCEPT ![t] = FALSE]
    BY <1>2, <2>1 DEF InformReceiver, R!IntMessage
  <2>3. /\ Status(t)' = "ready" /\ Partner(t)' = NO_TASK
        /\ \A r \in Procs \ {t} : Status(r)' = Status(r) /\ Partner(r)' = Partner(r)
    BY <1>1, <2>2 DEF IInv, TypeOK, Status, Partner, Sending, Receiving, Hidden
  <2>4. /\ StatusBar' = [StatusBar EXCEPT ![t] = "ready"]
        /\ PartnerBar' = [PartnerBar EXCEPT ![t] = NO_TASK]
    BY <2>3, StatusUpdate, PartnerUpdate
  <2>5. p_msg[t] => InboxBar' = [InboxBar EXCEPT ![t] = R!IntMessage]
    <3>1. p_msg[t] => Inbox(t)' = R!IntMessage /\ \A r \in Procs \ {t} : msg'[r] = msg[r]
      BY <2>2, IpcAssumption DEF Inbox, IInv, TypeOK, R!IntMessage
    <3> QED BY <3>1, InboxUpdate
  <2>6. ~p_msg[t] => InboxBar' = InboxBar
    BY <2>2, InboxUnchanged
  <2>7. WaitingBar' = WaitingBar
    BY <1>1, <2>1, <2>2, WaitingUnchanged DEF Sending, IInv, TypeOK
  <2>8. CASE Hidden(t)
    <3>1. /\ t = peer /\ current \in Procs /\ peer # current
          /\ msg[t] = msg[current] /\ msg[current].source = current
      BY <2>1, <2>8 DEF Hidden, IInv, CallConsistent, CallInterrupted, SendPoints
    <3>2. \E s \in Procs, type \in Types \union {HARD_INT} :
            InboxBar[t] = [source |-> s, type |-> type]
      <4>1. InboxBar[t] = Inbox(t)
        BY DEF InboxBar
      <4>2. Inbox(t) = msg[t]
        BY <3>1 DEF Inbox
      <4>3. msg[t] \in Message
        BY DEF IInv, TypeOK
      <4>4. msg[t] = [source |-> current, type |-> msg[t].type]
            /\ msg[t].type \in Types \union {HARD_INT}
        BY <3>1, <4>3 DEF Message
      <4> QED BY <3>1, <4>1, <4>2, <4>4
    <3>3. StatusBar[t] = "ready" /\ PartnerBar[t] = NO_TASK
      BY <2>1, <2>8, BarValue DEF Status, Partner
    <3>4. StatusBar' = StatusBar /\ PartnerBar' = PartnerBar
      BY <2>4, <3>3 DEF StatusBar, PartnerBar
    <3> QED BY <2>2, <2>5, <2>6, <2>7, <3>1, <3>2, <3>3, <3>4 DEF R!Overrun
  <2>9. CASE ~Hidden(t)
    <3>1. p_msg[t]
      BY <2>1, <2>9 DEF CallInterrupted
    <3>2. StatusBar[t] = "receiving" /\ PartnerBar[t] = p_recvfrom[t]
      BY <2>1, <2>9, BarValue, IpcAssumption DEF Status, Partner
    <3>3. CASE has_int_msg[t]
      BY <2>1, <2>2, <2>4, <2>5, <2>7, <3>1, <3>2, <3>3 DEF R!WakeLate, R!AnswersInterrupt
    <3>4. CASE ~has_int_msg[t]
      <4>1. has_int_msg' = has_int_msg
        BY <2>2, <3>4 DEF IInv, TypeOK
      <4> QED BY <2>1, <2>4, <2>5, <2>7, <3>1, <3>2, <4>1 DEF R!Interrupt
    <3> QED BY <3>3, <3>4
  <2> QED BY <2>8, <2>9
<1>3. CASE InformBusy(t)
  <2>1. ~AcceptsInterrupt(t) /\ has_int_msg' = [has_int_msg EXCEPT ![t] = TRUE]
        /\ UNCHANGED <<procVars, msg, kpc, peer>>
    BY <1>3 DEF InformBusy
  <2>2. \A r \in Procs : Status(r)' = Status(r) /\ Partner(r)' = Partner(r)
    BY <1>1, <2>1 DEF procVars, Status, Partner, Sending, Receiving
  <2>3. StatusBar' = StatusBar /\ PartnerBar' = PartnerBar
    BY <2>2, BarsUnchanged
  <2>4. WaitingBar' = WaitingBar /\ InboxBar' = InboxBar
    BY <2>1, WaitingUnchanged, InboxUnchanged DEF procVars
  <2>5. ~(StatusBar[t] = "receiving" /\ PartnerBar[t] \in {ANY, INTERRUPT})
    BY <2>1, BarValue DEF AcceptsInterrupt, TakesInterrupts, Status, Partner
  <2> QED BY <2>1, <2>3, <2>4, <2>5 DEF R!Interrupt
<1> QED BY <1>2, <1>3 DEF inform_int

(* Mapping the members of a list commutes with removing one.  *)
LEMMA MapRemoveAt ==
  ASSUME NEW S, NEW q \in Seq(S), NEW k \in DOMAIN q, NEW f
  PROVE  [i \in DOMAIN RemoveAt(q, k) |-> f[RemoveAt(q, k)[i]]]
           = RemoveAt([i \in DOMAIN q |-> f[q[i]]], k)
<1> DEFINE T == {f[x] : x \in S}
           w == [i \in DOMAIN q |-> f[q[i]]]
           r == RemoveAt(q, k)
           v == RemoveAt(w, k)
<1>1. /\ Len(q) \in Nat /\ DOMAIN q = 1..Len(q) /\ k \in 1..Len(q)
      /\ \A i \in 1..Len(q) : q[i] \in S
  OBVIOUS
<1>2. w \in Seq(T) /\ Len(w) = Len(q) /\ k \in DOMAIN w
  <2>1. w \in [1..Len(q) -> T]
    BY <1>1
  <2> QED BY <1>1, <2>1
<1>3. /\ DOMAIN r = 1..(Len(q) - 1)
      /\ \A j \in 1..(Len(q) - 1) : r[j] = IF j < k THEN q[j] ELSE q[j + 1]
  BY RemoveAtProperties
<1>w. \A i \in 1..Len(q) : w[i] = f[q[i]]
  BY <1>1
<1> HIDE DEF T
<1>4. /\ v \in Seq(T) /\ DOMAIN v = 1..(Len(q) - 1)
      /\ \A j \in 1..(Len(q) - 1) : v[j] = IF j < k THEN w[j] ELSE w[j + 1]
  <2> HIDE DEF w
  <2> QED BY <1>2, RemoveAtProperties
<1>5. \A j \in 1..(Len(q) - 1) : v[j] = f[r[j]]
  <2> HIDE DEF v, r, w
  <2> QED BY <1>1, <1>3, <1>4, <1>w
<1> HIDE DEF v, r, w
<1>6. v = [j \in DOMAIN v |-> v[j]]
  BY <1>4
<1>7. v = [i \in DOMAIN r |-> f[r[i]]]
  BY <1>3, <1>4, <1>5, <1>6
<1> QED BY <1>7 DEF v, r, w

LEMMA ReceiveTakeRefines ==
  ASSUME IInv, CallInterrupted, ReceiveTake,
         NEW d \in Procs, d = current, NEW src, src = peer
  PROVE  \/ R!ReceiveTake(d, src)
         \/ d \in Informed /\ src \in {ANY, INTERRUPT} /\ R!TakeAnyway(d, src)
<1>1. PICK k \in Candidates(current, peer) :
        /\ TakeMessage(q_sending[current][k])
        /\ q_sending' = [q_sending EXCEPT ![current] = RemoveAt(@, k)]
  BY DEF ReceiveTake
<1> DEFINE q == q_sending[d]
<1>2. PICK from \in Procs : from = q_sending[d][k]
  BY <1>1, TakenFromSender DEF ReceiveTake
<1>3. /\ kpc = "recv_queue" /\ kpc' = "user" /\ p_flags[d] = {}
      /\ UNCHANGED <<p_recvfrom, has_int_msg>>
  BY DEF ReceiveTake, Return, IInv, CallConsistent, CallInterrupted, ReceivePoints
<1>4. /\ q \in Seq(Procs) /\ k \in DOMAIN q /\ q[k] = from
      /\ Sending(from) /\ from # d /\ p_sendto[from] = d
      /\ src = ANY => k = 1
      /\ src # ANY => src = from
  <2>1. q \in Seq(Procs) /\ k \in DOMAIN q /\ Sending(from) /\ from # d /\ p_sendto[from] = d
    BY <1>1, <1>2, <1>3, TakenFromSender
  <2>2. \/ peer = ANY /\ k = 1
        \/ peer = q_sending[current][k]
    BY <1>1 DEF Candidates
  <2>3. from # ANY
    BY <1>2, IpcAssumption
  <2> QED BY <1>2, <2>1, <2>2, <2>3
<1>5. /\ p_flags[from] = {"SENDING"} /\ p_recvfrom[from] = NO_TASK
      /\ msg[from].source = from /\ msg[from] \in Message
  BY <1>3, <1>4 DEF IInv, TypeOK, FieldsConsistent, CallInterrupted, Hidden
<1>6. /\ msg' = [msg EXCEPT ![d] = msg[from]]
      /\ p_sendto' = [p_sendto EXCEPT ![from] = NO_TASK]
      /\ p_flags' = [p_flags EXCEPT ![from] = {}]
      /\ q_sending' = [q_sending EXCEPT ![d] = RemoveAt(q, k)]
  BY <1>1, <1>2, <1>5 DEF TakeMessage
<1>7. /\ Status(from)' = "ready" /\ Partner(from)' = NO_TASK
      /\ \A r \in Procs \ {from} : Status(r)' = Status(r) /\ Partner(r)' = Partner(r)
  BY <1>3, <1>5, <1>6 DEF IInv, TypeOK, Status, Partner, Sending, Receiving, Hidden
<1>8. /\ StatusBar' = [StatusBar EXCEPT ![from] = "ready"]
      /\ PartnerBar' = [PartnerBar EXCEPT ![from] = NO_TASK]
  BY <1>7, StatusUpdate, PartnerUpdate
<1>9. InboxBar' = [InboxBar EXCEPT ![d] = msg[from]]
  <2>1. Inbox(d)' = msg[from] /\ \A r \in Procs \ {d} : msg'[r] = msg[r]
    BY <1>4, <1>5, <1>6 DEF Inbox, IInv, TypeOK
  <2> QED BY <2>1, InboxUpdate
<1>10. WaitingBar' = [WaitingBar EXCEPT ![d] = RemoveAt(@, k)]
  <2> DEFINE w(list) == [i \in DOMAIN list |-> msg[list[i]]]
  <2>1. ASSUME NEW r \in Procs, NEW i \in DOMAIN q_sending'[r]
        PROVE  msg'[q_sending'[r][i]] = msg[q_sending'[r][i]]
    <3>1. IInv'
      BY ReceiveTakeStep
    <3>2. q_sending'[r] \in Seq(Procs)
      BY <3>1 DEF IInv, TypeOK
    <3>3. PICK s \in Procs : s = q_sending'[r][i]
      BY <3>2
    <3>4. Sending(s)'
      BY <3>1, <3>3 DEF IInv, QueueExact
    <3>5. s # d
      BY <1>3, <1>4, <1>6, <3>4 DEF Sending, IInv, TypeOK
    <3> QED BY <3>3, <3>5, <1>6 DEF IInv, TypeOK
  <2>2. WaitingBar' = [r \in Procs |-> [i \in DOMAIN q_sending'[r] |-> msg'[q_sending'[r][i]]]]
    BY DEF WaitingBar
  <2>3. \A r \in Procs : WaitingBar'[r] = w(q_sending'[r])
    BY <2>1, <2>2
  <2>4. \A r \in Procs : WaitingBar[r] = w(q_sending[r])
    BY DEF WaitingBar
  <2>5. WaitingBar = [r \in Procs |-> WaitingBar[r]]
        /\ WaitingBar' = [r \in Procs |-> WaitingBar'[r]]
    BY DEF WaitingBar
  <2>6. q_sending'[d] = RemoveAt(q, k) /\ \A r \in Procs \ {d} : q_sending'[r] = q_sending[r]
    BY <1>6 DEF IInv, TypeOK
  <2>7. w(RemoveAt(q, k)) = RemoveAt(w(q), k)
    BY <1>4, MapRemoveAt
  <2> HIDE DEF w
  <2>8. WaitingBar'[d] = RemoveAt(WaitingBar[d], k)
    BY <2>3, <2>4, <2>6, <2>7
  <2>9. \A r \in Procs \ {d} : WaitingBar'[r] = WaitingBar[r]
    BY <2>3, <2>4, <2>6
  <2> QED BY <2>5, <2>8, <2>9, FunctionUpdate
<1>11. /\ StatusBar[d] = "ready"
       /\ R!AnswersInterrupt(d, src) => d \in Informed /\ src \in {ANY, INTERRUPT}
  BY <1>3, BarValue DEF Status, Sending, Receiving, R!AnswersInterrupt, CallInterrupted
<1>12. WaitingBar[d][k] = msg[from] /\ k \in R!Acceptable(d, src)
  <2>1. WaitingBar[d] = [i \in DOMAIN q |-> msg[q[i]]]
    BY DEF WaitingBar
  <2>2. k \in DOMAIN WaitingBar[d] /\ WaitingBar[d][k] = msg[from]
    BY <2>1, <1>4
  <2>3. src = ANY => k = 1
    BY <1>4
  <2>4. src # ANY => WaitingBar[d][k].source = src
    BY <2>2, <1>4, <1>5
  <2> QED BY <2>2, <2>3, <2>4 DEF R!Acceptable
<1>13. UNCHANGED has_int_msg
  BY <1>3
<1>14. R!RemoveAt(WaitingBar[d], k) = RemoveAt(WaitingBar[d], k)
  BY DEF R!RemoveAt, RemoveAt
<1> QED BY <1>5, <1>8, <1>9, <1>10, <1>11, <1>12, <1>13, <1>14
        DEF R!ReceiveTake, R!TakeAnyway

LEMMA NextRefines ==
  IInv /\ CallInterrupted /\ [Next]_vars => [R!NextInterrupted]_(R!vars)
<1> SUFFICES ASSUME IInv, CallInterrupted, [Next]_vars PROVE [R!NextInterrupted]_(R!vars)
  OBVIOUS
<1>1. ASSUME NEW p \in Procs, CallSend(p) PROVE R!Next
  <2>1. R!Reuse(p)
    BY <1>1, EnterRefines DEF CallSend
  <2> QED BY <2>1 DEF R!Next
<1>2. ASSUME NEW p \in Procs, CallReceive(p) PROVE R!Next
  <2>1. R!Reuse(p)
    BY <1>2, EnterRefines DEF CallReceive
  <2> QED BY <2>1 DEF R!Next
<1>3. CASE SendBlock
  <2>1. current \in Procs /\ peer \in Procs
    BY <1>3 DEF SendBlock, IInv, CallConsistent, SendPoints
  <2>2. \E s, d \in Procs : /\ msg[s].type \in Types \union {HARD_INT}
                            /\ R!SendWait(s, d, msg[s].type)
    BY <1>3, <2>1, SendBlockRefines
  <2> QED BY <2>2 DEF R!Next, R!NextInterrupted
<1>4. CASE SendCopy
  BY <1>4, SendCopyRefines, SendCopyStutters DEF R!Next, R!NextInterrupted
<1>5. CASE ReceiveInterrupt
  BY <1>5, ReceiveInterruptRefines DEF R!Next, R!NextInterrupted
<1>6. CASE ReceiveTake
  <2>1. current \in Procs /\ peer \in Procs \union {ANY, INTERRUPT}
    BY <1>6 DEF ReceiveTake, IInv, CallConsistent, ReceivePoints
  <2>2. \/ \E d \in Procs, src \in Procs \union {ANY, INTERRUPT} : R!ReceiveTake(d, src)
        \/ \E d \in Informed, src \in {ANY, INTERRUPT} : R!TakeAnyway(d, src)
    BY <1>6, <2>1, ReceiveTakeRefines
  <2> QED BY <2>2 DEF R!Next, R!NextInterrupted
<1>7. CASE ReceiveFrom
  BY <1>7, ReceiveFromRefines DEF R!Next, R!NextInterrupted
<1>8. ASSUME NEW t \in Informed, inform_int(t) PROVE R!NextInterrupted
  BY <1>8, IpcAssumption, InterruptRefines DEF R!Next, R!NextInterrupted
<1>9. CASE UNCHANGED vars
  <2>1. \A p \in Procs : Status(p)' = Status(p) /\ Partner(p)' = Partner(p)
    BY <1>9 DEF vars, procVars, Status, Partner, Sending, Receiving, Hidden
  <2>2. UNCHANGED R!vars
    BY <1>9, <2>1, Stutters DEF vars, procVars
  <2> QED BY <2>2
<1>10. CASE msg_send
  BY <1>10, <1>3, <1>4, SendDeadlockStutters, SendMatchStutters, SendAssertStutters,
     SendNullStutters, SendFinishStutters DEF msg_send, R!NextInterrupted
<1>11. CASE msg_receive
  BY <1>11, <1>5, <1>6, <1>7, ReceiveInterruptCheckStutters, ReceiveNoInterruptStutters,
     ReceiveFlagStutters, ReceiveBlockStutters, ReceiveCheckStutters
     DEF msg_receive, R!NextInterrupted
<1> QED BY <1>1, <1>2, <1>8, <1>9, <1>10, <1>11 DEF Next, KernelStep, R!NextInterrupted

(* Wherever interrupts arrive, the message system keeps the promise of     *)
(* Rendezvous (every message passes in one step and in order, every wait   *)
(* is answered, no send closes a cycle), but for the four steps with which *)
(* SpecInterrupted says what an interrupt inside a call does to the        *)
(* process it informs.                                                     *)
THEOREM ImplementsRendezvous == Spec => Rendezvous
BY InitRefines, NextRefines, CallsInterrupted, PTL DEF Spec, Rendezvous, R!SpecInterrupted

=============================================================================
