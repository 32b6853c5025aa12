----------------------------- MODULE SchedProofs -----------------------------
(***************************************************************************)
(* The safety properties of Sched hold for every number of processes, any  *)
(* quanta and any interleaving of schedule() with interrupts.              *)
(***************************************************************************)
EXTENDS Sched, FiniteSetTheorems, SequenceTheorems, TLAPS

-----------------------------------------------------------------------------
(* Moving the first element of q to the end of r.  *)
LEMMA MoveFirst ==
  ASSUME NEW S, NEW q \in Seq(S), NEW r \in Seq(S), q # <<>>
  PROVE  /\ Len(q) \in Nat \ {0} /\ Len(r) \in Nat
         /\ Tail(q) \in Seq(S) /\ Len(Tail(q)) = Len(q) - 1
         /\ \A i \in 1..(Len(q) - 1) : Tail(q)[i] = q[i + 1]
         /\ Append(r, Head(q)) \in Seq(S) /\ Len(Append(r, Head(q))) = Len(r) + 1
         /\ \A i \in 1..Len(r) : Append(r, Head(q))[i] = r[i]
         /\ Append(r, Head(q))[Len(r) + 1] = q[1]
<1>1. Len(q) \in Nat \ {0} /\ Len(r) \in Nat /\ Head(q) = q[1] /\ Head(q) \in S
  OBVIOUS
<1>2. /\ Tail(q) \in Seq(S) /\ Len(Tail(q)) = Len(q) - 1
      /\ \A i \in 1..(Len(q) - 1) : Tail(q)[i] = q[i + 1]
  BY HeadTailProperties
<1>3. /\ Append(r, Head(q)) \in Seq(S) /\ Len(Append(r, Head(q))) = Len(r) + 1
      /\ \A i \in 1..Len(r) : Append(r, Head(q))[i] = r[i]
      /\ Append(r, Head(q))[Len(r) + 1] = Head(q)
  BY <1>1, AppendProperties
<1> QED BY <1>1, <1>2, <1>3

(* A queue never fills its buffer: it holds different processes, and there *)
(* are fewer processes than slots.                                         *)
LEMMA QueueNotFull ==
  ASSUME TypeOK, EachInOneQueue, NEW l \in Levels
  PROVE  Len(queue[l]) \in Nat /\ Len(queue[l]) < Capacity
<1> DEFINE n == Len(queue[l])
<1>1. n \in Nat /\ queue[l] \in [1..n -> Procs] /\ DOMAIN queue[l] = 1..n
  BY DEF TypeOK
<1>2. queue[l] \in Injection(1..n, Procs)
  BY <1>1 DEF EachInOneQueue, Injection, IsInjective
<1>3. Cardinality(1..n) <= Cardinality(Procs)
  BY <1>2, FS_Injection, SchedAssumption
<1>4. Cardinality(1..n) = n
  <2>1. Cardinality(1..n) = IF 1 > n THEN 0 ELSE n - 1 + 1
    BY SMTT(20), <1>1, FS_Interval
  <2> HIDE DEF n
  <2> QED BY <1>1, <2>1
<1>5. Cardinality(Procs) \in Nat
  BY FS_CardinalityType, SchedAssumption
<1> QED BY <1>1, <1>3, <1>4, <1>5, SchedAssumption

(* What moving the first process of one queue to the end of another does.  *)
LEMMA RequeueEffect ==
  ASSUME TypeOK, EachInOneQueue, NEW from \in Levels, NEW to \in Levels,
         queue[from] # <<>>, Requeue(from, to)
  PROVE  /\ queue' \in [Levels -> Seq(Procs)]
         /\ ticks' \in [Procs -> Int]
         /\ \A m \in Levels \ {from, to} : queue'[m] = queue[m]
         /\ from # to => /\ queue'[from] = Tail(queue[from])
                         /\ queue'[to] = Append(queue[to], Head(queue[from]))
         /\ from = to => queue'[to] = Append(Tail(queue[from]), Head(queue[from]))
<1> DEFINE p == Head(queue[from])
           rest == [queue EXCEPT ![from] = Tail(@)]
<1>1. queue[from] \in Seq(Procs) /\ queue[to] \in Seq(Procs)
  BY DEF TypeOK
<1>2. p \in Procs /\ Tail(queue[from]) \in Seq(Procs)
      /\ Len(Tail(queue[from])) = Len(queue[from]) - 1
  BY <1>1
<1>3. rest \in [Levels -> Seq(Procs)]
  BY <1>2 DEF TypeOK
<1>4. rest[to] = IF from = to THEN Tail(queue[from]) ELSE queue[to]
  BY DEF TypeOK
<1>5. Len(rest[to]) # Capacity
  BY <1>1, <1>2, <1>4, QueueNotFull, SchedAssumption
<1>6. /\ queue' = [rest EXCEPT ![to] = Append(@, p)]
      /\ ticks' = [ticks EXCEPT ![p] = Quantum[to]]
  BY <1>5 DEF Requeue
<1>7. rest[to] \in Seq(Procs) /\ Append(rest[to], p) \in Seq(Procs)
  BY <1>2, <1>3
<1>8. ticks' \in [Procs -> Int]
  BY <1>6, SchedAssumption DEF TypeOK
<1>9. queue' \in [Levels -> Seq(Procs)]
  BY <1>3, <1>6, <1>7
<1>10. \A m \in Levels \ {from, to} : queue'[m] = queue[m]
  BY <1>3, <1>6 DEF TypeOK
<1>11. queue'[to] = Append(rest[to], p)
  BY <1>3, <1>6
<1>12. from # to => queue'[from] = Tail(queue[from])
  BY <1>3, <1>6 DEF TypeOK
<1> QED BY <1>4, <1>8, <1>9, <1>10, <1>11, <1>12

(* The same, place by place.  *)
LEMMA RequeuePlaces ==
  ASSUME TypeOK, EachInOneQueue, NEW from \in Levels, NEW to \in Levels,
         queue[from] # <<>>, Requeue(from, to)
  PROVE  LET last == IF from = to THEN Len(queue[from]) ELSE Len(queue[to]) + 1 IN
         /\ Len(queue[from]) \in Nat \ {0} /\ Len(queue[to]) \in Nat
         /\ Len(queue'[to]) = last
         /\ from # to => Len(queue'[from]) = Len(queue[from]) - 1
         /\ queue'[to][last] = queue[from][1]
         /\ \A i \in 1..(Len(queue[from]) - 1) : queue'[from][i] = queue[from][i + 1]
         /\ from # to => \A i \in 1..Len(queue[to]) : queue'[to][i] = queue[to][i]
<1>1. /\ \A l \in Levels : queue[l] \in Seq(Procs)
      /\ from # to => /\ queue'[from] = Tail(queue[from])
                      /\ queue'[to] = Append(queue[to], Head(queue[from]))
      /\ from = to => queue'[to] = Append(Tail(queue[from]), Head(queue[from]))
  BY RequeueEffect DEF TypeOK
<1>2. CASE from # to
  <2>1. queue'[to] = Append(queue[to], Head(queue[from])) /\ queue'[from] = Tail(queue[from])
    BY <1>2, <1>1
  <2> QED BY ONLY <1>2, <2>1, <1>1, MoveFirst, queue[from] # <<>>, from \in Levels, to \in Levels
<1>3. CASE from = to
  <2>1. queue'[to] = Append(Tail(queue[from]), Head(queue[from]))
    BY <1>3, <1>1
  <2>2. Tail(queue[from]) \in Seq(Procs) /\ Len(Tail(queue[from])) = Len(queue[from]) - 1
        /\ Len(queue[from]) \in Nat \ {0}
    BY <1>1, MoveFirst
  <2>3. /\ Len(queue'[to]) = Len(queue[from])
        /\ \A i \in 1..(Len(queue[from]) - 1) : queue'[to][i] = Tail(queue[from])[i]
        /\ queue'[to][Len(queue[from])] = queue[from][1]
    <3>1. /\ Len(queue'[to]) = (Len(queue[from]) - 1) + 1
          /\ \A i \in 1..(Len(queue[from]) - 1) : queue'[to][i] = Tail(queue[from])[i]
          /\ queue'[to][(Len(queue[from]) - 1) + 1] = queue[from][1]
      BY ONLY <2>1, <2>2, <1>1, MoveFirst, queue[from] # <<>>, from \in Levels
    <3> QED BY <3>1, <2>2
  <2>4. \A i \in 1..(Len(queue[from]) - 1) : Tail(queue[from])[i] = queue[from][i + 1]
    BY <1>1, MoveFirst
  <2> QED BY <1>3, <2>2, <2>3, <2>4
<1> QED BY <1>2, <1>3

(* It loses and duplicates no process: the place a process has afterwards  *)
(* determines the place it had before.                                     *)
LEMMA RequeueKeeps ==
  ASSUME TypeOK, EachInOneQueue, NEW from \in Levels, NEW to \in Levels,
         queue[from] # <<>>, Requeue(from, to)
  PROVE  EachInOneQueue'
<1> DEFINE last == Len(queue'[to])
           oldLevel(l, j) == IF l = to /\ j = last THEN from ELSE l
           oldPlace(l, j) == IF l = to /\ j = last THEN 1
                             ELSE IF l = from THEN j + 1 ELSE j
<1>1. /\ \A l \in Levels : queue[l] \in Seq(Procs) /\ queue'[l] \in Seq(Procs)
      /\ \A m \in Levels \ {from, to} : queue'[m] = queue[m]
  BY RequeueEffect DEF TypeOK
<1>2. /\ Len(queue[from]) \in Nat \ {0} /\ Len(queue[to]) \in Nat
      /\ last = IF from = to THEN Len(queue[from]) ELSE Len(queue[to]) + 1
      /\ from # to => Len(queue'[from]) = Len(queue[from]) - 1
      /\ queue'[to][last] = queue[from][1]
      /\ \A i \in 1..(Len(queue[from]) - 1) : queue'[from][i] = queue[from][i + 1]
      /\ from # to => \A i \in 1..Len(queue[to]) : queue'[to][i] = queue[to][i]
  BY RequeuePlaces
<1>4. ASSUME NEW l \in Levels, NEW j \in 1..Len(queue'[l])
      PROVE  /\ oldLevel(l, j) \in Levels
             /\ oldPlace(l, j) \in 1..Len(queue[oldLevel(l, j)])
             /\ queue'[l][j] = queue[oldLevel(l, j)][oldPlace(l, j)]
  <2>1. CASE l = to /\ j = last
    BY <2>1, <1>2
  <2>2. CASE l = from /\ ~(l = to /\ j = last)
    <3>1. j \in 1..(Len(queue[from]) - 1)
      BY <2>2, <1>2
    <3> QED BY <2>2, <3>1, <1>2
  <2>3. CASE l # from /\ l = to /\ j # last
    <3>1. j \in 1..Len(queue[to])
      BY <2>3, <1>2
    <3> QED BY <2>3, <3>1, <1>2
  <2>4. CASE l \in Levels \ {from, to}
    BY <2>4, <1>1
  <2> QED BY <2>1, <2>2, <2>3, <2>4
<1>5. ASSUME NEW l \in Levels, NEW j \in 1..Len(queue'[l]),
             NEW m \in Levels, NEW k \in 1..Len(queue'[m]),
             oldLevel(l, j) = oldLevel(m, k), oldPlace(l, j) = oldPlace(m, k)
      PROVE  l = m /\ j = k
  BY <1>5, <1>1
<1>6. ASSUME NEW l \in Levels, NEW i \in 1..Len(queue[l])
      PROVE  \E m \in Levels : \E j \in 1..Len(queue'[m]) : queue'[m][j] = queue[l][i]
  <2>1. CASE l = from /\ i = 1
    <3>1. last \in 1..Len(queue'[to]) /\ queue'[to][last] = queue[from][1]
      BY <1>2
    <3> QED BY <2>1, <3>1
  <2>2. CASE l = from /\ i # 1
    <3>1. i - 1 \in 1..Len(queue'[from]) /\ queue'[from][i - 1] = queue[from][i]
      BY <2>2, <1>2
    <3> QED BY <2>2, <3>1
  <2>3. CASE l # from
    <3>1. i \in 1..Len(queue'[l]) /\ queue'[l][i] = queue[l][i]
      BY <2>3, <1>1, <1>2
    <3> QED BY <3>1
  <2> QED BY <2>1, <2>2, <2>3
<1> HIDE DEF oldLevel, oldPlace, last
<1>7. \A l \in Levels : /\ DOMAIN queue[l] = 1..Len(queue[l])
                        /\ DOMAIN queue'[l] = 1..Len(queue'[l])
  BY <1>1
<1>8. ASSUME NEW l \in Levels, NEW m \in Levels,
             NEW j \in DOMAIN queue'[l], NEW k \in DOMAIN queue'[m],
             queue'[l][j] = queue'[m][k]
      PROVE  l = m /\ j = k
  <2>1. /\ oldLevel(l, j) \in Levels /\ oldPlace(l, j) \in DOMAIN queue[oldLevel(l, j)]
        /\ oldLevel(m, k) \in Levels /\ oldPlace(m, k) \in DOMAIN queue[oldLevel(m, k)]
        /\ queue[oldLevel(l, j)][oldPlace(l, j)] = queue[oldLevel(m, k)][oldPlace(m, k)]
    BY <1>4, <1>7, <1>8
  <2>2. oldLevel(l, j) = oldLevel(m, k) /\ oldPlace(l, j) = oldPlace(m, k)
    BY <2>1 DEF EachInOneQueue
  <2> QED BY <2>2, <1>5, <1>7
<1>9. ASSUME NEW p \in Procs
      PROVE  \E l \in Levels : \E i \in DOMAIN queue'[l] : queue'[l][i] = p
  <2>1. PICK l \in Levels : \E i \in 1..Len(queue[l]) : queue[l][i] = p
    BY <1>7 DEF EachInOneQueue
  <2>2. PICK i \in 1..Len(queue[l]) : queue[l][i] = p
    BY <2>1
  <2>3. \E m \in Levels : \E j \in 1..Len(queue'[m]) : queue'[m][j] = queue[l][i]
    BY <1>6
  <2> QED BY <2>2, <2>3, <1>7
<1> QED BY <1>8, <1>9 DEF EachInOneQueue
(* Which processes the queues hold afterwards.  *)
LEMMA RequeueMembers ==
  ASSUME TypeOK, EachInOneQueue, NEW from \in Levels, NEW to \in Levels,
         queue[from] # <<>>, Requeue(from, to)
  PROVE  /\ Head(queue[from]) = queue[from][1] /\ Head(queue[from]) \in Procs
         /\ Head(queue[from]) \in ToSet(queue'[to])
         /\ \A m \in Levels : \A p \in ToSet(queue[m]) :
              p \in ToSet(queue'[m]) \/ (m = from /\ p = Head(queue[from]))
         /\ \A m \in Levels : \A p \in ToSet(queue'[m]) :
              p \in ToSet(queue[m]) \/ (m = to /\ p = Head(queue[from]))
<1> DEFINE last == IF from = to THEN Len(queue[from]) ELSE Len(queue[to]) + 1
<1>1. /\ \A l \in Levels : queue[l] \in Seq(Procs) /\ queue'[l] \in Seq(Procs)
      /\ \A m \in Levels \ {from, to} : queue'[m] = queue[m]
  BY RequeueEffect DEF TypeOK
<1>2. /\ Len(queue[from]) \in Nat \ {0} /\ Len(queue[to]) \in Nat
      /\ Len(queue'[to]) = last
      /\ from # to => Len(queue'[from]) = Len(queue[from]) - 1
      /\ queue'[to][last] = queue[from][1]
      /\ \A i \in 1..(Len(queue[from]) - 1) : queue'[from][i] = queue[from][i + 1]
      /\ from # to => \A i \in 1..Len(queue[to]) : queue'[to][i] = queue[to][i]
  BY RequeuePlaces
<1>3. Head(queue[from]) = queue[from][1] /\ Head(queue[from]) \in Procs
  BY <1>1
<1>4. \A l \in Levels : /\ ToSet(queue[l]) = {queue[l][i] : i \in 1..Len(queue[l])}
                        /\ ToSet(queue'[l]) = {queue'[l][i] : i \in 1..Len(queue'[l])}
  BY <1>1 DEF ToSet
<1>5. Head(queue[from]) \in ToSet(queue'[to])
  <2>1. last \in 1..Len(queue'[to])
    BY <1>2
  <2>2. queue'[to][last] \in ToSet(queue'[to])
    <3> HIDE DEF last
    <3> QED BY <2>1, <1>4
  <2> QED BY <2>2, <1>2, <1>3
<1>6. ASSUME NEW m \in Levels, NEW i \in 1..Len(queue[m])
      PROVE  queue[m][i] \in ToSet(queue'[m]) \/ (m = from /\ queue[m][i] = Head(queue[from]))
  <2>1. CASE m = from /\ i = 1
    BY <2>1, <1>3
  <2>2. CASE m = from /\ i # 1
    <3>1. i - 1 \in 1..Len(queue'[from]) /\ queue'[from][i - 1] = queue[from][i]
      BY <2>2, <1>2
    <3> QED BY <2>2, <3>1, <1>4
  <2>3. CASE m # from
    <3>1. i \in 1..Len(queue'[m]) /\ queue'[m][i] = queue[m][i]
      BY <2>3, <1>1, <1>2
    <3> QED BY <3>1, <1>4
  <2> QED BY <2>1, <2>2, <2>3
<1>7. ASSUME NEW m \in Levels, NEW i \in 1..Len(queue'[m])
      PROVE  queue'[m][i] \in ToSet(queue[m]) \/ (m = to /\ queue'[m][i] = Head(queue[from]))
  <2>1. CASE m = to /\ i = last
    BY <2>1, <1>2, <1>3
  <2>2. CASE m = from /\ ~(m = to /\ i = last)
    <3>1. i \in 1..(Len(queue[from]) - 1)
      BY <2>2, <1>2
    <3>2. i + 1 \in 1..Len(queue[from]) /\ queue'[from][i] = queue[from][i + 1]
      BY <3>1, <1>2
    <3>3. queue[from][i + 1] \in ToSet(queue[from])
      BY <3>2, <1>4
    <3> QED BY <2>2, <3>2, <3>3
  <2>3. CASE m = to /\ m # from /\ i # last
    <3>1. i \in 1..Len(queue[to]) /\ queue'[to][i] = queue[to][i]
      BY <2>3, <1>2
    <3>2. queue[to][i] \in ToSet(queue[to])
      BY <3>1, <1>4
    <3> QED BY <2>3, <3>1, <3>2
  <2>4. CASE m \in Levels \ {from, to}
    BY <2>4, <1>1, <1>4
  <2> QED BY <2>1, <2>2, <2>3, <2>4
<1>8. \A m \in Levels : \A p \in ToSet(queue[m]) :
        p \in ToSet(queue'[m]) \/ (m = from /\ p = Head(queue[from]))
  <2> SUFFICES ASSUME NEW m \in Levels, NEW p \in ToSet(queue[m])
               PROVE  p \in ToSet(queue'[m]) \/ (m = from /\ p = Head(queue[from]))
    OBVIOUS
  <2>1. PICK i \in 1..Len(queue[m]) : p = queue[m][i]
    BY <1>4
  <2> QED BY <2>1, <1>6
<1>9. \A m \in Levels : \A p \in ToSet(queue'[m]) :
        p \in ToSet(queue[m]) \/ (m = to /\ p = Head(queue[from]))
  <2> SUFFICES ASSUME NEW m \in Levels, NEW p \in ToSet(queue'[m])
               PROVE  p \in ToSet(queue[m]) \/ (m = to /\ p = Head(queue[from]))
    OBVIOUS
  <2>1. PICK i \in 1..Len(queue'[m]) : p = queue'[m][i]
    BY <1>4
  <2> QED BY <2>1, <1>7
<1> QED BY <1>3, <1>5, <1>8, <1>9

-----------------------------------------------------------------------------
(* The initial states *)

LEMMA InitInvariant == Init => IInv
<1> SUFFICES ASSUME Init PROVE IInv
  OBVIOUS
<1> DEFINE n == Cardinality(Procs)
<1>1. PICK order \in SetToSeqs(Procs) :
        /\ order[1] = First
        /\ queue = [l \in Levels |-> IF l = 0 THEN order ELSE <<>>]
  BY DEF Init
<1>2. n \in Nat
  BY FS_CardinalityType, SchedAssumption
<1>3. order \in [1..n -> Procs] /\ \A i, j \in 1..n : i # j => order[i] # order[j]
  BY DEF SetToSeqs
<1>4. order \in Injection(1..n, Procs)
  BY <1>3 DEF Injection, IsInjective
<1>5. Cardinality(1..n) = n
  <2>1. Cardinality(1..n) = IF 1 > n THEN 0 ELSE n - 1 + 1
    BY <1>2, FS_Interval
  <2> HIDE DEF n
  <2> QED BY <1>2, <2>1
<1>6. order \in Surjection(1..n, Procs)
  BY <1>4, <1>5, FS_Injection, SchedAssumption
<1>7. \A p \in Procs : \E i \in 1..n : order[i] = p
  BY <1>3, <1>6 DEF Surjection
<1> HIDE DEF n
<1>8. order \in Seq(Procs) /\ Len(order) = n /\ DOMAIN order = 1..n
  BY <1>2, <1>3
<1>9. n > 0 /\ order # <<>> /\ Head(order) = First
  <2>1. 1 \in 1..n
    BY <1>7, <1>2, SchedAssumption
  <2> QED BY <2>1, <1>1, <1>2, <1>8
<1>10. queue[0] = order /\ \A l \in Levels \ {0} : queue[l] = <<>>
  BY <1>1 DEF Levels, Ready, BlockedQueue, NR_QUEUE
<1>11. TypeOK
  <2>1. queue \in [Levels -> Seq(Procs)]
    BY <1>1, <1>8
  <2>2. 0 \in Levels /\ Quantum[0] \in Int
    BY SchedAssumption DEF Levels, Ready, BlockedQueue, NR_QUEUE
  <2>3. /\ ticks \in [Procs -> Int] /\ ready \in [Procs -> BOOLEAN] /\ running \in Procs
        /\ fate \in [Procs -> {"alive", "killed", "restarted"}]
    BY <2>2, SchedAssumption DEF Init
  <2> QED BY <2>1, <2>2, <2>3 DEF TypeOK, Init
<1>12. EachInOneQueue
  <2>1. ASSUME NEW l \in Levels, NEW m \in Levels,
               NEW i \in DOMAIN queue[l], NEW j \in DOMAIN queue[m],
               queue[l][i] = queue[m][j]
        PROVE  l = m /\ i = j
    <3>1. l = 0 /\ m = 0
      BY <1>10
    <3> QED BY <2>1, <3>1, <1>3, <1>8, <1>10
  <2>2. ASSUME NEW p \in Procs
        PROVE  \E l \in Levels : \E i \in DOMAIN queue[l] : queue[l][i] = p
    <3>1. 0 \in Levels /\ DOMAIN queue[0] = 1..n
      BY <1>8, <1>10 DEF Levels, Ready, NR_QUEUE
    <3> QED BY <3>1, <1>7, <1>10
  <2> QED BY <2>1, <2>2 DEF EachInOneQueue
<1>13. RunningIsFirst
  <2>1. ready[running] /\ running = First
    BY SchedAssumption DEF Init
  <2>2. 0 \in Ready
    BY DEF Ready, NR_QUEUE
  <2> QED BY <2>1, <2>2, <1>9, <1>10 DEF RunningIsFirst
<1>14. PassedOverAreTasks
  BY <1>10 DEF PassedOverAreTasks, Levels, Ready, BlockedQueue, NR_QUEUE
<1>15. SpinnersAhead
  <2> SUFFICES ASSUME NEW s \in Spinners
               PROVE  ready[s] /\ s \in ToSet(queue[0])
    <3>1. 0 \in Ready /\ pc # "scan"
      BY DEF Init, Ready, NR_QUEUE
    <3> QED BY <3>1 DEF SpinnersAhead
  <2>1. s \in Procs
    BY SchedAssumption
  <2> QED BY <2>1, <1>7, <1>8, <1>10 DEF Init, ToSet
<1>16. AlwaysFindsOne /\ LoopBounds /\ LeftBehind /\ KilledWait
  BY SchedAssumption
     DEF AlwaysFindsOne, LoopBounds, LeftBehind, KilledWait, Init, BlockedQueue, NR_QUEUE
<1> QED BY <1>11, <1>12, <1>13, <1>14, <1>15, <1>16 DEF IInv

-----------------------------------------------------------------------------
(* The loops of schedule() *)

(* The first loop: one blocked process, woken or not, goes to queue to.  *)
LEMMA RotateStep ==
  ASSUME IInv, NEW to \in {0, BlockedQueue},
         pc = "rotate", left > 0, Requeue(BlockedQueue, to), left' = left - 1,
         UNCHANGED <<ready, fate, running, pc, inCall, level>>
  PROVE  IInv'
<1> USE DEF IInv
<1>1. BlockedQueue \in Levels /\ to \in Levels /\ BlockedQueue \notin Ready
  BY DEF Levels, Ready, BlockedQueue, NR_QUEUE
<1>2. queue[BlockedQueue] \in Seq(Procs) /\ left \in Nat
  BY <1>1 DEF TypeOK
<1>3. queue[BlockedQueue] # <<>>
  BY <1>2 DEF LoopBounds
<1>4. TypeOK'
  <2>1. queue' \in [Levels -> Seq(Procs)] /\ ticks' \in [Procs -> Int]
    BY <1>1, <1>3, RequeueEffect
  <2>2. left' \in Nat
    BY <1>2
  <2> QED BY <2>1, <2>2 DEF TypeOK
<1>5. EachInOneQueue'
  BY <1>1, <1>3, RequeueKeeps
<1>6. RunningIsFirst' /\ PassedOverAreTasks' /\ AlwaysFindsOne' /\ LeftBehind' /\ KilledWait'
  BY DEF RunningIsFirst, PassedOverAreTasks, AlwaysFindsOne, LeftBehind, KilledWait
<1>7. SpinnersAhead'
  <2> SUFFICES ASSUME NEW s \in Spinners, fate[s] = "alive"
               PROVE  ready[s] /\ \E l \in Ready : s \in ToSet(queue'[l])
    BY DEF SpinnersAhead
  <2>1. PICK l \in Ready : s \in ToSet(queue[l])
    BY DEF SpinnersAhead
  <2>2. l \in Levels /\ l # BlockedQueue
    BY <1>1 DEF Levels
  <2>3. s \in ToSet(queue'[l])
    BY <2>1, <2>2, <1>1, <1>3, RequeueMembers
  <2> QED BY <2>3 DEF SpinnersAhead
<1>8. LoopBounds'
  <2>1. Len(queue'[BlockedQueue]) >= Len(queue[BlockedQueue]) - 1
    <3>1. Len(queue'[to]) = IF BlockedQueue = to THEN Len(queue[BlockedQueue])
                                                 ELSE Len(queue[to]) + 1
      BY <1>1, <1>3, RequeuePlaces
    <3>2. BlockedQueue # to => Len(queue'[BlockedQueue]) = Len(queue[BlockedQueue]) - 1
      BY <1>1, <1>3, RequeuePlaces
    <3> QED BY <3>1, <3>2, <1>2
  <2>2. Len(queue'[BlockedQueue]) \in Nat
    BY <1>1, <1>4 DEF TypeOK
  <2> QED BY <2>1, <2>2, <1>2 DEF LoopBounds
<1> QED BY <1>4, <1>5, <1>6, <1>7, <1>8

(* The second loop: the first process of queue level goes to queue to, and *)
(* neither a spinner falls behind nor anything but a task is left behind.  *)
LEMMA ScanMoveStep ==
  ASSUME IInv, Scanning, NEW to \in Levels, Requeue(level, to),
         to = level + 1 \/ to = BlockedQueue \/ (level = 1 /\ to = 0 /\ Candidate \in Tasks),
         Candidate \in Spinners /\ fate[Candidate] = "alive" => to \in Ready,
         UNCHANGED <<ready, fate, running, pc, inCall, left, level>>
  PROVE  IInv'
<1> USE DEF IInv
<1>1. /\ pc = "scan" /\ level \in Ready /\ level \in Levels /\ queue[level] # <<>>
      /\ BlockedQueue \notin Ready
  BY DEF Scanning, Levels, Ready, BlockedQueue, NR_QUEUE
<1>2. /\ Candidate \in ToSet(queue'[to])
      /\ \A m \in Levels : \A p \in ToSet(queue[m]) :
           p \in ToSet(queue'[m]) \/ (m = level /\ p = Candidate)
      /\ \A m \in Levels : \A p \in ToSet(queue'[m]) :
           p \in ToSet(queue[m]) \/ (m = to /\ p = Candidate)
  BY <1>1, RequeueMembers DEF Candidate
<1>3. TypeOK'
  <2>1. queue' \in [Levels -> Seq(Procs)] /\ ticks' \in [Procs -> Int]
    BY <1>1, RequeueEffect
  <2> QED BY <2>1 DEF TypeOK
<1>4. EachInOneQueue'
  BY <1>1, RequeueKeeps
<1>5. RunningIsFirst' /\ PassedOverAreTasks' /\ AlwaysFindsOne' /\ LoopBounds' /\ KilledWait'
  BY <1>1 DEF RunningIsFirst, PassedOverAreTasks, AlwaysFindsOne, LoopBounds, KilledWait
<1>6. SpinnersAhead'
  <2> SUFFICES ASSUME NEW s \in Spinners, fate[s] = "alive"
               PROVE  ready[s] /\ \E l \in Ready : l >= level /\ s \in ToSet(queue'[l])
    BY <1>1 DEF SpinnersAhead
  <2>1. ready[s] /\ s \notin Tasks
    BY SchedAssumption DEF SpinnersAhead
  <2>2. PICK l \in Ready : l >= level /\ s \in ToSet(queue[l])
    BY <1>1 DEF SpinnersAhead
  <2>3. CASE l = level /\ s = Candidate
    <3>1. to \in Ready /\ to = level + 1
      BY <2>1, <2>3, <1>1
    <3>2. to >= level
      BY <3>1, <1>1 DEF Ready, NR_QUEUE
    <3> QED BY <2>1, <2>3, <3>1, <3>2, <1>2
  <2>4. CASE ~(l = level /\ s = Candidate)
    <3>1. l \in Levels
      BY DEF Levels
    <3>2. s \in ToSet(queue'[l])
      BY <2>2, <2>4, <3>1, <1>2
    <3> QED BY <2>1, <2>2, <3>2
  <2> QED BY <2>3, <2>4
<1>7. LeftBehind'
  <2> SUFFICES ASSUME NEW l \in Ready, l < level
               PROVE  queue'[l] = <<>> \/ (l = 0 /\ ToSet(queue'[0]) \subseteq Tasks)
    BY <1>1 DEF LeftBehind
  <2>1. queue[l] = <<>> \/ (l = 0 /\ ToSet(queue[0]) \subseteq Tasks)
    BY <1>1 DEF LeftBehind
  <2>2. l \in Levels /\ l # level /\ (to # l \/ (l = 0 /\ Candidate \in Tasks))
    BY <1>1 DEF Levels, Ready, BlockedQueue, NR_QUEUE
  <2>3. CASE to # l
    <3>1. queue'[l] = queue[l]
      BY <2>2, <2>3, <1>1, RequeueEffect
    <3> QED BY <2>1, <3>1
  <2>4. CASE to = l
    <3>1. l = 0 /\ Candidate \in Tasks
      BY <2>2, <2>4
    <3>2. ToSet(queue[0]) \subseteq Tasks
      BY <2>1, <3>1 DEF ToSet
    <3> QED BY <3>1, <3>2, <2>2, <1>2
  <2> QED BY <2>3, <2>4
<1> QED BY <1>3, <1>4, <1>5, <1>6, <1>7

LEMMA ScanExpiredStep == IInv /\ ScanExpired => IInv'
<1> SUFFICES ASSUME IInv, ScanExpired PROVE IInv'
  OBVIOUS
<1> DEFINE to == DemotionTarget(Candidate, level)
<1>1. Scanning /\ Requeue(level, to) /\ level \in Ready /\ level # Lowest
  BY DEF ScanExpired, Scanning, Expired
<1>2. to = level + 1 \/ (level = 1 /\ to = 0 /\ Candidate \in Tasks)
  BY <1>1 DEF DemotionTarget, Lowest, Ready, NR_QUEUE
<1>3. to \in Ready /\ to \in Levels
  BY <1>1, <1>2 DEF Levels, Ready, Lowest, NR_QUEUE
<1> QED BY <1>1, <1>2, <1>3, ScanMoveStep DEF ScanExpired

LEMMA ScanBlockedStep == IInv /\ ScanBlocked => IInv'
<1> SUFFICES ASSUME IInv, ScanBlocked PROVE IInv'
  OBVIOUS
<1>1. Candidate \in Spinners => fate[Candidate] # "alive"
  BY DEF IInv, SpinnersAhead, ScanBlocked
<1>2. BlockedQueue \in Levels
  BY DEF Levels
<1> QED BY <1>1, <1>2, ScanMoveStep DEF ScanBlocked

LEMMA ScanEmptyStep == IInv /\ ScanEmpty => IInv'
<1> SUFFICES ASSUME IInv, ScanEmpty PROVE IInv'
  OBVIOUS
<1> USE DEF IInv, ScanEmpty
<1>1. SpinnersAhead'
  <2> SUFFICES ASSUME NEW s \in Spinners, fate[s] = "alive"
               PROVE  ready[s] /\ \E l \in Ready : l >= level + 1 /\ s \in ToSet(queue[l])
    BY DEF SpinnersAhead
  <2>1. PICK l \in Ready : l >= level /\ s \in ToSet(queue[l])
    BY DEF SpinnersAhead
  <2>2. l # level
    BY <2>1 DEF ToSet
  <2> QED BY <2>1, <2>2 DEF SpinnersAhead, Ready, NR_QUEUE
<1>2. level + 1 \in Ready
  <2>1. PICK s \in Spinners : fate[s] = "alive"
    BY SchedAssumption DEF KilledWait
  <2>2. PICK l \in Ready : l >= level + 1
    BY <1>1, <2>1 DEF SpinnersAhead
  <2> QED BY <2>2 DEF Ready, NR_QUEUE
<1>3. TypeOK' /\ AlwaysFindsOne'
  BY <1>2 DEF TypeOK, AlwaysFindsOne, Levels, Ready, BlockedQueue, NR_QUEUE
<1>4. EachInOneQueue' /\ RunningIsFirst' /\ PassedOverAreTasks' /\ LoopBounds' /\ KilledWait'
  BY DEF EachInOneQueue, RunningIsFirst, PassedOverAreTasks, LoopBounds, KilledWait
<1>5. LeftBehind'
  <2> SUFFICES ASSUME NEW l \in Ready, l < level + 1
               PROVE  queue[l] = <<>> \/ (l = 0 /\ ToSet(queue[0]) \subseteq Tasks)
    BY DEF LeftBehind
  <2>1. l = level \/ l < level
    BY DEF Ready, NR_QUEUE
  <2> QED BY <2>1 DEF LeftBehind
<1> QED BY <1>1, <1>3, <1>4, <1>5

(* The process that is chosen is the first of the queue the loop reached,  *)
(* and in no other queue.                                                  *)
LEMMA ScanChooseStep == IInv /\ ScanChoose => IInv'
<1> SUFFICES ASSUME IInv, ScanChoose PROVE IInv'
  OBVIOUS
<1> USE DEF IInv
<1>1. /\ level \in Ready /\ level \in Levels /\ queue[level] # <<>> /\ ready[Candidate]
      /\ pc = "scan"
  BY DEF ScanChoose, Scanning, Levels
<1>2. queue[level] \in Seq(Procs) /\ Candidate \in Procs
      /\ Candidate = queue[level][1] /\ 1 \in DOMAIN queue[level]
  BY <1>1 DEF TypeOK, Candidate
<1>3. TypeOK'
  <2>1. 0 \in Levels /\ UNCHANGED <<queue, ticks, ready, fate, left>>
        /\ running' = Candidate /\ pc' = "user" /\ inCall' = FALSE /\ level' = 0
    BY DEF ScanChoose, Levels, Ready, NR_QUEUE
  <2> QED BY <2>1, <1>2 DEF TypeOK
<1>4. EachInOneQueue' /\ AlwaysFindsOne' /\ LoopBounds' /\ LeftBehind' /\ SpinnersAhead'
      /\ KilledWait'
  <2>1. pc' = "user" /\ level' = 0 /\ UNCHANGED <<queue, ready, fate>> /\ running' = Candidate
    BY DEF ScanChoose
  <2>2. EachInOneQueue' /\ AlwaysFindsOne' /\ LeftBehind'
    BY <2>1 DEF EachInOneQueue, AlwaysFindsOne, LeftBehind, BlockedQueue, NR_QUEUE
  <2>3. LoopBounds'
    BY <2>1, <1>1 DEF LoopBounds
  <2>4. SpinnersAhead' /\ KilledWait'
    BY <2>1 DEF SpinnersAhead, KilledWait
  <2> QED BY <2>2, <2>3, <2>4
<1>5. RunningIsFirst'
  BY <1>1 DEF ScanChoose, RunningIsFirst, Candidate
<1>6. PassedOverAreTasks'
  <2> SUFFICES ASSUME NEW l \in Ready, NEW m \in Ready,
                      l < m, queue[m] # <<>>, Head(queue[m]) = Candidate
               PROVE  queue[l] = <<>> \/ (l = 0 /\ ToSet(queue[0]) \subseteq Tasks)
    BY DEF ScanChoose, PassedOverAreTasks
  <2>1. m \in Levels /\ queue[m] \in Seq(Procs)
    BY DEF Levels, TypeOK
  <2>2. Head(queue[m]) = queue[m][1] /\ 1 \in DOMAIN queue[m]
    BY <2>1
  <2>3. m = level
    BY <2>1, <2>2, <1>1, <1>2 DEF EachInOneQueue
  <2> QED BY <2>3, <1>1 DEF LeftBehind
<1> QED BY <1>3, <1>4, <1>5, <1>6

LEMMA ScheduleStepInvariant == IInv /\ ScheduleStep => IInv'
<1> SUFFICES ASSUME IInv, ScheduleStep PROVE IInv'
  OBVIOUS
<1>1. CASE RotateReady
  BY <1>1, RotateStep DEF RotateReady
<1>2. CASE RotateBlocked
  <2>1. BlockedQueue \in {0, BlockedQueue}
    OBVIOUS
  <2> QED BY <1>2, <2>1, RotateStep DEF RotateBlocked
<1>3. CASE RotateDone
  <2> USE <1>3 DEF RotateDone, IInv
  <2>1. TypeOK' /\ AlwaysFindsOne' /\ LeftBehind'
    BY DEF TypeOK, AlwaysFindsOne, LeftBehind, Levels, Ready, BlockedQueue, NR_QUEUE
  <2>2. EachInOneQueue' /\ RunningIsFirst' /\ PassedOverAreTasks' /\ LoopBounds' /\ KilledWait'
    BY DEF EachInOneQueue, RunningIsFirst, PassedOverAreTasks, LoopBounds, KilledWait
  <2>3. SpinnersAhead'
    BY DEF SpinnersAhead, Ready, NR_QUEUE
  <2> QED BY <2>1, <2>2, <2>3
<1> QED BY <1>1, <1>2, <1>3, ScanExpiredStep, ScanBlockedStep, ScanEmptyStep,
           ScanChooseStep DEF ScheduleStep

-----------------------------------------------------------------------------
(* The clock, system calls and other interrupts *)

(* Steps that wake processes and count ticks, and leave the queues alone.  *)
LEMMA QuietStep ==
  ASSUME IInv, UNCHANGED <<queue, fate, running, pc, inCall, left, level>>,
         ticks' \in [Procs -> Int], ready' \in [Procs -> BOOLEAN],
         \A p \in Procs : ready[p] => ready'[p],
         \A p \in Procs : fate[p] # "alive" => ~ready'[p]
  PROVE  IInv'
<1> USE DEF IInv
<1>1. TypeOK'
  BY DEF TypeOK
<1>2. EachInOneQueue' /\ AlwaysFindsOne' /\ PassedOverAreTasks' /\ LeftBehind' /\ KilledWait'
  BY DEF EachInOneQueue, AlwaysFindsOne, PassedOverAreTasks, LeftBehind, KilledWait
<1>3. RunningIsFirst' /\ LoopBounds'
  BY DEF RunningIsFirst, LoopBounds, TypeOK
<1>4. SpinnersAhead'
  BY SchedAssumption DEF SpinnersAhead
<1> QED BY <1>1, <1>2, <1>3, <1>4

(* schedule() starts, in the clock handler or because the caller blocked.  *)
LEMMA ScheduleStart ==
  ASSUME IInv, pc = "user", Schedule, inCall' \in BOOLEAN,
         ticks' \in [Procs -> Int], ready' \in [Procs -> BOOLEAN],
         \A s \in Spinners : ready[s] => ready'[s],
         \A p \in Procs : fate[p] # "alive" => ~ready'[p]
  PROVE  IInv'
<1> USE DEF IInv
<1>1. BlockedQueue \in Levels
  BY DEF Levels
<1>2. left' = Len(queue[BlockedQueue]) /\ left' \in Nat
  <2>1. Len(queue[BlockedQueue]) \in Nat /\ Len(queue[BlockedQueue]) < Capacity
    BY <1>1, QueueNotFull
  <2> QED BY <2>1, SchedAssumption DEF Schedule
<1>3. TypeOK'
  BY <1>2 DEF TypeOK, Schedule
<1>4. EachInOneQueue' /\ RunningIsFirst' /\ AlwaysFindsOne' /\ PassedOverAreTasks' /\ KilledWait'
  BY DEF Schedule, EachInOneQueue, RunningIsFirst, AlwaysFindsOne, PassedOverAreTasks,
         KilledWait
<1>5. SpinnersAhead' /\ LeftBehind'
  BY DEF Schedule, SpinnersAhead, LeftBehind
<1>6. LoopBounds'
  <2>1. left' <= Len(queue'[BlockedQueue])
    BY <1>2 DEF Schedule
  <2> QED BY <2>1 DEF LoopBounds, Schedule
<1> QED BY <1>3, <1>4, <1>5, <1>6

LEMMA CountTickType ==
  ASSUME TypeOK, CountTick
  PROVE  ticks' \in [Procs -> Int]
<1>1. ticks[running] \in Int
  BY DEF TypeOK
<1> QED BY <1>1 DEF TypeOK, CountTick

(* The clock wakes tasks, and those are never killed.  *)
LEMMA InformType ==
  ASSUME TypeOK, KilledWait, InformOnKey
  PROVE  /\ ready' \in [Procs -> BOOLEAN]
         /\ \A p \in Procs : ready[p] => ready'[p]
         /\ \A p \in Procs : fate[p] # "alive" => ~ready'[p]
BY SchedAssumption DEF TypeOK, KilledWait, InformOnKey

LEMMA TickInvariant == IInv /\ Tick => IInv'
<1> SUFFICES ASSUME IInv, Tick PROVE IInv'
  OBVIOUS
<1>1. TypeOK /\ KilledWait /\ Spinners \subseteq Procs
  BY SchedAssumption DEF IInv
<1>2. CountTick /\ InformOnKey
  BY DEF Tick, TickRunning, TickExpires, TickNested
<1>3. ticks' \in [Procs -> Int]
  BY <1>1, <1>2, CountTickType
<1>4. /\ ready' \in [Procs -> BOOLEAN]
      /\ \A p \in Procs : ready[p] => ready'[p]
      /\ \A p \in Procs : fate[p] # "alive" => ~ready'[p]
  BY <1>1, <1>2, InformType
<1>5. CASE TickRunning \/ TickNested
  BY <1>3, <1>4, <1>5, QuietStep DEF TickRunning, TickNested
<1>6. CASE TickExpires
  <2>1. pc = "user" /\ Schedule /\ inCall' \in BOOLEAN
    BY <1>1, <1>6 DEF TickExpires, TypeOK
  <2> QED BY <2>1, <1>1, <1>3, <1>4, ScheduleStart
<1> QED BY <1>5, <1>6 DEF Tick

LEMMA BlockInvariant == IInv /\ Block => IInv'
<1> SUFFICES ASSUME IInv, Block PROVE IInv'
  OBVIOUS
<1>1. TypeOK /\ KilledWait /\ Spinners \subseteq Procs
  BY SchedAssumption DEF IInv
<1>2. /\ ready' \in [Procs -> BOOLEAN] /\ ticks' \in [Procs -> Int]
      /\ \A s \in Spinners : ready[s] => ready'[s]
      /\ \A p \in Procs : fate[p] # "alive" => ~ready'[p]
  BY <1>1 DEF Block, Calls, TypeOK, KilledWait
<1>3. pc = "user" /\ Schedule /\ inCall' \in BOOLEAN
  BY DEF Block, Calls
<1> QED BY <1>2, <1>3, ScheduleStart

LEMMA WakeInvariant ==
  ASSUME IInv, NEW p \in Procs, Unblock(p) \/ (p \in Informed /\ Inform(p))
  PROVE  IInv'
<1>1. fate[p] = "alive"
  BY SchedAssumption DEF Unblock, IInv, KilledWait
<1>2. /\ ready' = [ready EXCEPT ![p] = TRUE] /\ UNCHANGED ticks
      /\ UNCHANGED <<queue, fate, running, pc, inCall, left, level>>
  BY DEF Unblock, Inform
<1>3. /\ ready' \in [Procs -> BOOLEAN] /\ ticks' \in [Procs -> Int]
      /\ \A q \in Procs : ready[q] => ready'[q]
      /\ \A q \in Procs : fate[q] # "alive" => ~ready'[q]
  BY <1>1, <1>2 DEF IInv, TypeOK, KilledWait
<1> QED BY <1>2, <1>3, QuietStep

-----------------------------------------------------------------------------
(* The process manager *)

(* A user process that is not protected is killed, the shell itself        *)
(* included: the spinner that is protected goes on.                        *)
LEMMA KillInvariant ==
  ASSUME IInv, NEW p \in Procs, Kill(p)
  PROVE  IInv'
<1> USE DEF IInv
<1>1. /\ pc = "user" /\ p \notin Tasks \union Protected
      /\ fate' = [fate EXCEPT ![p] = "killed"]
      /\ ready' = [ready EXCEPT ![p] = FALSE]
      /\ UNCHANGED <<queue, ticks, running, pc, inCall, left, level>>
  BY DEF Kill, Manages, Calls
<1>2. fate \in [Procs -> {"alive", "killed", "restarted"}] /\ ready \in [Procs -> BOOLEAN]
  BY DEF TypeOK
<1>3. TypeOK'
  BY <1>1 DEF TypeOK
<1>4. EachInOneQueue' /\ AlwaysFindsOne' /\ PassedOverAreTasks' /\ LeftBehind' /\ LoopBounds'
  BY <1>1 DEF EachInOneQueue, AlwaysFindsOne, PassedOverAreTasks, LeftBehind, LoopBounds
<1>5. KilledWait'
  BY <1>1, <1>2 DEF KilledWait
<1>6. RunningIsFirst'
  <2>1. ready'[running] \/ fate'[running] = "killed"
    BY <1>1, <1>2 DEF RunningIsFirst, TypeOK
  <2> QED BY <2>1, <1>1 DEF RunningIsFirst
<1>7. SpinnersAhead'
  <2> SUFFICES ASSUME NEW s \in Spinners, fate'[s] = "alive"
               PROVE  ready'[s] /\ \E l \in Ready : s \in ToSet(queue[l])
    BY <1>1 DEF SpinnersAhead
  <2>1. s \in Procs /\ s # p
    BY <1>1, <1>2, SchedAssumption
  <2>2. fate[s] = "alive" /\ ready'[s] = ready[s]
    BY <2>1, <1>1, <1>2
  <2> QED BY <2>2 DEF SpinnersAhead
<1> QED BY <1>3, <1>4, <1>5, <1>6, <1>7

(* A process that was killed gets another mark, and still does not run.    *)
LEMMA RestartInvariant ==
  ASSUME IInv, NEW p \in Procs, Restart(p)
  PROVE  IInv'
<1> USE DEF IInv
<1>1. /\ fate[p] = "killed" /\ fate[running] = "alive" /\ running \in Procs
      /\ fate' = [fate EXCEPT ![p] = "restarted"]
      /\ UNCHANGED <<queue, ticks, ready, running, pc, inCall, left, level>>
  BY DEF Restart, Manages, Calls, TypeOK
<1>2. fate \in [Procs -> {"alive", "killed", "restarted"}]
  BY DEF TypeOK
<1>3. \A q \in Procs : (fate'[q] = "alive") <=> (fate[q] = "alive")
  BY <1>1, <1>2
<1>4. TypeOK'
  BY <1>1 DEF TypeOK
<1>5. EachInOneQueue' /\ AlwaysFindsOne' /\ PassedOverAreTasks' /\ LeftBehind' /\ LoopBounds'
  BY <1>1 DEF EachInOneQueue, AlwaysFindsOne, PassedOverAreTasks, LeftBehind, LoopBounds
<1>6. KilledWait'
  BY <1>1, <1>3 DEF KilledWait
<1>7. RunningIsFirst'
  BY <1>1 DEF RunningIsFirst
<1>8. SpinnersAhead'
  BY <1>1, <1>3, SchedAssumption DEF SpinnersAhead
<1> QED BY <1>4, <1>5, <1>6, <1>7, <1>8

LEMMA HaltInvariant == IInv /\ CallOfKilled => IInv'
<1> SUFFICES ASSUME IInv, CallOfKilled PROVE IInv'
  OBVIOUS
<1> USE DEF IInv, CallOfKilled
<1>1. TypeOK' /\ EachInOneQueue' /\ KilledWait' /\ AlwaysFindsOne'
  BY DEF TypeOK, EachInOneQueue, KilledWait, AlwaysFindsOne
<1>2. RunningIsFirst' /\ PassedOverAreTasks' /\ LoopBounds' /\ LeftBehind' /\ SpinnersAhead'
  BY DEF RunningIsFirst, PassedOverAreTasks, LoopBounds, LeftBehind, SpinnersAhead
<1> QED BY <1>1, <1>2

LEMMA StutterInvariant == IInv /\ UNCHANGED vars => IInv'
BY DEF vars, IInv, TypeOK, EachInOneQueue, RunningIsFirst, AlwaysFindsOne, KilledWait,
       PassedOverAreTasks, SpinnersAhead, LoopBounds, LeftBehind

LEMMA NextInvariant == IInv /\ [Next]_vars => IInv'
<1> SUFFICES ASSUME IInv, [Next]_vars PROVE IInv'
  OBVIOUS
<1>1. CASE ScheduleStep
  BY <1>1, ScheduleStepInvariant
<1>2. CASE Tick
  BY <1>2, TickInvariant
<1>3. CASE Block
  BY <1>3, BlockInvariant
<1>4. ASSUME NEW p \in Procs, Unblock(p) PROVE IInv'
  BY <1>4, WakeInvariant
<1>5. ASSUME NEW t \in Informed, Inform(t) PROVE IInv'
  BY <1>5, WakeInvariant, SchedAssumption
<1>6. ASSUME NEW p \in Procs, Kill(p) PROVE IInv'
  BY <1>6, KillInvariant
<1>7. ASSUME NEW p \in Procs, Restart(p) PROVE IInv'
  BY <1>7, RestartInvariant
<1>8. CASE CallOfKilled
  BY <1>8, HaltInvariant
<1>9. CASE Spin \/ UNCHANGED vars
  BY <1>9, StutterInvariant DEF Spin
<1> QED BY <1>1, <1>2, <1>3, <1>4, <1>5, <1>6, <1>7, <1>8, <1>9 DEF Next, Tick

(* Only the second loop chooses, and it chooses who is runnable.  *)
LEMMA ChoosesLiving ==
  ASSUME IInv, [Next]_vars, NEW p \in Procs, fate[p] # "alive", running' = p
  PROVE  running = p
<1> SUFFICES ASSUME running' # running PROVE FALSE
  OBVIOUS
<1>1. ScanChoose
  BY DEF Next, ScheduleStep, RotateReady, RotateBlocked, RotateDone, ScanExpired,
         ScanBlocked, ScanEmpty, TickRunning, TickExpires, TickNested, Schedule, Block,
         Unblock, Inform, Kill, Restart, CallOfKilled, Spin, vars
<1> QED BY <1>1 DEF ScanChoose, IInv, KilledWait

-----------------------------------------------------------------------------
(* The theorems *)

(* IInv is an invariant of the scheduler.  *)
THEOREM Invariant == Spec => []IInv
<1> QED BY InitInvariant, NextInvariant, PTL DEF Spec

(* Every variable has its type: a level is always one of the four queues,  *)
(* and the first loop never looks at more processes than there are.        *)
THEOREM TypeCorrect == Spec => []TypeOK
<1>1. IInv => TypeOK
  BY DEF IInv
<1> QED BY <1>1, Invariant, PTL

(* No process is lost or duplicated: no buffer is ever full and every      *)
(* process is in exactly one queue between any two steps of schedule().    *)
THEOREM NoProcessLost == Spec => []EachInOneQueue
<1>1. IInv => EachInOneQueue
  BY DEF IInv
<1> QED BY <1>1, Invariant, PTL

(* What runs in user mode is runnable and the first of a ready queue.      *)
THEOREM RunsFromTheFront == Spec => []RunningIsFirst
<1>1. IInv => RunningIsFirst
  BY DEF IInv
<1> QED BY <1>1, Invariant, PTL

(* With one process that never blocks schedule() never runs off the table. *)
THEOREM ScheduleFinds == Spec => []AlwaysFindsOne
<1>1. IInv => AlwaysFindsOne
  BY DEF IInv
<1> QED BY <1>1, Invariant, PTL

(* A lower queue runs only when the higher ones are empty, or when the     *)
(* first one holds only tasks.                                             *)
THEOREM OnlyTasksPassedOver == Spec => []PassedOverAreTasks
<1>1. IInv => PassedOverAreTasks
  BY DEF IInv
<1> QED BY <1>1, Invariant, PTL

(* A process that was killed and that nobody restarts is not chosen again: *)
(* what killProcess writes keeps it from the second loop.                  *)
THEOREM KilledNeverRuns == Spec => KilledStaysDown
<1>1. IInv /\ [Next]_vars =>
        [\A p \in Procs : fate[p] = "killed" /\ running' = p => running = p]_vars
  BY ChoosesLiving
<1> QED BY <1>1, Invariant, PTL DEF Spec, KilledStaysDown
=============================================================================
