-------------------------------- MODULE Sched --------------------------------
(***************************************************************************)
(* The multi-level queue scheduler: schedule, get_proc and append_proc of  *)
(* kernel/proc.c, and clock_handler of kernel/clock.c.                     *)
(*                                                                         *)
(* Every process is in one of NR_QUEUE ready queues or in the queue of     *)
(* blocked processes, the one that runs included.  schedule() is called by *)
(* block() inside a system call and by the clock handler; both run with    *)
(* interrupts enabled, so other interrupts arrive between the iterations   *)
(* of its loops and may unblock the tasks they inform.  A clock interrupt  *)
(* inside a system call only counts a tick.                                *)
(*                                                                         *)
(* The shell's process manager (kernel/main.c) writes to the table of the  *)
(* processes without asking the kernel.                                    *)
(*                                                                         *)
(* p_flags is abstracted to ready: whether it is 0.  No process in a queue *)
(* ever has p_flags = FREE_SLOT (nothing sets it after kernel_main), so    *)
(* the branches that drop such a process never run and are left out.       *)
(***************************************************************************)
EXTENDS Integers, Sequences, SequencesExt, FiniteSets

CONSTANTS
  Procs,
  First,        (* the process that runs first: proc_table[0]              *)
  Tasks,        (* processes with type 15                                  *)
  Informed,     (* tasks that interrupts unblock                           *)
  Spinners,     (* user processes that never block: TestB and TestC        *)
  Shell,        (* TestA, in which the process manager runs                *)
  Protected,    (* numbers killProcess refuses: a task and TestB           *)
  Quantum,      (* the priority of each queue: ticks given on arrival      *)
  Capacity      (* slots of a queue's buffer: NR_PROCS                     *)

NR_QUEUE == 3

Ready == 0..(NR_QUEUE - 1)
Lowest == NR_QUEUE - 1
BlockedQueue == NR_QUEUE
Levels == Ready \union {BlockedQueue}

ASSUME SchedAssumption ==
  /\ IsFiniteSet(Procs) /\ Cardinality(Procs) < Capacity /\ Capacity \in Nat
  /\ First \in Procs
  /\ Informed \subseteq Tasks /\ Tasks \subseteq Procs
  /\ Spinners \subseteq Procs \ Tasks /\ Spinners \intersect Protected # {}
  /\ Shell \in Procs \ (Tasks \union Spinners)
  /\ Procs \ (Tasks \union Protected) \subseteq Spinners \union {Shell}
  /\ Quantum \in [Levels -> Int]
  /\ \A l \in Ready : Quantum[l] > 0

VARIABLES
  queue,      (* queue_table: the processes from p_tail to p_head          *)
  ticks,      (* ticks a process has left                                  *)
  ready,      (* p_flags = 0                                               *)
  fate,       (* "killed": p_flags = -1; "restarted": p_flags = 1          *)
  running,    (* p_proc_ready                                              *)
  pc,         (* "user", the loop of schedule() that runs, or "halted"     *)
  inCall,     (* schedule() was called from a system call                  *)
  left,       (* processes the first loop has still to look at             *)
  level       (* the queue the second loop looks at                        *)

vars == <<queue, ticks, ready, fate, running, pc, inCall, left, level>>

(* In which order the buffers are filled at boot does not matter later.    *)
Init ==
  /\ \E order \in SetToSeqs(Procs) :
       /\ order[1] = First
       /\ queue = [l \in Levels |-> IF l = 0 THEN order ELSE <<>>]
  /\ ticks = [p \in Procs |-> Quantum[0]]
  /\ ready = [p \in Procs |-> TRUE] /\ fate = [p \in Procs |-> "alive"]
  /\ running = First
  /\ pc = "user" /\ inCall = FALSE /\ left = 0 /\ level = 0

-----------------------------------------------------------------------------
(* Fault: the process also stays in the queue it came from.  *)
RequeueCopies(from, to) ==
  LET p == Head(queue[from])
  IN  /\ queue' = IF from = to
                  THEN [queue EXCEPT ![to] = Append(Tail(@), p)]
                  ELSE [queue EXCEPT ![to] = Append(@, p)]
      /\ ticks' = [ticks EXCEPT ![p] = Quantum[to]]

(* get_proc from one queue and append_proc to another.  append_proc gives  *)
(* the process the ticks of its new queue, and loses it when the queue is  *)
(* full.                                                                   *)
Requeue(from, to) ==
  LET p == Head(queue[from])
      rest == [queue EXCEPT ![from] = Tail(@)]
  IN  IF Len(rest[to]) = Capacity
      THEN queue' = rest /\ UNCHANGED ticks
      ELSE /\ queue' = [rest EXCEPT ![to] = Append(@, p)]
           /\ ticks' = [ticks EXCEPT ![p] = Quantum[to]]

(* Fault: the first loop leaves out one process.  *)
ScheduleShort ==
  /\ pc' = "rotate"
  /\ left' = Len(queue[BlockedQueue]) - 1
  /\ UNCHANGED <<queue, fate, running, level>>

(* schedule() starts.  The first loop goes round the queue of blocked      *)
(* processes until it meets the place where p_head was: not at all when    *)
(* the buffer is full, for then p_head equals p_tail.                      *)
Schedule ==
  /\ pc' = "rotate"
  /\ left' = IF Len(queue[BlockedQueue]) = Capacity THEN 0 ELSE Len(queue[BlockedQueue])
  /\ UNCHANGED <<queue, fate, running, level>>

(* Fault: a woken process goes to the queue of the longest quantum.  *)
RotateReadyToLowest ==
  /\ pc = "rotate" /\ left > 0
  /\ ready[Head(queue[BlockedQueue])]
  /\ Requeue(BlockedQueue, Lowest)
  /\ left' = left - 1
  /\ UNCHANGED <<ready, fate, running, pc, inCall, level>>

RotateReady ==
  /\ pc = "rotate" /\ left > 0
  /\ ready[Head(queue[BlockedQueue])]
  /\ Requeue(BlockedQueue, 0)
  /\ left' = left - 1
  /\ UNCHANGED <<ready, fate, running, pc, inCall, level>>

(* Fault: the loop ends only when no blocked process is left.  *)
RotateBlockedEndlessly ==
  /\ pc = "rotate" /\ left > 0
  /\ ~ready[Head(queue[BlockedQueue])]
  /\ Requeue(BlockedQueue, BlockedQueue)
  /\ UNCHANGED <<ready, fate, running, pc, inCall, left, level>>

RotateBlocked ==
  /\ pc = "rotate" /\ left > 0
  /\ ~ready[Head(queue[BlockedQueue])]
  /\ Requeue(BlockedQueue, BlockedQueue)
  /\ left' = left - 1
  /\ UNCHANGED <<ready, fate, running, pc, inCall, level>>

RotateDone ==
  /\ pc = "rotate" /\ left = 0
  /\ pc' = "scan" /\ level' = 0
  /\ UNCHANGED <<queue, ticks, ready, fate, running, inCall, left>>

(* The second loop looks at the first process of a queue that is not empty *)
(* and moves it away until the first process can run.                      *)
Scanning == pc = "scan" /\ level \in Ready /\ queue[level] # <<>>

Candidate == Head(queue[level])

(* Fault: the lowest queue has no exception.  *)
ExpiredAnywhere == ticks[Candidate] = 0

Expired == ticks[Candidate] = 0 /\ level # Lowest

(* Fault: whoever would reach the lowest queue goes back to the first.  *)
DemotionTargetFirst(p, l) == IF l + 1 = Lowest THEN 0 ELSE l + 1

(* Out of ticks: down one queue, but a task goes back to the first one     *)
(* instead of the lowest.                                                  *)
DemotionTarget(p, l) == IF l + 1 = Lowest /\ p \in Tasks THEN 0 ELSE l + 1

ScanExpired ==
  /\ Scanning /\ Expired
  /\ Requeue(level, DemotionTarget(Candidate, level))
  /\ UNCHANGED <<ready, fate, running, pc, inCall, left, level>>

ScanBlocked ==
  /\ Scanning /\ ~Expired /\ ~ready[Candidate]
  /\ Requeue(level, BlockedQueue)
  /\ UNCHANGED <<ready, fate, running, pc, inCall, left, level>>

ScanEmpty ==
  /\ pc = "scan" /\ level \in Ready /\ queue[level] = <<>>
  /\ level' = level + 1
  /\ UNCHANGED <<queue, ticks, ready, fate, running, pc, inCall, left>>

(* Fault: the first process runs, blocked or not.  *)
ScanChooseBlocked ==
  /\ Scanning /\ ~Expired
  /\ running' = Candidate
  /\ pc' = "user" /\ inCall' = FALSE /\ level' = 0
  /\ UNCHANGED <<queue, ticks, ready, fate, left>>

ScanChoose ==
  /\ Scanning /\ ~Expired /\ ready[Candidate]
  /\ running' = Candidate
  /\ pc' = "user" /\ inCall' = FALSE /\ level' = 0
  /\ UNCHANGED <<queue, ticks, ready, fate, left>>

ScheduleStep ==
  \/ RotateReady \/ RotateBlocked \/ RotateDone
  \/ ScanExpired \/ ScanBlocked \/ ScanEmpty \/ ScanChoose

-----------------------------------------------------------------------------
(* The clock.  The handler informs TASK_TTY when a key was pressed.  *)

CountTick ==
  ticks' = [ticks EXCEPT ![running] = IF @ > 0 THEN @ - 1 ELSE @]

InformOnKey ==
  \/ UNCHANGED ready
  \/ \E t \in Informed : ~ready[t] /\ ready' = [ready EXCEPT ![t] = TRUE]

(* A tick while a process runs in user mode.  (A negative count belongs to *)
(* a blocked process and is replaced before it is looked at: the model     *)
(* does not count it further down.)                                        *)
TickRunning ==
  /\ pc = "user"
  /\ ticks[running] > 1
  /\ CountTick /\ InformOnKey
  /\ UNCHANGED <<queue, fate, running, pc, inCall, left, level>>

TickExpires ==
  /\ pc = "user"
  /\ ticks[running] <= 1
  /\ CountTick /\ InformOnKey
  /\ Schedule
  /\ UNCHANGED inCall

(* A tick inside a system call: k_reenter is not 0.  *)
TickNested ==
  /\ inCall \/ (pc = "user" /\ running \notin Spinners)
  /\ ticks[running] > 0
  /\ CountTick /\ InformOnKey
  /\ UNCHANGED <<queue, fate, running, pc, inCall, left, level>>

Tick == TickRunning \/ TickExpires \/ TickNested

-----------------------------------------------------------------------------
(* What processes and interrupts do to p_flags (module Ipc).  *)

(* The running process can make system calls: TestB and TestC do not, and  *)
(* those of a process that has killed itself fail.                         *)
Calls == pc = "user" /\ running \notin Spinners /\ fate[running] = "alive"

(* The running process blocks in sendrec.  *)
Block ==
  /\ Calls
  /\ ready' = [ready EXCEPT ![running] = FALSE]
  /\ inCall' = TRUE
  /\ Schedule
  /\ UNCHANGED ticks

(* A system call of the running process completes a rendezvous with p.     *)
(* Nobody has a message for a process that was killed: TestC sends none,   *)
(* and the shell was running, not waiting.                                 *)
Unblock(p) ==
  /\ Calls
  /\ ~ready[p] /\ fate[p] = "alive"
  /\ ready' = [ready EXCEPT ![p] = TRUE]
  /\ UNCHANGED <<queue, ticks, fate, running, pc, inCall, left, level>>

(* An interrupt handler informs task t that waits for it.  *)
Inform(t) ==
  /\ ~ready[t]
  /\ ready' = [ready EXCEPT ![t] = TRUE]
  /\ UNCHANGED <<queue, ticks, fate, running, pc, inCall, left, level>>

-----------------------------------------------------------------------------
(* The process manager, runProcessManage.  *)

Manages == Calls /\ running = Shell

(* Fault: any user process can be killed.  *)
KillUnprotected(p) ==
  /\ Manages /\ p \notin Tasks /\ fate[p] # "killed"
  /\ fate' = [fate EXCEPT ![p] = "killed"]
  /\ ready' = [ready EXCEPT ![p] = FALSE]
  /\ UNCHANGED <<queue, ticks, running, pc, inCall, left, level>>

(* Fault: p_flags is left as it is.  *)
KillPriorityOnly(p) ==
  /\ Manages /\ p \notin Tasks \union Protected /\ fate[p] # "killed"
  /\ fate' = [fate EXCEPT ![p] = "killed"]
  /\ UNCHANGED <<queue, ticks, ready, running, pc, inCall, left, level>>

(* killProcess.  The queues are not looked at.  Number 4 is protected but  *)
(* is a task; the shell, number 5, is not.                                 *)
Kill(p) ==
  /\ Manages /\ p \notin Tasks \union Protected /\ fate[p] # "killed"
  /\ fate' = [fate EXCEPT ![p] = "killed"]
  /\ ready' = [ready EXCEPT ![p] = FALSE]
  /\ UNCHANGED <<queue, ticks, running, pc, inCall, left, level>>

(* restartProcess: p_flags becomes 1, which is not 0 either.  *)
Restart(p) ==
  /\ Manages /\ fate[p] = "killed"
  /\ fate' = [fate EXCEPT ![p] = "restarted"]
  /\ UNCHANGED <<queue, ticks, ready, running, pc, inCall, left, level>>

(* The shell has killed itself and calls the kernel: msg_send asserts that *)
(* the flags of the sender are 0, or SENDING, and the system stops.        *)
CallOfKilled ==
  /\ pc = "user" /\ running \notin Spinners /\ fate[running] # "alive"
  /\ pc' = "halted" /\ inCall' = TRUE
  /\ UNCHANGED <<queue, ticks, ready, fate, running, left, level>>

(* assertion_failure spins for ever.  *)
Spin == pc = "halted" /\ UNCHANGED vars

Next ==
  \/ ScheduleStep
  \/ TickRunning \/ TickExpires \/ TickNested
  \/ Block
  \/ \E p \in Procs : Unblock(p) \/ Kill(p) \/ Restart(p)
  \/ CallOfKilled \/ Spin
  \/ \E t \in Informed : Inform(t)

(* The processor executes the loops of schedule(), and the clock, which    *)
(* asks nobody, ticks again and again at whatever the processor does: a    *)
(* process that keeps blocking and waking between two ticks cannot always  *)
(* be missed by them.                                                      *)
Fairness == WF_vars(ScheduleStep) /\ SF_vars(Tick)

Spec == Init /\ [][Next]_vars

FairSpec == Spec /\ Fairness

-----------------------------------------------------------------------------
(* Properties *)

TypeOK ==
  /\ queue \in [Levels -> Seq(Procs)]
  /\ ticks \in [Procs -> Int]
  /\ ready \in [Procs -> BOOLEAN]
  /\ fate \in [Procs -> {"alive", "killed", "restarted"}]
  /\ running \in Procs
  /\ pc \in {"user", "rotate", "scan", "halted"}
  /\ inCall \in BOOLEAN
  /\ left \in Nat
  /\ level \in Levels

(* Every process is in exactly one queue, once: moving the processes from  *)
(* buffer to buffer while interrupts arrive loses and duplicates none.     *)
EachInOneQueue ==
  /\ \A l, m \in Levels : \A i \in DOMAIN queue[l], j \in DOMAIN queue[m] :
       queue[l][i] = queue[m][j] => l = m /\ i = j
  /\ \A p \in Procs : \E l \in Levels : \E i \in DOMAIN queue[l] : queue[l][i] = p

(* A process that runs in user mode is runnable, unless it has just killed *)
(* itself, and is the first of a ready queue, where the clock handler and  *)
(* block() expect to find it.                                              *)
RunningIsFirst ==
  pc = "user" =>
    /\ ready[running] \/ fate[running] = "killed"
    /\ \E l \in Ready : queue[l] # <<>> /\ Head(queue[l]) = running

(* schedule() always finds a process, whoever was killed: while a process  *)
(* that never blocks is in some ready queue the second loop cannot run off *)
(* the table and leave p_proc_ready to a process it has just put aside.    *)
AlwaysFindsOne == level # BlockedQueue

(* Processes pass over a higher queue only if it holds nothing but tasks   *)
(* that the same pass of the loop has sent back from the second queue.     *)
PassedOverAreTasks ==
  pc = "user" =>
    \A l, m \in Ready :
      l < m /\ queue[m] # <<>> /\ Head(queue[m]) = running =>
        queue[l] = <<>> \/ (l = 0 /\ ToSet(queue[0]) \subseteq Tasks)

(* A process that was killed is not runnable, and is one that may be.      *)
KilledWait ==
  \A p \in Procs :
    fate[p] # "alive" => ~ready[p] /\ p \notin Tasks \union Protected

(* A process that never blocks is in a ready queue as long as it lives,    *)
(* and the second loop has it still ahead; what the loops may rely on; and *)
(* which queues the second loop leaves behind.                             *)
SpinnersAhead ==
  \A s \in Spinners :
    fate[s] = "alive" =>
      /\ ready[s]
      /\ \E l \in Ready : (pc = "scan" => l >= level) /\ s \in ToSet(queue[l])

LoopBounds ==
  /\ pc = "rotate" => left <= Len(queue[BlockedQueue])
  /\ pc # "scan" => level = 0

LeftBehind ==
  pc = "scan" =>
    \A l \in Ready :
      l < level => queue[l] = <<>> \/ (l = 0 /\ ToSet(queue[0]) \subseteq Tasks)

(* The inductive invariant of the module.  *)
IInv ==
  /\ TypeOK
  /\ EachInOneQueue
  /\ RunningIsFirst
  /\ AlwaysFindsOne
  /\ PassedOverAreTasks
  /\ KilledWait
  /\ SpinnersAhead
  /\ LoopBounds
  /\ LeftBehind

(* A process that was killed is not chosen again as long as nobody         *)
(* restarts it, not even by a wake-up that was on its way (killProcess     *)
(* writes p_flags and leaves the queues as they are).                      *)
KilledStaysDown ==
  [][\A p \in Procs : fate[p] = "killed" /\ running' = p => running = p]_vars

(* A process that was restarted runs again, unless it is killed again or   *)
(* the system stops (restartProcess, main.c line 1674: "Aim process is     *)
(* running.").                                                             *)
RestartedRuns ==
  \A p \in Procs :
    fate[p] = "restarted" ~> (running = p /\ pc = "user") \/ fate[p] = "killed" \/ pc = "halted"

(* schedule() returns, however many interrupts arrive meanwhile.  *)
ScheduleTerminates == (pc \in {"rotate", "scan"}) ~> (pc = "user")

(* A process that is unblocked runs again, whatever the others do, unless  *)
(* it is killed or the system stops.                                       *)
WokenRuns ==
  \A p \in Procs :
    (ready[p] /\ p \in ToSet(queue[BlockedQueue]))
      ~> (running = p /\ pc = "user") \/ fate[p] # "alive" \/ pc = "halted"
=============================================================================
