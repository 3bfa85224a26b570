---------------------------- MODULE SchedProofs ----------------------------
(***************************************************************************)
(* Machine-checked proofs about Sched, for every MaxPid, MaxTid and        *)
(* ExitCodes.  SchedInv is the inductive invariant: besides the types it   *)
(* says who owns a thread, that a thread that is neither NULL nor dead     *)
(* belongs to a process that is neither NULL nor exiting, and that the     *)
(* queue holds the existing threads exactly once.  WaitInv adds, on top of *)
(* it, which threads wait for which process and what the counters of       *)
(* waiters count.                                                          *)
(***************************************************************************)
EXTENDS Sched, FiniteSetTheorems, TLAPS

\* The idle thread is never exited, killed, suspended or made to wait.
IdleAlive ==
  /\ tstate[IdleTid] \in {"starting", "running"}
  /\ town[IdleTid] = IdlePid
  /\ pstate[IdlePid] = "starting"

\* tids lists only threads that have been created, and only p's own.
TidsOwned == \A p \in Pids : \A t \in ptids[p] : town[t] = p /\ t < last_tid

\* Ids not yet handed out name nothing.
FreshTids == \A t \in Tids : t >= last_tid => tstate[t] = "none"

\* A thread that may still run is listed by its process, which is alive.
LiveThreadsOwned ==
  \A t \in Tids : tstate[t] \notin {"none", "dead"} =>
    /\ pstate[town[t]] \notin {"none", "exiting"}
    /\ t \in ptids[town[t]]

CurrentRuns == cpu = "user" => currenttid \in Tids /\ tstate[currenttid] = "running"

OwnershipInv ==
  /\ IdleAlive
  /\ TidsOwned
  /\ FreshTids
  /\ LiveThreadsOwned
  /\ QueueHoldsThreads

SchedInv == TypeOK /\ OwnershipInv /\ CurrentRuns

-----------------------------------------------------------------------------
(* The queue as data.                                                       *)

\* What the shift loop of sched_pick_next leaves: one entry fewer, and the
\* other entries in their order.
LEMMA WithoutEntryType ==
  ASSUME NEW S, NEW q \in Seq(S), NEW k \in 1..Len(q)
  PROVE  /\ WithoutEntry(q, k) \in Seq(S)
         /\ Len(WithoutEntry(q, k)) = Len(q) - 1
         /\ \A i \in 1..(Len(q) - 1) :
              WithoutEntry(q, k)[i] = IF i < k THEN q[i] ELSE q[i + 1]
  <1>1. Len(q) - 1 \in Nat
    OBVIOUS
  <1>2. \A i \in 1..(Len(q) - 1) : (IF i < k THEN q[i] ELSE q[i + 1]) \in S
    OBVIOUS
  <1>3. QED
    BY <1>1, <1>2 DEF WithoutEntry

\* A queue without repetitions, and what it holds.
NoRepeats(q) == \A i, j \in 1..Len(q) : q[i] = q[j] => i = j
Entries(q) == {q[i] : i \in 1..Len(q)}

\* Removing an entry of a queue without repetitions removes exactly that
\* thread.
LEMMA WithoutEntryRemoves ==
  ASSUME NEW S, NEW q \in Seq(S), NEW k \in 1..Len(q), NoRepeats(q)
  PROVE  /\ NoRepeats(WithoutEntry(q, k))
         /\ Entries(WithoutEntry(q, k)) = Entries(q) \ {q[k]}
  <1> DEFINE r == WithoutEntry(q, k)
  <1>1. /\ Len(r) = Len(q) - 1
        /\ \A i \in 1..(Len(q) - 1) : r[i] = IF i < k THEN q[i] ELSE q[i + 1]
    BY WithoutEntryType
  <1> HIDE DEF r
  <1>2. NoRepeats(r)
    BY <1>1 DEF NoRepeats
  <1>3. ASSUME NEW i \in 1..Len(r)
        PROVE  r[i] \in Entries(q) \ {q[k]}
    BY <1>1 DEF NoRepeats, Entries
  <1>4. ASSUME NEW i \in 1..Len(q), q[i] # q[k]
        PROVE  q[i] \in Entries(r)
    <2>1. CASE i < k
      BY <1>1, <2>1 DEF Entries
    <2>2. CASE i > k
      <3>1. i - 1 \in 1..Len(r) /\ r[i - 1] = q[i]
        BY <1>1, <2>2
      <3>2. QED
        BY <3>1 DEF Entries
    <2>3. QED
      BY <1>4, <2>1, <2>2
  <1>5. Entries(r) = Entries(q) \ {q[k]}
    BY <1>3, <1>4 DEF Entries
  <1>6. QED
    BY <1>2, <1>5 DEF r

-----------------------------------------------------------------------------
(* What sched_pick_next pops.                                               *)

\* Every queue entry is the tid of a thread that exists.
LEMMA QueueEntryExists ==
  ASSUME TypeOK, QueueHoldsThreads, NEW k \in 1..Len(queue)
  PROVE  queue[k] \in Tids /\ tstate[queue[k]] # "none" /\ queue[k] # IdleTid
  <1>1. queue[k] \in Tids /\ k \in DOMAIN queue
    BY DEF TypeOK, QueueTypeOK
  <1>2. QED
    BY <1>1 DEF QueueHoldsThreads

\* What NextTid names exists, and when it is not the idle thread it is the
\* queue entry at NextLoc.
LEMMA NextTidExists ==
  ASSUME TypeOK, IdleAlive, QueueHoldsThreads
  PROVE  /\ NextTid \in Tids
         /\ tstate[NextTid] # "none"
         /\ NextLoc \in 0..Len(queue)
         /\ NextTid # IdleTid => NextLoc \in 1..Len(queue) /\ queue[NextLoc] = NextTid
  <1>0. Len(queue) \in Nat /\ queue_loc \in 0..Len(queue) /\ queue \in Seq(Tids)
    BY DEF TypeOK, QueueTypeOK
  <1>1. CASE QueueLeft
    <2>1. NextTid = queue[queue_loc + 1] /\ NextLoc = queue_loc + 1
      BY <1>1 DEF NextTid, NextLoc
    <2>2. queue_loc + 1 \in 1..Len(queue)
      BY <1>0, <1>1 DEF QueueLeft
    <2>3. QED
      BY <1>0, <2>1, <2>2, QueueEntryExists
  <1>2. CASE ~QueueLeft /\ (loop \/ queue = <<>>)
    <2>1. NextTid = IdleTid
      BY <1>2 DEF NextTid
    <2>2. NextLoc \in 0..Len(queue)
      BY <1>0, <1>2 DEF NextLoc
    <2>3. IdleTid \in Tids /\ tstate[IdleTid] # "none"
      BY SchedAssumption DEF IdleAlive, IdleTid, Tids
    <2>4. QED
      BY <2>1, <2>2, <2>3
  <1>3. CASE ~QueueLeft /\ ~loop /\ queue # <<>>
    <2>1. NextTid = queue[1] /\ NextLoc = 1
      BY <1>3 DEF NextTid, NextLoc
    <2>2. 1 \in 1..Len(queue)
      BY <1>0, <1>3
    <2>3. QED
      BY <1>0, <2>1, <2>2, QueueEntryExists
  <1>4. QED
    BY <1>1, <1>2, <1>3

\* The invariant rules out the three panics of sched_pick_next.
LEMMA InvImpliesNoPanic == SchedInv => PickNeverPanics
  <1> SUFFICES ASSUME SchedInv
               PROVE  PickNeverPanics
    OBVIOUS
  <1>1. tstate[NextTid] # "none" /\ NextTid \in Tids
    BY NextTidExists DEF SchedInv, OwnershipInv
  <1>2. tstate[NextTid] # "dead" => pstate[town[NextTid]] \notin {"none", "exiting"}
    BY <1>1 DEF SchedInv, OwnershipInv, LiveThreadsOwned
  <1>3. QED
    BY <1>1, <1>2
       DEF PickNeverPanics, SchedInv, CurrentRuns, NullThread, NullProcess, ExitingProcess

-----------------------------------------------------------------------------
(* The initial state.                                                       *)

\* The state kernel_main leaves satisfies the invariant.
LEMMA InitInv == Init => SchedInv
  <1> SUFFICES ASSUME Init
               PROVE  SchedInv
    OBVIOUS
  <1> USE SchedAssumption DEF Pids, Tids, IdlePid, IdleTid, KernelTid, InitPid, InitTid
  <1>1. TypeOK
    <2>1. pstate \in [Pids -> ProcessStates]
      BY DEF Init, ProcessStates
    <2>2. ptids \in [Pids -> SUBSET Tids]
      BY DEF Init
    <2>3. tstate \in [Tids -> ThreadStates]
      BY DEF Init, ThreadStates
    <2>4. queue \in Seq(Tids) /\ queue_loc \in 0..Len(queue)
      BY DEF Init
    <2>5. town \in [Tids -> Pids] /\ twait \in [Tids -> Pids] /\ wait_msg \in SUBSET Tids
      BY DEF Init
    <2>6. waiting_threads \in [Pids -> Int] /\ exitcode \in [Pids -> Int]
      BY DEF Init
    <2>7. /\ processes_count \in Int /\ last_pid \in 3..(MaxPid + 1)
          /\ last_tid \in 3..(MaxTid + 1)
      BY DEF Init
    <2>0. loop \in BOOLEAN /\ kernel_waits \in BOOLEAN
      BY Zenon DEF Init
    <2>8. /\ currenttid \in Tids \cup {NoThread} /\ delivered \in Int
          /\ cpu \in {"user", "pick", "panic"} /\ panic \in PanicReasons
      BY DEF Init, PanicReasons, NoThread, NoStatus
    <2> HIDE DEF Pids, Tids, IdlePid, IdleTid, KernelTid, InitPid, InitTid
    <2>9. QED
      BY <2>0, <2>1, <2>2, <2>3, <2>4, <2>5, <2>6, <2>7, <2>8
         DEF TypeOK, ProcTypeOK, ThreadTypeOK, QueueTypeOK, CpuTypeOK
  <1>2. QueueHoldsThreads
    BY DEF Init, QueueHoldsThreads
  <1>3. IdleAlive /\ TidsOwned /\ FreshTids /\ LiveThreadsOwned /\ CurrentRuns
    BY DEF Init, IdleAlive, TidsOwned, FreshTids, LiveThreadsOwned, CurrentRuns
  <1>4. QED
    BY <1>1, <1>2, <1>3 DEF SchedInv, OwnershipInv

-----------------------------------------------------------------------------
(* Steps that only change the states of threads that exist, or nothing.     *)

\* The states and ownership are untouched and existing threads stay in
\* existence: what most steps do to the invariant.
LEMMA StateChangePreserves ==
  ASSUME SchedInv,
         tstate' \in [Tids -> ThreadStates],
         \A t \in Tids : /\ tstate'[t] = "none" <=> tstate[t] = "none"
                         /\ tstate[t] = "dead" => tstate'[t] = "dead",
         tstate'[IdleTid] \in {"starting", "running"},
         UNCHANGED <<pstate, ptids, town, last_tid, queue>>
  PROVE  OwnershipInv'
  <1>1. IdleAlive' /\ TidsOwned'
    BY DEF SchedInv, OwnershipInv, IdleAlive, TidsOwned
  <1>2. FreshTids' /\ LiveThreadsOwned'
    BY DEF SchedInv, OwnershipInv, FreshTids, LiveThreadsOwned
  <1>3. QueueHoldsThreads'
    BY DEF SchedInv, OwnershipInv, QueueHoldsThreads
  <1>4. QED
    BY <1>1, <1>2, <1>3 DEF OwnershipInv

\* A running user thread is not the idle thread.
LEMMA UserNotIdle ==
  ASSUME SchedInv, NEW t \in Tids, InUser(t)
  PROVE  t # IdleTid /\ tstate[t] = "running" /\ town[t] # IdlePid /\ town[t] \in Pids
  BY DEF SchedInv, OwnershipInv, IdleAlive, InUser, PrivilegeLevel, CurrentRuns,
         TypeOK, ThreadTypeOK

\* The three ways a step leaves the CPU are well typed.
LEMMA RescheduleType ==
  ASSUME CpuTypeOK, Reschedule, kernel_waits' \in {kernel_waits, TRUE}
  PROVE  CpuTypeOK'
  <1>1. loop' \in BOOLEAN /\ kernel_waits' \in BOOLEAN
    BY Zenon DEF CpuTypeOK, Reschedule
  <1>2. QED
    BY <1>1 DEF CpuTypeOK, Reschedule, NoThread, NoStatus

\* The loop of sched_pick_next goes on with well typed CPU variables.
LEMMA ContinueType ==
  ASSUME CpuTypeOK, Continue
  PROVE  CpuTypeOK'
  <1>1. loop' \in BOOLEAN /\ kernel_waits' \in BOOLEAN
    BY Zenon DEF CpuTypeOK, Continue
  <1>2. QED
    BY <1>1 DEF CpuTypeOK, Continue

\* sched_loop returns with well typed CPU variables.
LEMMA ChooseType ==
  ASSUME CpuTypeOK, NEW t \in Tids, NEW code \in Int, Choose(t, code)
  PROVE  CpuTypeOK'
  <1>1. loop' \in BOOLEAN /\ kernel_waits' \in BOOLEAN
    BY Zenon DEF CpuTypeOK, Choose
  <1>2. QED
    BY <1>1 DEF CpuTypeOK, Choose

\* sched_check_suspended_threads preserves the invariant.
LEMMA InterruptInv ==
  ASSUME SchedInv, NEW irq \in Irqs, Interrupt(irq)
  PROVE  SchedInv'
  <1>1. TypeOK'
    <2>1. ThreadTypeOK'
      BY DEF SchedInv, TypeOK, ThreadTypeOK, Interrupt, ThreadStates
    <2>2. ProcTypeOK' /\ QueueTypeOK'
      BY DEF SchedInv, TypeOK, ProcTypeOK, QueueTypeOK, Interrupt, procVars, queueVars
    <2>3. QED
      BY <2>1, <2>2, RescheduleType DEF SchedInv, TypeOK, Interrupt
  <1>2. OwnershipInv'
    <2>1. /\ tstate' \in [Tids -> ThreadStates]
          /\ \A t \in Tids : /\ tstate'[t] = "none" <=> tstate[t] = "none"
                             /\ tstate[t] = "dead" => tstate'[t] = "dead"
      BY DEF SchedInv, TypeOK, ThreadTypeOK, Interrupt, Woken, ThreadStates
    <2>2. tstate'[IdleTid] \in {"starting", "running"}
      BY SchedAssumption DEF SchedInv, OwnershipInv, IdleAlive, Interrupt, Woken, IdleTid, Tids
    <2>3. QED
      BY <2>1, <2>2, StateChangePreserves DEF Interrupt, procVars, queueVars
  <1>3. CurrentRuns'
    BY DEF Interrupt, Reschedule, CurrentRuns
  <1>4. QED
    BY <1>1, <1>2, <1>3 DEF SchedInv

-----------------------------------------------------------------------------
(* System calls that change the state of the calling thread.                *)

\* sched_wait_process, by a user thread or by kernel_loop.
LEMMA StartWaitingInv ==
  ASSUME SchedInv, NEW t \in Tids, t # IdleTid, tstate[t] = "running", NEW p \in Pids,
         StartWaiting(t, p), kernel_waits' \in {kernel_waits, TRUE}
  PROVE  SchedInv'
  <1>1. ThreadTypeOK' /\ ProcTypeOK' /\ QueueTypeOK'
    BY DEF SchedInv, TypeOK, ThreadTypeOK, ProcTypeOK, QueueTypeOK, StartWaiting,
           ThreadStates, queueVars
  <1>2. OwnershipInv'
    <2>1. tstate'[IdleTid] \in {"starting", "running"}
      BY SchedAssumption DEF SchedInv, OwnershipInv, IdleAlive, StartWaiting, IdleTid, Tids,
           TypeOK, ThreadTypeOK
    <2>2. \A u \in Tids : /\ tstate'[u] = "none" <=> tstate[u] = "none"
                          /\ tstate[u] = "dead" => tstate'[u] = "dead"
      BY DEF SchedInv, TypeOK, ThreadTypeOK, StartWaiting
    <2>3. QED
      BY <1>1, <2>1, <2>2, StateChangePreserves DEF StartWaiting, queueVars, ThreadTypeOK
  <1>3. CpuTypeOK' /\ CurrentRuns'
    BY RescheduleType DEF SchedInv, TypeOK, StartWaiting, Reschedule, CurrentRuns
  <1>4. QED
    BY <1>1, <1>2, <1>3 DEF SchedInv, TypeOK

\* The wait system call preserves the invariant.
LEMMA WaitProcessInv ==
  ASSUME SchedInv, NEW t \in Tids, NEW p \in Pids, WaitProcess(t, p)
  PROVE  SchedInv'
  BY UserNotIdle, StartWaitingInv DEF WaitProcess

\* The wait of kernel_loop preserves the invariant.
LEMMA KernelWaitsInv ==
  ASSUME SchedInv, KernelWaits
  PROVE  SchedInv'
  <1>1. KernelTid \in Tids /\ KernelTid # IdleTid /\ InitPid \in Pids
    BY SchedAssumption DEF KernelTid, IdleTid, InitPid, Tids, Pids
  <1>2. tstate[KernelTid] = "running"
    BY DEF SchedInv, CurrentRuns, KernelWaits
  <1>3. QED
    BY <1>1, <1>2, StartWaitingInv DEF KernelWaits

\* sched_suspend_thread, interface_wait and sched_exit_thread by a user thread.
LEMMA CallerStateInv ==
  ASSUME SchedInv, NEW t \in Tids, ReadSuspends(t) \/ WaitMessage(t) \/ ExitThread(t)
  PROVE  SchedInv'
  <1>1. InUser(t) /\ t # IdleTid /\ tstate[t] = "running"
    BY UserNotIdle DEF ReadSuspends, WaitMessage, ExitThread
  <1>2. KeyboardIrq \in Pids /\ 0 \in Pids /\ IdleTid \in Tids
    BY SchedAssumption DEF KeyboardIrq, Pids, Tids, IdleTid
  <1>3. PICK s \in {"suspended", "waiting", "exiting"} : tstate' = [tstate EXCEPT ![t] = s]
    BY DEF ReadSuspends, WaitMessage, ExitThread
  <1>4. ThreadTypeOK'
    <2>1. tstate' \in [Tids -> ThreadStates]
      BY <1>3 DEF SchedInv, TypeOK, ThreadTypeOK, ThreadStates
    <2>2. twait' \in [Tids -> Pids] /\ wait_msg' \in SUBSET Tids
      BY <1>2 DEF SchedInv, TypeOK, ThreadTypeOK, ReadSuspends, WaitMessage, ExitThread
    <2>3. QED
      BY <2>1, <2>2 DEF SchedInv, TypeOK, ThreadTypeOK, ReadSuspends, WaitMessage, ExitThread
  <1>5. ProcTypeOK' /\ QueueTypeOK'
    BY DEF SchedInv, TypeOK, ProcTypeOK, QueueTypeOK, ReadSuspends, WaitMessage, ExitThread,
           procVars, queueVars
  <1>6. OwnershipInv'
    <2>1. tstate'[IdleTid] \in {"starting", "running"}
      BY <1>1, <1>2, <1>3 DEF SchedInv, OwnershipInv, IdleAlive, TypeOK, ThreadTypeOK
    <2>2. \A u \in Tids : /\ tstate'[u] = "none" <=> tstate[u] = "none"
                          /\ tstate[u] = "dead" => tstate'[u] = "dead"
      BY <1>1, <1>3 DEF SchedInv, TypeOK, ThreadTypeOK
    <2>3. UNCHANGED <<pstate, ptids, town, last_tid, queue>>
      BY DEF ReadSuspends, WaitMessage, ExitThread, procVars, queueVars
    <2>4. QED
      BY <1>4, <2>1, <2>2, <2>3, StateChangePreserves DEF ThreadTypeOK
  <1>7. CpuTypeOK' /\ CurrentRuns'
    BY RescheduleType
       DEF SchedInv, TypeOK, ReadSuspends, WaitMessage, ExitThread, Reschedule, CurrentRuns
  <1>8. QED
    BY <1>4, <1>5, <1>6, <1>7 DEF SchedInv, TypeOK

\* The wake-up in interface_delete preserves the invariant.
LEMMA DeleteInterfaceInv ==
  ASSUME SchedInv, NEW t \in Tids, NEW S \in SUBSET wait_msg, DeleteInterface(t, S)
  PROVE  SchedInv'
  <1>1. IdleTid \in Tids /\ 0 \in Pids
    BY SchedAssumption DEF IdleTid, Tids, Pids
  <1>2. ThreadTypeOK' /\ ProcTypeOK' /\ QueueTypeOK'
    BY <1>1 DEF SchedInv, TypeOK, ThreadTypeOK, ProcTypeOK, QueueTypeOK, DeleteInterface,
           ThreadStates, procVars, queueVars
  <1>3. OwnershipInv'
    <2>1. tstate'[IdleTid] \in {"starting", "running"}
      BY <1>1 DEF SchedInv, OwnershipInv, IdleAlive, DeleteInterface
    <2>2. \A u \in Tids : /\ tstate'[u] = "none" <=> tstate[u] = "none"
                          /\ tstate[u] = "dead" => tstate'[u] = "dead"
      BY DEF DeleteInterface
    <2>3. QED
      BY <1>2, <2>1, <2>2, StateChangePreserves
         DEF DeleteInterface, procVars, queueVars, ThreadTypeOK
  <1>4. CpuTypeOK' /\ CurrentRuns'
    BY RescheduleType DEF SchedInv, TypeOK, DeleteInterface, Reschedule, CurrentRuns
  <1>5. QED
    BY <1>2, <1>3, <1>4 DEF SchedInv, TypeOK

-----------------------------------------------------------------------------
(* Iterations of sched_pick_next that free nothing.                         *)

\* Popping a thread keeps queue_loc inside the queue.
LEMMA AdvanceType ==
  ASSUME SchedInv, Advance
  PROVE  QueueTypeOK'
  <1>1. NextLoc \in 0..Len(queue)
    BY NextTidExists DEF SchedInv, OwnershipInv
  <1>2. QED
    BY <1>1 DEF SchedInv, TypeOK, QueueTypeOK, Advance

\* The loop goes on and the thread popped may have changed state.
LEMMA PickStateInv ==
  ASSUME SchedInv, NEW t \in Tids,
         PickSuspended(t) \/ PickMessage(t) \/ PickStillWaiting(t) \/ PickStarting(t)
           \/ PickExiting(t)
  PROVE  SchedInv'
  <1>1. Continue /\ Advance /\ cpu = "pick"
    BY DEF Popped, PickSuspended, PickMessage, PickStillWaiting, PickStarting, PickExiting
  <1>2. 0 \in Pids /\ IdleTid \in Tids
    BY SchedAssumption DEF Pids, Tids, IdleTid
  <1>3. \/ tstate' = tstate
        \/ /\ tstate[t] \in {"waiting", "starting"}
           /\ tstate' = [tstate EXCEPT ![t] = "running"]
        \/ /\ tstate[t] = "exiting"
           /\ tstate' = [tstate EXCEPT ![t] = "dead"]
    <2>1. CASE PickStillWaiting(t)
      BY <2>1 DEF Popped, PickStillWaiting, SchedInv, TypeOK, ThreadTypeOK
    <2>2. CASE ~PickStillWaiting(t)
      BY <2>2 DEF Popped, PickSuspended, PickMessage, PickStarting, PickExiting, threadVars
    <2>3. QED
      BY <2>1, <2>2
  <1>4. ThreadTypeOK'
    <2>1. tstate' \in [Tids -> ThreadStates]
      BY <1>3 DEF SchedInv, TypeOK, ThreadTypeOK, ThreadStates
    <2>2. twait' \in [Tids -> Pids] /\ wait_msg' \in SUBSET Tids
      BY <1>2 DEF SchedInv, TypeOK, ThreadTypeOK, PickSuspended, PickMessage, PickStillWaiting,
                  PickStarting, PickExiting, threadVars
    <2>3. QED
      BY <2>1, <2>2 DEF SchedInv, TypeOK, ThreadTypeOK, PickSuspended, PickMessage,
                        PickStillWaiting, PickStarting, PickExiting, threadVars
  <1>5. ProcTypeOK'
    BY DEF SchedInv, TypeOK, ProcTypeOK, PickSuspended, PickMessage, PickStillWaiting,
           PickStarting, PickExiting, procVars
  <1>6. OwnershipInv'
    <2>1. tstate'[IdleTid] \in {"starting", "running"}
      BY <1>2, <1>3 DEF SchedInv, OwnershipInv, IdleAlive, TypeOK, ThreadTypeOK
    <2>2. \A u \in Tids : /\ tstate'[u] = "none" <=> tstate[u] = "none"
                          /\ tstate[u] = "dead" => tstate'[u] = "dead"
      BY <1>3 DEF SchedInv, TypeOK, ThreadTypeOK
    <2>3. UNCHANGED <<pstate, ptids, town, last_tid, queue>>
      BY <1>1 DEF PickSuspended, PickMessage, PickStillWaiting, PickStarting, PickExiting,
                  procVars, threadVars, Advance
    <2>4. QED
      BY <1>4, <2>1, <2>2, <2>3, StateChangePreserves DEF ThreadTypeOK
  <1>7. CpuTypeOK' /\ CurrentRuns' /\ QueueTypeOK'
    BY <1>1, ContinueType, AdvanceType DEF SchedInv, TypeOK, Continue, CurrentRuns
  <1>8. QED
    BY <1>4, <1>5, <1>6, <1>7 DEF SchedInv, TypeOK

\* Choosing a running thread establishes CurrentRuns.
LEMMA PickRunningInv ==
  ASSUME SchedInv, NEW t \in Tids, PickRunning(t)
  PROVE  SchedInv'
  <1>1. ThreadTypeOK' /\ ProcTypeOK' /\ OwnershipInv'
    BY DEF SchedInv, TypeOK, ThreadTypeOK, ProcTypeOK, PickRunning, Advance, procVars, threadVars,
           OwnershipInv, IdleAlive, TidsOwned, FreshTids, LiveThreadsOwned, QueueHoldsThreads
  <1>2. CpuTypeOK' /\ QueueTypeOK'
    BY ChooseType, AdvanceType DEF SchedInv, TypeOK, PickRunning, NoStatus
  <1>3. CurrentRuns'
    BY DEF PickRunning, Popped, Choose, CurrentRuns, threadVars
  <1>4. QED
    BY <1>1, <1>2, <1>3 DEF SchedInv, TypeOK

\* pload_load_process keeps the process alive, loaded or not.
LEMMA PickLoadInv ==
  ASSUME SchedInv, NEW t \in Tids, PickLoad(t)
  PROVE  SchedInv'
  <1>1. /\ town[t] \in Pids /\ town[t] # IdlePid /\ t # IdleTid /\ IdleTid \in Tids
        /\ tstate[t] = "starting"
    BY SchedAssumption
       DEF SchedInv, TypeOK, ThreadTypeOK, OwnershipInv, IdleAlive, PickLoad, Popped,
           PrivilegeLevel, IdleTid, Tids
  <1>2. PICK s \in {"running", "loading"} : pstate' = [pstate EXCEPT ![town[t]] = s]
    BY DEF PickLoad
  <1>3. \/ tstate' = tstate
        \/ tstate' = [tstate EXCEPT ![t] = "running"]
    BY DEF PickLoad
  <1>4. ThreadTypeOK' /\ ProcTypeOK'
    BY <1>2, <1>3 DEF SchedInv, TypeOK, ThreadTypeOK, ProcTypeOK, PickLoad, ProcessStates,
                      ThreadStates
  <1>5. UNCHANGED <<ptids, town, last_tid, queue>>
    BY DEF PickLoad, Advance
  <1>6. IdleAlive' /\ TidsOwned' /\ FreshTids'
    BY <1>1, <1>2, <1>3, <1>5 DEF SchedInv, TypeOK, ThreadTypeOK, ProcTypeOK, OwnershipInv,
                                  IdleAlive, TidsOwned, FreshTids
  <1>7. LiveThreadsOwned' /\ QueueHoldsThreads'
    <2>1. \A u \in Tids : /\ tstate'[u] = "none" <=> tstate[u] = "none"
                          /\ tstate'[u] = "dead" <=> tstate[u] = "dead"
      BY <1>1, <1>3 DEF SchedInv, TypeOK, ThreadTypeOK
    <2>2. \A p \in Pids : pstate[p] \notin {"none", "exiting"} => pstate'[p] \notin {"none", "exiting"}
      BY <1>1, <1>2 DEF SchedInv, TypeOK, ProcTypeOK
    <2>3. QED
      BY <1>5, <2>1, <2>2 DEF SchedInv, TypeOK, ThreadTypeOK, OwnershipInv, LiveThreadsOwned,
                              QueueHoldsThreads
  <1>8. CpuTypeOK' /\ CurrentRuns' /\ QueueTypeOK'
    BY ContinueType, AdvanceType DEF SchedInv, TypeOK, PickLoad, Popped, Continue, CurrentRuns
  <1>9. QED
    BY <1>4, <1>6, <1>7, <1>8 DEF SchedInv, TypeOK, OwnershipInv

-----------------------------------------------------------------------------
(* A process ends: sched_reap_process.                                      *)

\* The effect of a reap on types, ownership and the queue.  p may be a live
\* process whose threads are marked dead, or one that has none left.
LEMMA ReapPreserves ==
  ASSUME SchedInv, NEW p \in Pids, p # IdlePid,
         NEW state \in {"exiting", pstate[p]}, NEW code \in Int,
         NEW threads \in [Tids -> ThreadStates], NEW waiters \in [Pids -> Int],
         \A u \in Tids : /\ threads[u] = "none" <=> tstate[u] = "none"
                         /\ tstate[u] = "dead" => threads[u] = "dead",
         threads[IdleTid] = tstate[IdleTid],
         ~ReapFaults(p),
         ReapProcess(p, state, code, threads, waiters),
         UNCHANGED <<last_pid, town, last_tid, queue>>
  PROVE  ProcTypeOK' /\ tstate' \in [Tids -> ThreadStates] /\ OwnershipInv'
  <1>1. ProcTypeOK'
    <2>1. pstate' \in [Pids -> ProcessStates]
      BY DEF SchedInv, TypeOK, ProcTypeOK, ReapProcess, ProcessStates
    <2>2. exitcode' \in [Pids -> Int]
      BY DEF SchedInv, TypeOK, ProcTypeOK, ReapProcess
    <2>3. ptids' \in [Pids -> SUBSET Tids] /\ waiting_threads' \in [Pids -> Int]
      BY DEF SchedInv, TypeOK, ProcTypeOK, ReapProcess
    <2>4. processes_count' \in Int
      BY DEF SchedInv, TypeOK, ProcTypeOK, ReapProcess
    <2>5. QED
      BY <2>1, <2>2, <2>3, <2>4 DEF SchedInv, TypeOK, ProcTypeOK
  <1>2. tstate' \in [Tids -> ThreadStates]
    BY DEF ReapProcess, ThreadStates
  <1>3. \A u \in Tids : /\ tstate'[u] = "none" <=> tstate[u] = "none"
                        /\ tstate[u] = "dead" => tstate'[u] = "dead"
    BY DEF ReapProcess, ReapFaults
  <1>4. IdleAlive'
    <2>1. IdleTid \in Tids /\ IdlePid \in Pids /\ IdleTid \notin ptids[p]
      BY SchedAssumption
         DEF SchedInv, OwnershipInv, IdleAlive, TidsOwned, IdleTid, IdlePid, Tids, Pids
    <2>2. tstate'[IdleTid] = tstate[IdleTid] /\ pstate'[IdlePid] = pstate[IdlePid]
      BY <2>1 DEF ReapProcess, SchedInv, TypeOK, ProcTypeOK
    <2>3. QED
      BY <2>2 DEF SchedInv, OwnershipInv, IdleAlive
  <1>5. TidsOwned' /\ FreshTids'
    BY <1>3 DEF SchedInv, TypeOK, ProcTypeOK, OwnershipInv, TidsOwned, FreshTids, ReapProcess
  <1>6. LiveThreadsOwned'
    <2> SUFFICES ASSUME NEW u \in Tids, tstate'[u] \notin {"none", "dead"}
                 PROVE  pstate'[town[u]] \notin {"none", "exiting"} /\ u \in ptids'[town[u]]
      BY DEF LiveThreadsOwned
    <2>1. u \notin ptids[p] /\ tstate[u] \notin {"none", "dead"}
      BY <1>3 DEF ReapProcess
    <2>2. /\ pstate[town[u]] \notin {"none", "exiting"}
          /\ u \in ptids[town[u]] /\ town[u] \in Pids
      BY <2>1 DEF SchedInv, TypeOK, ThreadTypeOK, OwnershipInv, LiveThreadsOwned
    <2>3. town[u] # p
      BY <2>1, <2>2
    <2>4. QED
      BY <2>2, <2>3 DEF ReapProcess, SchedInv, TypeOK, ProcTypeOK
  <1>7. QueueHoldsThreads'
    BY <1>3 DEF SchedInv, OwnershipInv, QueueHoldsThreads
  <1>8. QED
    BY <1>1, <1>2, <1>4, <1>5, <1>6, <1>7 DEF OwnershipInv

\* A reap that ends a live process or kills one that waits to be freed.
LEMMA ExitOrKillInv ==
  ASSUME SchedInv, NEW t \in Tids, NEW p \in Pids, NEW code \in Int,
         InUser(t), PrivilegeLevel(p) > 0, ~ReapFaults(p),
         ReapProcess(p, "exiting", code, tstate, waiting_threads),
         Reschedule,
         UNCHANGED <<last_pid, town, twait, wait_msg, last_tid, queueVars, kernel_waits>>
  PROVE  SchedInv'
  <1>1. p # IdlePid
    BY DEF PrivilegeLevel
  <1>2. ProcTypeOK' /\ tstate' \in [Tids -> ThreadStates] /\ OwnershipInv'
    BY <1>1, ReapPreserves DEF SchedInv, TypeOK, ThreadTypeOK, ProcTypeOK, queueVars
  <1>3. ThreadTypeOK' /\ QueueTypeOK'
    BY <1>2 DEF SchedInv, TypeOK, ThreadTypeOK, QueueTypeOK, queueVars
  <1>4. CpuTypeOK' /\ CurrentRuns'
    BY RescheduleType DEF SchedInv, TypeOK, Reschedule, CurrentRuns
  <1>5. QED
    BY <1>2, <1>3, <1>4 DEF SchedInv, TypeOK

\* sched_exit_process preserves the invariant.
LEMMA ExitProcessInv ==
  ASSUME SchedInv, NEW t \in Tids, NEW code \in ExitCodes, ExitProcess(t, code)
  PROVE  SchedInv'
  <1>1. town[t] \in Pids /\ code \in Int
    BY SchedAssumption DEF SchedInv, TypeOK, ThreadTypeOK
  <1>2. QED
    BY <1>1, ExitOrKillInv DEF ExitProcess, InUser

\* sched_kill_process preserves the invariant.
LEMMA KillProcessInv ==
  ASSUME SchedInv, NEW t \in Tids, NEW p \in Pids, KillProcess(t, p)
  PROVE  SchedInv'
  <1>1. town[t] + 255 \in Int
    BY DEF SchedInv, TypeOK, ThreadTypeOK, Pids
  <1>2. PrivilegeLevel(p) > 0
    BY DEF KillProcess, KillError, InUser, PrivilegeLevel
  <1>3. QED
    BY <1>1, <1>2, ExitOrKillInv DEF KillProcess

\* The process waited for has no threads left, so the reap that may free it
\* takes no live thread with it.
LEMMA PickWaitOverInv ==
  ASSUME SchedInv, NEW t \in Tids, PickWaitOver(t)
  PROVE  SchedInv'
  <1> DEFINE p == twait[t]
             threads == [tstate EXCEPT ![t] = "running"]
             waiters == [waiting_threads EXCEPT ![p] = @ - 1]
  <1>1. p \in Pids /\ tstate[t] = "waiting" /\ ptids[p] = {} /\ exitcode[p] \in Int
    BY DEF SchedInv, TypeOK, ThreadTypeOK, ProcTypeOK, PickWaitOver, Popped, HasExited
  <1>2. p # IdlePid /\ t # IdleTid /\ IdleTid \in Tids /\ 0 \in Pids
    BY <1>1, SchedAssumption
       DEF SchedInv, OwnershipInv, IdleAlive, LiveThreadsOwned, IdleTid, Tids, Pids
  <1>3. /\ threads \in [Tids -> ThreadStates]
        /\ waiters \in [Pids -> Int]
        /\ \A u \in Tids : /\ threads[u] = "none" <=> tstate[u] = "none"
                           /\ tstate[u] = "dead" => threads[u] = "dead"
        /\ threads[IdleTid] = tstate[IdleTid]
    BY <1>1, <1>2 DEF SchedInv, TypeOK, ThreadTypeOK, ProcTypeOK, ThreadStates
  <1>4. /\ ReapProcess(p, pstate[p], exitcode[p], threads, waiters)
        /\ Choose(t, exitcode[p]) /\ Advance
        /\ UNCHANGED <<last_pid, town, wait_msg, last_tid, queue>>
        /\ twait' = [twait EXCEPT ![t] = 0]
    BY DEF PickWaitOver, Advance
  <1>5. ~ReapFaults(p)
    BY <1>1 DEF ReapFaults
  <1>6. tstate'[t] = "running"
    BY <1>1, <1>4 DEF ReapProcess, SchedInv, TypeOK, ThreadTypeOK
  <1> HIDE DEF p, threads, waiters
  <1>7. ProcTypeOK' /\ tstate' \in [Tids -> ThreadStates] /\ OwnershipInv'
    BY <1>1, <1>2, <1>3, <1>4, <1>5, ReapPreserves
  <1>8. ThreadTypeOK'
    BY <1>2, <1>4, <1>7 DEF SchedInv, TypeOK, ThreadTypeOK
  <1>9. CpuTypeOK' /\ QueueTypeOK'
    BY <1>1, <1>4, ChooseType, AdvanceType DEF SchedInv, TypeOK
  <1>10. CurrentRuns'
    BY <1>4, <1>6 DEF CurrentRuns, Choose
  <1>11. QED
    BY <1>7, <1>8, <1>9, <1>10 DEF SchedInv, TypeOK

-----------------------------------------------------------------------------
(* A thread is created or collected.                                        *)

\* sched_create_thread adds a thread to a live process p, which may itself
\* have just been created (state).
LEMMA CreateThreadPreserves ==
  ASSUME SchedInv, NEW p \in Pids, p # IdlePid, last_tid <= MaxTid, CreateThread(p),
         NEW state \in {"starting", "running", "loading"}, pstate' = [pstate EXCEPT ![p] = state]
  PROVE  ThreadTypeOK' /\ QueueTypeOK' /\ ptids' \in [Pids -> SUBSET Tids] /\ OwnershipInv'
  <1>1. last_tid \in Tids /\ last_tid # IdleTid /\ 0 \in Pids /\ IdleTid \in Tids
    BY SchedAssumption DEF SchedInv, TypeOK, ThreadTypeOK, Tids, Pids, IdleTid
  <1>2. tstate[last_tid] = "none"
    BY <1>1 DEF SchedInv, OwnershipInv, FreshTids, Tids
  <1>3. ThreadTypeOK' /\ ptids' \in [Pids -> SUBSET Tids]
    <2>1. tstate' \in [Tids -> ThreadStates] /\ wait_msg' \in SUBSET Tids
      BY <1>1 DEF SchedInv, TypeOK, ThreadTypeOK, CreateThread, ThreadStates
    <2>2. town' \in [Tids -> Pids] /\ twait' \in [Tids -> Pids]
      BY <1>1 DEF SchedInv, TypeOK, ThreadTypeOK, CreateThread
    <2>3. last_tid' \in 3..(MaxTid + 1)
      BY SchedAssumption DEF SchedInv, TypeOK, ThreadTypeOK, CreateThread
    <2>4. ptids' \in [Pids -> SUBSET Tids]
      BY <1>1 DEF SchedInv, TypeOK, ProcTypeOK, CreateThread
    <2>5. QED
      BY <2>1, <2>2, <2>3, <2>4 DEF ThreadTypeOK
  <1>4. QueueTypeOK'
    BY <1>1 DEF SchedInv, TypeOK, QueueTypeOK, CreateThread
  <1>5. IdleAlive'
    BY <1>1 DEF SchedInv, TypeOK, ThreadTypeOK, ProcTypeOK, OwnershipInv, IdleAlive, CreateThread
  <1>6. TidsOwned'
    BY <1>1 DEF SchedInv, TypeOK, ThreadTypeOK, ProcTypeOK, OwnershipInv, TidsOwned, CreateThread,
                Tids
  <1>7. FreshTids'
    BY <1>1 DEF SchedInv, TypeOK, ThreadTypeOK, OwnershipInv, FreshTids, CreateThread, Tids
  <1>8. LiveThreadsOwned'
    <2> SUFFICES ASSUME NEW u \in Tids, tstate'[u] \notin {"none", "dead"}
                 PROVE  pstate'[town'[u]] \notin {"none", "exiting"} /\ u \in ptids'[town'[u]]
      BY DEF LiveThreadsOwned
    <2>1. CASE u = last_tid
      BY <1>1, <2>1 DEF SchedInv, TypeOK, ThreadTypeOK, ProcTypeOK, CreateThread
    <2>2. CASE u # last_tid
      BY <2>2 DEF SchedInv, TypeOK, ThreadTypeOK, ProcTypeOK, OwnershipInv, LiveThreadsOwned,
                  CreateThread
    <2>3. QED
      BY <2>1, <2>2
  <1>9. QueueHoldsThreads'
    <2>1. /\ queue' \in Seq(Tids) /\ DOMAIN queue' = 1..(Len(queue) + 1)
          /\ DOMAIN queue = 1..Len(queue) /\ Len(queue) \in Nat
          /\ \A i \in 1..Len(queue) : queue'[i] = queue[i]
          /\ queue'[Len(queue) + 1] = last_tid
      BY <1>1 DEF SchedInv, TypeOK, QueueTypeOK, CreateThread
    <2>2. \A i \in 1..Len(queue) : queue[i] \in Tids /\ tstate[queue[i]] # "none"
      BY QueueEntryExists DEF SchedInv, OwnershipInv
    <2>3. \A i, j \in DOMAIN queue' : queue'[i] = queue'[j] => i = j
      BY <1>2, <2>1, <2>2 DEF SchedInv, OwnershipInv, QueueHoldsThreads
    <2>4. ASSUME NEW u \in Tids
          PROVE  (u # IdleTid /\ tstate'[u] # "none") <=> (\E i \in DOMAIN queue' : queue'[i] = u)
      <3>1. CASE u = last_tid
        BY <1>1, <2>1, <3>1 DEF SchedInv, TypeOK, ThreadTypeOK, CreateThread
      <3>2. CASE u # last_tid
        <4>1. (u # IdleTid /\ tstate'[u] # "none") <=> (\E i \in DOMAIN queue : queue[i] = u)
          BY <3>2 DEF SchedInv, TypeOK, ThreadTypeOK, OwnershipInv, QueueHoldsThreads, CreateThread
        <4>2. QED
          BY <2>1, <3>2, <4>1
      <3>3. QED
        BY <3>1, <3>2
    <2>5. QED
      BY <2>3, <2>4 DEF QueueHoldsThreads
  <1>10. QED
    BY <1>3, <1>4, <1>5, <1>6, <1>7, <1>8, <1>9 DEF OwnershipInv

\* sched_fork_thread preserves the invariant.
LEMMA ForkThreadInv ==
  ASSUME SchedInv, NEW t \in Tids, ForkThread(t)
  PROVE  SchedInv'
  <1> DEFINE p == town[t]
  <1>1. p \in Pids /\ p # IdlePid /\ tstate[t] = "running"
    BY UserNotIdle DEF ForkThread
  <1>2. pstate[p] \in {"starting", "running", "loading"}
    BY <1>1 DEF SchedInv, TypeOK, ProcTypeOK, ThreadTypeOK, OwnershipInv, LiveThreadsOwned,
                ProcessStates
  <1>3. pstate' = [pstate EXCEPT ![p] = pstate[p]]
    BY DEF ForkThread, SchedInv, TypeOK, ProcTypeOK
  <1>4. last_tid <= MaxTid /\ CreateThread(p) /\ Reschedule
    BY DEF ForkThread
  <1> HIDE DEF p
  <1>5. ThreadTypeOK' /\ QueueTypeOK' /\ ptids' \in [Pids -> SUBSET Tids] /\ OwnershipInv'
    BY <1>1, <1>2, <1>3, <1>4, CreateThreadPreserves
  <1>6. ProcTypeOK'
    BY <1>5 DEF SchedInv, TypeOK, ProcTypeOK, ForkThread
  <1>7. CpuTypeOK' /\ CurrentRuns'
    BY RescheduleType DEF SchedInv, TypeOK, ForkThread, Reschedule, CurrentRuns
  <1>8. QED
    BY <1>5, <1>6, <1>7 DEF SchedInv, TypeOK

\* Creating a process with its first thread preserves the invariant.
LEMMA SpawnProcessInv ==
  ASSUME SchedInv, NEW t \in Tids, SpawnProcess(t)
  PROVE  SchedInv'
  <1>1. last_pid \in Pids /\ last_pid # IdlePid
    BY SchedAssumption DEF SchedInv, TypeOK, ProcTypeOK, SpawnProcess, Pids, IdlePid
  <1>2. /\ last_tid <= MaxTid /\ CreateThread(last_pid) /\ Reschedule
        /\ pstate' = [pstate EXCEPT ![last_pid] = "starting"]
    BY DEF SpawnProcess
  <1>3. ThreadTypeOK' /\ QueueTypeOK' /\ ptids' \in [Pids -> SUBSET Tids] /\ OwnershipInv'
    BY <1>1, <1>2, CreateThreadPreserves
  <1>4. ProcTypeOK'
    BY <1>1, <1>3, SchedAssumption
       DEF SchedInv, TypeOK, ProcTypeOK, SpawnProcess, ProcessStates, Pids
  <1>5. CpuTypeOK' /\ CurrentRuns'
    BY RescheduleType DEF SchedInv, TypeOK, SpawnProcess, Reschedule, CurrentRuns
  <1>6. QED
    BY <1>3, <1>4, <1>5 DEF SchedInv, TypeOK

\* The thread collected is not the idle thread, so an entry of the queue was
\* popped and the shift removes that entry.
LEMMA PickDeadInv ==
  ASSUME SchedInv, NEW t \in Tids, PickDead(t)
  PROVE  SchedInv'
  <1>1. t = NextTid /\ tstate[t] = "dead" /\ Continue
    BY DEF PickDead, Popped
  <1>2. t # IdleTid /\ IdleTid \in Tids /\ 0 \in Pids
    BY <1>1, SchedAssumption DEF SchedInv, OwnershipInv, IdleAlive, IdleTid, Tids, Pids
  <1>3. NextLoc \in 1..Len(queue) /\ queue[NextLoc] = t
    BY <1>1, <1>2, NextTidExists DEF SchedInv, OwnershipInv
  <1>4. queue \in Seq(Tids) /\ Len(queue) \in Nat /\ DOMAIN queue = 1..Len(queue)
    BY DEF SchedInv, TypeOK, QueueTypeOK
  <1>5. QueueTypeOK'
    BY <1>3, <1>4, WithoutEntryType DEF PickDead, LocMovedBack, QueueTypeOK
  <1>6. ThreadTypeOK'
    BY <1>2 DEF SchedInv, TypeOK, ThreadTypeOK, PickDead, ThreadStates
  <1>7. ProcTypeOK'
    <2>1. ClaimDropped(t) \in [Pids -> Int]
      BY DEF SchedInv, TypeOK, ProcTypeOK, ThreadTypeOK, ClaimDropped
    <2>2. QED
      BY <2>1 DEF SchedInv, TypeOK, ProcTypeOK, PickDead
  <1>8. \A u \in Tids : tstate'[u] = IF u = t THEN "none" ELSE tstate[u]
    BY DEF SchedInv, TypeOK, ThreadTypeOK, PickDead
  <1>9. UNCHANGED <<pstate, ptids, town, last_tid>>
    BY DEF PickDead
  <1>10. IdleAlive' /\ TidsOwned' /\ FreshTids' /\ LiveThreadsOwned'
    BY <1>1, <1>2, <1>8, <1>9
       DEF SchedInv, OwnershipInv, IdleAlive, TidsOwned, FreshTids, LiveThreadsOwned
  <1>11. QueueHoldsThreads'
    <2>1. queue' = WithoutEntry(queue, NextLoc) /\ NoRepeats(queue)
      BY <1>4 DEF PickDead, SchedInv, OwnershipInv, QueueHoldsThreads, NoRepeats
    <2>2. NoRepeats(queue') /\ Entries(queue') = Entries(queue) \ {t}
      BY <1>3, <1>4, <2>1, WithoutEntryRemoves
    <2>3. DOMAIN queue' = 1..Len(queue')
      BY <1>5 DEF QueueTypeOK
    <2>4. ASSUME NEW u \in Tids
          PROVE  (u # IdleTid /\ tstate'[u] # "none") <=> (\E i \in DOMAIN queue' : queue'[i] = u)
      <3>1. (u # IdleTid /\ tstate[u] # "none") <=> u \in Entries(queue)
        BY <1>4 DEF SchedInv, OwnershipInv, QueueHoldsThreads, Entries
      <3>2. u \in Entries(queue') <=> (\E i \in DOMAIN queue' : queue'[i] = u)
        BY <2>3 DEF Entries
      <3>3. QED
        BY <1>8, <2>2, <3>1, <3>2
    <2>5. QED
      BY <2>2, <2>3, <2>4 DEF QueueHoldsThreads, NoRepeats
  <1>12. CpuTypeOK' /\ CurrentRuns'
    BY <1>1, ContinueType DEF SchedInv, TypeOK, PickDead, Popped, Continue, CurrentRuns
  <1>13. QED
    BY <1>5, <1>6, <1>7, <1>10, <1>11, <1>12 DEF SchedInv, TypeOK, OwnershipInv

\* panic() changes nothing the invariant is about.
LEMMA PanicInv ==
  ASSUME SchedInv, NEW reason \in PanicReasons, Panic(reason)
  PROVE  SchedInv'
  <1>1. ThreadTypeOK' /\ ProcTypeOK' /\ QueueTypeOK' /\ OwnershipInv'
    BY DEF SchedInv, TypeOK, ThreadTypeOK, ProcTypeOK, QueueTypeOK, Panic, procVars, threadVars,
           queueVars, OwnershipInv, IdleAlive, TidsOwned, FreshTids, LiveThreadsOwned,
           QueueHoldsThreads
  <1>2. CpuTypeOK' /\ CurrentRuns'
    <2>1. loop' \in BOOLEAN /\ kernel_waits' \in BOOLEAN
      BY Zenon DEF SchedInv, TypeOK, CpuTypeOK, Panic
    <2>2. QED
      BY <2>1 DEF SchedInv, TypeOK, CpuTypeOK, Panic, CurrentRuns
  <1>3. QED
    BY <1>1, <1>2 DEF SchedInv, TypeOK

\* A step that changes nothing.
LEMMA StutterInv ==
  ASSUME SchedInv, UNCHANGED vars
  PROVE  SchedInv'
  <1>1. UNCHANGED <<procVars, threadVars, queueVars, cpuVars>>
    BY DEF vars
  <1>2. ThreadTypeOK' /\ ProcTypeOK' /\ QueueTypeOK' /\ OwnershipInv'
    BY <1>1
       DEF SchedInv, TypeOK, ThreadTypeOK, ProcTypeOK, QueueTypeOK, procVars, threadVars,
           queueVars, OwnershipInv, IdleAlive, TidsOwned, FreshTids, LiveThreadsOwned,
           QueueHoldsThreads
  <1>3. CpuTypeOK' /\ CurrentRuns'
    <2>1. loop' \in BOOLEAN /\ kernel_waits' \in BOOLEAN
      BY <1>1, Zenon DEF SchedInv, TypeOK, CpuTypeOK, cpuVars
    <2>2. UNCHANGED <<currenttid, delivered, cpu, panic, tstate>>
      BY <1>1 DEF cpuVars, threadVars
    <2>3. QED
      BY <2>1, <2>2 DEF SchedInv, TypeOK, CpuTypeOK, CurrentRuns
  <1>4. QED
    BY <1>2, <1>3 DEF SchedInv, TypeOK

-----------------------------------------------------------------------------
(* The theorems.                                                            *)

\* Every step of the scheduler preserves the invariant.
LEMMA NextInv ==
  ASSUME SchedInv, [Next]_vars
  PROVE  SchedInv'
  <1>1. CASE Pick
    <2>1. PICK t \in Tids :
            \/ PickRunning(t) \/ PickSuspended(t) \/ PickMessage(t)
            \/ PickStillWaiting(t) \/ PickWaitOver(t) \/ PickStarting(t) \/ PickLoad(t)
            \/ PickExiting(t) \/ PickDead(t)
      BY <1>1 DEF Pick
    <2>2. QED
      BY <2>1, PickRunningInv, PickStateInv, PickWaitOverInv, PickLoadInv, PickDeadInv
  <1>2. CASE Syscall
    <2> SUFFICES ASSUME NEW t \in Tids,
                        \/ \E code \in ExitCodes : ExitProcess(t, code)
                        \/ ExitProcessFaults(t)
                        \/ \E p \in Pids : \/ KillProcess(t, p) \/ KillProcessFaults(t, p)
                                           \/ WaitProcess(t, p)
                        \/ ReadSuspends(t) \/ WaitMessage(t)
                        \/ \E S \in SUBSET wait_msg : DeleteInterface(t, S)
                        \/ ExitThread(t) \/ ForkThread(t) \/ SpawnProcess(t)
                 PROVE  SchedInv'
      BY <1>2 DEF Syscall
    <2>1. ASSUME ExitProcessFaults(t) \/ \E p \in Pids : KillProcessFaults(t, p)
          PROVE  SchedInv'
      <3>1. Panic("null thread in reap")
        BY <2>1 DEF ExitProcessFaults, KillProcessFaults
      <3>2. QED
        BY <3>1, PanicInv DEF PanicReasons
    <2>2. QED
      BY <2>1, ExitProcessInv, KillProcessInv, WaitProcessInv, CallerStateInv,
         DeleteInterfaceInv, ForkThreadInv, SpawnProcessInv
  <1>3. CASE KernelLoop
    <2>1. CASE KernelWaits
      BY <2>1, KernelWaitsInv
    <2>2. CASE KernelPanics
      <3>1. Panic("System process died")
        BY <2>2 DEF KernelPanics
      <3>2. QED
        BY <3>1, PanicInv DEF PanicReasons
    <2>3. QED
      BY <1>3, <2>1, <2>2 DEF KernelLoop
  <1>4. CASE \E irq \in Irqs : Interrupt(irq)
    BY <1>4, InterruptInv
  <1>5. CASE Halted \/ UNCHANGED vars
    BY <1>5, StutterInv DEF Halted
  <1>6. QED
    BY <1>1, <1>2, <1>3, <1>4, <1>5 DEF Next

\* The invariant holds in every reachable state.
THEOREM SchedInvariant == Spec => []SchedInv
  <1>1. Init => SchedInv
    BY InitInv
  <1>2. SchedInv /\ [Next]_vars => SchedInv'
    BY NextInv
  <1>3. QED
    BY <1>1, <1>2, PTL DEF Spec

\* The variables of sched.c keep their types; in particular queue_loc stays
\* inside the queue and no id beyond MAX_PROCESSES or MAX_THREADS is used.
THEOREM TypeCorrect == Spec => []TypeOK
  <1>1. SchedInv => TypeOK
    BY DEF SchedInv
  <1>2. QED
    BY <1>1, SchedInvariant, PTL

\* sched_pick_next never panics: whatever the system calls, kills and waits
\* before, the thread it pops exists and its process is alive, or it is dead.
THEOREM NoSchedulerPanic == Spec => []PickNeverPanics
  BY InvImpliesNoPanic, SchedInvariant, PTL

\* The queue holds each existing thread exactly once: no thread is lost from
\* the round robin and none is scheduled twice in a round.
THEOREM QueueExact == Spec => []QueueHoldsThreads
  <1>1. SchedInv => QueueHoldsThreads
    BY DEF SchedInv, OwnershipInv
  <1>2. QED
    BY <1>1, SchedInvariant, PTL

\* What one step may do to a thread that is dead.
LEMMA DeadStep ==
  ASSUME SchedInv, [Next]_vars, NEW d \in Tids, tstate[d] = "dead"
  PROVE  tstate'[d] \in {"dead", "none"}
  <1>1. tstate \in [Tids -> ThreadStates] /\ last_tid \in Int
    BY DEF SchedInv, TypeOK, ThreadTypeOK
  <1>2. CASE Pick
    <2>1. PICK t \in Tids :
            \/ PickRunning(t) \/ PickSuspended(t) \/ PickMessage(t)
            \/ PickStillWaiting(t) \/ PickWaitOver(t) \/ PickStarting(t) \/ PickLoad(t)
            \/ PickExiting(t) \/ PickDead(t)
      BY <1>2 DEF Pick
    <2>2. CASE PickWaitOver(t)
      BY <1>1, <2>2 DEF PickWaitOver, Popped, ReapProcess
    <2>3. CASE ~PickWaitOver(t)
      BY <1>1, <2>1, <2>3
         DEF PickRunning, PickSuspended, PickMessage, PickStillWaiting, PickStarting, PickLoad,
             PickExiting, PickDead, Popped, threadVars
    <2>4. QED
      BY <2>2, <2>3
  <1>3. CASE Syscall
    <2> SUFFICES ASSUME NEW t \in Tids,
                        \/ \E code \in ExitCodes : ExitProcess(t, code)
                        \/ ExitProcessFaults(t)
                        \/ \E p \in Pids : \/ KillProcess(t, p) \/ KillProcessFaults(t, p)
                                           \/ WaitProcess(t, p)
                        \/ ReadSuspends(t) \/ WaitMessage(t)
                        \/ \E S \in SUBSET wait_msg : DeleteInterface(t, S)
                        \/ ExitThread(t) \/ ForkThread(t) \/ SpawnProcess(t)
                 PROVE  tstate'[d] \in {"dead", "none"}
      BY <1>3 DEF Syscall
    <2>1. ASSUME InUser(t) PROVE t # d
      BY <2>1, UserNotIdle
    <2>2. CASE ExitProcessFaults(t) \/ \E p \in Pids : KillProcessFaults(t, p)
      BY <2>2 DEF ExitProcessFaults, KillProcessFaults, Panic, threadVars
    <2>3. CASE (\E code \in ExitCodes : ExitProcess(t, code)) \/ \E p \in Pids : KillProcess(t, p)
      BY <1>1, <2>3 DEF ExitProcess, KillProcess, ReapProcess
    <2>4. CASE ReadSuspends(t) \/ WaitMessage(t) \/ ExitThread(t)
                 \/ \E p \in Pids : WaitProcess(t, p)
      BY <1>1, <2>1, <2>4 DEF ReadSuspends, WaitMessage, ExitThread, WaitProcess, StartWaiting
    <2>5. CASE \E S \in SUBSET wait_msg : DeleteInterface(t, S)
      BY <1>1, <2>5 DEF DeleteInterface
    <2>6. CASE ForkThread(t) \/ SpawnProcess(t)
      <3>1. last_tid # d
        BY <1>1 DEF SchedInv, OwnershipInv, FreshTids
      <3>2. tstate' = [tstate EXCEPT ![last_tid] = "starting"]
        BY <2>6 DEF ForkThread, SpawnProcess, CreateThread
      <3>3. QED
        BY <1>1, <3>1, <3>2
    <2>7. QED
      BY <2>2, <2>3, <2>4, <2>5, <2>6
  <1>4. CASE KernelLoop
    <2>1. CASE KernelWaits
      <3>1. KernelTid # d
        BY <2>1 DEF KernelWaits, SchedInv, CurrentRuns
      <3>2. QED
        BY <1>1, <2>1, <3>1 DEF KernelWaits, StartWaiting
    <2>2. CASE KernelPanics
      BY <2>2 DEF KernelPanics, Panic, threadVars
    <2>3. QED
      BY <1>4, <2>1, <2>2 DEF KernelLoop
  <1>5. CASE \E irq \in Irqs : Interrupt(irq)
    BY <1>1, <1>5 DEF Interrupt, Woken
  <1>6. CASE Halted \/ UNCHANGED vars
    BY <1>6 DEF Halted, vars, threadVars
  <1>7. QED
    BY <1>2, <1>3, <1>4, <1>5, <1>6 DEF Next

\* A thread that exit, kill or texit has marked dead is never made runnable
\* again: neither by an interrupt, a message, a deleted interface nor the end
\* of the process it waited for.
THEOREM DeadNotRevived == Spec => DeadStaysDead
  <1>1. SchedInv /\ [Next]_vars =>
          [\A t \in Tids : tstate[t] = "dead" => tstate'[t] \in {"dead", "none"}]_vars
    BY DeadStep
  <1>2. QED
    BY <1>1, SchedInvariant, PTL DEF Spec, DeadStaysDead

-----------------------------------------------------------------------------
(* Waiting for processes: who waits, and what waiting_threads counts.       *)

UserPids == Pids \ {IdlePid, KernelPid}

\* The threads whose wait field, in w, is p.
WaitersOf(w, p) == {t \in Tids : w[t] = p}

\* Only a thread that waits, or died waiting, has the pid of a user process
\* in its wait field: others have 0, or the irq they were suspended for.
WaitFieldInv ==
  \A t \in Tids :
    /\ tstate[t] \notin {"waiting", "dead"} => twait[t] \in {0, KeyboardIrq}
    /\ t \in wait_msg => tstate[t] \in {"waiting", "dead"} /\ twait[t] = 0
    /\ twait[t] < last_pid

\* The counter of a user process is the number of wait fields that name it.
CountInv ==
  \A p \in UserPids : pstate[p] # "none" => waiting_threads[p] = Cardinality(WaitersOf(twait, p))

\* A user process that a wait field names has not been freed.
WaitedStays == \A t \in Tids : twait[t] \in UserPids => pstate[twait[t]] # "none"

\* The kernel thread runs, or waits for init.
KernelAlive == town[KernelTid] = KernelPid /\ tstate[KernelTid] \in {"running", "waiting"}

\* A process without threads has exited or was killed.
EmptyIsExiting == \A p \in Pids : pstate[p] # "none" /\ ptids[p] = {} => pstate[p] = "exiting"

WaitInv == WaitFieldInv /\ CountInv /\ WaitedStays /\ KernelAlive /\ EmptyIsExiting

\* The kernel thread is one of the threads, and belongs to no user process.
LEMMA KernelFacts ==
  /\ KernelTid \in Tids /\ KernelPid \in Pids /\ 0 \in Pids /\ KeyboardIrq \in Pids
  /\ KernelTid # IdleTid /\ KernelPid \notin UserPids /\ IdlePid \notin UserPids
  /\ 0 \notin UserPids /\ KeyboardIrq \notin UserPids
  /\ UserPids \subseteq Pids /\ InitPid \in UserPids
  BY SchedAssumption DEF KernelTid, Tids, Pids, KernelPid, UserPids, IdlePid, IdleTid,
     KeyboardIrq, InitPid

\* The sets of waiters are finite.
LEMMA WaitersFinite ==
  ASSUME NEW w, NEW p
  PROVE  IsFiniteSet(WaitersOf(w, p)) /\ Cardinality(WaitersOf(w, p)) \in Nat
  <1>1. IsFiniteSet(Tids)
    BY SchedAssumption, FS_Interval DEF Tids
  <1>2. WaitersOf(w, p) \in SUBSET Tids
    BY DEF WaitersOf
  <1>3. QED
    BY <1>1, <1>2, FS_Subset, FS_CardinalityType

\* A thread that stops to wait for one process and names another in its wait
\* field is one waiter less and one more; other processes keep theirs.
LEMMA WaiterMoves ==
  ASSUME NEW w \in [Tids -> Pids], NEW v \in [Tids -> Pids], NEW t \in Tids, NEW p \in Pids,
         v[t] # w[t], \A u \in Tids : u # t => v[u] = w[u]
  PROVE  /\ p = v[t] => Cardinality(WaitersOf(v, p)) = Cardinality(WaitersOf(w, p)) + 1
         /\ p = w[t] => Cardinality(WaitersOf(v, p)) = Cardinality(WaitersOf(w, p)) - 1
         /\ p # v[t] /\ p # w[t] => WaitersOf(v, p) = WaitersOf(w, p)
  <1>1. CASE p = v[t]
    <2>1. WaitersOf(v, p) = WaitersOf(w, p) \cup {t} /\ t \notin WaitersOf(w, p)
      BY <1>1 DEF WaitersOf
    <2>2. QED
      BY <1>1, <2>1, WaitersFinite, FS_AddElement
  <1>2. CASE p = w[t]
    <2>1. WaitersOf(v, p) = WaitersOf(w, p) \ {t} /\ t \in WaitersOf(w, p)
      BY <1>2 DEF WaitersOf
    <2>2. QED
      BY <1>2, <2>1, WaitersFinite, FS_RemoveElement
  <1>3. CASE p # v[t] /\ p # w[t]
    BY <1>3 DEF WaitersOf
  <1>4. QED
    BY <1>1, <1>2, <1>3

\* Nobody waits for a process whose counter is zero.
LEMMA ZeroMeansNobody ==
  ASSUME NEW w, NEW p, NEW t \in Tids, w[t] = p
  PROVE  Cardinality(WaitersOf(w, p)) # 0
  BY WaitersFinite, FS_EmptySet DEF WaitersOf

\* Among user processes the claims are the wait fields.
LEMMA ClaimsAreWaits ==
  ASSUME TypeOK, WaitFieldInv, NEW p \in UserPids
  PROVE  {t \in Tids : Claims(t, p)} = WaitersOf(twait, p)
  BY KernelFacts DEF Claims, WaitersOf, WaitFieldInv

\* The counters are right: WaitersCounted, in the words of the model.
LEMMA WaitInvCounts == TypeOK /\ WaitInv => WaitersCounted
  BY ClaimsAreWaits DEF WaitInv, CountInv, WaitersCounted, UserPids

\* The initial state.
LEMMA InitWait == Init => WaitInv
  <1> SUFFICES ASSUME Init
               PROVE  WaitInv
    OBVIOUS
  <1> USE SchedAssumption
  <1>1. WaitFieldInv
    BY DEF Init, WaitFieldInv
  <1>2. CountInv
    <2>1. \A p \in UserPids : WaitersOf(twait, p) = {}
      BY DEF Init, WaitersOf, UserPids, IdlePid
    <2>2. \A p \in UserPids : waiting_threads[p] = 0
      BY DEF Init, UserPids
    <2>3. QED
      BY <2>1, <2>2, FS_EmptySet DEF CountInv
  <1>3. WaitedStays /\ KernelAlive
    BY KernelFacts DEF Init, WaitedStays, KernelAlive, KernelTid, KernelPid, InitTid, IdleTid
  <1>4. EmptyIsExiting
    BY DEF Init, EmptyIsExiting
  <1>5. QED
    BY <1>1, <1>2, <1>3, <1>4 DEF WaitInv

\* Steps after which each user process has the same waiters: a process that is
\* freed has none.
LEMMA SameWaiters ==
  ASSUME CountInv, WaitedStays,
         \A p \in UserPids : WaitersOf(twait', p) = WaitersOf(twait, p),
         \A p \in UserPids : pstate'[p] # "none" =>
            pstate[p] # "none" /\ waiting_threads'[p] = waiting_threads[p],
         \A p \in UserPids : pstate'[p] = "none" /\ pstate[p] # "none" => waiting_threads[p] = 0
  PROVE  CountInv' /\ WaitedStays'
  <1>1. CountInv'
    BY DEF CountInv
  <1>2. ASSUME NEW t \in Tids, twait'[t] \in UserPids, pstate'[twait'[t]] = "none"
        PROVE  FALSE
    <2> DEFINE p == twait'[t]
    <2>1. twait[t] = p
      BY <1>2 DEF WaitersOf
    <2>2. pstate[p] # "none"
      BY <1>2, <2>1 DEF WaitedStays
    <2>3. Cardinality(WaitersOf(twait, p)) = 0
      BY <1>2, <2>2 DEF CountInv
    <2>4. QED
      BY <2>1, <2>3, ZeroMeansNobody
  <1>3. QED
    BY <1>1, <1>2 DEF WaitedStays

\* A user thread in the kernel is not the kernel thread, and waits for nobody.
LEMMA CallerFacts ==
  ASSUME SchedInv, WaitInv, NEW t \in Tids, InUser(t)
  PROVE  /\ t # KernelTid /\ tstate[t] = "running" /\ twait[t] \in {0, KeyboardIrq}
         /\ town[t] \in UserPids /\ t \notin wait_msg
  BY UserNotIdle, KernelFacts
     DEF WaitInv, WaitFieldInv, KernelAlive, InUser, PrivilegeLevel, UserPids

\* An interrupt.
LEMMA InterruptWait ==
  ASSUME SchedInv, WaitInv, NEW irq \in Irqs, Interrupt(irq)
  PROVE  WaitInv'
  <1>1. tstate \in [Tids -> ThreadStates]
    BY DEF SchedInv, TypeOK, ThreadTypeOK
  <1>2. UNCHANGED <<pstate, ptids, waiting_threads, last_pid, town, twait, wait_msg>>
    BY DEF Interrupt, procVars
  <1>3. CountInv' /\ WaitedStays' /\ EmptyIsExiting'
    BY <1>2, SameWaiters DEF WaitInv, EmptyIsExiting
  <1>4. WaitFieldInv'
    BY <1>1, <1>2, SchedAssumption DEF WaitInv, WaitFieldInv, Interrupt, Woken, Irqs
  <1>5. KernelAlive'
    BY <1>1, <1>2, KernelFacts DEF WaitInv, KernelAlive, Interrupt, Woken
  <1>6. QED
    BY <1>3, <1>4, <1>5 DEF WaitInv

\* A user thread suspends itself, waits for a message or exits.
LEMMA CallerStateWait ==
  ASSUME SchedInv, WaitInv, NEW t \in Tids, ReadSuspends(t) \/ WaitMessage(t) \/ ExitThread(t)
  PROVE  WaitInv'
  <1>1. /\ t # KernelTid /\ tstate[t] = "running" /\ twait[t] \in {0, KeyboardIrq}
    BY CallerFacts DEF ReadSuspends, WaitMessage, ExitThread
  <1>2. /\ tstate \in [Tids -> ThreadStates] /\ twait \in [Tids -> Pids]
        /\ last_pid \in 3..(MaxPid + 1)
    BY DEF SchedInv, TypeOK, ThreadTypeOK, ProcTypeOK
  <1>3. UNCHANGED <<pstate, ptids, waiting_threads, last_pid, town>>
    BY DEF ReadSuspends, WaitMessage, ExitThread, procVars
  <1>4. PICK n \in {0, KeyboardIrq} : twait' = [twait EXCEPT ![t] = n]
    BY <1>1, <1>2 DEF ReadSuspends, WaitMessage, ExitThread
  <1>5. \A p \in UserPids : WaitersOf(twait', p) = WaitersOf(twait, p)
    BY <1>1, <1>2, <1>4, KernelFacts DEF WaitersOf
  <1>6. CountInv' /\ WaitedStays' /\ EmptyIsExiting'
    BY <1>3, <1>5, SameWaiters DEF WaitInv, EmptyIsExiting
  <1>7. WaitFieldInv'
    <2>1. CASE ReadSuspends(t)
      <3>1. t \notin wait_msg
        BY <2>1, CallerFacts DEF ReadSuspends
      <3>2. QED
        BY <1>1, <1>2, <2>1, <3>1, KernelFacts, SchedAssumption
           DEF WaitInv, WaitFieldInv, ReadSuspends, KeyboardIrq, procVars
    <2>2. CASE WaitMessage(t) \/ ExitThread(t)
      BY <1>1, <1>2, <2>2, KernelFacts, SchedAssumption
         DEF WaitInv, WaitFieldInv, WaitMessage, ExitThread, procVars
    <2>3. QED
      BY <2>1, <2>2
  <1>8. KernelAlive'
    BY <1>1, <1>2, <1>3, KernelFacts
       DEF WaitInv, KernelAlive, ReadSuspends, WaitMessage, ExitThread
  <1>9. QED
    BY <1>6, <1>7, <1>8 DEF WaitInv

\* interface_delete wakes threads that wait for a message, and those wait for
\* no process.
LEMMA DeleteInterfaceWait ==
  ASSUME SchedInv, WaitInv, NEW t \in Tids, NEW S \in SUBSET wait_msg, DeleteInterface(t, S)
  PROVE  WaitInv'
  <1>1. /\ tstate \in [Tids -> ThreadStates] /\ twait \in [Tids -> Pids]
        /\ wait_msg \in SUBSET Tids
    BY DEF SchedInv, TypeOK, ThreadTypeOK
  <1>2. UNCHANGED <<pstate, ptids, waiting_threads, last_pid, town>>
    BY DEF DeleteInterface, procVars
  <1>3. \A u \in Tids : twait'[u] = twait[u]
    BY <1>1 DEF DeleteInterface, WaitInv, WaitFieldInv
  <1>4. \A p \in UserPids : WaitersOf(twait', p) = WaitersOf(twait, p)
    BY <1>3 DEF WaitersOf
  <1>5. CountInv' /\ WaitedStays' /\ EmptyIsExiting'
    BY <1>2, <1>4, SameWaiters DEF WaitInv, EmptyIsExiting
  <1>6. WaitFieldInv'
    BY <1>1, <1>2, <1>3 DEF WaitInv, WaitFieldInv, DeleteInterface
  <1>7. KernelAlive'
    BY <1>1, <1>2, KernelFacts DEF WaitInv, KernelAlive, DeleteInterface
  <1>8. QED
    BY <1>5, <1>6, <1>7 DEF WaitInv

\* exit and kill: a process that is freed has no waiters.
LEMMA ExitOrKillWait ==
  ASSUME SchedInv, WaitInv, NEW p \in UserPids, NEW code \in Int,
         ReapProcess(p, "exiting", code, tstate, waiting_threads), pstate[p] # "none",
         UNCHANGED <<last_pid, town, twait, wait_msg>>
  PROVE  WaitInv'
  <1>1. /\ pstate \in [Pids -> ProcessStates] /\ ptids \in [Pids -> SUBSET Tids]
        /\ tstate \in [Tids -> ThreadStates] /\ p \in Pids
    BY DEF SchedInv, TypeOK, ProcTypeOK, ThreadTypeOK, UserPids
  <1>2. waiting_threads' = waiting_threads
    BY DEF ReapProcess
  <1>3. \A q \in Pids : pstate'[q] = IF q # p THEN pstate[q]
                                     ELSE IF waiting_threads[p] = 0 THEN "none" ELSE "exiting"
    BY <1>1 DEF ReapProcess
  <1>4. CountInv' /\ WaitedStays'
    BY <1>2, <1>3, KernelFacts, SameWaiters DEF WaitInv
  <1>5. EmptyIsExiting'
    BY <1>1, <1>3 DEF WaitInv, EmptyIsExiting, ReapProcess
  <1>6. WaitFieldInv'
    BY <1>1 DEF WaitInv, WaitFieldInv, ReapProcess
  <1>7. KernelAlive'
    <2>1. KernelTid \notin ptids[p]
      BY KernelFacts DEF SchedInv, OwnershipInv, TidsOwned, WaitInv, KernelAlive, UserPids
    <2>2. QED
      BY <1>1, <2>1, KernelFacts DEF WaitInv, KernelAlive, ReapProcess
  <1>8. QED
    BY <1>4, <1>5, <1>6, <1>7 DEF WaitInv

\* sched_exit_process.
LEMMA ExitProcessWait ==
  ASSUME SchedInv, WaitInv, NEW t \in Tids, NEW code \in ExitCodes, ExitProcess(t, code)
  PROVE  WaitInv'
  <1>1. town[t] \in UserPids /\ tstate[t] = "running" /\ code \in Int
    BY CallerFacts, SchedAssumption DEF ExitProcess
  <1>2. pstate[town[t]] # "none"
    BY <1>1 DEF SchedInv, OwnershipInv, LiveThreadsOwned
  <1>3. QED
    BY <1>1, <1>2, ExitOrKillWait DEF ExitProcess

\* sched_kill_process.
LEMMA KillProcessWait ==
  ASSUME SchedInv, WaitInv, NEW t \in Tids, NEW p \in Pids, KillProcess(t, p)
  PROVE  WaitInv'
  <1>1. town[t] + 255 \in Int
    BY DEF SchedInv, TypeOK, ThreadTypeOK, Pids
  <1>2. p \in UserPids /\ pstate[p] # "none"
    BY DEF KillProcess, KillError, InUser, PrivilegeLevel, UserPids
  <1>3. QED
    BY <1>1, <1>2, ExitOrKillWait DEF KillProcess

\* sched_wait_process: the caller waits for nobody yet, and afterwards for p.
LEMMA StartWaitingWait ==
  ASSUME SchedInv, WaitInv, NEW t \in Tids, tstate[t] = "running", t # KernelTid \/ town[t] = KernelPid,
         NEW p \in Pids, ~WaitError(t, p), StartWaiting(t, p)
  PROVE  WaitInv'
  <1>1. /\ tstate \in [Tids -> ThreadStates] /\ twait \in [Tids -> Pids]
        /\ waiting_threads \in [Pids -> Int] /\ last_pid \in 3..(MaxPid + 1)
    BY DEF SchedInv, TypeOK, ProcTypeOK, ThreadTypeOK
  <1>2. UNCHANGED <<pstate, ptids, last_pid, town>>
    BY DEF StartWaiting
  <1>3. p < last_pid /\ pstate[p] # "none" /\ twait[t] \in {0, KeyboardIrq}
    BY <1>1 DEF WaitError, WaitInv, WaitFieldInv, Pids
  <1>4. twait' = [twait EXCEPT ![t] = p] /\ waiting_threads' = [waiting_threads EXCEPT ![p] = @ + 1]
    BY DEF StartWaiting
  <1>5. CountInv'
    <2> SUFFICES ASSUME NEW q \in UserPids, pstate[q] # "none"
                 PROVE  waiting_threads'[q] = Cardinality(WaitersOf(twait', q))
      BY <1>2 DEF CountInv
    <2>1. waiting_threads[q] = Cardinality(WaitersOf(twait, q)) /\ q \in Pids /\ q # twait[t]
      BY <1>3, KernelFacts DEF WaitInv, CountInv
    <2>2. CASE p = twait[t]
      BY <1>1, <1>4, <2>1, <2>2
    <2>3. CASE p # twait[t]
      <3>1. twait' \in [Tids -> Pids] /\ twait'[t] = p /\ \A u \in Tids : u # t => twait'[u] = twait[u]
        BY <1>1, <1>4
      <3>2. /\ q = p => Cardinality(WaitersOf(twait', q)) = Cardinality(WaitersOf(twait, q)) + 1
            /\ q # p => WaitersOf(twait', q) = WaitersOf(twait, q)
        BY <1>1, <2>1, <2>3, <3>1, WaiterMoves
      <3>3. QED
        BY <1>1, <1>4, <2>1, <3>2
    <2>4. QED
      BY <2>2, <2>3
  <1>6. WaitedStays' /\ EmptyIsExiting'
    BY <1>1, <1>2, <1>3, <1>4 DEF WaitInv, WaitedStays, EmptyIsExiting
  <1>7. WaitFieldInv'
    BY <1>1, <1>2, <1>3, <1>4 DEF WaitInv, WaitFieldInv, StartWaiting
  <1>8. KernelAlive'
    BY <1>1, <1>2, KernelFacts DEF WaitInv, KernelAlive, StartWaiting
  <1>9. QED
    BY <1>5, <1>6, <1>7, <1>8 DEF WaitInv

\* Iterations of sched_pick_next that neither end a wait for a process nor free
\* a thread.
LEMMA PickStateWait ==
  ASSUME SchedInv, WaitInv, NEW t \in Tids,
         PickRunning(t) \/ PickSuspended(t) \/ PickMessage(t) \/ PickStarting(t) \/ PickExiting(t)
  PROVE  WaitInv'
  <1>1. /\ tstate \in [Tids -> ThreadStates] /\ twait \in [Tids -> Pids]
        /\ wait_msg \in SUBSET Tids
    BY DEF SchedInv, TypeOK, ThreadTypeOK
  <1>2. UNCHANGED <<pstate, ptids, waiting_threads, last_pid, town, twait>>
    BY DEF PickRunning, PickSuspended, PickMessage, PickStarting, PickExiting, procVars, threadVars
  <1>3. CountInv' /\ WaitedStays' /\ EmptyIsExiting'
    BY <1>2, SameWaiters DEF WaitInv, EmptyIsExiting
  <1>4. WaitFieldInv'
    BY <1>1, <1>2, KernelFacts
       DEF WaitInv, WaitFieldInv, PickRunning, PickSuspended, PickMessage, PickStarting,
           PickExiting, Popped, threadVars
  <1>5. KernelAlive'
    BY <1>1, <1>2, KernelFacts
       DEF WaitInv, KernelAlive, PickRunning, PickSuspended, PickMessage, PickStarting,
           PickExiting, Popped, threadVars
  <1>6. QED
    BY <1>3, <1>4, <1>5 DEF WaitInv

\* The loader changes the state of a process that keeps its threads.
LEMMA PickLoadWait ==
  ASSUME SchedInv, WaitInv, NEW t \in Tids, PickLoad(t)
  PROVE  WaitInv'
  <1>1. /\ tstate \in [Tids -> ThreadStates] /\ pstate \in [Pids -> ProcessStates]
        /\ town[t] \in Pids
    BY DEF SchedInv, TypeOK, ThreadTypeOK, ProcTypeOK
  <1>2. tstate[t] = "starting" /\ pstate[town[t]] = "starting" /\ t \in ptids[town[t]]
    BY DEF SchedInv, OwnershipInv, LiveThreadsOwned, PickLoad, Popped
  <1>3. UNCHANGED <<ptids, waiting_threads, last_pid, town, twait, wait_msg>>
    BY DEF PickLoad
  <1>4. PICK s \in {"running", "loading"} : pstate' = [pstate EXCEPT ![town[t]] = s]
    BY DEF PickLoad
  <1>5. CountInv' /\ WaitedStays'
    BY <1>1, <1>2, <1>3, <1>4, KernelFacts, SameWaiters DEF WaitInv
  <1>6. EmptyIsExiting'
    BY <1>1, <1>2, <1>3, <1>4 DEF WaitInv, EmptyIsExiting
  <1>7. WaitFieldInv' /\ KernelAlive'
    BY <1>1, <1>2, <1>3, KernelFacts DEF WaitInv, WaitFieldInv, KernelAlive, PickLoad
  <1>8. QED
    BY <1>5, <1>6, <1>7 DEF WaitInv

\* The process a thread waits for is there, the idle and the kernel process
\* included: sched_check_waiting_thread never finds that it has vanished.
LEMMA WaitedExists ==
  ASSUME SchedInv, WaitInv, NEW t \in Tids, tstate[t] = "waiting", t \notin wait_msg
  PROVE  pstate[twait[t]] # "none"
  <1>1. twait[t] \in Pids
    BY DEF SchedInv, TypeOK, ThreadTypeOK
  <1>2. pstate[KernelPid] # "none"
    BY KernelFacts DEF WaitInv, KernelAlive, SchedInv, OwnershipInv, LiveThreadsOwned
  <1>3. QED
    BY <1>1, <1>2 DEF SchedInv, OwnershipInv, IdleAlive, WaitInv, WaitedStays, UserPids

\* A wait that goes on changes nothing.
LEMMA PickStillWaitingWait ==
  ASSUME SchedInv, WaitInv, NEW t \in Tids, PickStillWaiting(t)
  PROVE  WaitInv' /\ tstate' = tstate
  <1>1. tstate \in [Tids -> ThreadStates] /\ twait \in [Tids -> Pids]
    BY DEF SchedInv, TypeOK, ThreadTypeOK
  <1>2. pstate[twait[t]] # "none"
    BY WaitedExists DEF PickStillWaiting, Popped
  <1>3. UNCHANGED <<pstate, ptids, waiting_threads, last_pid, town, wait_msg, twait, tstate>>
    BY <1>1, <1>2 DEF PickStillWaiting, procVars
  <1>4. CountInv' /\ WaitedStays'
    BY <1>3, SameWaiters DEF WaitInv
  <1>5. QED
    BY <1>3, <1>4 DEF WaitInv, EmptyIsExiting, WaitFieldInv, KernelAlive

\* A process without threads is neither the idle nor the kernel process, and
\* it is exiting.
LEMMA ExitedProcess ==
  ASSUME SchedInv, WaitInv, NEW p \in Pids, HasExited(p)
  PROVE  p \in UserPids /\ pstate[p] = "exiting"
  <1>1. p # KernelPid
    BY KernelFacts DEF WaitInv, KernelAlive, SchedInv, OwnershipInv, LiveThreadsOwned, HasExited
  <1>2. p # IdlePid
    BY SchedAssumption
       DEF SchedInv, OwnershipInv, IdleAlive, LiveThreadsOwned, HasExited, IdleTid, Tids
  <1>3. QED
    BY <1>1, <1>2 DEF WaitInv, EmptyIsExiting, HasExited, UserPids

\* The end of a wait: the counter loses the waiter the wait field loses, and
\* the process is freed with its last waiter.
LEMMA PickWaitOverWait ==
  ASSUME SchedInv, WaitInv, NEW t \in Tids, PickWaitOver(t)
  PROVE  WaitInv'
  <1> DEFINE p == twait[t]
  <1>1. /\ tstate \in [Tids -> ThreadStates] /\ twait \in [Tids -> Pids]
        /\ waiting_threads \in [Pids -> Int] /\ pstate \in [Pids -> ProcessStates]
        /\ ptids \in [Pids -> SUBSET Tids] /\ last_pid \in 3..(MaxPid + 1)
    BY DEF SchedInv, TypeOK, ProcTypeOK, ThreadTypeOK
  <1>2. p \in Pids /\ HasExited(p) /\ p \in UserPids /\ pstate[p] = "exiting" /\ p # 0
    BY <1>1, ExitedProcess, KernelFacts DEF PickWaitOver
  <1>3. tstate[t] = "waiting" /\ t \notin wait_msg /\ ptids[p] = {}
    BY <1>2 DEF PickWaitOver, Popped, HasExited
  <1>4. /\ UNCHANGED <<last_pid, town, wait_msg>>
        /\ twait' = [twait EXCEPT ![t] = 0]
        /\ waiting_threads' = [waiting_threads EXCEPT ![p] = @ - 1]
    BY DEF PickWaitOver, ReapProcess
  <1>5. /\ \A u \in Tids : tstate'[u] = IF u = t THEN "running" ELSE tstate[u]
        /\ \A q \in Pids : ptids'[q] = ptids[q]
        /\ \A q \in Pids : pstate'[q] = IF q = p /\ waiting_threads'[p] = 0 THEN "none" ELSE pstate[q]
    BY <1>1, <1>2, <1>3, <1>4 DEF PickWaitOver, ReapProcess
  <1> HIDE DEF p
  <1>6. CountInv'
    <2> SUFFICES ASSUME NEW q \in UserPids, pstate'[q] # "none"
                 PROVE  waiting_threads'[q] = Cardinality(WaitersOf(twait', q))
      BY DEF CountInv
    <2>1. q \in Pids /\ q # 0 /\ waiting_threads[q] = Cardinality(WaitersOf(twait, q))
      BY <1>2, <1>5, KernelFacts DEF WaitInv, CountInv
    <2>2. twait' \in [Tids -> Pids] /\ twait'[t] = 0 /\ \A u \in Tids : u # t => twait'[u] = twait[u]
      BY <1>1, <1>4, KernelFacts
    <2>3. /\ q = p => Cardinality(WaitersOf(twait', q)) = Cardinality(WaitersOf(twait, q)) - 1
          /\ q # p => WaitersOf(twait', q) = WaitersOf(twait, q)
      BY <1>1, <1>2, <2>1, <2>2, WaiterMoves DEF p
    <2>4. QED
      BY <1>1, <1>4, <2>1, <2>3
  <1>7. WaitedStays'
    <2> SUFFICES ASSUME NEW u \in Tids, twait'[u] \in UserPids
                 PROVE  pstate'[twait'[u]] # "none"
      BY DEF WaitedStays
    <2>1. u # t /\ twait'[u] = twait[u] /\ twait[u] \in Pids /\ pstate[twait[u]] # "none"
      BY <1>1, <1>4, KernelFacts DEF WaitInv, WaitedStays
    <2>2. CASE twait[u] = p
      <3>1. Cardinality(WaitersOf(twait', p)) # 0
        BY <2>1, <2>2, ZeroMeansNobody
      <3>2. waiting_threads'[p] = Cardinality(WaitersOf(twait, p)) - 1
        BY <1>1, <1>2, <1>4 DEF WaitInv, CountInv
      <3>3. twait' \in [Tids -> Pids] /\ twait'[t] = 0 /\ \A s \in Tids : s # t => twait'[s] = twait[s]
        BY <1>1, <1>4, KernelFacts
      <3>4. Cardinality(WaitersOf(twait', p)) = Cardinality(WaitersOf(twait, p)) - 1
        BY <1>1, <1>2, <3>3, WaiterMoves DEF p
      <3>5. QED
        BY <1>5, <2>1, <2>2, <3>1, <3>2, <3>4
    <2>3. CASE twait[u] # p
      BY <1>5, <2>1, <2>3
    <2>4. QED
      BY <2>2, <2>3
  <1>8. EmptyIsExiting'
    BY <1>5 DEF WaitInv, EmptyIsExiting
  <1>9. WaitFieldInv'
    BY <1>1, <1>3, <1>4, <1>5 DEF WaitInv, WaitFieldInv
  <1>10. KernelAlive'
    BY <1>4, <1>5, KernelFacts DEF WaitInv, KernelAlive
  <1>11. QED
    BY <1>6, <1>7, <1>8, <1>9, <1>10 DEF WaitInv

\* Collecting a dead thread: its claim goes with its wait field.
LEMMA PickDeadWait ==
  ASSUME SchedInv, WaitInv, NEW t \in Tids, PickDead(t)
  PROVE  WaitInv'
  <1> DEFINE p == twait[t]
  <1>1. /\ tstate \in [Tids -> ThreadStates] /\ twait \in [Tids -> Pids]
        /\ waiting_threads \in [Pids -> Int] /\ last_pid \in 3..(MaxPid + 1)
    BY DEF SchedInv, TypeOK, ProcTypeOK, ThreadTypeOK
  <1>2. /\ UNCHANGED <<pstate, ptids, last_pid, town>> /\ tstate[t] = "dead"
        /\ twait' = [twait EXCEPT ![t] = 0] /\ wait_msg' = wait_msg \ {t}
        /\ tstate' = [tstate EXCEPT ![t] = "none"]
        /\ waiting_threads' = ClaimDropped(t)
    BY DEF PickDead, Popped
  <1>3. /\ twait' \in [Tids -> Pids] /\ twait'[t] = 0
        /\ \A u \in Tids : u # t => twait'[u] = twait[u]
    BY <1>1, <1>2, KernelFacts
  <1>4. CountInv'
    <2> SUFFICES ASSUME NEW q \in UserPids, pstate[q] # "none"
                 PROVE  waiting_threads'[q] = Cardinality(WaitersOf(twait', q))
      BY <1>2 DEF CountInv
    <2>1. q \in Pids /\ q # 0 /\ waiting_threads[q] = Cardinality(WaitersOf(twait, q))
      BY KernelFacts DEF WaitInv, CountInv
    <2>2. CASE p = 0
      <3>1. twait' = twait /\ waiting_threads' = waiting_threads
        BY <1>1, <1>2, <2>2 DEF ClaimDropped
      <3>2. QED
        BY <2>1, <3>1
    <2>3. CASE p # 0
      <3>1. p \in Pids /\ waiting_threads'[q] = IF q = p THEN waiting_threads[q] - 1 ELSE waiting_threads[q]
        BY <1>1, <1>2, <2>1, <2>3 DEF ClaimDropped
      <3>2. /\ q = p => Cardinality(WaitersOf(twait', q)) = Cardinality(WaitersOf(twait, q)) - 1
            /\ q # p => WaitersOf(twait', q) = WaitersOf(twait, q)
        BY <1>1, <1>3, <2>1, <2>3, WaiterMoves
      <3>3. QED
        BY <2>1, <3>1, <3>2
    <2>4. QED
      BY <2>2, <2>3
  <1>5. WaitedStays' /\ EmptyIsExiting'
    BY <1>2, <1>3, KernelFacts DEF WaitInv, WaitedStays, EmptyIsExiting
  <1>6. WaitFieldInv'
    BY <1>1, <1>2, <1>3 DEF WaitInv, WaitFieldInv
  <1>7. KernelAlive'
    BY <1>1, <1>2, KernelFacts DEF WaitInv, KernelAlive
  <1>8. QED
    BY <1>4, <1>5, <1>6, <1>7 DEF WaitInv

\* A tid that was never handed out waits for nobody, and nobody waits for a
\* pid that was never handed out.
LEMMA FreshWaits ==
  ASSUME SchedInv, WaitInv, last_tid \in Tids
  PROVE  twait[last_tid] \in {0, KeyboardIrq} /\ \A t \in Tids : twait[t] # last_pid
  <1>1. tstate[last_tid] = "none" /\ last_pid \in Int /\ twait \in [Tids -> Pids]
    BY DEF SchedInv, OwnershipInv, FreshTids, TypeOK, ThreadTypeOK, ProcTypeOK, Tids
  <1>2. QED
    BY <1>1 DEF WaitInv, WaitFieldInv, Pids

\* A new thread, in process p.
LEMMA CreateThreadWait ==
  ASSUME SchedInv, WaitInv, NEW p \in UserPids, last_tid \in Tids, CreateThread(p),
         last_pid' \in {last_pid, last_pid + 1},
         \A q \in Pids : q # p => pstate'[q] = pstate[q] /\ waiting_threads'[q] = waiting_threads[q],
         pstate'[p] # "none",
         \/ pstate[p] # "none" /\ pstate'[p] = pstate[p] /\ waiting_threads'[p] = waiting_threads[p]
         \/ p = last_pid /\ waiting_threads'[p] = 0
  PROVE  WaitInv'
  <1>1. /\ tstate \in [Tids -> ThreadStates] /\ twait \in [Tids -> Pids]
        /\ ptids \in [Pids -> SUBSET Tids] /\ last_pid \in 3..(MaxPid + 1)
        /\ town \in [Tids -> Pids] /\ wait_msg \in SUBSET Tids
    BY DEF SchedInv, TypeOK, ProcTypeOK, ThreadTypeOK
  <1>2. /\ p \in Pids /\ last_tid # KernelTid
    BY KernelFacts DEF UserPids, WaitInv, KernelAlive, SchedInv, OwnershipInv, FreshTids, Tids
  <1>3. /\ twait' = [twait EXCEPT ![last_tid] = 0] /\ wait_msg' = wait_msg \ {last_tid}
        /\ tstate' = [tstate EXCEPT ![last_tid] = "starting"]
        /\ town' = [town EXCEPT ![last_tid] = p]
        /\ ptids' = [ptids EXCEPT ![p] = @ \cup {last_tid}]
    BY DEF CreateThread
  <1>4. \A q \in UserPids : WaitersOf(twait', q) = WaitersOf(twait, q)
    BY <1>1, <1>3, FreshWaits, KernelFacts DEF WaitersOf
  <1>5. CountInv'
    <2> SUFFICES ASSUME NEW q \in UserPids, pstate'[q] # "none"
                 PROVE  waiting_threads'[q] = Cardinality(WaitersOf(twait, q))
      BY <1>4 DEF CountInv
    <2>1. CASE pstate[q] # "none" /\ waiting_threads'[q] = waiting_threads[q]
      BY <2>1 DEF WaitInv, CountInv
    <2>2. CASE q = p /\ p = last_pid /\ waiting_threads'[p] = 0
      <3>1. WaitersOf(twait, q) = {}
        BY <2>2, FreshWaits DEF WaitersOf
      <3>2. QED
        BY <2>2, <3>1, FS_EmptySet
    <2>3. QED
      BY <2>1, <2>2, KernelFacts
  <1>6. WaitedStays'
    BY <1>1, <1>2, <1>3, KernelFacts DEF WaitInv, WaitedStays
  <1>7. EmptyIsExiting'
    BY <1>1, <1>2, <1>3 DEF WaitInv, EmptyIsExiting
  <1>8. WaitFieldInv'
    <2>1. last_pid \in Int /\ 3 <= last_pid /\ last_pid <= last_pid' /\ last_pid' \in Int
      BY <1>1, SchedAssumption
    <2> SUFFICES ASSUME NEW u \in Tids
                 PROVE  /\ tstate'[u] \notin {"waiting", "dead"} => twait'[u] \in {0, KeyboardIrq}
                        /\ u \in wait_msg' => tstate'[u] \in {"waiting", "dead"} /\ twait'[u] = 0
                        /\ twait'[u] < last_pid'
      BY DEF WaitFieldInv
    <2>2. twait[u] \in Int
      BY <1>1 DEF Pids
    <2>3. QED
      BY <1>1, <1>3, <2>1, <2>2 DEF WaitInv, WaitFieldInv
  <1>9. KernelAlive'
    BY <1>1, <1>2, <1>3, KernelFacts DEF WaitInv, KernelAlive
  <1>10. QED
    BY <1>5, <1>6, <1>7, <1>8, <1>9 DEF WaitInv

\* sched_fork_thread and sched_create_process.
LEMMA ForkOrSpawnWait ==
  ASSUME SchedInv, WaitInv, NEW t \in Tids, ForkThread(t) \/ SpawnProcess(t)
  PROVE  WaitInv'
  <1>1. /\ last_tid \in Tids /\ last_pid \in 3..(MaxPid + 1)
        /\ pstate \in [Pids -> ProcessStates] /\ waiting_threads \in [Pids -> Int]
    BY DEF SchedInv, TypeOK, ThreadTypeOK, ProcTypeOK, ForkThread, SpawnProcess, Tids
  <1>2. CASE ForkThread(t)
    <2>1. town[t] \in UserPids /\ pstate[town[t]] # "none"
      BY <1>2, CallerFacts DEF ForkThread, SchedInv, OwnershipInv, LiveThreadsOwned
    <2>2. CreateThread(town[t]) /\ UNCHANGED <<pstate, waiting_threads, last_pid>>
      BY <1>2 DEF ForkThread
    <2>3. QED
      BY <1>1, <2>1, <2>2, CreateThreadWait
  <1>3. CASE SpawnProcess(t)
    <2>1. last_pid \in UserPids /\ CreateThread(last_pid) /\ last_pid' = last_pid + 1
      BY <1>1, <1>3 DEF SpawnProcess, UserPids, Pids, IdlePid, KernelPid
    <2>2. /\ \A q \in Pids : q # last_pid => /\ pstate'[q] = pstate[q]
                                             /\ waiting_threads'[q] = waiting_threads[q]
          /\ pstate'[last_pid] # "none" /\ waiting_threads'[last_pid] = 0
      BY <1>1, <1>3, <2>1 DEF SpawnProcess, UserPids
    <2>3. QED
      BY <1>1, <2>1, <2>2, CreateThreadWait
  <1>4. QED
    BY <1>2, <1>3

\* The wait system call, and kernel_loop.
LEMMA WaitsWait ==
  ASSUME SchedInv, WaitInv, KernelWaits \/ \E t \in Tids, p \in Pids : WaitProcess(t, p)
  PROVE  WaitInv'
  <1>1. CASE KernelWaits
    <2>1. tstate[KernelTid] = "running" /\ town[KernelTid] = KernelPid
      BY <1>1 DEF SchedInv, CurrentRuns, KernelWaits, WaitInv, KernelAlive
    <2>2. QED
      BY <1>1, <2>1, KernelFacts, StartWaitingWait DEF KernelWaits
  <1>2. ASSUME NEW t \in Tids, NEW p \in Pids, WaitProcess(t, p)
        PROVE  WaitInv'
    BY <1>2, CallerFacts, StartWaitingWait DEF WaitProcess
  <1>3. QED
    BY <1>1, <1>2

\* panic(), or no step.
LEMMA StutterWait ==
  ASSUME WaitInv, UNCHANGED <<procVars, threadVars>>
  PROVE  WaitInv'
  <1>1. UNCHANGED <<pstate, ptids, waiting_threads, last_pid, tstate, town, twait, wait_msg>>
    BY DEF procVars, threadVars
  <1>2. CountInv' /\ WaitedStays'
    BY <1>1, SameWaiters DEF WaitInv
  <1>3. QED
    BY <1>1, <1>2 DEF WaitInv, EmptyIsExiting, WaitFieldInv, KernelAlive

\* Every step of the scheduler keeps the waiters and their counters together.
LEMMA NextWait ==
  ASSUME SchedInv, WaitInv, [Next]_vars
  PROVE  WaitInv'
  <1>1. CASE Pick
    <2>1. PICK t \in Tids :
            \/ PickRunning(t) \/ PickSuspended(t) \/ PickMessage(t)
            \/ PickStillWaiting(t) \/ PickWaitOver(t) \/ PickStarting(t) \/ PickLoad(t)
            \/ PickExiting(t) \/ PickDead(t)
      BY <1>1 DEF Pick
    <2>2. QED
      BY <2>1, PickStateWait, PickStillWaitingWait, PickWaitOverWait, PickLoadWait, PickDeadWait
  <1>2. CASE Syscall
    <2>1. PICK t \in Tids :
            \/ \E code \in ExitCodes : ExitProcess(t, code)
            \/ ExitProcessFaults(t)
            \/ \E p \in Pids : KillProcess(t, p) \/ KillProcessFaults(t, p) \/ WaitProcess(t, p)
            \/ ReadSuspends(t) \/ WaitMessage(t)
            \/ \E S \in SUBSET wait_msg : DeleteInterface(t, S)
            \/ ExitThread(t) \/ ForkThread(t) \/ SpawnProcess(t)
      BY <1>2 DEF Syscall
    <2>2. CASE ExitProcessFaults(t) \/ \E p \in Pids : KillProcessFaults(t, p)
      BY <2>2, StutterWait DEF ExitProcessFaults, KillProcessFaults, Panic
    <2>3. QED
      BY <2>1, <2>2, ExitProcessWait, KillProcessWait, WaitsWait, CallerStateWait,
         DeleteInterfaceWait, ForkOrSpawnWait
  <1>3. CASE KernelLoop
    BY <1>3, WaitsWait, StutterWait DEF KernelLoop, KernelPanics, Panic
  <1>4. CASE \E irq \in Irqs : Interrupt(irq)
    BY <1>4, InterruptWait
  <1>5. CASE Halted \/ UNCHANGED vars
    BY <1>5, StutterWait DEF Halted, vars
  <1>6. QED
    BY <1>1, <1>2, <1>3, <1>4, <1>5 DEF Next

\* Wait fields, counters and process states agree in every reachable state.
THEOREM WaitInvariant == Spec => []WaitInv
  <1>1. Init => WaitInv
    BY InitWait
  <1>2. SchedInv /\ WaitInv /\ [Next]_vars => WaitInv'
    BY NextWait
  <1>3. QED
    BY <1>1, <1>2, SchedInvariant, PTL DEF Spec

\* waiting_threads of a user process is the number of threads that wait for it
\* or died waiting for it: no order of waits, kills, exits and collections makes
\* the counter of sched_wait_process drift from the waiters it stands for.
THEOREM WaitersExact == Spec => []WaitersCounted
  <1>1. SchedInv /\ WaitInv => WaitersCounted
    BY WaitInvCounts DEF SchedInv
  <1>2. QED
    BY <1>1, SchedInvariant, WaitInvariant, PTL

\* How a thread leaves a wait for a process.
WaitOver(t) == pstate[twait[t]] = "exiting" /\ currenttid' = t /\ delivered' = exitcode[twait[t]]

\* One iteration of sched_pick_next ends the wait of a thread only by giving it
\* the exit code of the exited process.
LEMMA PickEndsWait ==
  ASSUME SchedInv, WaitInv, Pick, NEW d \in Tids, tstate[d] = "waiting", d \notin wait_msg,
         tstate'[d] \notin {"waiting", "dead"}
  PROVE  WaitOver(d)
  <1>1. /\ tstate \in [Tids -> ThreadStates] /\ twait[d] \in Pids
        /\ ptids \in [Pids -> SUBSET Tids]
    BY DEF SchedInv, TypeOK, ThreadTypeOK, ProcTypeOK
  <1>2. PICK t \in Tids :
          \/ PickRunning(t) \/ PickSuspended(t) \/ PickMessage(t)
          \/ PickStillWaiting(t) \/ PickWaitOver(t) \/ PickStarting(t) \/ PickLoad(t)
          \/ PickExiting(t) \/ PickDead(t)
    BY DEF Pick
  <1>3. CASE PickWaitOver(t)
    <2>1. tstate' = [s \in Tids |-> IF s = t THEN "running" ELSE tstate[s]]
      BY <1>1, <1>3 DEF PickWaitOver, ReapProcess, HasExited
    <2>2. t = d
      BY <2>1
    <2>3. HasExited(twait[d]) /\ currenttid' = d /\ delivered' = exitcode[twait[d]]
      BY <1>3, <2>2 DEF PickWaitOver, Choose
    <2>4. QED
      BY <1>1, <2>3, ExitedProcess DEF WaitOver
  <1>4. CASE PickStillWaiting(t)
    BY <1>4, PickStillWaitingWait
  <1>5. CASE ~PickWaitOver(t) /\ ~PickStillWaiting(t)
    BY <1>1, <1>2, <1>5
       DEF PickRunning, PickSuspended, PickMessage, PickStarting, PickLoad, PickExiting, PickDead,
           Popped, threadVars
  <1>6. QED
    BY <1>3, <1>4, <1>5

\* A system call of another thread leaves a wait for a process alone, or kills
\* the waiter.
LEMMA SyscallKeepsWait ==
  ASSUME SchedInv, WaitInv, Syscall, NEW d \in Tids, tstate[d] = "waiting", d \notin wait_msg
  PROVE  tstate'[d] \in {"waiting", "dead"}
  <1>1. tstate \in [Tids -> ThreadStates]
    BY DEF SchedInv, TypeOK, ThreadTypeOK
  <1>2. PICK t \in Tids :
          \/ \E code \in ExitCodes : ExitProcess(t, code)
          \/ ExitProcessFaults(t)
          \/ \E p \in Pids : KillProcess(t, p) \/ KillProcessFaults(t, p) \/ WaitProcess(t, p)
          \/ ReadSuspends(t) \/ WaitMessage(t)
          \/ \E S \in SUBSET wait_msg : DeleteInterface(t, S)
          \/ ExitThread(t) \/ ForkThread(t) \/ SpawnProcess(t)
    BY DEF Syscall
  <1>3. ASSUME InUser(t) PROVE t # d
    BY <1>3, UserNotIdle
  <1>4. CASE ExitProcessFaults(t) \/ \E p \in Pids : KillProcessFaults(t, p)
    BY <1>4 DEF ExitProcessFaults, KillProcessFaults, Panic, threadVars
  <1>5. CASE (\E code \in ExitCodes : ExitProcess(t, code)) \/ \E p \in Pids : KillProcess(t, p)
    BY <1>1, <1>5 DEF ExitProcess, KillProcess, ReapProcess
  <1>6. CASE ReadSuspends(t) \/ WaitMessage(t) \/ ExitThread(t) \/ \E p \in Pids : WaitProcess(t, p)
    BY <1>1, <1>3, <1>6 DEF ReadSuspends, WaitMessage, ExitThread, WaitProcess, StartWaiting
  <1>7. CASE \E S \in SUBSET wait_msg : DeleteInterface(t, S)
    BY <1>1, <1>7 DEF DeleteInterface
  <1>8. CASE ForkThread(t) \/ SpawnProcess(t)
    <2>1. last_tid # d
      BY <1>1 DEF SchedInv, OwnershipInv, FreshTids, TypeOK, ThreadTypeOK
    <2>2. tstate' = [tstate EXCEPT ![last_tid] = "starting"]
      BY <1>8 DEF ForkThread, SpawnProcess, CreateThread
    <2>3. QED
      BY <1>1, <2>1, <2>2
  <1>9. QED
    BY <1>2, <1>4, <1>5, <1>6, <1>7, <1>8

\* Any step.
LEMMA WaitStep ==
  ASSUME SchedInv, WaitInv, [Next]_vars, NEW d \in Tids, tstate[d] = "waiting", d \notin wait_msg,
         tstate'[d] \notin {"waiting", "dead"}
  PROVE  WaitOver(d)
  <1>1. tstate \in [Tids -> ThreadStates]
    BY DEF SchedInv, TypeOK, ThreadTypeOK
  <1>2. CASE KernelLoop
    BY <1>1, <1>2 DEF KernelLoop, KernelWaits, KernelPanics, Panic, threadVars, StartWaiting
  <1>3. CASE \E irq \in Irqs : Interrupt(irq)
    BY <1>1, <1>3 DEF Interrupt, Woken
  <1>4. CASE Halted \/ UNCHANGED vars
    BY <1>4 DEF Halted, vars, threadVars
  <1>5. QED
    BY <1>2, <1>3, <1>4, PickEndsWait, SyscallKeepsWait DEF Next

\* A wait for a process ends only with the death of the waiter, or because the
\* process has exited, and then the waiter runs at once with its exit code:
\* interrupts, messages, deleted interfaces and kills of others do not end it.
THEOREM WaitsEndWithExit == Spec => WaitEndsWithExit
  <1>1. SchedInv /\ WaitInv /\ [Next]_vars =>
          [\A t \in Tids :
             LET p == twait[t]
             IN  /\ tstate[t] = "waiting" /\ t \notin wait_msg
                 /\ tstate'[t] \notin {"waiting", "dead"}
                 => /\ pstate[p] = "exiting"
                    /\ currenttid' = t /\ delivered' = exitcode[p]]_vars
    BY WaitStep DEF WaitOver
  <1>2. QED
    BY <1>1, SchedInvariant, WaitInvariant, PTL DEF Spec, WaitEndsWithExit

=============================================================================
