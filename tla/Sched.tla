------------------------------- MODULE Sched -------------------------------
(***************************************************************************)
(* The process and thread scheduler: kernel/kernel/sched/sched.c, entered  *)
(* through the interrupt path of kernel/kernel/i386/{boot.S,irq.c} and the *)
(* process system calls of kernel/kernel/i386/syscall.c.                   *)
(*                                                                         *)
(* One CPU.  It runs the current thread ("user"), or it is inside          *)
(* sched_pick_next ("pick"), or it has stopped in panic() ("panic").       *)
(* Every interrupt and every system call runs its whole handler with       *)
(* interrupts off and then enters sched_pick_next, because irq_common_stub *)
(* always calls sched_loop.  One step of "pick" is one iteration of the    *)
(* loop of sched_pick_next.                                                *)
(*                                                                         *)
(* Pids and tids are never reused.  Pid 0 is the idle process, pid 1 the   *)
(* kernel process, pid 2 init; tids 0, 1 and 2 are their first threads.    *)
(***************************************************************************)
EXTENDS Integers, Sequences, FiniteSets

CONSTANTS MaxPid,     \* largest pid of the instance (MAX_PROCESSES - 1 in the code)
          MaxTid,     \* largest tid of the instance (MAX_THREADS - 1 in the code)
          ExitCodes   \* the codes a process may pass to exit

ASSUME SchedAssumption ==
  /\ MaxPid \in Nat /\ MaxPid >= 2
  /\ MaxTid \in Nat /\ MaxTid >= 2
  /\ ExitCodes \subseteq Int

Pids == 0..MaxPid
Tids == 0..MaxTid

IdlePid == 0    IdleTid == 0
KernelPid == 1  KernelTid == 1
InitPid == 2    InitTid == 2

KeyboardIrq == 1
\* The interrupts that change what a thread may do: the timer (0), the
\* keyboard (1) and the yield gate int 0x30 (48 - 32).
Irqs == {0, KeyboardIrq, 16}

NoThread == -1
NoStatus == 0

PrivilegeLevel(p) == IF p \in {IdlePid, KernelPid} THEN 0 ELSE 3

PanicReasons == {"none", "null thread in reap", "System process died"}

\* "none" stands for a NULL entry of processes[] or threads[].
ProcessStates == {"none", "starting", "loading", "running", "exiting"}
ThreadStates  == {"none", "starting", "running", "suspended", "waiting",
                  "exiting", "dead"}

VARIABLES
  pstate,           \* processes[p]->state, "none" when processes[p] is NULL
  ptids,            \* the first threadcount entries of processes[p]->tids
  waiting_threads,  \* processes[p]->waiting_threads
  exitcode,         \* processes[p]->exitcode
  processes_count,
  last_pid,         \* the next pid to hand out
  tstate,           \* threads[t]->state, "none" when threads[t] is NULL
  town,             \* threads[t]->pid
  twait,            \* threads[t]->wait: an irq number or a pid
  wait_msg,         \* the threads whose wait_msg is not NULL
  last_tid,         \* the next tid to hand out
  queue,            \* queue[queue_start .. queue_end - 1]
  queue_loc,        \* how many entries of queue have been popped
  loop,             \* the local variable of sched_pick_next
  currenttid,
  delivered,        \* the exit code sched_pick_next put in eax of currenttid
  kernel_waits,     \* the kernel thread has called sched_wait_process(2)
  cpu,              \* "user", "pick" or "panic"
  panic             \* the reason of the panic

procVars   == <<pstate, ptids, waiting_threads, exitcode, processes_count, last_pid>>
threadVars == <<tstate, town, twait, wait_msg, last_tid>>
queueVars  == <<queue, queue_loc>>
cpuVars    == <<loop, currenttid, delivered, kernel_waits, cpu, panic>>
vars == <<procVars, threadVars, queueVars, cpuVars>>

-----------------------------------------------------------------------------
(* The state when kernel_main has created the idle, kernel and init        *)
(* processes, sched_pick_next has made the kernel thread current, and      *)
(* interrupts are about to be enabled.                                     *)

Init ==
  /\ pstate = [p \in Pids |-> IF p <= InitPid THEN "starting" ELSE "none"]
  /\ ptids = [p \in Pids |-> IF p <= InitPid THEN {p} ELSE {}]
  /\ waiting_threads = [p \in Pids |-> 0]
  /\ exitcode = [p \in Pids |-> 0]
  /\ processes_count = 3
  /\ last_pid = 3
  /\ tstate = [t \in Tids |-> CASE t \in {IdleTid, InitTid} -> "starting"
                                [] t = KernelTid -> "running"
                                [] OTHER -> "none"]
  /\ town = [t \in Tids |-> IF t <= InitTid THEN t ELSE 0]
  /\ twait = [t \in Tids |-> 0]
  /\ wait_msg = {}
  /\ last_tid = 3
  /\ queue = <<KernelTid, InitTid>>
  /\ queue_loc = 1
  /\ loop = FALSE
  /\ currenttid = KernelTid
  /\ delivered = NoStatus
  /\ kernel_waits = FALSE
  /\ cpu = "user"
  /\ panic = "none"

-----------------------------------------------------------------------------
(* Leaving a handler.                                                      *)

\* The tail of irq_common_stub and the head of sched_pick_next.
Reschedule ==
  /\ cpu' = "pick"
  /\ currenttid' = NoThread
  /\ delivered' = NoStatus
  /\ loop' = FALSE
  /\ UNCHANGED panic

\* panic() disables interrupts and halts: nothing else happens.
Panic(reason) ==
  /\ cpu' = "panic"
  /\ panic' = reason
  /\ UNCHANGED <<procVars, threadVars, queueVars, loop, currenttid, delivered, kernel_waits>>

\* Thread t of a user process is executing and may enter the kernel.
InUser(t) ==
  /\ cpu = "user"
  /\ currenttid = t
  /\ PrivilegeLevel(town[t]) > 0

-----------------------------------------------------------------------------
(* sched_reap_process(p): mark the threads listed in tids dead and, when   *)
(* nobody waits for p, free it.  The caller gives what it has changed      *)
(* before the call: the state and exit code of p, the thread states and    *)
(* the waiter counts.  A freed process has no exit code any more.          *)

\* The loop over tids dereferences threads[tid] without a check.
ReapFaults(p) == \E t \in ptids[p] : tstate[t] = "none"

\* Faulty variant: only the running threads of p are marked dead.
ReapProcessMissesSleepers(p, state, code, threads, waiters) ==
  LET freed == waiters[p] = 0
  IN  /\ tstate' = [t \in Tids |-> IF t \in ptids[p] /\ threads[t] = "running"
                                     THEN "dead" ELSE threads[t]]
      /\ ptids' = [ptids EXCEPT ![p] = {}]
      /\ waiting_threads' = waiters
      /\ pstate' = [pstate EXCEPT ![p] = IF freed THEN "none" ELSE state]
      /\ exitcode' = [exitcode EXCEPT ![p] = IF freed THEN 0 ELSE code]
      /\ processes_count' = IF freed THEN processes_count - 1 ELSE processes_count

ReapProcess(p, state, code, threads, waiters) ==
  LET freed == waiters[p] = 0
  IN  /\ tstate' = [t \in Tids |-> IF t \in ptids[p] THEN "dead" ELSE threads[t]]
      /\ ptids' = [ptids EXCEPT ![p] = {}]
      /\ waiting_threads' = waiters
      /\ pstate' = [pstate EXCEPT ![p] = IF freed THEN "none" ELSE state]
      /\ exitcode' = [exitcode EXCEPT ![p] = IF freed THEN 0 ELSE code]
      /\ processes_count' = IF freed THEN processes_count - 1 ELSE processes_count

-----------------------------------------------------------------------------
(* Interrupts and system calls.                                            *)

\* Faulty variant: the irq wakes a thread by its wait field alone.
WokenByAnyState(t, irq) == tstate[t] # "none" /\ twait[t] = irq /\ irq # 0

\* The test of sched_check_suspended_threads.
Woken(t, irq) == tstate[t] = "suspended" /\ twait[t] = irq

\* irq_handler: sched_check_suspended_threads(irq) wakes the threads
\* suspended on this irq.  System calls that leave the scheduler's data
\* alone look like the yield gate.
Interrupt(irq) ==
  /\ cpu = "user"
  /\ tstate' = [t \in Tids |-> IF Woken(t, irq) THEN "running" ELSE tstate[t]]
  /\ Reschedule
  /\ UNCHANGED <<procVars, town, twait, wait_msg, last_tid, queueVars, kernel_waits>>

\* sched_exit_process, from syscall_exit, syscall_eret or exception_handle.
ExitProcess(t, code) ==
  /\ InUser(t)
  /\ ~ReapFaults(town[t])
  /\ ReapProcess(town[t], "exiting", code, tstate, waiting_threads)
  /\ Reschedule
  /\ UNCHANGED <<last_pid, town, twait, wait_msg, last_tid, queueVars, kernel_waits>>

ExitProcessFaults(t) ==
  /\ InUser(t)
  /\ ReapFaults(town[t])
  /\ Panic("null thread in reap")

\* The guards of sched_kill_process, in its order.
KillError(t, p) ==
  \/ p \notin 0..(last_pid - 1)
  \/ pstate[p] = "none"
  \/ p = town[t]
  \/ PrivilegeLevel(p) < PrivilegeLevel(town[t])

KillProcess(t, p) ==
  /\ InUser(t)
  /\ ~KillError(t, p)
  /\ ~ReapFaults(p)
  /\ ReapProcess(p, "exiting", town[t] + 255, tstate, waiting_threads)
  /\ Reschedule
  /\ UNCHANGED <<last_pid, town, twait, wait_msg, last_tid, queueVars, kernel_waits>>

KillProcessFaults(t, p) ==
  /\ InUser(t)
  /\ ~KillError(t, p)
  /\ ReapFaults(p)
  /\ Panic("null thread in reap")

\* sched_wait_process by thread t.
WaitError(t, p) ==
  \/ p \notin 0..(last_pid - 1)
  \/ pstate[p] = "none"
  \/ p = town[t]

StartWaiting(t, p) ==
  /\ tstate' = [tstate EXCEPT ![t] = "waiting"]
  /\ twait' = [twait EXCEPT ![t] = p]
  /\ wait_msg' = wait_msg \ {t}
  /\ waiting_threads' = [waiting_threads EXCEPT ![p] = @ + 1]
  /\ Reschedule
  /\ UNCHANGED <<pstate, ptids, exitcode, processes_count, last_pid, town, last_tid, queueVars>>

WaitProcess(t, p) ==
  /\ InUser(t)
  /\ ~WaitError(t, p)
  /\ StartWaiting(t, p)
  /\ UNCHANGED kernel_waits

\* syscall_read finds the keyboard buffer empty: sched_suspend_thread(1, t).
ReadSuspends(t) ==
  /\ InUser(t)
  /\ tstate' = [tstate EXCEPT ![t] = "suspended"]
  /\ twait' = [twait EXCEPT ![t] = KeyboardIrq]
  /\ Reschedule
  /\ UNCHANGED <<procVars, town, wait_msg, last_tid, queueVars, kernel_waits>>

\* interface_wait on an interface that exists.
WaitMessage(t) ==
  /\ InUser(t)
  /\ tstate' = [tstate EXCEPT ![t] = "waiting"]
  /\ twait' = [twait EXCEPT ![t] = 0]
  /\ wait_msg' = wait_msg \cup {t}
  /\ Reschedule
  /\ UNCHANGED <<procVars, town, last_tid, queueVars, kernel_waits>>

\* interface_delete wakes the set S of threads waiting on the interface.
DeleteInterface(t, S) ==
  /\ InUser(t)
  /\ S # {}
  /\ \A s \in S : s \in wait_msg /\ tstate[s] = "waiting"
  /\ tstate' = [s \in Tids |-> IF s \in S THEN "running" ELSE tstate[s]]
  /\ twait' = [s \in Tids |-> IF s \in S THEN 0 ELSE twait[s]]
  /\ wait_msg' = wait_msg \ S
  /\ Reschedule
  /\ UNCHANGED <<procVars, town, last_tid, queueVars, kernel_waits>>

\* sched_exit_thread.
ExitThread(t) ==
  /\ InUser(t)
  /\ tstate' = [tstate EXCEPT ![t] = "exiting"]
  /\ Reschedule
  /\ UNCHANGED <<procVars, town, twait, wait_msg, last_tid, queueVars, kernel_waits>>

\* sched_create_thread(p, 0, entry): threads and queue, and tids of p.
CreateThread(p) ==
  /\ tstate' = [tstate EXCEPT ![last_tid] = "starting"]
  /\ town' = [town EXCEPT ![last_tid] = p]
  /\ twait' = [twait EXCEPT ![last_tid] = 0]
  /\ wait_msg' = wait_msg \ {last_tid}
  /\ ptids' = [ptids EXCEPT ![p] = @ \cup {last_tid}]
  /\ queue' = Append(queue, last_tid)
  /\ last_tid' = last_tid + 1
  /\ UNCHANGED queue_loc

\* sched_fork_thread, past its -EAGAIN, -ENOMEM and -EFAULT returns.
ForkThread(t) ==
  /\ InUser(t)
  /\ last_tid <= MaxTid
  /\ CreateThread(town[t])
  /\ Reschedule
  /\ UNCHANGED <<pstate, waiting_threads, exitcode, processes_count, last_pid, kernel_waits>>

\* sched_create_process and its first thread, as pload_create_process does.
SpawnProcess(t) ==
  /\ InUser(t)
  /\ last_pid <= MaxPid
  /\ last_tid <= MaxTid
  /\ pstate' = [pstate EXCEPT ![last_pid] = "starting"]
  /\ waiting_threads' = [waiting_threads EXCEPT ![last_pid] = 0]
  /\ exitcode' = [exitcode EXCEPT ![last_pid] = 0]
  /\ processes_count' = processes_count + 1
  /\ last_pid' = last_pid + 1
  /\ CreateThread(last_pid)
  /\ Reschedule
  /\ UNCHANGED kernel_waits

\* kernel_loop: wait for init, then panic.
KernelWaits ==
  /\ cpu = "user"
  /\ currenttid = KernelTid
  /\ ~kernel_waits
  /\ kernel_waits' = TRUE
  /\ ~WaitError(KernelTid, InitPid)
  /\ StartWaiting(KernelTid, InitPid)

\* sched_wait_process returned an error, or the wait is over.
KernelPanics ==
  /\ cpu = "user"
  /\ currenttid = KernelTid
  /\ kernel_waits \/ WaitError(KernelTid, InitPid)
  /\ Panic("System process died")

-----------------------------------------------------------------------------
(* One iteration of the loop of sched_pick_next: pop the next tid, wrapping *)
(* once, and act on the state of that thread.                               *)

QueueLeft == queue_loc < Len(queue)

NextTid ==
  CASE QueueLeft                          -> queue[queue_loc + 1]
    [] ~QueueLeft /\ (loop \/ queue = <<>>) -> IdleTid
    [] OTHER                              -> queue[1]

\* Faulty variant: sched_find_next_tid in the place of sched_pop_next_tid.
NextLocPeek == IF QueueLeft \/ loop THEN queue_loc ELSE 0

\* queue_loc after the pop.
NextLoc ==
  CASE QueueLeft            -> queue_loc + 1
    [] ~QueueLeft /\ loop   -> queue_loc
    [] OTHER                -> IF queue = <<>> THEN 0 ELSE 1

\* The three checks of the loop that end in panic().  PickNeverPanics below
\* states that a popped thread passes them, so no action models their panic.
NullThread(t)     == tstate[t] = "none"
NullProcess(t)    == pstate[town[t]] = "none" /\ tstate[t] # "dead"
ExitingProcess(t) == pstate[town[t]] = "exiting" /\ tstate[t] # "dead"

Popped(t, state) ==
  /\ cpu = "pick"
  /\ t = NextTid
  /\ tstate[t] = state
  /\ ~NullProcess(t) /\ ~ExitingProcess(t)

\* Faulty variant: loop is not set when the queue wraps.
ContinueForgetsLoop ==
  /\ loop' = FALSE
  /\ UNCHANGED <<currenttid, delivered, kernel_waits, cpu, panic>>

\* The loop goes on: currenttid is still -1.
Continue ==
  /\ loop' = (loop \/ ~QueueLeft)
  /\ UNCHANGED <<currenttid, delivered, kernel_waits, cpu, panic>>

\* Thread t is the one sched_loop returns.
Choose(t, code) ==
  /\ currenttid' = t
  /\ delivered' = code
  /\ cpu' = "user"
  /\ loop' = FALSE
  /\ UNCHANGED <<kernel_waits, panic>>

Advance == queue_loc' = NextLoc /\ UNCHANGED queue

PickRunning(t) ==
  /\ Popped(t, "running")
  /\ Choose(t, NoStatus)
  /\ Advance
  /\ UNCHANGED <<procVars, threadVars>>

PickSuspended(t) ==
  /\ Popped(t, "suspended")
  /\ Continue
  /\ Advance
  /\ UNCHANGED <<procVars, threadVars>>

\* interface_has_msg is the interface's affair: it may say either.
PickMessage(t) ==
  /\ Popped(t, "waiting")
  /\ t \in wait_msg
  /\ \/ UNCHANGED <<tstate, wait_msg>>
     \/ /\ tstate' = [tstate EXCEPT ![t] = "running"]
        /\ wait_msg' = wait_msg \ {t}
  /\ Continue
  /\ Advance
  /\ UNCHANGED <<procVars, town, twait, last_tid>>

\* Faulty variant: a process counts as exited while its threads live.
HasExitedEarly(p) == pstate[p] # "none"

\* Faulty variant: an exited process never satisfies the test.
HasExitedNever(p) == FALSE

\* The threadcount test of sched_check_waiting_thread.
HasExited(p) == pstate[p] # "none" /\ ptids[p] = {}

\* sched_check_waiting_thread returns -1: the process is still there, or it
\* has vanished and the thread is made runnable.
PickStillWaiting(t) ==
  LET vanished == pstate[twait[t]] = "none"
  IN  /\ Popped(t, "waiting")
      /\ t \notin wait_msg
      /\ ~HasExited(twait[t])
      /\ tstate' = [tstate EXCEPT ![t] = IF vanished THEN "running" ELSE @]
      /\ twait' = [twait EXCEPT ![t] = IF vanished THEN 0 ELSE @]
      /\ Continue
      /\ Advance
      /\ UNCHANGED <<procVars, town, wait_msg, last_tid>>

\* The process t waits for has exited: t runs with its exit code in eax, and
\* the last waiter has the process freed.
PickWaitOver(t) ==
  LET p == twait[t]
  IN  /\ Popped(t, "waiting")
      /\ t \notin wait_msg
      /\ HasExited(p)
      /\ twait' = [twait EXCEPT ![t] = 0]
      /\ ReapProcess(p, pstate[p], exitcode[p], [tstate EXCEPT ![t] = "running"],
                     [waiting_threads EXCEPT ![p] = @ - 1])
      /\ Choose(t, exitcode[p])
      /\ Advance
      /\ UNCHANGED <<last_pid, town, wait_msg, last_tid>>

\* A new thread: a kernel thread, or one whose process is loaded, runs.
PickStarting(t) ==
  /\ Popped(t, "starting")
  /\ PrivilegeLevel(town[t]) = 0 \/ pstate[town[t]] \in {"running", "loading"}
  /\ tstate' = [tstate EXCEPT ![t] = "running"]
  /\ Continue
  /\ Advance
  /\ UNCHANGED <<procVars, town, twait, wait_msg, last_tid>>

\* pload_load_process: it succeeds, or it gives up and leaves the process
\* loading.
PickLoad(t) ==
  /\ Popped(t, "starting")
  /\ PrivilegeLevel(town[t]) > 0 /\ pstate[town[t]] = "starting"
  /\ \/ /\ pstate' = [pstate EXCEPT ![town[t]] = "running"]
        /\ tstate' = [tstate EXCEPT ![t] = "running"]
     \/ /\ pstate' = [pstate EXCEPT ![town[t]] = "loading"]
        /\ UNCHANGED tstate
  /\ Continue
  /\ Advance
  /\ UNCHANGED <<ptids, waiting_threads, exitcode, processes_count, last_pid,
                 town, twait, wait_msg, last_tid>>

PickExiting(t) ==
  /\ Popped(t, "exiting")
  /\ tstate' = [tstate EXCEPT ![t] = "dead"]
  /\ Continue
  /\ Advance
  /\ UNCHANGED <<procVars, town, twait, wait_msg, last_tid>>

\* Faulty variant: the shift starts one entry late.
WithoutEntryLate(q, k) == [i \in 1..(Len(q) - 1) |-> IF i <= k THEN q[i] ELSE q[i + 1]]

\* The shift loop over queue: entry k is dropped.
WithoutEntry(q, k) == [i \in 1..(Len(q) - 1) |-> IF i < k THEN q[i] ELSE q[i + 1]]

\* Faulty variant: queue_loc-- is missing.
LocNotMovedBack == NextLoc

\* queue_loc after the popped entry has been removed.
LocMovedBack == NextLoc - 1

\* Faulty variant: the collected thread keeps its claim.
ClaimKept(t) == waiting_threads

\* The claim of a collected thread on the process its wait field names.
ClaimDropped(t) ==
  IF twait[t] # 0 /\ pstate[twait[t]] # "none"
    THEN [waiting_threads EXCEPT ![twait[t]] = @ - 1]
    ELSE waiting_threads

\* A dead thread leaves the queue, its claim on the process it waited for is
\* dropped, and it is freed.
PickDead(t) ==
  /\ Popped(t, "dead")
  /\ queue' = WithoutEntry(queue, NextLoc)
  /\ queue_loc' = LocMovedBack
  /\ waiting_threads' = ClaimDropped(t)
  /\ tstate' = [tstate EXCEPT ![t] = "none"]
  /\ twait' = [twait EXCEPT ![t] = 0]
  /\ wait_msg' = wait_msg \ {t}
  /\ Continue
  /\ UNCHANGED <<pstate, ptids, exitcode, processes_count, last_pid,
                 town, last_tid>>

-----------------------------------------------------------------------------

Pick ==
  \E t \in Tids :
    \/ PickRunning(t) \/ PickSuspended(t) \/ PickMessage(t)
    \/ PickStillWaiting(t) \/ PickWaitOver(t) \/ PickStarting(t) \/ PickLoad(t)
    \/ PickExiting(t) \/ PickDead(t)

Syscall ==
  \E t \in Tids :
    \/ \E code \in ExitCodes : ExitProcess(t, code)
    \/ ExitProcessFaults(t)
    \/ \E p \in Pids : KillProcess(t, p) \/ KillProcessFaults(t, p) \/ WaitProcess(t, p)
    \/ ReadSuspends(t) \/ WaitMessage(t)
    \/ \E S \in SUBSET wait_msg : DeleteInterface(t, S)
    \/ ExitThread(t) \/ ForkThread(t) \/ SpawnProcess(t)

KernelLoop == KernelWaits \/ KernelPanics

\* The CPU stays halted in panic().
Halted == cpu = "panic" /\ UNCHANGED vars

Next == Pick \/ Syscall \/ KernelLoop \/ (\E irq \in Irqs : Interrupt(irq)) \/ Halted

Spec == Init /\ [][Next]_vars

\* sched_pick_next runs to its end with interrupts off, and the timer
\* interrupts whatever thread runs.
Fairness == WF_vars(Pick) /\ WF_vars(Interrupt(0))

FairSpec == Spec /\ Fairness

-----------------------------------------------------------------------------
(* What the scheduler must keep true.                                       *)

\* Every variable holds a value of its C type; queue_loc stays inside the
\* queue.
ProcTypeOK ==
  /\ pstate \in [Pids -> ProcessStates]
  /\ ptids \in [Pids -> SUBSET Tids]
  /\ waiting_threads \in [Pids -> Int]
  /\ exitcode \in [Pids -> Int]
  /\ processes_count \in Int
  /\ last_pid \in 3..(MaxPid + 1)

ThreadTypeOK ==
  /\ tstate \in [Tids -> ThreadStates]
  /\ town \in [Tids -> Pids]
  /\ twait \in [Tids -> Pids]
  /\ wait_msg \in SUBSET Tids
  /\ last_tid \in 3..(MaxTid + 1)

QueueTypeOK == queue \in Seq(Tids) /\ queue_loc \in 0..Len(queue)

CpuTypeOK ==
  /\ currenttid \in Tids \cup {NoThread}
  /\ delivered \in Int
  /\ loop \in BOOLEAN /\ kernel_waits \in BOOLEAN
  /\ cpu \in {"user", "pick", "panic"}
  /\ panic \in PanicReasons

TypeOK == ProcTypeOK /\ ThreadTypeOK /\ QueueTypeOK /\ CpuTypeOK

\* sched_pick_next never meets a thread that makes it panic: the thread it
\* pops exists, and unless it is dead its process exists and is not exiting.
\* The thread that runs is runnable.
PickNeverPanics ==
  /\ cpu = "pick" =>
       ~NullThread(NextTid) /\ ~NullProcess(NextTid) /\ ~ExitingProcess(NextTid)
  /\ cpu = "user" => currenttid \in Tids /\ tstate[currenttid] = "running"

\* The queue holds every thread that exists, except the idle thread, exactly
\* once: the shift loop that removes a dead thread loses no other thread.
QueueHoldsThreads ==
  /\ \A i, j \in DOMAIN queue : queue[i] = queue[j] => i = j
  /\ \A t \in Tids : (t # IdleTid /\ tstate[t] # "none")
                         <=> (\E i \in DOMAIN queue : queue[i] = t)

\* Thread t holds a claim on process p: it waits for p, or it died waiting
\* and sched_pick_next has not collected it.
Claims(t, p) == tstate[t] \in {"waiting", "dead"} /\ t \notin wait_msg /\ twait[t] = p

\* waiting_threads of a user process is the number of claims on it, whatever
\* the order in which waiters and the process wait, die and are collected.
\* (Pid 1 is excluded: a thread that was suspended keeps its irq number, 1, in
\* wait, and its death takes 1 from the kernel process.)
WaitersCounted ==
  \A p \in Pids \ {IdlePid, KernelPid} :
    pstate[p] # "none" => waiting_threads[p] = Cardinality({t \in Tids : Claims(t, p)})

\* A thread leaves a wait for a process only by dying or, at the moment it is
\* scheduled, because that process has exited, and then with its exit code.
WaitEndsWithExit ==
  [][\A t \in Tids :
       LET p == twait[t]
       IN  /\ tstate[t] = "waiting" /\ t \notin wait_msg
           /\ tstate'[t] \notin {"waiting", "dead"}
           => /\ pstate[p] = "exiting"
              /\ currenttid' = t /\ delivered' = exitcode[p]]_vars

\* A thread marked dead is never revived: no interrupt, message or deleted
\* interface makes it runnable before it is freed.
DeadStaysDead ==
  [][\A t \in Tids : tstate[t] = "dead" => tstate'[t] \in {"dead", "none"}]_vars

\* sched_pick_next always finds a thread to run.
PickTerminates == (cpu = "pick") ~> (cpu # "pick")

\* Round robin: a runnable thread is eventually chosen, however the other
\* threads behave.
NoStarvation ==
  \A t \in Tids \ {IdleTid} :
    (tstate[t] = "running") ~> (currenttid = t \/ tstate[t] # "running" \/ cpu = "panic")

\* A thread waiting for a process that has exited is eventually resumed.
WaiterResumes ==
  \A t \in Tids :
    (tstate[t] = "waiting" /\ t \notin wait_msg /\ pstate[twait[t]] = "exiting")
      ~> (tstate[t] # "waiting" \/ cpu = "panic")

-----------------------------------------------------------------------------
(* What a comment of the repository says, and the code does not keep.       *)

\* "if there are any threads still active, kill them all" (sched.c:527): the
\* loop dereferences every entry of tids, and a thread that called
\* sched_exit_thread and was collected is still listed there.
ReapNeverFaults == panic # "null thread in reap"

=============================================================================
