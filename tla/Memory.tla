------------------------------- MODULE Memory -------------------------------
(***************************************************************************)
(* Physical pages and the user memory of processes: kernel/kernel/mem/pmm.c *)
(* and vmm.c, sched_setbrk_true and sched_free_all of sched/sched.c, the   *)
(* loader sched/pload.c, and what creating, forking, faulting and reaping  *)
(* threads and processes takes from and gives back to the page pool.       *)
(*                                                                         *)
(* The kernel runs these operations with interrupts off, so at most one is *)
(* under way (op); each step is one iteration of its loop.  The operation  *)
(* loads the page directory of its process and afterwards reloads the one  *)
(* that was loaded before, which is what cr3 names here.                   *)
(*                                                                         *)
(* Frames that the kernel heap takes are not modelled.  What the variables *)
(* say of a process that is gone or of a thread that was collected is what *)
(* it had last: the kernel has freed their structures and does not refer   *)
(* to it any more.                                                         *)
(***************************************************************************)
EXTENDS Integers, Sequences, FiniteSets, Functions

CONSTANTS Pids,          \* user processes, in the order of their creation
          Frames,        \* number of page frames (pmem_stack_size)
          PageSize, PagesPerTable,
          UserTop,       \* KERNEL_START - 0x400000, the end of user memory below the stacks
          Program,       \* Program[p]: the PT_LOAD headers of p's file
          BrkReserve, ForkReserve,
          MaxThreads,    \* bound on the threads of a process
          MaxDepth       \* bound on the pages of a user stack

KernelPid == 1
Nobody == 0
NoFrame == 0

Vpages == 0..(UserTop \div PageSize - 1)
Tables == 0..((UserTop \div PageSize - 1) \div PagesPerTable)
Threads == 1..MaxThreads

\* The pages of the stacks of a process: <<t, 1>> is the topmost page of the stack
\* of its thread t, <<t, 2>> the one below it.
StackPages == Threads \X (1..MaxDepth)

\* Pids is finite, as MAX_PROCESSES is; a process without a segment has no code
\* mapped that could ask for a break.
ASSUME MemoryAssumption ==
  /\ Pids \subseteq Nat \ {Nobody, KernelPid} /\ IsFiniteSet(Pids)
  /\ Frames \in Nat \ {0}
  /\ PageSize \in Nat \ {0} /\ PagesPerTable \in Nat \ {0}
  /\ UserTop \in Nat \ {0} /\ UserTop % PageSize = 0
  /\ BrkReserve \in Nat /\ BrkReserve >= 2 /\ ForkReserve \in Nat
  /\ MaxThreads \in Nat \ {0} /\ MaxDepth \in Nat
  /\ Program \in [Pids -> Seq([first : Vpages, count : Nat \ {0}])]
  /\ \A p \in Pids : \A i \in DOMAIN Program[p] :
       Program[p][i].first + Program[p][i].count <= UserTop \div PageSize
  /\ \A p \in Pids : Program[p] # <<>>

Procs == Pids \cup {KernelPid}

VARIABLES
  pmem_stack,   \* the free frames, the last one is allocated next
  pstate,       \* "none", "starting", "loading", "running", "exited" (kept
                \* for a waiter), "reaping" or "gone"
  directory,    \* the frame of processes[p]->cr3
  table,        \* table[p][k]: the frame of page table k
  page,         \* page[p][v]: the frame mapped at user page v
  regions,      \* the pages of processes[p]->psregions, in order
  brk, pgbrk, brk_offset,
  tstate,       \* tstate[p][t]: "none", "live", "forking" and "new" for the two
                \* threads of a fork, "dead", or "collected"
  stackpt,      \* stackpt[p][t]: the frame of the page table of t's stack
  stack,        \* stack[p][<<t, k>>]: the frame mapped at a page of t's stack
  cr3,          \* the directory the CPU goes back to
  cur,          \* the process that executes, or Nobody in sched_pick_next
  op,           \* the operation under way
  taken,        \* pload: frames allocated for the segment and not mapped yet
  panic         \* the operation that found no free frame, or "none"

procVars == <<pstate, directory, regions, tstate>>
userVars == <<table, page, brk, pgbrk, brk_offset>>
stackVars == <<stackpt, stack>>
cpuVars == <<cr3, cur>>
vars == <<pmem_stack, procVars, userVars, stackVars, cpuVars, op, taken, panic>>

\* kind: what is under way, for process p; want: the new break, the segment
\* being loaded or the pages a fork still copies; old: pgbrk at the start.
NoOp == [kind |-> "none", p |-> Nobody, want |-> 0, old |-> 0]

Init ==
  /\ pmem_stack = [i \in 1..(Frames - 1) |-> i + 1]
  /\ pstate = [p \in Procs |-> IF p = KernelPid THEN "running" ELSE "none"]
  /\ directory = [p \in Procs |-> IF p = KernelPid THEN 1 ELSE NoFrame]
  /\ table = [p \in Pids |-> [k \in Tables |-> NoFrame]]
  /\ page = [p \in Pids |-> [v \in Vpages |-> NoFrame]]
  /\ regions = [p \in Pids |-> <<>>]
  /\ brk = [p \in Pids |-> 0]
  /\ pgbrk = [p \in Pids |-> 0]
  /\ brk_offset = [p \in Pids |-> 0]
  /\ tstate = [p \in Pids |-> [t \in Threads |-> "none"]]
  /\ stackpt = [p \in Pids |-> [t \in Threads |-> NoFrame]]
  /\ stack = [p \in Pids |-> [s \in StackPages |-> NoFrame]]
  /\ cr3 = 1
  /\ cur = KernelPid
  /\ op = NoOp
  /\ taken = <<>>
  /\ panic = "none"

-----------------------------------------------------------------------------
(* pmm.c                                                                    *)

\* pmm_available.
Available == Len(pmem_stack)

\* pmm_alloc_page: the n-th frame it returns, and what n calls leave.
Top(n) == pmem_stack[Available + 1 - n]
Popped(n) == SubSeq(pmem_stack, 1, Available - n)

\* pmm_alloc_page with no free frame.
Panic(what) ==
  /\ panic' = what
  /\ UNCHANGED <<pmem_stack, procVars, userVars, stackVars, cpuVars, op, taken>>

Idle == op.kind = "none" /\ panic = "none"
Doing(kind) == op.kind = kind /\ panic = "none"
InUser(p) == Idle /\ cur = p /\ p \in Pids /\ pstate[p] = "running"

-----------------------------------------------------------------------------
(* vmm.c                                                                    *)

PageOf(address) == address \div PageSize
TableOf(v) == v \div PagesPerTable

\* vmm_map_page takes a frame for the page table when there is none.
NeedsTable(p, v) == table[p][TableOf(v)] = NoFrame

\* vmm_map_page of frame f at page v of p, the frame for a missing table
\* being the n-th one allocated in this step.
MapPage(p, v, f, n) ==
  /\ page' = [page EXCEPT ![p][v] = f]
  /\ table' = [table EXCEPT ![p][TableOf(v)] = IF NeedsTable(p, v) THEN Top(n) ELSE @]

\* Faulty variant: the page stays mapped.
ReleasePageMapped(p, v) ==
  /\ pmem_stack' = IF page[p][v] = NoFrame THEN pmem_stack ELSE Append(pmem_stack, page[p][v])
  /\ UNCHANGED page

\* vmm_get_physaddr, pmm_free_page and vmm_unmap_page of one page.
ReleasePage(p, v) ==
  /\ pmem_stack' = IF page[p][v] = NoFrame THEN pmem_stack ELSE Append(pmem_stack, page[p][v])
  /\ page' = [page EXCEPT ![p][v] = NoFrame]

-----------------------------------------------------------------------------
(* sched_setbrk_true                                                        *)

RoundUp(address) == ((address + PageSize - 1) \div PageSize) * PageSize

\* The requests that are looked at: not a query, not below the loader's end,
\* not above user memory.
BrkAccepted(p, want) ==
  /\ want # 0
  /\ want >= pgbrk[p] - brk_offset[p]
  /\ RoundUp(want) <= UserTop

\* The check up front, against a request larger than memory.
FitsMemory(p, want) ==
  LET count == PageOf(RoundUp(want) - pgbrk[p])
  IN  count + count \div PagesPerTable + 2 <= Available

BrkSamePages(p, want) ==
  /\ InUser(p)
  /\ BrkAccepted(p, want)
  /\ RoundUp(want) = pgbrk[p]
  /\ brk' = [brk EXCEPT ![p] = want]
  /\ UNCHANGED <<pmem_stack, procVars, table, page, pgbrk, brk_offset, stackVars,
                 cpuVars, op, taken, panic>>

BrkStart(p, want) ==
  /\ InUser(p)
  /\ BrkAccepted(p, want)
  /\ \/ RoundUp(want) < pgbrk[p]
     \/ RoundUp(want) > pgbrk[p] /\ FitsMemory(p, want)
  /\ op' = [kind |-> IF RoundUp(want) > pgbrk[p] THEN "grow" ELSE "shrink",
            p |-> p, want |-> want, old |-> pgbrk[p]]
  /\ UNCHANGED <<pmem_stack, procVars, userVars, stackVars, cpuVars, taken, panic>>

\* Faulty variant: the reserve inside the loop is forgotten.
GrowFailsNever == FALSE

\* The loop gives up: the reserve is reached, or the page is mapped already.
GrowFails == Available < BrkReserve \/ page[op.p][PageOf(pgbrk[op.p])] # NoFrame

\* One iteration of the loop that allocates.
GrowPage ==
  LET p == op.p
      v == PageOf(pgbrk[p])
      frames == IF NeedsTable(p, v) THEN 2 ELSE 1
  IN  /\ Doing("grow")
      /\ pgbrk[p] < RoundUp(op.want)
      /\ ~GrowFails
      /\ IF Available < frames
           THEN Panic("brk")
           ELSE /\ pmem_stack' = Popped(frames)
                /\ MapPage(p, v, Top(1), 2)
                /\ pgbrk' = [pgbrk EXCEPT ![p] = @ + PageSize]
                /\ UNCHANGED <<procVars, brk, brk_offset, stackVars, cpuVars, op, taken, panic>>

GrowGivesUp ==
  /\ Doing("grow")
  /\ pgbrk[op.p] < RoundUp(op.want)
  /\ GrowFails
  /\ op' = [op EXCEPT !.kind = "rollback"]
  /\ UNCHANGED <<pmem_stack, procVars, userVars, stackVars, cpuVars, taken, panic>>

GrowDone ==
  LET p == op.p
  IN  /\ Doing("grow")
      /\ pgbrk[p] = RoundUp(op.want)
      /\ brk_offset' = [brk_offset EXCEPT ![p] = @ + (pgbrk[p] - op.old)]
      /\ brk' = [brk EXCEPT ![p] = op.want]
      /\ op' = NoOp
      /\ UNCHANGED <<pmem_stack, procVars, table, page, pgbrk, stackVars, cpuVars, taken, panic>>

\* Faulty variant: the page at the old break is released too.
RollbackEndPast == op.old - PageSize

\* Where the rollback stops.
RollbackEnd == op.old

RollbackPage ==
  LET p == op.p
  IN  /\ Doing("rollback")
      /\ pgbrk[p] > RollbackEnd
      /\ pgbrk' = [pgbrk EXCEPT ![p] = @ - PageSize]
      /\ ReleasePage(p, PageOf(pgbrk[p]) - 1)
      /\ UNCHANGED <<procVars, table, brk, brk_offset, stackVars, cpuVars, op, taken, panic>>

RollbackDone ==
  /\ Doing("rollback")
  /\ pgbrk[op.p] = RollbackEnd
  /\ op' = NoOp
  /\ UNCHANGED <<pmem_stack, procVars, userVars, stackVars, cpuVars, taken, panic>>

ShrinkPage ==
  LET p == op.p
  IN  /\ Doing("shrink")
      /\ pgbrk[p] > RoundUp(op.want)
      /\ ReleasePage(p, PageOf(pgbrk[p]) - 1)
      /\ pgbrk' = [pgbrk EXCEPT ![p] = @ - PageSize]
      /\ UNCHANGED <<procVars, table, brk, brk_offset, stackVars, cpuVars, op, taken, panic>>

\* brk returns; sched_free_all goes on with the regions.
ShrinkDone ==
  LET p == op.p
  IN  /\ Doing("shrink")
      /\ pgbrk[p] = RoundUp(op.want)
      /\ brk_offset' = [brk_offset EXCEPT ![p] = @ - (op.old - pgbrk[p])]
      /\ brk' = [brk EXCEPT ![p] = op.want]
      /\ op' = IF pstate[p] = "reaping" THEN [op EXCEPT !.kind = "regions"] ELSE NoOp
      /\ UNCHANGED <<pmem_stack, procVars, table, page, pgbrk, stackVars, cpuVars, taken, panic>>

-----------------------------------------------------------------------------
(* Creating and loading a process.                                          *)

\* sched_create_process and its first thread: a frame for the directory, one
\* for the page table of the stack.
Exec(p) ==
  /\ Idle /\ cur # Nobody
  /\ cur = KernelPid => \A q \in Pids : pstate[q] = "none"
  /\ pstate[p] = "none" /\ \A q \in Pids : q < p => pstate[q] # "none"
  /\ IF Available < 2
       THEN Panic("exec")
       ELSE /\ pmem_stack' = Popped(2)
            /\ directory' = [directory EXCEPT ![p] = Top(1)]
            /\ tstate' = [tstate EXCEPT ![p][1] = "live"]
            /\ stackpt' = [stackpt EXCEPT ![p][1] = Top(2)]
            /\ pstate' = [pstate EXCEPT ![p] = "starting"]
            /\ UNCHANGED <<regions, userVars, stack, cpuVars, op, taken, panic>>

Segment == Program[op.p][op.want]
LoadsMore == op.want <= Len(Program[op.p])

\* pload_load_process, called by sched_pick_next.
LoadStart(p) ==
  /\ Idle
  /\ pstate[p] = "starting"
  /\ pstate' = [pstate EXCEPT ![p] = "loading"]
  /\ op' = [kind |-> "load", p |-> p, want |-> 1, old |-> 0]
  /\ cur' = Nobody
  /\ UNCHANGED <<pmem_stack, directory, regions, tstate, userVars, stackVars, cr3, taken,
                 panic>>

\* The frames of the segment are allocated first.
LoadTake ==
  /\ Doing("load")
  /\ LoadsMore
  /\ Len(taken) < Segment.count
  /\ IF Available = 0
       THEN Panic("load")
       ELSE /\ pmem_stack' = Popped(1)
            /\ taken' = Append(taken, Top(1))
            /\ UNCHANGED <<procVars, userVars, stackVars, cpuVars, op, panic>>

LoadTaken ==
  /\ Doing("load")
  /\ LoadsMore
  /\ Len(taken) = Segment.count
  /\ op' = [op EXCEPT !.kind = "map"]
  /\ UNCHANGED <<pmem_stack, procVars, userVars, stackVars, cpuVars, taken, panic>>

\* One iteration of vmm_map_pages_loc.
NextPage == Segment.first + Segment.count - Len(taken)

LoadMap ==
  LET p == op.p
      v == NextPage
      frames == IF NeedsTable(p, v) THEN 1 ELSE 0
  IN  /\ Doing("map")
      /\ taken # <<>>
      /\ page[p][v] = NoFrame
      /\ IF Available < frames
           THEN Panic("load")
           ELSE /\ pmem_stack' = Popped(frames)
                /\ MapPage(p, v, Head(taken), 1)
                /\ taken' = Tail(taken)
                /\ UNCHANGED <<procVars, brk, pgbrk, brk_offset, stackVars, cpuVars, op, panic>>

\* A page of the segment is mapped already: the loader returns, the frames
\* it holds are forgotten and the process stays "loading".
LoadFails ==
  /\ Doing("map")
  /\ taken # <<>>
  /\ page[op.p][NextPage] # NoFrame
  /\ op' = NoOp
  /\ taken' = <<>>
  /\ UNCHANGED <<pmem_stack, procVars, userVars, stackVars, cpuVars, panic>>

\* Faulty variant: the region lacks its last page.
RegionShort == [i \in 1..(Segment.count - 1) |-> Segment.first + i - 1]

\* The struct ps_region of the segment.
Region == [i \in 1..Segment.count |-> Segment.first + i - 1]

LoadMapped ==
  /\ Doing("map")
  /\ taken = <<>>
  /\ regions' = [regions EXCEPT ![op.p] = @ \o Region]
  /\ op' = [op EXCEPT !.kind = "load", !.want = @ + 1]
  /\ UNCHANGED <<pmem_stack, pstate, directory, tstate, userVars, stackVars, cpuVars, taken,
                 panic>>

\* end_allocated_data, rounded up to a page.
LoaderEnd(p) ==
  LET ends == {(Program[p][i].first + Program[p][i].count) * PageSize : i \in DOMAIN Program[p]}
  IN  IF ends = {} THEN 0 ELSE CHOOSE e \in ends : \A f \in ends : f <= e

LoadDone ==
  LET p == op.p
  IN  /\ Doing("load")
      /\ ~LoadsMore
      /\ brk' = [brk EXCEPT ![p] = LoaderEnd(p)]
      /\ pgbrk' = [pgbrk EXCEPT ![p] = LoaderEnd(p)]
      /\ pstate' = [pstate EXCEPT ![p] = "running"]
      /\ op' = NoOp
      /\ UNCHANGED <<pmem_stack, directory, regions, tstate, table, page, brk_offset,
                     stackVars, cpuVars, taken, panic>>

-----------------------------------------------------------------------------
(* Stacks: sched_user_fault and sched_fork_thread.                          *)

\* A frame for a page of the stacks that is not mapped, with op as it is then.
FaultIn(p, s, next, what) ==
  /\ stack[p][s] = NoFrame
  /\ IF Available = 0
       THEN Panic(what)
       ELSE /\ pmem_stack' = Popped(1)
            /\ stack' = [stack EXCEPT ![p][s] = Top(1)]
            /\ op' = next
            /\ UNCHANGED <<procVars, userVars, stackpt, cpuVars, taken, panic>>

StackFault(p, t) ==
  /\ InUser(p)
  /\ tstate[p][t] = "live"
  /\ \E k \in 1..MaxDepth : FaultIn(p, <<t, k>>, op, "stack")

\* The next thread of p.
NextThread(p, u) == tstate[p][u] = "none" /\ \A v \in Threads : v < u => tstate[p][v] # "none"

\* Thread u is created, with a frame for the page table of its stack; esp of thread
\* t says how many pages are to be copied.
ForkStart(p, t, u) ==
  /\ InUser(p)
  /\ tstate[p][t] = "live" /\ NextThread(p, u)
  /\ Available >= ForkReserve
  /\ \E pages \in 1..MaxDepth :
       IF Available = 0
         THEN Panic("fork")
         ELSE /\ pmem_stack' = Popped(1)
              /\ stackpt' = [stackpt EXCEPT ![p][u] = Top(1)]
              /\ tstate' = [tstate EXCEPT ![p][t] = "forking", ![p][u] = "new"]
              /\ op' = [kind |-> "fork", p |-> p, want |-> pages, old |-> 0]
              /\ UNCHANGED <<pstate, directory, regions, userVars, stack, cpuVars, taken, panic>>

\* Reading a page of t that is not mapped faults.
ForkRead(t) ==
  /\ Doing("fork")
  /\ op.want > 0
  /\ tstate[op.p][t] = "forking"
  /\ FaultIn(op.p, <<t, op.want>>, op, "fork")

\* So does writing the copy, always.
ForkWrite(t, u) ==
  /\ Doing("fork")
  /\ op.want > 0
  /\ tstate[op.p][t] = "forking" /\ tstate[op.p][u] = "new"
  /\ stack[op.p][<<t, op.want>>] # NoFrame
  /\ FaultIn(op.p, <<u, op.want>>, [op EXCEPT !.want = @ - 1], "fork")

ForkDone(t, u) ==
  /\ Doing("fork")
  /\ op.want = 0
  /\ tstate[op.p][t] = "forking" /\ tstate[op.p][u] = "new"
  /\ tstate' = [tstate EXCEPT ![op.p][t] = "live", ![op.p][u] = "live"]
  /\ op' = NoOp
  /\ UNCHANGED <<pmem_stack, pstate, directory, regions, userVars, stackVars, cpuVars, taken,
                 panic>>

-----------------------------------------------------------------------------
(* The end of a thread.                                                     *)

\* sched_exit_thread, or the end of its process.
Ended(p) == [t \in Threads |-> IF tstate[p][t] = "live" THEN "dead" ELSE tstate[p][t]]

ThreadExit(p, t) ==
  /\ InUser(p)
  /\ tstate[p][t] = "live"
  /\ tstate' = [tstate EXCEPT ![p][t] = "dead"]
  /\ cur' = Nobody
  /\ UNCHANGED <<pmem_stack, pstate, directory, regions, userVars, stackVars, cr3, op, taken,
                 panic>>

\* sched_pick_next frees the structure of a dead thread, which is where the frame of
\* its stack's page table is written down, and nothing else of it.
ThreadCollect(p, t) ==
  /\ Idle
  /\ tstate[p][t] = "dead"
  /\ tstate' = [tstate EXCEPT ![p][t] = "collected"]
  /\ cur' = Nobody
  /\ UNCHANGED <<pmem_stack, pstate, directory, regions, userVars, stackVars, cr3, op, taken,
                 panic>>

-----------------------------------------------------------------------------
(* The end of a process: sched_reap_process and sched_free_all.             *)

\* The threads die, the directory is freed, then the break is set back to the
\* loader's end.  What the write to the NULL thread of a collected one does (see
\* ReapNeverFaults in Sched) is left out: reaping goes on.
StartReap(p) ==
  LET end == pgbrk[p] - brk_offset[p]
  IN  /\ pmem_stack' = Append(pmem_stack, directory[p])
      /\ directory' = [directory EXCEPT ![p] = NoFrame]
      /\ pstate' = [pstate EXCEPT ![p] = "reaping"]
      /\ tstate' = [tstate EXCEPT ![p] = Ended(p)]
      /\ op' = [kind |-> IF end = 0 \/ end = pgbrk[p] THEN "regions" ELSE "shrink",
                p |-> p, want |-> end, old |-> pgbrk[p]]
      /\ UNCHANGED <<regions, userVars, stackVars, taken, panic>>

\* One iteration of the loop over psregions.
RegionPage ==
  LET p == op.p
  IN  /\ Doing("regions")
      /\ regions[p] # <<>>
      /\ ReleasePage(p, Head(regions[p]))
      /\ regions' = [regions EXCEPT ![p] = Tail(@)]
      /\ UNCHANGED <<pstate, directory, tstate, table, brk, pgbrk, brk_offset, stackVars,
                     cpuVars, op, taken, panic>>

ReapDone ==
  /\ Doing("regions")
  /\ regions[op.p] = <<>>
  /\ pstate' = [pstate EXCEPT ![op.p] = "gone"]
  /\ op' = NoOp
  /\ UNCHANGED <<pmem_stack, directory, regions, tstate, userVars, stackVars, cpuVars, taken,
                 panic>>

\* A process some thread waits for is kept.
Keep(p) ==
  /\ pstate' = [pstate EXCEPT ![p] = "exited"]
  /\ tstate' = [tstate EXCEPT ![p] = Ended(p)]
  /\ UNCHANGED <<pmem_stack, directory, regions, userVars, stackVars, op, taken, panic>>

\* The process exits, or is killed by an exception; waited says that a thread
\* waits for it.
Exit(p, waited) ==
  /\ Idle /\ cur = p /\ p \in Pids
  /\ cur' = Nobody
  /\ UNCHANGED cr3
  /\ IF waited THEN Keep(p) ELSE StartReap(p)

\* sched_kill_process by a thread of p.
Kill(p, q, waited) ==
  /\ InUser(p)
  /\ q # p /\ pstate[q] \notin {"none", "reaping", "gone"}
  /\ UNCHANGED cpuVars
  /\ IF waited THEN Keep(q) ELSE StartReap(q)

\* sched_check_waiting_thread: the waiter's process w is chosen to run, and
\* its directory is loaded when sched_pick_next returns.
Collect(p, w) ==
  /\ Idle
  /\ pstate[p] = "exited"
  /\ w # p /\ pstate[w] = "running"
  /\ StartReap(p)
  /\ cur' = w
  /\ cr3' = directory[w]

\* sched_pick_next returns a thread of p and irq_common_stub loads its cr3.
Resume(p) ==
  /\ Idle
  /\ pstate[p] \in {"loading", "running"}
  /\ p \in Pids => \E t \in Threads : tstate[p][t] = "live"
  /\ cur' = p
  /\ cr3' = directory[p]
  /\ UNCHANGED <<pmem_stack, procVars, userVars, stackVars, op, taken, panic>>

-----------------------------------------------------------------------------

Halted == panic # "none" /\ UNCHANGED vars

Next ==
  \/ \E p \in Pids :
       \/ \E want \in 1..(UserTop + PageSize) : BrkSamePages(p, want) \/ BrkStart(p, want)
       \/ Exec(p) \/ LoadStart(p)
       \/ \E t \in Threads :
            \/ StackFault(p, t) \/ ThreadExit(p, t) \/ ThreadCollect(p, t)
            \/ \E u \in Threads : ForkStart(p, t, u)
       \/ \E waited \in BOOLEAN : Exit(p, waited) \/ \E q \in Pids : Kill(p, q, waited)
       \/ \E w \in Procs : Collect(p, w)
  \/ \E p \in Procs : Resume(p)
  \/ GrowPage \/ GrowGivesUp \/ GrowDone \/ RollbackPage \/ RollbackDone
  \/ ShrinkPage \/ ShrinkDone
  \/ LoadTake \/ LoadTaken \/ LoadMap \/ LoadFails \/ LoadMapped \/ LoadDone
  \/ \E t \in Threads : ForkRead(t) \/ \E u \in Threads : ForkWrite(t, u) \/ ForkDone(t, u)
  \/ RegionPage \/ ReapDone
  \/ Halted

Spec == Init /\ [][Next]_vars

-----------------------------------------------------------------------------
(* What the page pool and the break must keep true.                         *)

PoolTypeOK ==
  /\ pmem_stack \in Seq(1..Frames)
  /\ directory \in [Procs -> 0..Frames]
  /\ table \in [Pids -> [Tables -> 0..Frames]]
  /\ page \in [Pids -> [Vpages -> 0..Frames]]
  /\ stackpt \in [Pids -> [Threads -> 0..Frames]]
  /\ stack \in [Pids -> [StackPages -> 0..Frames]]
  /\ taken \in Seq(1..Frames)
  /\ cr3 \in 1..Frames

BrkTypeOK ==
  /\ brk \in [Pids -> 0..UserTop]
  /\ pgbrk \in [Pids -> 0..UserTop]
  /\ brk_offset \in [Pids -> 0..UserTop]

StateTypeOK ==
  /\ pstate \in [Procs -> {"none", "starting", "loading", "running", "exited", "reaping", "gone"}]
  /\ regions \in [Pids -> Seq(Vpages)]
  /\ tstate \in [Pids -> [Threads -> {"none", "live", "forking", "new", "dead", "collected"}]]
  /\ cur \in Procs \cup {Nobody}
  /\ op \in [kind : {"none", "grow", "rollback", "shrink", "load", "map", "fork", "regions"},
             p : Pids \cup {Nobody}, want : Nat, old : 0..UserTop]
  /\ panic \in {"none", "brk", "exec", "load", "stack", "fork"}

\* Every variable has its C type; frames are frames of the machine, and the
\* break stays in user memory below the stacks.
TypeOK == PoolTypeOK /\ BrkTypeOK /\ StateTypeOK

\* The processes and threads that the kernel has a structure of.
Known == {p \in Pids : pstate[p] # "gone"}
Exists(p, t) == tstate[p][t] # "collected"

\* How many uses frame f has, being free included.
FrameUses(f) ==
  Cardinality({i \in DOMAIN pmem_stack : pmem_stack[i] = f})
  + Cardinality({i \in DOMAIN taken : taken[i] = f})
  + Cardinality({p \in Procs : directory[p] = f})
  + Cardinality({pk \in Known \X Tables : table[pk[1]][pk[2]] = f})
  + Cardinality({pv \in Known \X Vpages : page[pv[1]][pv[2]] = f})
  + Cardinality({pt \in Pids \X Threads : Exists(pt[1], pt[2]) /\ stackpt[pt[1]][pt[2]] = f})
  + Cardinality({ps \in Pids \X StackPages :
                   Exists(ps[1], ps[2][1]) /\ stack[ps[1]][ps[2]] = f})

\* What nobody frees: the page tables of a process, and the stack of a thread with
\* its page table.
LeftBehind(f) ==
  \E p \in Pids :
    \/ p \notin Known /\ \E k \in Tables : table[p][k] = f
    \/ \E t \in Threads : ~Exists(p, t) /\ stackpt[p][t] = f
    \/ \E s \in StackPages : ~Exists(p, s[1]) /\ stack[p][s] = f

\* The segments of p's file have no page in common.
LoadsCleanly(p) ==
  \A i, j \in DOMAIN Program[p] :
    i < j => \/ Program[p][i].first + Program[p][i].count <= Program[p][j].first
             \/ Program[p][j].first + Program[p][j].count <= Program[p][i].first

\* A load may have failed, and forgotten its frames.
LoadMayFail == \E p \in Pids : ~LoadsCleanly(p) /\ pstate[p] \notin {"none", "starting"}

\* However processes grow, shrink, roll back, load, fork, exit and are reaped, a
\* frame is free or has one use, never two: no page is freed twice and none is
\* handed out while mapped.  The frames lost are the page tables of the processes
\* that are gone and the stacks of the threads that were collected, each of them
\* (sched.c:672), and those of a load that has failed, and no other.
FramesOwnedOnce ==
  \A f \in 1..Frames :
    \/ FrameUses(f) = 1 /\ ~LeftBehind(f)
    \/ FrameUses(f) = 0 /\ (LeftBehind(f) \/ LoadMayFail)

\* The pages of p that are mapped below the stacks: its segments and its break.
MappedPages(p) == {v \in Vpages : page[p][v] # NoFrame}

MovingBrk(p) == op.p = p /\ op.kind \in {"grow", "rollback", "shrink"}

\* The lowest break p may ask for.
MinBrk(p) == (IF MovingBrk(p) THEN op.old ELSE pgbrk[p]) - brk_offset[p]

\* Through any series of breaks that succeed, fail half way and are rolled
\* back, a process has mapped the pages of its segments and the pages up to
\* its break and no other, and can go back to the loader's end and no lower.
BrkMatchesPages ==
  \A p \in Pids : pstate[p] = "running" =>
    /\ MinBrk(p) = LoaderEnd(p)
    /\ MappedPages(p) = Range(regions[p])
         \cup {v \in Vpages : MinBrk(p) <= v * PageSize /\ v * PageSize < pgbrk[p]}
    /\ ~MovingBrk(p) => RoundUp(brk[p]) = pgbrk[p]

\* "keep a reserve so pmm can't panic" (sched.c:334): growing the break never
\* finds the pool empty, and what it leaves is at most a page and a page table
\* below the reserve, however the pages lie in the tables.
BrkLeavesReserve ==
  /\ panic # "brk"
  /\ op.kind = "grow" /\ pgbrk[op.p] > op.old => Available >= BrkReserve - 2

\* A process that was loaded and is gone has given back every page of its segments
\* and of its break, whatever break it had and whatever failed on the way
\* (sched_free_all).  Its stacks, which are "memory used by the process in userspace"
\* too (sched.c:559), it has not: FramesOwnedOnce says that they are lost.
ReapReturnsPages ==
  \A p \in Pids : pstate[p] = "gone" /\ LoadsCleanly(p) => MappedPages(p) = {}

=============================================================================
