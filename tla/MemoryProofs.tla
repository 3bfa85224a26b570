---------------------------- MODULE MemoryProofs ----------------------------
(***************************************************************************)
(* Machine-checked proofs about Memory, for every number of frames, page   *)
(* and table size, set of processes and program, and every reserve of at   *)
(* least two frames.  MemoryInv is the inductive invariant of the counts   *)
(* and the break; PageInv adds which pages are mapped in each state of a   *)
(* process's life, and PlacedOnce that each frame is in one place, from    *)
(* which follows which frames are used and which are lost.                 *)
(***************************************************************************)
EXTENDS Memory, FiniteSetTheorems, WellFoundedInduction, TLAPS

Aligned(x) == \E k \in Nat : x = k * PageSize

\* A process that can be scheduled or reaped has a directory.
DirectoryHeld ==
  \A p \in Procs :
    pstate[p] \in {"starting", "loading", "running", "exited"} => directory[p] # NoFrame

\* The process that executes is one that can be scheduled.
CurHeld == cur \in Pids => pstate[cur] \in {"loading", "running"}

\* The break lies at a page boundary and above the loader's end.
BrkInv ==
  \A p \in Pids :
    /\ Aligned(pgbrk[p])
    /\ op.kind # "shrink" \/ op.p # p => brk_offset[p] <= pgbrk[p]
    /\ pstate[p] \in {"none", "starting", "loading"} => brk_offset[p] = 0

\* While the break grows or is rolled back.
GrowInv ==
  op.kind \in {"grow", "rollback"} =>
    /\ pstate[op.p] = "running"
    /\ Aligned(op.old)
    /\ brk_offset[op.p] <= op.old
    /\ op.old <= pgbrk[op.p]
    /\ pgbrk[op.p] <= RoundUp(op.want)
    /\ RoundUp(op.want) <= UserTop

\* While the break shrinks.
ShrinkInv ==
  op.kind = "shrink" =>
    /\ pstate[op.p] \in {"running", "reaping"}
    /\ brk_offset[op.p] <= op.old
    /\ op.old - brk_offset[op.p] <= op.want
    /\ RoundUp(op.want) <= pgbrk[op.p]
    /\ pgbrk[op.p] <= op.old

\* The process an operation works for, and its state.
OpInv ==
  /\ op.kind # "none" => op.p \in Pids
  /\ op.kind \in {"load", "map"} => pstate[op.p] = "loading"
  /\ op.kind = "fork" => pstate[op.p] = "running" /\ op.want \in 0..MaxDepth
  /\ op.kind = "regions" => pstate[op.p] = "reaping"

\* The segment the loader works on.
MapInv ==
  /\ op.kind = "load" => op.want # 0
  /\ op.kind = "map" => op.want \in DOMAIN Program[op.p]

MemoryInv ==
  /\ TypeOK
  /\ DirectoryHeld /\ CurHeld
  /\ BrkInv /\ GrowInv /\ ShrinkInv /\ BrkLeavesReserve
  /\ OpInv /\ MapInv

-----------------------------------------------------------------------------
(* Addresses.                                                               *)

\* Multiplication by a page size keeps the order.
LEMMA ProductOrder ==
  ASSUME NEW j \in Int, NEW k \in Int, NEW s \in Nat \ {0}
  PROVE  /\ j * s \in Int
         /\ (j + 1) * s = j * s + s
         /\ (j - 1) * s = j * s - s
         /\ j < k <=> j * s < k * s
         /\ j <= k <=> j * s <= k * s
  OBVIOUS

\* Division with remainder.
LEMMA Division ==
  ASSUME NEW a \in Nat, NEW s \in Nat \ {0}
  PROVE  /\ a \div s \in Nat
         /\ (a \div s) * s <= a
         /\ a < (a \div s) * s + s
         /\ a % s = 0 => a = (a \div s) * s
  OBVIOUS

\* A product divided by one factor is the other.
LEMMA DivisionExact ==
  ASSUME NEW k \in Nat, NEW s \in Nat \ {0}
  PROVE  (k * s) \div s = k
  OBVIOUS

\* RoundUp yields the first page boundary that is not below its argument.
LEMMA RoundUpFacts ==
  ASSUME NEW a \in Nat
  PROVE  /\ RoundUp(a) \in Nat /\ Aligned(RoundUp(a))
         /\ a <= RoundUp(a) /\ RoundUp(a) < a + PageSize
  <1> DEFINE k == (a + PageSize - 1) \div PageSize
  <1>1. PageSize \in Nat \ {0} /\ a + PageSize - 1 \in Nat
    BY MemoryAssumption
  <1>2. /\ k \in Nat /\ k * PageSize \in Int
        /\ k * PageSize <= a + PageSize - 1
        /\ a + PageSize - 1 < k * PageSize + PageSize
    BY <1>1, Division, ProductOrder
  <1>3. 0 * PageSize = 0 /\ 0 * PageSize <= k * PageSize
    BY <1>1, <1>2, ProductOrder
  <1>4. RoundUp(a) = k * PageSize
    BY DEF RoundUp
  <1> HIDE DEF k
  <1>5. QED
    BY <1>1, <1>2, <1>3, <1>4 DEF Aligned

\* Two page boundaries are a page apart.
LEMMA AlignedApart ==
  ASSUME NEW x \in Nat, NEW y \in Nat, Aligned(x), Aligned(y), x < y
  PROVE  /\ x + PageSize <= y
         /\ Aligned(x + PageSize)
         /\ y - PageSize \in Nat /\ Aligned(y - PageSize)
  <1>1. PageSize \in Nat \ {0}
    BY MemoryAssumption
  <1>2. PICK j \in Nat, k \in Nat : x = j * PageSize /\ y = k * PageSize
    BY DEF Aligned
  <1>3. j < k
    BY <1>1, <1>2, ProductOrder
  <1>4. /\ j + 1 \in Nat /\ k - 1 \in Nat /\ j + 1 <= k
        /\ (j + 1) * PageSize = x + PageSize
        /\ (k - 1) * PageSize = y - PageSize
    BY <1>1, <1>2, <1>3, ProductOrder
  <1>5. (j + 1) * PageSize <= k * PageSize
    BY <1>1, <1>4, ProductOrder
  <1>6. x + PageSize <= y
    BY <1>2, <1>4, <1>5
  <1>7. Aligned(x + PageSize)
    BY <1>4 DEF Aligned
  <1>8. Aligned(y - PageSize)
    BY <1>4 DEF Aligned
  <1>9. y - PageSize \in Nat
    BY <1>1, <1>6
  <1>10. QED
    BY <1>6, <1>7, <1>8, <1>9

\* RoundUp does not pass a page boundary.
LEMMA RoundUpLeast ==
  ASSUME NEW a \in Nat, NEW y \in Nat, Aligned(y), a <= y
  PROVE  RoundUp(a) <= y
  <1>1. SUFFICES ASSUME y < RoundUp(a)
                 PROVE  FALSE
    BY RoundUpFacts
  <1>2. y + PageSize <= RoundUp(a)
    BY <1>1, AlignedApart, RoundUpFacts
  <1>3. QED
    BY <1>2, RoundUpFacts, MemoryAssumption

\* A set of naturals with a bound has a largest element.
LEMMA MaxOfBounded ==
  ASSUME NEW I \in SUBSET Nat, I # {}, NEW b \in Nat, \A i \in I : i <= b
  PROVE  \E m \in I : \A i \in I : i <= m
  <1> DEFINE R == {ss \in Nat \X Nat : ss[1] < ss[2]}
             D == {b - i : i \in I}
  <1>1. IsWellFoundedOn(R, Nat)
    BY NatLessThanWellFounded DEF OpToRel
  <1>2. D \in SUBSET Nat /\ D # {}
    <2>1. ASSUME NEW i \in I
          PROVE  b - i \in Nat
      OBVIOUS
    <2>2. PICK i \in I : TRUE
      OBVIOUS
    <2>3. b - i \in D
      OBVIOUS
    <2>4. QED
      BY <2>1, <2>3
  <1> HIDE DEF R, D
  <1>3. \E x \in D : \A y \in D : ~ (<<y, x>> \in R)
    BY <1>1, <1>2, WFMin
  <1>4. PICK x \in D : \A y \in D : ~ (<<y, x>> \in R)
    BY <1>3
  <1>5. ASSUME NEW y \in D
        PROVE  x <= y
    <2>1. x \in Nat /\ y \in Nat
      BY <1>2
    <2>2. y < x => <<y, x>> \in R
      BY <2>1 DEF R
    <2>3. QED
      BY <1>4, <2>1, <2>2
  <1>6. PICK m \in I : x = b - m
    BY DEF D
  <1>7. ASSUME NEW i \in I
        PROVE  i <= m
    <2>1. b - i \in D
      BY DEF D
    <2>2. x <= b - i
      BY <1>5, <2>1
    <2>3. QED
      BY <1>6, <2>2
  <1>8. QED
    BY <1>7

\* Zero and the end of user memory are page boundaries.
LEMMA AlignedEnds == Aligned(0) /\ Aligned(UserTop)
  <1>1. 0 = 0 * PageSize
    BY MemoryAssumption, ProductOrder
  <1>2. UserTop \div PageSize \in Nat /\ UserTop = (UserTop \div PageSize) * PageSize
    BY MemoryAssumption, Division
  <1>3. QED
    BY <1>1, <1>2 DEF Aligned

\* The pages at and below a page boundary in user memory.
LEMMA PageOfAligned ==
  ASSUME NEW x \in Nat, Aligned(x), x <= UserTop
  PROVE  /\ PageOf(x) \in Nat
         /\ PageOf(x) * PageSize = x
         /\ x < UserTop => PageOf(x) \in Vpages
         /\ 0 < x => PageOf(x) - 1 \in Vpages
  <1> DEFINE n == UserTop \div PageSize
  <1>1. PageSize \in Nat \ {0} /\ UserTop \in Nat
    BY MemoryAssumption
  <1>2. n \in Nat /\ UserTop = n * PageSize
    BY <1>1, MemoryAssumption, Division
  <1>3. PICK k \in Nat : x = k * PageSize
    BY DEF Aligned
  <1>4. PageOf(x) = k
    BY <1>1, <1>3, DivisionExact DEF PageOf
  <1>5. Vpages = 0..(n - 1)
    BY DEF Vpages
  <1> HIDE DEF n
  <1>6. k <= n /\ (x < UserTop => k < n)
    BY <1>1, <1>2, <1>3, ProductOrder
  <1>7. 0 < x => 0 < k
    BY <1>1, <1>3
  <1>8. QED
    BY <1>2, <1>3, <1>4, <1>5, <1>6, <1>7

-----------------------------------------------------------------------------
(* Frames.                                                                  *)

\* What the stack operations of the pool do to a sequence.
LEMMA SequenceFacts ==
  ASSUME NEW S, NEW q \in Seq(S)
  PROVE  /\ Len(q) \in Nat
         /\ \A i \in 1..Len(q) : q[i] \in S
         /\ \A x \in S : Append(q, x) \in Seq(S) /\ Len(Append(q, x)) = Len(q) + 1
         /\ \A n \in 0..Len(q) : /\ SubSeq(q, 1, Len(q) - n) \in Seq(S)
                                 /\ Len(SubSeq(q, 1, Len(q) - n)) = Len(q) - n
         /\ q # <<>> => Head(q) \in S /\ Tail(q) \in Seq(S)
  <1>1. /\ Len(q) \in Nat
        /\ \A i \in 1..Len(q) : q[i] \in S
    OBVIOUS
  <1>2. \A x \in S : Append(q, x) \in Seq(S) /\ Len(Append(q, x)) = Len(q) + 1
    OBVIOUS
  <1>3. ASSUME NEW n \in 0..Len(q)
        PROVE  /\ SubSeq(q, 1, Len(q) - n) \in Seq(S)
               /\ Len(SubSeq(q, 1, Len(q) - n)) = Len(q) - n
    OBVIOUS
  <1>4. q # <<>> => Head(q) \in S /\ Tail(q) \in Seq(S)
    OBVIOUS
  <1>5. QED
    BY <1>1, <1>2, <1>3, <1>4

\* What one or two calls of pmm_alloc_page return and leave.
LEMMA PoppedFacts ==
  ASSUME pmem_stack \in Seq(1..Frames), NEW n \in 1..2, n <= Available
  PROVE  /\ Popped(n) \in Seq(1..Frames)
         /\ Len(Popped(n)) = Available - n
         /\ \A m \in 1..n : Top(m) \in 1..Frames
  <1>1. Len(pmem_stack) \in Nat /\ \A i \in 1..Len(pmem_stack) : pmem_stack[i] \in 1..Frames
    BY SequenceFacts
  <1>2. Popped(n) \in Seq(1..Frames) /\ Len(Popped(n)) = Available - n
    <2>1. n \in 0..Len(pmem_stack)
      BY <1>1 DEF Available
    <2>2. QED
      BY <2>1, SequenceFacts DEF Popped, Available
  <1>3. ASSUME NEW m \in 1..n
        PROVE  Top(m) \in 1..Frames
    <2>1. Available + 1 - m \in 1..Len(pmem_stack)
      BY <1>1 DEF Available
    <2>2. QED
      BY <1>1, <2>1 DEF Top
  <1>4. QED
    BY <1>2, <1>3

\* Mapping a frame, with a new page table if need be.
LEMMA MapPageType ==
  ASSUME PoolTypeOK, NEW p \in Pids, NEW v, NEW f \in 1..Frames, NEW n, MapPage(p, v, f, n),
         NeedsTable(p, v) => Top(n) \in 1..Frames
  PROVE  /\ table' \in [Pids -> [Tables -> 0..Frames]]
         /\ page' \in [Pids -> [Vpages -> 0..Frames]]
  <1>1. page' \in [Pids -> [Vpages -> 0..Frames]]
    <2>1. f \in 0..Frames
      OBVIOUS
    <2>2. [page[p] EXCEPT ![v] = f] \in [Vpages -> 0..Frames]
      BY <2>1 DEF PoolTypeOK
    <2>3. page' = [page EXCEPT ![p] = [page[p] EXCEPT ![v] = f]]
      BY DEF MapPage
    <2>4. QED
      BY <2>2, <2>3 DEF PoolTypeOK
  <1>2. table' \in [Pids -> [Tables -> 0..Frames]]
    <2> DEFINE k == TableOf(v)
               new == IF NeedsTable(p, v) THEN Top(n) ELSE table[p][k]
    <2>1. table' = [table EXCEPT ![p] = [table[p] EXCEPT ![k] = new]]
      BY DEF MapPage
    <2>2. k \in Tables => new \in 0..Frames
      BY DEF PoolTypeOK
    <2> HIDE DEF k, new
    <2>3. [table[p] EXCEPT ![k] = new] \in [Tables -> 0..Frames]
      <3>1. table[p] \in [Tables -> 0..Frames]
        BY DEF PoolTypeOK
      <3>2. QED
        BY <2>2, <3>1
    <2>4. QED
      BY <2>1, <2>3 DEF PoolTypeOK
  <1>3. QED
    BY <1>1, <1>2

\* Giving back the frame of a page.
LEMMA ReleasePageType ==
  ASSUME PoolTypeOK, NEW p \in Pids, NEW v \in Vpages, ReleasePage(p, v)
  PROVE  /\ pmem_stack' \in Seq(1..Frames)
         /\ page' \in [Pids -> [Vpages -> 0..Frames]]
  <1>1. page[p][v] \in 0..Frames
    BY DEF PoolTypeOK
  <1>2. page[p][v] # NoFrame => page[p][v] \in 1..Frames
    BY <1>1, MemoryAssumption DEF NoFrame
  <1>3. pmem_stack' \in Seq(1..Frames)
    <2>1. \A x \in 1..Frames : Append(pmem_stack, x) \in Seq(1..Frames)
      BY SequenceFacts DEF PoolTypeOK
    <2>2. QED
      BY <1>2, <2>1 DEF PoolTypeOK, ReleasePage
  <1>4. NoFrame \in 0..Frames
    BY MemoryAssumption DEF NoFrame
  <1>5. [page[p] EXCEPT ![v] = NoFrame] \in [Vpages -> 0..Frames]
    BY <1>4 DEF PoolTypeOK
  <1>6. page' = [page EXCEPT ![p] = [page[p] EXCEPT ![v] = NoFrame]]
    BY DEF ReleasePage
  <1>7. page' \in [Pids -> [Vpages -> 0..Frames]]
    BY <1>5, <1>6 DEF PoolTypeOK
  <1>8. QED
    BY <1>3, <1>7

\* The page below the break, which a rollback or a shrink releases.
LEMMA PageBelowBreak ==
  ASSUME MemoryInv, NEW p \in Pids, 0 < pgbrk[p]
  PROVE  PageOf(pgbrk[p]) - 1 \in Vpages
  <1>1. pgbrk[p] \in Nat /\ pgbrk[p] <= UserTop /\ Aligned(pgbrk[p])
    BY MemoryAssumption DEF MemoryInv, TypeOK, BrkTypeOK, BrkInv
  <1>2. QED
    BY <1>1, PageOfAligned

-----------------------------------------------------------------------------
(* Every operation preserves MemoryInv.                                     *)

USE DEF procVars, userVars, stackVars, cpuVars

\* The types and bounds of one process's break.
LEMMA BrkFacts ==
  ASSUME MemoryInv, NEW p \in Pids
  PROVE  /\ pgbrk[p] \in Nat /\ pgbrk[p] <= UserTop /\ Aligned(pgbrk[p])
         /\ brk[p] \in Nat /\ brk[p] <= UserTop
         /\ brk_offset[p] \in Nat /\ brk_offset[p] <= UserTop
         /\ PageSize \in Nat \ {0} /\ UserTop \in Nat \ {0}
  BY MemoryAssumption DEF MemoryInv, TypeOK, BrkTypeOK, BrkInv

\* The types of the operation under way.
LEMMA OpFacts ==
  ASSUME MemoryInv
  PROVE  /\ op = [kind |-> op.kind, p |-> op.p, want |-> op.want, old |-> op.old]
         /\ op.want \in Nat /\ op.old \in Nat /\ op.old <= UserTop
         /\ op.p \in Pids \cup {Nobody}
         /\ op.kind \in {"none", "grow", "rollback", "shrink", "load", "map", "fork", "regions"}
  BY MemoryAssumption DEF MemoryInv, TypeOK, StateTypeOK

\* The type of a new operation.
LEMMA NewOpType ==
  ASSUME MemoryInv,
         NEW kind \in {"none", "grow", "rollback", "shrink", "load", "map", "fork", "regions"},
         NEW p \in Pids \cup {Nobody}, NEW want \in Nat, NEW old \in Nat, old <= UserTop,
         op' = [kind |-> kind, p |-> p, want |-> want, old |-> old],
         UNCHANGED <<pstate, regions, tstate, cur, panic>>
  PROVE  StateTypeOK'
  <1>1. old \in 0..UserTop
    BY MemoryAssumption
  <1>2. op' \in [kind : {"none", "grow", "rollback", "shrink", "load", "map", "fork", "regions"},
                 p : Pids \cup {Nobody}, want : Nat, old : 0..UserTop]
    BY <1>1
  <1>3. QED
    BY <1>2 DEF MemoryInv, TypeOK, StateTypeOK

\* The life of one thread goes on, or of several of one process.
LEMMA ThreadType ==
  ASSUME MemoryInv, NEW p \in Pids,
         NEW states \in [Threads -> {"none", "live", "forking", "new", "dead", "collected"}],
         tstate' = [tstate EXCEPT ![p] = states]
  PROVE  tstate' \in [Pids -> [Threads -> {"none", "live", "forking", "new", "dead", "collected"}]]
  BY DEF MemoryInv, TypeOK, StateTypeOK

\* So when the life of one thread goes on.
LEMMA OneThreadType ==
  ASSUME MemoryInv, NEW p \in Pids, NEW t \in Threads,
         NEW state \in {"none", "live", "forking", "new", "dead", "collected"},
         tstate' = [tstate EXCEPT ![p][t] = state]
  PROVE  tstate' \in [Pids -> [Threads -> {"none", "live", "forking", "new", "dead", "collected"}]]
  <1>1. /\ tstate' = [tstate EXCEPT ![p] = [tstate[p] EXCEPT ![t] = state]]
        /\ [tstate[p] EXCEPT ![t] = state]
             \in [Threads -> {"none", "live", "forking", "new", "dead", "collected"}]
    BY DEF MemoryInv, TypeOK, StateTypeOK
  <1>2. QED
    BY <1>1, ThreadType

\* And of two threads.
LEMMA TwoThreadsType ==
  ASSUME MemoryInv, NEW p \in Pids, NEW t \in Threads, NEW u \in Threads,
         NEW a \in {"none", "live", "forking", "new", "dead", "collected"},
         NEW b \in {"none", "live", "forking", "new", "dead", "collected"},
         tstate' = [tstate EXCEPT ![p][t] = a, ![p][u] = b]
  PROVE  tstate' \in [Pids -> [Threads -> {"none", "live", "forking", "new", "dead", "collected"}]]
  <1>1. /\ tstate' = [tstate EXCEPT ![p] = [tstate[p] EXCEPT ![t] = a, ![u] = b]]
        /\ [tstate[p] EXCEPT ![t] = a, ![u] = b]
             \in [Threads -> {"none", "live", "forking", "new", "dead", "collected"}]
    BY DEF MemoryInv, TypeOK, StateTypeOK
  <1>2. QED
    BY <1>1, ThreadType

\* The threads of a process end.
LEMMA EndedType ==
  ASSUME MemoryInv, NEW p \in Pids, tstate' = [tstate EXCEPT ![p] = Ended(p)]
  PROVE  tstate' \in [Pids -> [Threads -> {"none", "live", "forking", "new", "dead", "collected"}]]
  <1>1. Ended(p) \in [Threads -> {"none", "live", "forking", "new", "dead", "collected"}]
    BY DEF MemoryInv, TypeOK, StateTypeOK, Ended
  <1>2. QED
    BY <1>1, ThreadType

\* A new page table for a stack.
LEMMA StackTableType ==
  ASSUME MemoryInv, NEW p \in Pids, NEW t \in Threads, NEW f \in 1..Frames,
         stackpt' = [stackpt EXCEPT ![p][t] = f]
  PROVE  stackpt' \in [Pids -> [Threads -> 0..Frames]]
  <1>1. f \in 0..Frames
    OBVIOUS
  <1>2. /\ stackpt' = [stackpt EXCEPT ![p] = [stackpt[p] EXCEPT ![t] = f]]
        /\ [stackpt[p] EXCEPT ![t] = f] \in [Threads -> 0..Frames]
    BY <1>1 DEF MemoryInv, TypeOK, PoolTypeOK
  <1>3. QED
    BY <1>2 DEF MemoryInv, TypeOK, PoolTypeOK

\* No frame changes hands.
LEMMA PoolUntouched ==
  ASSUME MemoryInv, UNCHANGED <<pmem_stack, directory, table, page, stackVars, taken, cr3>>
  PROVE  PoolTypeOK'
  BY DEF MemoryInv, TypeOK, PoolTypeOK

\* No break and no operation changes, and no process becomes unloaded.
LEMMA BrkUntouched ==
  ASSUME MemoryInv, UNCHANGED <<brk, pgbrk, brk_offset, op>>,
         \/ UNCHANGED pstate
         \/ op.kind = "none" /\ \E q \in Pids, s \in {"starting", "loading", "running", "exited"} :
              /\ pstate' = [pstate EXCEPT ![q] = s]
              /\ s \in {"starting", "loading"} => pstate[q] \in {"none", "starting", "loading"}
  PROVE  BrkTypeOK' /\ BrkInv' /\ GrowInv' /\ ShrinkInv' /\ OpInv' /\ MapInv'
  <1>1. BrkTypeOK'
    BY DEF MemoryInv, TypeOK, BrkTypeOK
  <1>2. \A p \in Pids : pstate'[p] \in {"none", "starting", "loading"}
                        => pstate[p] \in {"none", "starting", "loading"}
    BY DEF MemoryInv, TypeOK, StateTypeOK, Procs
  <1>3. BrkInv'
    BY <1>2 DEF MemoryInv, BrkInv, Aligned
  <1>4. GrowInv' /\ ShrinkInv'
    BY DEF MemoryInv, GrowInv, ShrinkInv, RoundUp
  <1>5. OpInv' /\ MapInv'
    BY DEF MemoryInv, OpInv, MapInv
  <1>6. QED
    BY <1>1, <1>3, <1>4, <1>5

\* pmm_alloc_page finds no free frame, but not for the break.
LEMMA PanicInv ==
  ASSUME MemoryInv, NEW what \in {"exec", "load", "stack", "fork"}, Panic(what), op.kind # "grow"
  PROVE  MemoryInv'
  <1>1. PoolTypeOK' /\ BrkTypeOK' /\ BrkInv' /\ GrowInv' /\ ShrinkInv' /\ OpInv' /\ MapInv'
    BY PoolUntouched, BrkUntouched DEF Panic
  <1>2. StateTypeOK' /\ DirectoryHeld' /\ CurHeld'
    BY DEF Panic, MemoryInv, TypeOK, StateTypeOK, DirectoryHeld, CurHeld
  <1>3. BrkLeavesReserve'
    BY DEF Panic, BrkLeavesReserve
  <1>4. QED
    BY <1>1, <1>2, <1>3 DEF MemoryInv, TypeOK

\* The break moves inside its page.
LEMMA BrkSamePagesInv ==
  ASSUME MemoryInv, NEW p \in Pids, NEW want \in 1..(UserTop + PageSize), BrkSamePages(p, want)
  PROVE  MemoryInv'
  <1>1. want \in Nat /\ want <= pgbrk[p]
    BY BrkFacts, RoundUpFacts DEF BrkSamePages
  <1>2. op.kind = "none"
    BY DEF BrkSamePages, InUser, Idle
  <1>3. PoolTypeOK'
    BY PoolUntouched DEF BrkSamePages
  <1>4. BrkTypeOK'
    BY <1>1, BrkFacts DEF MemoryInv, TypeOK, BrkTypeOK, BrkSamePages
  <1>5. StateTypeOK'
    BY MemoryAssumption DEF MemoryInv, TypeOK, StateTypeOK, BrkSamePages, InUser, Idle
  <1>6. DirectoryHeld' /\ CurHeld'
    BY DEF MemoryInv, TypeOK, PoolTypeOK, StateTypeOK, DirectoryHeld, CurHeld, BrkSamePages, InUser, Idle
  <1>7. BrkInv'
    BY DEF MemoryInv, TypeOK, StateTypeOK, BrkInv, OpInv, BrkSamePages, InUser, Idle
  <1>8. GrowInv' /\ ShrinkInv'
    BY DEF MemoryInv, GrowInv, ShrinkInv, OpInv, RoundUp, BrkSamePages, InUser, Idle
  <1>9. OpInv'
    BY DEF MemoryInv, TypeOK, StateTypeOK, OpInv, BrkSamePages, InUser, Idle
  <1>10. MapInv'
    BY DEF MemoryInv, TypeOK, StateTypeOK, MapInv, BrkSamePages, InUser, Idle
  <1>11. BrkLeavesReserve'
    BY <1>2 DEF MemoryInv, BrkLeavesReserve, Available, BrkSamePages
  <1>12. QED
    BY <1>3, <1>4, <1>5, <1>6, <1>7, <1>8, <1>9, <1>10, <1>11 DEF MemoryInv, TypeOK

\* A break that needs more or fewer pages.
LEMMA BrkStartInv ==
  ASSUME MemoryInv, NEW p \in Pids, NEW want \in 1..(UserTop + PageSize), BrkStart(p, want)
  PROVE  MemoryInv'
  <1>1. op.kind = "none" /\ pstate[p] = "running" /\ want \in Nat
    BY BrkFacts DEF BrkStart, InUser, Idle
  <1>2. PICK kind \in {"grow", "shrink"} :
          /\ op' = [kind |-> kind, p |-> p, want |-> want, old |-> pgbrk[p]]
          /\ kind = "grow" => pgbrk[p] < RoundUp(want)
          /\ kind = "shrink" => RoundUp(want) < pgbrk[p]
    BY BrkFacts DEF BrkStart
  <1>3. /\ UNCHANGED <<pmem_stack, procVars, userVars, stackVars, cpuVars, taken, panic>>
        /\ pgbrk[p] - brk_offset[p] <= want /\ RoundUp(want) <= UserTop
    BY BrkFacts DEF BrkStart, BrkAccepted
  <1>4. brk_offset[p] <= pgbrk[p]
    BY <1>1 DEF MemoryInv, BrkInv
  <1>5. PoolTypeOK'
    BY PoolUntouched DEF BrkStart
  <1>6. BrkTypeOK'
    BY DEF MemoryInv, TypeOK, BrkTypeOK, BrkStart
  <1>7. StateTypeOK'
    BY <1>2, <1>3, BrkFacts, NewOpType
  <1>8. DirectoryHeld' /\ CurHeld'
    BY DEF MemoryInv, TypeOK, PoolTypeOK, StateTypeOK, DirectoryHeld, CurHeld, BrkStart, InUser, Idle
  <1>9. BrkInv'
    BY <1>1, <1>3 DEF MemoryInv, BrkInv
  <1>10. GrowInv' /\ ShrinkInv'
    <2> DEFINE end == RoundUp(want)
    <2>1. RoundUp(op.want)' = end
      BY <1>2 DEF RoundUp
    <2>2. end \in Nat
      BY <1>1, RoundUpFacts
    <2> HIDE DEF end
    <2>3. end <= UserTop /\ (kind = "grow" => pgbrk[p] < end) /\ (kind = "shrink" => end < pgbrk[p])
      BY <1>2, <1>3 DEF end
    <2>4. QED
      BY <1>1, <1>2, <1>3, <1>4, <2>1, <2>2, <2>3, BrkFacts DEF GrowInv, ShrinkInv
  <1>11. OpInv'
    BY <1>1, <1>2, <1>3 DEF MemoryInv, OpInv
  <1>12. MapInv'
    BY <1>2 DEF MapInv
  <1>13. BrkLeavesReserve'
    BY <1>2, <1>3, BrkFacts DEF MemoryInv, BrkLeavesReserve, Available
  <1>14. QED
    BY <1>5, <1>6, <1>7, <1>8, <1>9, <1>10, <1>11, <1>12, <1>13 DEF MemoryInv, TypeOK

\* One page more; the reserve rules out an empty pool.
LEMMA GrowPageInv ==
  ASSUME MemoryInv, GrowPage
  PROVE  MemoryInv'
  <1> DEFINE p == op.p
             v == PageOf(pgbrk[p])
             frames == IF NeedsTable(p, v) THEN 2 ELSE 1
  <1>0. op.kind = "grow" /\ p \in Pids
    BY DEF GrowPage, Doing, MemoryInv, OpInv
  <1>1. /\ op.kind = "grow" /\ p \in Pids /\ pgbrk[p] < RoundUp(op.want)
        /\ BrkReserve <= Available /\ Available \in Nat
    <2>1. Available \in Nat
      BY SequenceFacts DEF MemoryInv, TypeOK, PoolTypeOK, Available
    <2>2. pgbrk[p] < RoundUp(op.want) /\ ~ (Available < BrkReserve)
      <3>1. pgbrk[p] < RoundUp(op.want) /\ ~GrowFails
        BY DEF GrowPage
      <3>2. QED
        BY <3>1 DEF GrowFails
    <2>3. QED
      BY <1>0, <2>1, <2>2, MemoryAssumption
  <1>2. /\ frames \in 1..2 /\ frames <= Available /\ Available \in Nat
        /\ BrkReserve - 2 <= Available - frames
    BY <1>1, MemoryAssumption
  <1>3. /\ pmem_stack' = Popped(frames) /\ MapPage(p, v, Top(1), 2)
        /\ pgbrk' = [pgbrk EXCEPT ![p] = @ + PageSize]
        /\ UNCHANGED <<procVars, brk, brk_offset, stackVars, cpuVars, op, taken, panic>>
    BY <1>2 DEF GrowPage
  <1>4. /\ Popped(frames) \in Seq(1..Frames) /\ Len(Popped(frames)) = Available - frames
        /\ \A m \in 1..frames : Top(m) \in 1..Frames
    BY <1>2, PoppedFacts DEF MemoryInv, TypeOK, PoolTypeOK
  <1>5. /\ op.old \in Nat /\ op.old <= pgbrk[p] /\ brk_offset[p] <= op.old
        /\ RoundUp(op.want) \in Nat /\ Aligned(RoundUp(op.want)) /\ RoundUp(op.want) <= UserTop
        /\ pstate[p] = "running"
    BY <1>1, OpFacts, RoundUpFacts DEF MemoryInv, GrowInv
  <1>6. pgbrk[p] + PageSize <= RoundUp(op.want) /\ Aligned(pgbrk[p] + PageSize)
    BY <1>1, <1>5, BrkFacts, AlignedApart
  <1> HIDE DEF p, v, frames
  <1>7. p = op.p
    BY DEF p
  <1>8. PoolTypeOK'
    <2>1. NeedsTable(p, v) => Top(2) \in 1..Frames
      BY <1>4 DEF frames
    <2>2. Top(1) \in 1..Frames
      BY <1>2, <1>4
    <2>3. /\ table' \in [Pids -> [Tables -> 0..Frames]]
          /\ page' \in [Pids -> [Vpages -> 0..Frames]]
      BY <1>1, <1>3, <1>7, <2>1, <2>2, MapPageType DEF MemoryInv, TypeOK
    <2>4. QED
      BY <1>3, <1>4, <2>3 DEF MemoryInv, TypeOK, PoolTypeOK
  <1>9. BrkTypeOK'
    <2>1. pgbrk[p] + PageSize \in 0..UserTop
      BY <1>1, <1>5, <1>6, <1>7, BrkFacts
    <2>2. QED
      BY <1>3, <2>1 DEF MemoryInv, TypeOK, BrkTypeOK
  <1>10. StateTypeOK'
    BY <1>3 DEF MemoryInv, TypeOK, StateTypeOK
  <1>11. DirectoryHeld' /\ CurHeld'
    BY <1>3 DEF MemoryInv, DirectoryHeld, CurHeld
  <1>12. BrkInv'
    <2> SUFFICES ASSUME NEW q \in Pids
                 PROVE  /\ Aligned(pgbrk'[q])
                        /\ brk_offset[q] <= pgbrk'[q]
                        /\ pstate[q] \in {"none", "starting", "loading"} => brk_offset[q] = 0
      BY <1>3 DEF BrkInv, Aligned
    <2>1. /\ brk_offset[q] <= pgbrk[q]
          /\ pstate[q] \in {"none", "starting", "loading"} => brk_offset[q] = 0
      BY <1>1 DEF MemoryInv, BrkInv
    <2>2. pgbrk'[q] = IF q = p THEN pgbrk[p] + PageSize ELSE pgbrk[q]
      BY <1>1, <1>3, <1>7 DEF MemoryInv, TypeOK, BrkTypeOK
    <2>3. QED
      BY <1>6, <1>7, <2>1, <2>2, BrkFacts
  <1>13. GrowInv' /\ ShrinkInv'
    <2>1. pgbrk'[p] = pgbrk[p] + PageSize
      BY <1>1, <1>3, <1>7 DEF MemoryInv, TypeOK, BrkTypeOK
    <2>2. op.old <= pgbrk'[p] /\ pgbrk'[p] <= RoundUp(op.want)
      BY <1>1, <1>5, <1>6, <1>7, <2>1, BrkFacts
    <2>3. RoundUp(op.want)' = RoundUp(op.want)
      BY <1>3 DEF RoundUp
    <2>4. Aligned(op.old)
      BY <1>1 DEF MemoryInv, GrowInv
    <2>5. QED
      BY <1>1, <1>3, <1>5, <1>7, <2>2, <2>3, <2>4 DEF GrowInv, ShrinkInv
  <1>14. OpInv'
    BY <1>3 DEF MemoryInv, OpInv
  <1>15. MapInv'
    BY <1>3 DEF MemoryInv, MapInv
  <1>16. BrkLeavesReserve'
    BY <1>2, <1>3, <1>4 DEF MemoryInv, BrkLeavesReserve, Available
  <1>17. QED
    BY <1>8, <1>9, <1>10, <1>11, <1>12, <1>13, <1>14, <1>15, <1>16 DEF MemoryInv, TypeOK

\* The loop gives up; the rollback begins.
LEMMA GrowGivesUpInv ==
  ASSUME MemoryInv, GrowGivesUp
  PROVE  MemoryInv'
  <1>1. PoolTypeOK'
    BY PoolUntouched DEF GrowGivesUp
  <1>2. BrkTypeOK'
    BY DEF MemoryInv, TypeOK, BrkTypeOK, GrowGivesUp
  <1>3. StateTypeOK'
    BY MemoryAssumption DEF MemoryInv, TypeOK, StateTypeOK, GrowGivesUp, Doing
  <1>4. DirectoryHeld' /\ CurHeld'
    BY DEF MemoryInv, TypeOK, PoolTypeOK, StateTypeOK, DirectoryHeld, CurHeld, GrowGivesUp, Doing
  <1>5. BrkInv'
    BY DEF MemoryInv, TypeOK, StateTypeOK, BrkInv, OpInv, GrowGivesUp, Doing
  <1>6. GrowInv' /\ ShrinkInv'
    BY DEF MemoryInv, GrowInv, ShrinkInv, OpInv, RoundUp, GrowGivesUp, Doing
  <1>7. OpInv'
    BY DEF MemoryInv, TypeOK, StateTypeOK, OpInv, GrowGivesUp, Doing
  <1>8. MapInv'
    BY DEF MemoryInv, TypeOK, StateTypeOK, MapInv, GrowGivesUp, Doing
  <1>9. BrkLeavesReserve'
    BY DEF MemoryInv, BrkLeavesReserve, Available, GrowGivesUp, Doing
  <1>10. QED
    BY <1>1, <1>2, <1>3, <1>4, <1>5, <1>6, <1>7, <1>8, <1>9 DEF MemoryInv, TypeOK

\* All pages are there.
LEMMA GrowDoneInv ==
  ASSUME MemoryInv, GrowDone
  PROVE  MemoryInv'
  <1> DEFINE p == op.p
  <1>1. op.kind = "grow" /\ p \in Pids /\ pgbrk[p] = RoundUp(op.want) /\ op.want \in Nat
    BY OpFacts DEF GrowDone, Doing, MemoryInv, OpInv
  <1>2. /\ op.old \in Nat /\ op.old <= pgbrk[p] /\ brk_offset[p] <= op.old /\ op.want <= pgbrk[p]
        /\ pstate[p] = "running"
    BY <1>1, OpFacts, RoundUpFacts DEF MemoryInv, GrowInv
  <1>3. /\ brk_offset' = [brk_offset EXCEPT ![p] = @ + (pgbrk[p] - op.old)]
        /\ brk' = [brk EXCEPT ![p] = op.want]
        /\ op' = NoOp
        /\ UNCHANGED <<pstate, pgbrk>>
    BY DEF GrowDone
  <1> HIDE DEF p
  <1>4. brk_offset[p] + (pgbrk[p] - op.old) \in 0..UserTop /\ op.want \in 0..UserTop
    BY <1>1, <1>2, BrkFacts
  <1>5. PoolTypeOK'
    BY PoolUntouched DEF GrowDone
  <1>6. BrkTypeOK'
    BY <1>3, <1>4 DEF MemoryInv, TypeOK, BrkTypeOK
  <1>7. StateTypeOK'
    BY MemoryAssumption DEF MemoryInv, TypeOK, StateTypeOK, GrowDone, Doing, NoOp
  <1>8. DirectoryHeld' /\ CurHeld'
    BY DEF MemoryInv, TypeOK, PoolTypeOK, StateTypeOK, DirectoryHeld, CurHeld, GrowDone, Doing, NoOp
  <1>9. BrkInv'
    <2> SUFFICES ASSUME NEW q \in Pids
                 PROVE  /\ brk_offset'[q] <= pgbrk[q]
                        /\ pstate[q] \in {"none", "starting", "loading"} => brk_offset'[q] = 0
      BY <1>3 DEF MemoryInv, BrkInv, Aligned
    <2>1. /\ brk_offset[q] <= pgbrk[q]
          /\ pstate[q] \in {"none", "starting", "loading"} => brk_offset[q] = 0
      BY <1>1 DEF MemoryInv, BrkInv
    <2>2. brk_offset'[q] = IF q = p THEN brk_offset[p] + (pgbrk[p] - op.old) ELSE brk_offset[q]
      BY <1>1, <1>3 DEF MemoryInv, TypeOK, BrkTypeOK
    <2>3. QED
      BY <1>1, <1>2, <2>1, <2>2, BrkFacts
  <1>10. GrowInv' /\ ShrinkInv'
    BY <1>3 DEF GrowInv, ShrinkInv, NoOp
  <1>11. OpInv'
    BY DEF MemoryInv, TypeOK, StateTypeOK, OpInv, GrowDone, Doing, NoOp
  <1>12. MapInv'
    BY DEF MemoryInv, TypeOK, StateTypeOK, MapInv, GrowDone, Doing, NoOp
  <1>13. BrkLeavesReserve'
    BY DEF MemoryInv, BrkLeavesReserve, Available, GrowDone, Doing, NoOp
  <1>14. QED
    BY <1>5, <1>6, <1>7, <1>8, <1>9, <1>10, <1>11, <1>12, <1>13 DEF MemoryInv, TypeOK

\* One page of the rollback.
LEMMA RollbackPageInv ==
  ASSUME MemoryInv, RollbackPage
  PROVE  MemoryInv'
  <1> DEFINE p == op.p
             low == RollbackEnd
  <1>1. op.kind = "rollback" /\ p \in Pids /\ low < pgbrk[p]
    BY DEF RollbackPage, Doing, MemoryInv, OpInv, GrowInv, RollbackEnd
  <1>2. low \in Nat /\ Aligned(low) /\ op.old \in Nat
    BY <1>1, OpFacts DEF MemoryInv, GrowInv, RollbackEnd
  <1>3. /\ ReleasePage(p, PageOf(pgbrk[p]) - 1)
        /\ pgbrk' = [pgbrk EXCEPT ![p] = @ - PageSize]
        /\ UNCHANGED <<procVars, table, brk, brk_offset, stackVars, cpuVars, op, taken, panic>>
    BY DEF RollbackPage
  <1> HIDE DEF p, low
  <1>4. p = op.p
    BY DEF p
  <1>5. /\ low + PageSize <= pgbrk[p]
        /\ pgbrk[p] - PageSize \in Nat /\ Aligned(pgbrk[p] - PageSize)
    BY <1>1, <1>2, BrkFacts, AlignedApart
  <1>6. pgbrk'[p] = pgbrk[p] - PageSize
    BY <1>1, <1>3 DEF MemoryInv, TypeOK, BrkTypeOK
  <1>7. PoolTypeOK'
    <2>1. PageOf(pgbrk[p]) - 1 \in Vpages
      BY <1>1, <1>2, BrkFacts, PageBelowBreak
    <2>2. /\ pmem_stack' \in Seq(1..Frames)
          /\ page' \in [Pids -> [Vpages -> 0..Frames]]
      BY <1>1, <1>3, <2>1, ReleasePageType DEF MemoryInv, TypeOK
    <2>3. QED
      BY <1>3, <2>2 DEF MemoryInv, TypeOK, PoolTypeOK
  <1>8. BrkTypeOK'
    <2>1. pgbrk[p] - PageSize \in 0..UserTop
      BY <1>1, <1>5, BrkFacts
    <2>2. QED
      BY <1>3, <2>1 DEF MemoryInv, TypeOK, BrkTypeOK
  <1>9. StateTypeOK'
    BY <1>3 DEF MemoryInv, TypeOK, StateTypeOK
  <1>10. DirectoryHeld' /\ CurHeld'
    BY <1>3 DEF MemoryInv, DirectoryHeld, CurHeld
  <1>11. BrkInv'
    <2> SUFFICES ASSUME NEW q \in Pids
                 PROVE  /\ Aligned(pgbrk'[q])
                        /\ op.kind # "shrink" \/ op.p # q => brk_offset[q] <= pgbrk'[q]
                        /\ pstate[q] \in {"none", "starting", "loading"} => brk_offset[q] = 0
      BY <1>3 DEF BrkInv, Aligned
    <2>1. CASE q # p
      BY <1>1, <1>3, <2>1 DEF MemoryInv, TypeOK, BrkTypeOK, BrkInv
    <2>2. CASE q = p
      <3>1. brk_offset[p] <= op.old
        BY <1>1, <1>4 DEF MemoryInv, GrowInv
      <3>2. brk_offset[p] <= pgbrk'[p]
        BY <1>1, <1>2, <1>5, <1>6, <3>1, BrkFacts DEF low, RollbackEnd
      <3>3. QED
        BY <1>1, <1>5, <1>6, <2>2, <3>2 DEF MemoryInv, BrkInv
    <2>3. QED
      BY <2>1, <2>2
  <1>12. GrowInv' /\ ShrinkInv'
    <2>1. low <= pgbrk'[p] /\ pgbrk'[p] <= pgbrk[p]
      BY <1>1, <1>2, <1>5, <1>6, BrkFacts
    <2>2. /\ pgbrk[p] <= RoundUp(op.want) /\ RoundUp(op.want) \in Nat /\ RoundUp(op.want) <= UserTop
          /\ pstate[p] = "running" /\ Aligned(op.old) /\ brk_offset[p] <= op.old
      BY <1>1, <1>4, OpFacts, RoundUpFacts DEF MemoryInv, GrowInv
    <2>3. RoundUp(op.want)' = RoundUp(op.want)
      BY <1>3 DEF RoundUp
    <2>4. pgbrk'[p] <= RoundUp(op.want)
      BY <1>1, <1>5, <1>6, <2>1, <2>2, BrkFacts
    <2>5. QED
      BY <1>1, <1>3, <1>4, <2>1, <2>2, <2>3, <2>4 DEF GrowInv, ShrinkInv, low, RollbackEnd
  <1>13. OpInv'
    BY <1>3 DEF MemoryInv, OpInv
  <1>14. MapInv'
    BY <1>3 DEF MemoryInv, MapInv
  <1>15. BrkLeavesReserve'
    BY <1>1, <1>3, <1>4 DEF MemoryInv, BrkLeavesReserve
  <1>16. QED
    BY <1>7, <1>8, <1>9, <1>10, <1>11, <1>12, <1>13, <1>14, <1>15 DEF MemoryInv, TypeOK

\* brk returns the old break.
LEMMA RollbackDoneInv ==
  ASSUME MemoryInv, RollbackDone
  PROVE  MemoryInv'
  <1>1. PoolTypeOK'
    BY PoolUntouched DEF RollbackDone
  <1>2. BrkTypeOK'
    BY DEF MemoryInv, TypeOK, BrkTypeOK, RollbackDone
  <1>3. StateTypeOK'
    BY MemoryAssumption DEF MemoryInv, TypeOK, StateTypeOK, RollbackDone, Doing, NoOp
  <1>4. DirectoryHeld' /\ CurHeld'
    BY DEF MemoryInv, TypeOK, PoolTypeOK, StateTypeOK, DirectoryHeld, CurHeld, RollbackDone, Doing, NoOp
  <1>5. BrkInv'
    BY DEF MemoryInv, TypeOK, StateTypeOK, BrkInv, OpInv, RollbackDone, Doing, NoOp
  <1>6. GrowInv' /\ ShrinkInv'
    BY DEF MemoryInv, GrowInv, ShrinkInv, OpInv, RoundUp, RollbackDone, Doing, NoOp
  <1>7. OpInv'
    BY DEF MemoryInv, TypeOK, StateTypeOK, OpInv, RollbackDone, Doing, NoOp
  <1>8. MapInv'
    BY DEF MemoryInv, TypeOK, StateTypeOK, MapInv, RollbackDone, Doing, NoOp
  <1>9. BrkLeavesReserve'
    BY DEF MemoryInv, BrkLeavesReserve, Available, RollbackDone, Doing, NoOp
  <1>10. QED
    BY <1>1, <1>2, <1>3, <1>4, <1>5, <1>6, <1>7, <1>8, <1>9 DEF MemoryInv, TypeOK

\* One page less.
LEMMA ShrinkPageInv ==
  ASSUME MemoryInv, ShrinkPage
  PROVE  MemoryInv'
  <1> DEFINE p == op.p
             low == RoundUp(op.want)
  <1>1. op.kind = "shrink" /\ p \in Pids /\ low < pgbrk[p]
    BY DEF ShrinkPage, Doing, MemoryInv, OpInv
  <1>2. low \in Nat /\ Aligned(low) /\ op.old \in Nat
    BY <1>1, OpFacts, RoundUpFacts DEF MemoryInv, GrowInv
  <1>3. /\ ReleasePage(p, PageOf(pgbrk[p]) - 1)
        /\ pgbrk' = [pgbrk EXCEPT ![p] = @ - PageSize]
        /\ UNCHANGED <<procVars, table, brk, brk_offset, stackVars, cpuVars, op, taken, panic>>
    BY DEF ShrinkPage
  <1> HIDE DEF p, low
  <1>4. p = op.p
    BY DEF p
  <1>5. /\ low + PageSize <= pgbrk[p]
        /\ pgbrk[p] - PageSize \in Nat /\ Aligned(pgbrk[p] - PageSize)
    BY <1>1, <1>2, BrkFacts, AlignedApart
  <1>6. pgbrk'[p] = pgbrk[p] - PageSize
    BY <1>1, <1>3 DEF MemoryInv, TypeOK, BrkTypeOK
  <1>7. PoolTypeOK'
    <2>1. PageOf(pgbrk[p]) - 1 \in Vpages
      BY <1>1, <1>2, BrkFacts, PageBelowBreak
    <2>2. /\ pmem_stack' \in Seq(1..Frames)
          /\ page' \in [Pids -> [Vpages -> 0..Frames]]
      BY <1>1, <1>3, <2>1, ReleasePageType DEF MemoryInv, TypeOK
    <2>3. QED
      BY <1>3, <2>2 DEF MemoryInv, TypeOK, PoolTypeOK
  <1>8. BrkTypeOK'
    <2>1. pgbrk[p] - PageSize \in 0..UserTop
      BY <1>1, <1>5, BrkFacts
    <2>2. QED
      BY <1>3, <2>1 DEF MemoryInv, TypeOK, BrkTypeOK
  <1>9. StateTypeOK'
    BY <1>3 DEF MemoryInv, TypeOK, StateTypeOK
  <1>10. DirectoryHeld' /\ CurHeld'
    BY <1>3 DEF MemoryInv, DirectoryHeld, CurHeld
  <1>11. BrkInv'
    <2> SUFFICES ASSUME NEW q \in Pids
                 PROVE  /\ Aligned(pgbrk'[q])
                        /\ op.kind # "shrink" \/ op.p # q => brk_offset[q] <= pgbrk'[q]
                        /\ pstate[q] \in {"none", "starting", "loading"} => brk_offset[q] = 0
      BY <1>3 DEF BrkInv, Aligned
    <2>1. CASE q # p
      BY <1>1, <1>3, <2>1 DEF MemoryInv, TypeOK, BrkTypeOK, BrkInv
    <2>2. CASE q = p
      BY <1>1, <1>4, <1>5, <1>6, <2>2 DEF MemoryInv, BrkInv
    <2>3. QED
      BY <2>1, <2>2
  <1>12. GrowInv' /\ ShrinkInv'
    <2>1. low <= pgbrk'[p] /\ pgbrk'[p] <= pgbrk[p]
      BY <1>1, <1>2, <1>5, <1>6, BrkFacts
    <2>2. /\ pgbrk[p] <= op.old /\ brk_offset[p] <= op.old /\ op.old - brk_offset[p] <= op.want
          /\ pstate[p] \in {"running", "reaping"}
      BY <1>1, <1>4 DEF MemoryInv, ShrinkInv
    <2>3. RoundUp(op.want)' = low
      BY <1>3 DEF RoundUp, low
    <2>4. pgbrk'[p] <= op.old
      BY <1>1, <1>2, <1>5, <1>6, <2>1, <2>2, BrkFacts
    <2>5. QED
      BY <1>1, <1>3, <1>4, <2>1, <2>2, <2>3, <2>4 DEF GrowInv, ShrinkInv
  <1>13. OpInv'
    BY <1>3 DEF MemoryInv, OpInv
  <1>14. MapInv'
    BY <1>3 DEF MemoryInv, MapInv
  <1>15. BrkLeavesReserve'
    BY <1>1, <1>3, <1>4 DEF MemoryInv, BrkLeavesReserve
  <1>16. QED
    BY <1>7, <1>8, <1>9, <1>10, <1>11, <1>12, <1>13, <1>14, <1>15 DEF MemoryInv, TypeOK

\* The break has come down; a process being reaped goes on.
LEMMA ShrinkDoneInv ==
  ASSUME MemoryInv, ShrinkDone
  PROVE  MemoryInv'
  <1> DEFINE p == op.p
  <1>1. op.kind = "shrink" /\ p \in Pids /\ pgbrk[p] = RoundUp(op.want) /\ op.want \in Nat
    BY OpFacts DEF ShrinkDone, Doing, MemoryInv, OpInv
  <1>2. /\ op.old \in Nat /\ pgbrk[p] <= op.old /\ brk_offset[p] <= op.old
        /\ op.old - brk_offset[p] <= op.want /\ op.want <= pgbrk[p]
        /\ pstate[p] \in {"running", "reaping"}
    BY <1>1, OpFacts, RoundUpFacts DEF MemoryInv, ShrinkInv
  <1>3. /\ brk_offset' = [brk_offset EXCEPT ![p] = @ - (op.old - pgbrk[p])]
        /\ brk' = [brk EXCEPT ![p] = op.want]
        /\ UNCHANGED <<pmem_stack, procVars, pgbrk, stackVars, cpuVars, panic>>
    BY DEF ShrinkDone
  <1>4. op' \in {NoOp, [op EXCEPT !.kind = "regions"]}
        /\ (op' # NoOp => pstate[p] = "reaping")
    BY DEF ShrinkDone
  <1>5. op'.kind \in {"none", "regions"} /\ (op'.kind = "regions" => op'.p = p /\ pstate[p] = "reaping")
    BY <1>4, OpFacts DEF NoOp
  <1> HIDE DEF p
  <1>6. brk_offset[p] - (op.old - pgbrk[p]) \in 0..UserTop /\ op.want \in 0..UserTop
    BY <1>1, <1>2, BrkFacts
  <1>7. PoolTypeOK'
    BY PoolUntouched DEF ShrinkDone
  <1>8. BrkTypeOK'
    BY <1>1, <1>3, <1>6 DEF MemoryInv, TypeOK, BrkTypeOK
  <1>9. StateTypeOK'
    <2> DEFINE Ops == [kind : {"none", "grow", "rollback", "shrink", "load", "map", "fork", "regions"},
                       p : Pids \cup {Nobody}, want : Nat, old : 0..UserTop]
    <2>1. 0 \in 0..UserTop
      BY MemoryAssumption
    <2>2. NoOp \in Ops
      BY <2>1 DEF NoOp
    <2>3. [op EXCEPT !.kind = "regions"] \in Ops
      BY DEF MemoryInv, TypeOK, StateTypeOK
    <2>4. op' \in Ops
      BY <1>4, <2>2, <2>3
    <2>5. QED
      BY <1>3, <2>4 DEF MemoryInv, TypeOK, StateTypeOK
  <1>10. DirectoryHeld' /\ CurHeld'
    BY DEF MemoryInv, TypeOK, PoolTypeOK, StateTypeOK, DirectoryHeld, CurHeld, ShrinkDone, Doing, NoOp
  <1>11. BrkInv'
    <2> SUFFICES ASSUME NEW q \in Pids
                 PROVE  /\ brk_offset'[q] <= pgbrk[q]
                        /\ pstate[q] \in {"none", "starting", "loading"} => brk_offset'[q] = 0
      BY <1>3 DEF MemoryInv, BrkInv, Aligned
    <2>1. CASE q # p
      BY <1>3, <2>1 DEF MemoryInv, TypeOK, BrkTypeOK, BrkInv, p
    <2>2. CASE q = p
      <3>1. brk_offset'[p] = brk_offset[p] - (op.old - pgbrk[p])
        BY <1>1, <1>3 DEF MemoryInv, TypeOK, BrkTypeOK
      <3>2. QED
        BY <1>1, <1>2, <2>2, <3>1, BrkFacts
    <2>3. QED
      BY <2>1, <2>2
  <1>12. GrowInv' /\ ShrinkInv'
    BY <1>5 DEF GrowInv, ShrinkInv
  <1>13. OpInv'
    BY <1>1, <1>3, <1>5 DEF OpInv
  <1>14. MapInv'
    BY <1>5 DEF MapInv
  <1>15. BrkLeavesReserve'
    BY <1>3, <1>5 DEF MemoryInv, BrkLeavesReserve
  <1>16. QED
    BY <1>7, <1>8, <1>9, <1>10, <1>11, <1>12, <1>13, <1>14, <1>15 DEF MemoryInv, TypeOK

\* A process is created: its directory and the table of its first stack.
LEMMA ExecInv ==
  ASSUME MemoryInv, NEW p \in Pids, Exec(p)
  PROVE  MemoryInv'
  <1>1. CASE Available < 2
    BY <1>1, PanicInv DEF Exec, Doing, Idle, InUser
  <1>2. SUFFICES ASSUME ~ (Available < 2)
                 PROVE  MemoryInv'
    BY <1>1
  <1>3. Available \in Nat
    BY SequenceFacts DEF MemoryInv, TypeOK, PoolTypeOK, Available
  <1>4. /\ Popped(2) \in Seq(1..Frames)
        /\ \A m \in 1..2 : Top(m) \in 1..Frames
    BY <1>2, <1>3, PoppedFacts DEF MemoryInv, TypeOK, PoolTypeOK
  <1>5. /\ pmem_stack' = Popped(2)
        /\ directory' = [directory EXCEPT ![p] = Top(1)]
        /\ tstate' = [tstate EXCEPT ![p][1] = "live"]
        /\ stackpt' = [stackpt EXCEPT ![p][1] = Top(2)]
        /\ pstate' = [pstate EXCEPT ![p] = "starting"]
        /\ UNCHANGED <<regions, userVars, stack, cpuVars, op, taken, panic>>
        /\ op.kind = "none" /\ pstate[p] = "none"
    BY <1>2 DEF Exec, Idle
  <1>0. 1 \in Threads
    BY MemoryAssumption DEF Threads
  <1>6. Top(1) \in 1..Frames /\ Top(2) \in 1..Frames
    BY <1>4
  <1>7. BrkTypeOK' /\ BrkInv' /\ GrowInv' /\ ShrinkInv' /\ OpInv' /\ MapInv'
    BY <1>5, BrkUntouched
  <1>8. PoolTypeOK'
    <2>1. directory' \in [Procs -> 0..Frames]
      BY <1>5, <1>6, MemoryAssumption DEF MemoryInv, TypeOK, PoolTypeOK, Procs
    <2>2. stackpt' \in [Pids -> [Threads -> 0..Frames]]
      BY <1>0, <1>5, <1>6, StackTableType
    <2>3. QED
      BY <1>4, <1>5, <2>1, <2>2 DEF MemoryInv, TypeOK, PoolTypeOK
  <1>9. StateTypeOK'
    <2>1. tstate' \in [Pids -> [Threads -> {"none", "live", "forking", "new", "dead", "collected"}]]
      BY <1>0, <1>5, OneThreadType
    <2>2. QED
      BY <1>5, <2>1 DEF MemoryInv, TypeOK, StateTypeOK
  <1>10. DirectoryHeld' /\ CurHeld'
    <2>1. Top(1) # NoFrame
      BY <1>6, MemoryAssumption DEF NoFrame
    <2>2. QED
      BY <1>5, <2>1 DEF MemoryInv, TypeOK, PoolTypeOK, StateTypeOK, DirectoryHeld, CurHeld
  <1>11. BrkLeavesReserve'
    BY <1>5 DEF MemoryInv, BrkLeavesReserve
  <1>12. QED
    BY <1>7, <1>8, <1>9, <1>10, <1>11 DEF MemoryInv, TypeOK

\* sched_pick_next hands a starting process to the loader.
LEMMA LoadStartInv ==
  ASSUME MemoryInv, NEW p \in Pids, LoadStart(p)
  PROVE  MemoryInv'
  <1>1. /\ op.kind = "none" /\ pstate[p] = "starting"
        /\ pstate' = [pstate EXCEPT ![p] = "loading"]
        /\ op' = [kind |-> "load", p |-> p, want |-> 1, old |-> 0]
        /\ cur' = Nobody
        /\ UNCHANGED <<pmem_stack, directory, regions, tstate, userVars, stackVars, cr3, taken,
                       panic>>
    BY DEF LoadStart, Idle
  <1>2. pstate'[p] = "loading"
    BY <1>1 DEF MemoryInv, TypeOK, StateTypeOK, Procs
  <1>3. PoolTypeOK'
    BY PoolUntouched DEF LoadStart
  <1>4. BrkTypeOK'
    BY DEF MemoryInv, TypeOK, BrkTypeOK, LoadStart
  <1>5. StateTypeOK'
    <2>1. 0 \in 0..UserTop
      BY MemoryAssumption
    <2>2. QED
      BY <1>1, <2>1 DEF MemoryInv, TypeOK, StateTypeOK
  <1>6. DirectoryHeld' /\ CurHeld'
    BY <1>1, MemoryAssumption DEF MemoryInv, TypeOK, StateTypeOK, DirectoryHeld, CurHeld, Nobody
  <1>7. BrkInv'
    BY DEF MemoryInv, TypeOK, StateTypeOK, BrkInv, OpInv, LoadStart, Idle
  <1>8. GrowInv' /\ ShrinkInv'
    BY <1>1 DEF GrowInv, ShrinkInv
  <1>9. OpInv'
    BY <1>1, <1>2 DEF OpInv
  <1>10. MapInv'
    BY DEF MemoryInv, TypeOK, StateTypeOK, MapInv, LoadStart, Idle
  <1>11. BrkLeavesReserve'
    BY <1>1 DEF MemoryInv, BrkLeavesReserve
  <1>12. QED
    BY <1>3, <1>4, <1>5, <1>6, <1>7, <1>8, <1>9, <1>10, <1>11 DEF MemoryInv, TypeOK

\* The loader takes a frame.
LEMMA LoadTakeInv ==
  ASSUME MemoryInv, LoadTake
  PROVE  MemoryInv'
  <1>1. CASE Available = 0
    BY <1>1, PanicInv DEF LoadTake, Doing, Idle, InUser
  <1>2. SUFFICES ASSUME ~ (Available = 0)
                 PROVE  MemoryInv'
    BY <1>1
  <1>3. Available \in Nat
    BY SequenceFacts DEF MemoryInv, TypeOK, PoolTypeOK, Available
  <1>4. /\ Popped(1) \in Seq(1..Frames)
        /\ \A m \in 1..1 : Top(m) \in 1..Frames
    BY <1>2, <1>3, PoppedFacts DEF MemoryInv, TypeOK, PoolTypeOK
  <1>5. /\ pmem_stack' = Popped(1)
        /\ taken' = Append(taken, Top(1))
        /\ UNCHANGED <<procVars, userVars, stackVars, cpuVars, op, panic>>
        /\ op.kind = "load"
    BY <1>2 DEF LoadTake, Doing
  <1>6. Append(taken, Top(1)) \in Seq(1..Frames)
    <2>1. Top(1) \in 1..Frames
      BY <1>4
    <2>2. QED
      BY <2>1, SequenceFacts DEF MemoryInv, TypeOK, PoolTypeOK
  <1>7. BrkTypeOK' /\ BrkInv' /\ GrowInv' /\ ShrinkInv' /\ OpInv' /\ MapInv'
    BY <1>5, BrkUntouched
  <1>8. PoolTypeOK'
    BY <1>4, <1>5, <1>6 DEF MemoryInv, TypeOK, PoolTypeOK
  <1>9. StateTypeOK'
    BY <1>5 DEF MemoryInv, TypeOK, StateTypeOK
  <1>10. DirectoryHeld' /\ CurHeld'
    BY <1>5 DEF MemoryInv, DirectoryHeld, CurHeld
  <1>11. BrkLeavesReserve'
    BY <1>5 DEF MemoryInv, BrkLeavesReserve
  <1>12. QED
    BY <1>7, <1>8, <1>9, <1>10, <1>11 DEF MemoryInv, TypeOK

\* The segments of a file are user pages.
LEMMA ProgramFacts ==
  ASSUME NEW p \in Pids
  PROVE  /\ DOMAIN Program[p] = 1..Len(Program[p]) /\ Len(Program[p]) \in Nat
         /\ \A i \in DOMAIN Program[p] :
              /\ Program[p][i].first \in Nat /\ Program[p][i].count \in Nat \ {0}
              /\ Program[p][i].first + Program[p][i].count <= UserTop \div PageSize
  <1> DEFINE S == [first : Vpages, count : Nat \ {0}]
  <1>1. Program[p] \in Seq(S)
    BY MemoryAssumption
  <1>2. \A q \in S : q.first \in Nat /\ q.count \in Nat \ {0}
    BY DEF Vpages
  <1> HIDE DEF S
  <1>3. /\ DOMAIN Program[p] = 1..Len(Program[p]) /\ Len(Program[p]) \in Nat
        /\ \A i \in 1..Len(Program[p]) : Program[p][i] \in S
    BY <1>1
  <1>4. QED
    BY <1>2, <1>3, MemoryAssumption

\* All frames of the segment are taken.
LEMMA LoadTakenInv ==
  ASSUME MemoryInv, LoadTaken
  PROVE  MemoryInv'
  <1>1. PoolTypeOK'
    BY PoolUntouched DEF LoadTaken
  <1>2. BrkTypeOK'
    BY DEF MemoryInv, TypeOK, BrkTypeOK, LoadTaken
  <1>3. StateTypeOK'
    BY MemoryAssumption DEF MemoryInv, TypeOK, StateTypeOK, LoadTaken, Doing
  <1>4. DirectoryHeld' /\ CurHeld'
    BY DEF MemoryInv, TypeOK, PoolTypeOK, StateTypeOK, DirectoryHeld, CurHeld, LoadTaken, Doing
  <1>5. BrkInv'
    BY DEF MemoryInv, TypeOK, StateTypeOK, BrkInv, OpInv, LoadTaken, Doing
  <1>6. GrowInv' /\ ShrinkInv'
    BY DEF MemoryInv, GrowInv, ShrinkInv, OpInv, RoundUp, LoadTaken, Doing
  <1>7. OpInv'
    BY DEF MemoryInv, TypeOK, StateTypeOK, OpInv, LoadTaken, Doing
  <1>8. MapInv'
    <2>1. /\ op.kind = "load" /\ op' = [op EXCEPT !.kind = "map"]
          /\ op.want <= Len(Program[op.p]) /\ op.p \in Pids /\ op.want \in Nat \ {0}
      BY OpFacts DEF MemoryInv, MapInv, OpInv, LoadTaken, LoadsMore, Doing
    <2>2. op.want \in DOMAIN Program[op.p]
      BY <2>1, ProgramFacts
    <2>3. QED
      BY <2>1, <2>2, OpFacts DEF MapInv
  <1>9. BrkLeavesReserve'
    BY DEF MemoryInv, BrkLeavesReserve, Available, LoadTaken, Doing
  <1>10. QED
    BY <1>1, <1>2, <1>3, <1>4, <1>5, <1>6, <1>7, <1>8, <1>9 DEF MemoryInv, TypeOK

\* The loader maps one of the frames it took.
LEMMA LoadMapInv ==
  ASSUME MemoryInv, LoadMap
  PROVE  MemoryInv'
  <1> DEFINE p == op.p
             v == NextPage
             frames == IF NeedsTable(p, v) THEN 1 ELSE 0
  <1>1. CASE Available < frames
    BY <1>1, PanicInv DEF LoadMap, Doing
  <1>2. SUFFICES ASSUME ~ (Available < frames)
                 PROVE  MemoryInv'
    BY <1>1
  <1>3. Available \in Nat
    BY SequenceFacts DEF MemoryInv, TypeOK, PoolTypeOK, Available
  <1>4. /\ pmem_stack' = Popped(frames) /\ MapPage(p, v, Head(taken), 1)
        /\ taken' = Tail(taken) /\ taken # <<>>
        /\ UNCHANGED <<procVars, brk, pgbrk, brk_offset, stackVars, cpuVars, op, panic>>
        /\ op.kind = "map"
    BY <1>2 DEF LoadMap, Doing
  <1>5. p \in Pids
    BY <1>4 DEF MemoryInv, OpInv
  <1>6. /\ Popped(frames) \in Seq(1..Frames)
        /\ NeedsTable(p, v) => Top(1) \in 1..Frames
    <2>1. CASE NeedsTable(p, v)
      <3>1. frames = 1 /\ 1 <= Available
        BY <1>2, <1>3, <2>1
      <3>2. QED
        BY <3>1, PoppedFacts DEF MemoryInv, TypeOK, PoolTypeOK
    <2>2. CASE ~ NeedsTable(p, v)
      <3>1. frames = 0 /\ 0 \in 0..Len(pmem_stack)
        BY <1>3, <2>2 DEF Available
      <3>2. QED
        BY <2>2, <3>1, SequenceFacts DEF MemoryInv, TypeOK, PoolTypeOK, Popped, Available
    <2>3. QED
      BY <2>1, <2>2
  <1>7. Head(taken) \in 1..Frames /\ Tail(taken) \in Seq(1..Frames)
    BY <1>4, SequenceFacts DEF MemoryInv, TypeOK, PoolTypeOK
  <1> HIDE DEF p, v, frames
  <1>8. BrkTypeOK' /\ BrkInv' /\ GrowInv' /\ ShrinkInv' /\ OpInv' /\ MapInv'
    BY <1>4, BrkUntouched
  <1>9. PoolTypeOK'
    <2>1. /\ table' \in [Pids -> [Tables -> 0..Frames]]
          /\ page' \in [Pids -> [Vpages -> 0..Frames]]
      BY <1>4, <1>5, <1>6, <1>7, MapPageType DEF MemoryInv, TypeOK
    <2>2. QED
      BY <1>4, <1>6, <1>7, <2>1 DEF MemoryInv, TypeOK, PoolTypeOK
  <1>10. StateTypeOK'
    BY <1>4 DEF MemoryInv, TypeOK, StateTypeOK
  <1>11. DirectoryHeld' /\ CurHeld'
    BY <1>4 DEF MemoryInv, DirectoryHeld, CurHeld
  <1>12. BrkLeavesReserve'
    BY <1>4 DEF MemoryInv, BrkLeavesReserve
  <1>13. QED
    BY <1>8, <1>9, <1>10, <1>11, <1>12 DEF MemoryInv, TypeOK

\* The loader gives up.
LEMMA LoadFailsInv ==
  ASSUME MemoryInv, LoadFails
  PROVE  MemoryInv'
  <1>1. PoolTypeOK'
    BY SequenceFacts DEF MemoryInv, TypeOK, PoolTypeOK, LoadFails
  <1>2. BrkTypeOK'
    BY DEF MemoryInv, TypeOK, BrkTypeOK, LoadFails
  <1>3. StateTypeOK'
    BY MemoryAssumption DEF MemoryInv, TypeOK, StateTypeOK, LoadFails, Doing, NoOp
  <1>4. DirectoryHeld' /\ CurHeld'
    BY DEF MemoryInv, TypeOK, PoolTypeOK, StateTypeOK, DirectoryHeld, CurHeld, LoadFails, Doing, NoOp
  <1>5. BrkInv'
    BY DEF MemoryInv, TypeOK, StateTypeOK, BrkInv, OpInv, LoadFails, Doing, NoOp
  <1>6. GrowInv' /\ ShrinkInv'
    BY DEF MemoryInv, GrowInv, ShrinkInv, OpInv, RoundUp, LoadFails, Doing, NoOp
  <1>7. OpInv'
    BY DEF MemoryInv, TypeOK, StateTypeOK, OpInv, LoadFails, Doing, NoOp
  <1>8. MapInv'
    BY DEF MemoryInv, TypeOK, StateTypeOK, MapInv, LoadFails, Doing, NoOp
  <1>9. BrkLeavesReserve'
    BY DEF MemoryInv, BrkLeavesReserve, Available, LoadFails, Doing, NoOp
  <1>10. QED
    BY <1>1, <1>2, <1>3, <1>4, <1>5, <1>6, <1>7, <1>8, <1>9 DEF MemoryInv, TypeOK

\* The pages of a segment are user pages.
LEMMA RegionType ==
  ASSUME MemoryInv, op.p \in Pids, op.want \in DOMAIN Program[op.p]
  PROVE  Region \in Seq(Vpages)
  <1> DEFINE n == UserTop \div PageSize
  <1>1. /\ Segment.first \in Nat /\ Segment.count \in Nat \ {0}
        /\ Segment.first + Segment.count <= n
    BY ProgramFacts DEF Segment
  <1>2. Vpages = 0..(n - 1) /\ n \in Nat
    BY MemoryAssumption, Division DEF Vpages
  <1> HIDE DEF n
  <1>3. \A i \in 1..Segment.count : Segment.first + i - 1 \in Vpages
    BY <1>1, <1>2
  <1>4. QED
    BY <1>1, <1>3 DEF Region

\* A segment is mapped and its region recorded.
LEMMA LoadMappedInv ==
  ASSUME MemoryInv, LoadMapped
  PROVE  MemoryInv'
  <1>1. /\ op.kind = "map" /\ op.p \in Pids
        /\ regions' = [regions EXCEPT ![op.p] = @ \o Region]
        /\ op' = [op EXCEPT !.kind = "load", !.want = @ + 1]
        /\ UNCHANGED <<pstate, tstate, cur, panic>>
    BY DEF LoadMapped, Doing, MemoryInv, OpInv
  <1>2. Region \in Seq(Vpages)
    BY <1>1, RegionType DEF MemoryInv, MapInv
  <1>3. PoolTypeOK'
    BY PoolUntouched DEF LoadMapped
  <1>4. BrkTypeOK'
    BY DEF MemoryInv, TypeOK, BrkTypeOK, LoadMapped
  <1>5. StateTypeOK'
    <2>1. regions[op.p] \o Region \in Seq(Vpages)
      BY <1>1, <1>2 DEF MemoryInv, TypeOK, StateTypeOK
    <2>2. regions' \in [Pids -> Seq(Vpages)]
      BY <1>1, <2>1 DEF MemoryInv, TypeOK, StateTypeOK
    <2>3. op.want + 1 \in Nat
      BY OpFacts
    <2>4. QED
      BY <1>1, <2>2, <2>3 DEF MemoryInv, TypeOK, StateTypeOK
  <1>6. DirectoryHeld' /\ CurHeld'
    BY DEF MemoryInv, TypeOK, PoolTypeOK, StateTypeOK, DirectoryHeld, CurHeld, LoadMapped, Doing
  <1>7. BrkInv'
    BY DEF MemoryInv, TypeOK, StateTypeOK, BrkInv, OpInv, LoadMapped, Doing
  <1>8. GrowInv' /\ ShrinkInv'
    BY DEF MemoryInv, GrowInv, ShrinkInv, OpInv, RoundUp, LoadMapped, Doing
  <1>9. OpInv'
    BY DEF MemoryInv, TypeOK, StateTypeOK, OpInv, LoadMapped, Doing
  <1>10. MapInv'
    BY DEF MemoryInv, TypeOK, StateTypeOK, MapInv, LoadMapped, Doing
  <1>11. BrkLeavesReserve'
    BY DEF MemoryInv, BrkLeavesReserve, Available, LoadMapped, Doing
  <1>12. QED
    BY <1>3, <1>4, <1>5, <1>6, <1>7, <1>8, <1>9, <1>10, <1>11 DEF MemoryInv, TypeOK

\* The loader's end is zero or the end of the last segment.
LEMMA LoaderEndFacts ==
  ASSUME NEW p \in Pids
  PROVE  LoaderEnd(p) \in Nat /\ LoaderEnd(p) <= UserTop /\ Aligned(LoaderEnd(p))
  <1> DEFINE ends == {(Program[p][i].first + Program[p][i].count) * PageSize : i \in DOMAIN Program[p]}
             n == UserTop \div PageSize
  <1>1. PageSize \in Nat \ {0} /\ n \in Nat /\ UserTop = n * PageSize
    BY MemoryAssumption, Division
  <1>2. ASSUME NEW e \in ends
        PROVE  e \in Nat /\ e <= UserTop /\ Aligned(e)
    <2>1. PICK i \in DOMAIN Program[p] : e = (Program[p][i].first + Program[p][i].count) * PageSize
      OBVIOUS
    <2> DEFINE k == Program[p][i].first + Program[p][i].count
    <2>2. Program[p][i].first \in Nat /\ Program[p][i].count \in Nat /\ k <= n
      BY ProgramFacts
    <2>3. k \in Nat /\ k <= n /\ e = k * PageSize
      BY <2>1, <2>2
    <2> HIDE DEF k, n
    <2>4. 0 * PageSize <= k * PageSize /\ k * PageSize <= n * PageSize /\ k * PageSize \in Int
          /\ 0 * PageSize = 0
      BY <1>1, <2>3, ProductOrder
    <2>5. QED
      BY <1>1, <2>3, <2>4 DEF Aligned
  <1> HIDE DEF ends
  <1>3. CASE ends = {}
    <2>1. LoaderEnd(p) = 0
      BY <1>3 DEF LoaderEnd, ends
    <2>2. QED
      BY <1>1, <2>1, AlignedEnds, MemoryAssumption
  <1>4. CASE ends # {}
    <2>1. LoaderEnd(p) = CHOOSE e \in ends : \A f \in ends : f <= e
      BY <1>4 DEF LoaderEnd, ends
    <2>2. \E e \in ends : \A f \in ends : f <= e
      BY <1>2, <1>4, MaxOfBounded, MemoryAssumption
    <2>3. LoaderEnd(p) \in ends
      BY <2>1, <2>2
    <2>4. QED
      BY <1>2, <2>3
  <1>5. QED
    BY <1>3, <1>4

\* The process is loaded.
LEMMA LoadDoneInv ==
  ASSUME MemoryInv, LoadDone
  PROVE  MemoryInv'
  <1> DEFINE p == op.p
             end == LoaderEnd(p)
  <1>1. op.kind = "load" /\ p \in Pids /\ pstate[p] = "loading" /\ brk_offset[p] = 0
    BY DEF LoadDone, Doing, MemoryInv, OpInv, BrkInv
  <1>2. /\ brk' = [brk EXCEPT ![p] = end]
        /\ pgbrk' = [pgbrk EXCEPT ![p] = end]
        /\ pstate' = [pstate EXCEPT ![p] = "running"]
        /\ op' = NoOp
        /\ UNCHANGED <<pmem_stack, directory, regions, tstate, table, page, brk_offset, stackVars,
                       cpuVars, taken, panic>>
    BY DEF LoadDone
  <1>3. end \in Nat /\ end <= UserTop /\ Aligned(end)
    BY <1>1, LoaderEndFacts
  <1> HIDE DEF p, end
  <1>4. PoolTypeOK'
    BY <1>2, PoolUntouched
  <1>5. BrkTypeOK'
    <2>1. end \in 0..UserTop
      BY <1>3, MemoryAssumption
    <2>2. QED
      BY <1>2, <2>1 DEF MemoryInv, TypeOK, BrkTypeOK
  <1>6. StateTypeOK'
    <2>1. NoOp \in [kind : {"none", "grow", "rollback", "shrink", "load", "map", "fork", "regions"},
                    p : Pids \cup {Nobody}, want : Nat, old : 0..UserTop]
      BY MemoryAssumption DEF NoOp
    <2>2. QED
      BY <1>2, <2>1 DEF MemoryInv, TypeOK, StateTypeOK
  <1>7. DirectoryHeld' /\ CurHeld'
    BY <1>1, <1>2 DEF MemoryInv, TypeOK, StateTypeOK, DirectoryHeld, CurHeld
  <1>8. BrkInv'
    <2> SUFFICES ASSUME NEW q \in Pids
                 PROVE  /\ Aligned(pgbrk'[q]) /\ brk_offset[q] <= pgbrk'[q]
                        /\ pstate'[q] \in {"none", "starting", "loading"} => brk_offset[q] = 0
      BY <1>2 DEF BrkInv, Aligned
    <2>1. /\ brk_offset[q] <= pgbrk[q] /\ Aligned(pgbrk[q])
          /\ pstate[q] \in {"none", "starting", "loading"} => brk_offset[q] = 0
      BY <1>1 DEF MemoryInv, BrkInv
    <2>2. CASE q # p
      BY <1>2, <2>1, <2>2 DEF MemoryInv, TypeOK, BrkTypeOK, StateTypeOK
    <2>3. CASE q = p
      <3>1. pgbrk'[p] = end
        BY <1>1, <1>2 DEF MemoryInv, TypeOK, BrkTypeOK
      <3>2. QED
        BY <1>1, <1>3, <2>3, <3>1
    <2>4. QED
      BY <2>2, <2>3
  <1>9. GrowInv' /\ ShrinkInv'
    BY <1>2 DEF GrowInv, ShrinkInv, NoOp
  <1>10. OpInv'
    BY <1>2 DEF OpInv, NoOp
  <1>11. MapInv'
    BY DEF MemoryInv, TypeOK, StateTypeOK, MapInv, LoadDone, Doing, NoOp
  <1>12. BrkLeavesReserve'
    BY <1>2 DEF MemoryInv, BrkLeavesReserve, NoOp
  <1>13. QED
    BY <1>4, <1>5, <1>6, <1>7, <1>8, <1>9, <1>10, <1>11, <1>12 DEF MemoryInv, TypeOK

\* A page of a stack is mapped: what it is mapped for matters only to op.
LEMMA FaultInInv ==
  ASSUME MemoryInv, NEW p \in Pids, NEW s \in StackPages, NEW next,
         NEW what \in {"stack", "fork"}, FaultIn(p, s, next, what), op.kind \in {"none", "fork"},
         next.kind = op.kind, next.p = op.p,
         next \in [kind : {"none", "fork"}, p : Pids \cup {Nobody}, want : Nat, old : 0..UserTop],
         next.kind = "fork" => next.want \in 0..MaxDepth
  PROVE  MemoryInv'
  <1>1. CASE Available = 0
    BY <1>1, PanicInv DEF FaultIn
  <1>2. SUFFICES ASSUME ~ (Available = 0)
                 PROVE  MemoryInv'
    BY <1>1
  <1>3. Available \in Nat
    BY SequenceFacts DEF MemoryInv, TypeOK, PoolTypeOK, Available
  <1>4. /\ Popped(1) \in Seq(1..Frames)
        /\ Top(1) \in 1..Frames
    BY <1>2, <1>3, PoppedFacts DEF MemoryInv, TypeOK, PoolTypeOK
  <1>5. /\ pmem_stack' = Popped(1)
        /\ stack' = [stack EXCEPT ![p][s] = Top(1)]
        /\ op' = next
        /\ UNCHANGED <<procVars, userVars, stackpt, cpuVars, taken, panic>>
    BY <1>2 DEF FaultIn
  <1>6. op'.kind = op.kind /\ op'.p = op.p
    BY <1>5
  <1>7. PoolTypeOK'
    <2>1. Top(1) \in 0..Frames
      BY <1>4
    <2>2. /\ stack' = [stack EXCEPT ![p] = [stack[p] EXCEPT ![s] = Top(1)]]
          /\ [stack[p] EXCEPT ![s] = Top(1)] \in [StackPages -> 0..Frames]
      BY <1>5, <2>1 DEF MemoryInv, TypeOK, PoolTypeOK
    <2>3. stack' \in [Pids -> [StackPages -> 0..Frames]]
      BY <2>2 DEF MemoryInv, TypeOK, PoolTypeOK
    <2>4. QED
      BY <1>4, <1>5, <2>3 DEF MemoryInv, TypeOK, PoolTypeOK
  <1>8. BrkTypeOK'
    BY <1>5 DEF MemoryInv, TypeOK, BrkTypeOK
  <1>9. StateTypeOK'
    BY <1>5 DEF MemoryInv, TypeOK, StateTypeOK
  <1>10. DirectoryHeld' /\ CurHeld'
    BY <1>5 DEF MemoryInv, DirectoryHeld, CurHeld
  <1>11. BrkInv'
    BY <1>5, <1>6 DEF MemoryInv, BrkInv, Aligned
  <1>12. GrowInv' /\ ShrinkInv'
    BY <1>6 DEF GrowInv, ShrinkInv
  <1>13. OpInv'
    <2>1. op'.kind \in {"none", "fork"} /\ (op'.kind = "fork" => op'.want \in 0..MaxDepth)
      BY <1>5
    <2>2. QED
      BY <1>5, <1>6, <2>1 DEF MemoryInv, OpInv
  <1>14. MapInv'
    BY <1>6 DEF MapInv
  <1>15. BrkLeavesReserve'
    BY <1>5, <1>6 DEF MemoryInv, BrkLeavesReserve
  <1>16. QED
    BY <1>7, <1>8, <1>9, <1>10, <1>11, <1>12, <1>13, <1>14, <1>15 DEF MemoryInv, TypeOK

\* A page fault below a thread's stack maps a page there.
LEMMA StackFaultInv ==
  ASSUME MemoryInv, NEW p \in Pids, NEW t \in Threads, StackFault(p, t)
  PROVE  MemoryInv'
  <1>1. PICK k \in 1..MaxDepth : FaultIn(p, <<t, k>>, op, "stack")
    BY DEF StackFault
  <1>2. op.kind = "none" /\ <<t, k>> \in StackPages
    BY DEF StackFault, InUser, Idle, StackPages
  <1>3. op \in [kind : {"none", "fork"}, p : Pids \cup {Nobody}, want : Nat, old : 0..UserTop]
    BY <1>2 DEF MemoryInv, TypeOK, StateTypeOK
  <1>4. QED
    BY <1>1, <1>2, <1>3, FaultInInv

\* A thread forks: the new thread is created, with the table of its stack.
LEMMA ForkStartInv ==
  ASSUME MemoryInv, NEW p \in Pids, NEW t \in Threads, NEW u \in Threads, ForkStart(p, t, u)
  PROVE  MemoryInv'
  <1>1. PICK pages \in 1..MaxDepth :
          IF Available = 0
            THEN Panic("fork")
            ELSE /\ pmem_stack' = Popped(1)
                 /\ stackpt' = [stackpt EXCEPT ![p][u] = Top(1)]
                 /\ tstate' = [tstate EXCEPT ![p][t] = "forking", ![p][u] = "new"]
                 /\ op' = [kind |-> "fork", p |-> p, want |-> pages, old |-> 0]
                 /\ UNCHANGED <<pstate, directory, regions, userVars, stack, cpuVars, taken, panic>>
    BY DEF ForkStart
  <1>2. op.kind = "none" /\ pstate[p] = "running"
    BY DEF ForkStart, InUser, Idle
  <1>3. CASE Available = 0
    BY <1>1, <1>2, <1>3, PanicInv
  <1>4. SUFFICES ASSUME ~ (Available = 0)
                 PROVE  MemoryInv'
    BY <1>3
  <1>5. Available \in Nat
    BY SequenceFacts DEF MemoryInv, TypeOK, PoolTypeOK, Available
  <1>6. /\ Popped(1) \in Seq(1..Frames)
        /\ Top(1) \in 1..Frames
    BY <1>4, <1>5, PoppedFacts DEF MemoryInv, TypeOK, PoolTypeOK
  <1>7. /\ pmem_stack' = Popped(1)
        /\ stackpt' = [stackpt EXCEPT ![p][u] = Top(1)]
        /\ tstate' = [tstate EXCEPT ![p][t] = "forking", ![p][u] = "new"]
        /\ op' = [kind |-> "fork", p |-> p, want |-> pages, old |-> 0]
        /\ UNCHANGED <<pstate, directory, regions, userVars, stack, cpuVars, taken, panic>>
    BY <1>1, <1>4
  <1>8. PoolTypeOK'
    <2>1. stackpt' \in [Pids -> [Threads -> 0..Frames]]
      BY <1>6, <1>7, StackTableType
    <2>2. QED
      BY <1>6, <1>7, <2>1 DEF MemoryInv, TypeOK, PoolTypeOK
  <1>9. BrkTypeOK'
    BY <1>7 DEF MemoryInv, TypeOK, BrkTypeOK
  <1>10. StateTypeOK'
    <2>1. 0 \in 0..UserTop /\ pages \in Nat
      BY MemoryAssumption
    <2>2. op' \in [kind : {"none", "grow", "rollback", "shrink", "load", "map", "fork", "regions"},
                   p : Pids \cup {Nobody}, want : Nat, old : 0..UserTop]
      BY <1>7, <2>1
    <2>3. tstate' \in [Pids -> [Threads -> {"none", "live", "forking", "new", "dead", "collected"}]]
      BY <1>7, TwoThreadsType
    <2>4. QED
      BY <1>7, <2>2, <2>3 DEF MemoryInv, TypeOK, StateTypeOK
  <1>11. DirectoryHeld' /\ CurHeld'
    BY <1>7 DEF MemoryInv, DirectoryHeld, CurHeld
  <1>12. BrkInv'
    BY <1>2, <1>7 DEF MemoryInv, BrkInv, Aligned
  <1>13. GrowInv' /\ ShrinkInv'
    BY <1>7 DEF GrowInv, ShrinkInv
  <1>14. OpInv'
    <2>1. pages \in 0..MaxDepth
      OBVIOUS
    <2>2. QED
      BY <1>2, <1>7, <2>1 DEF OpInv
  <1>15. MapInv'
    BY <1>7 DEF MapInv
  <1>16. BrkLeavesReserve'
    BY <1>7 DEF MemoryInv, BrkLeavesReserve
  <1>17. QED
    BY <1>8, <1>9, <1>10, <1>11, <1>12, <1>13, <1>14, <1>15, <1>16 DEF MemoryInv, TypeOK

\* A fork reads a page of the stack it copies.
LEMMA ForkReadInv ==
  ASSUME MemoryInv, NEW t \in Threads, ForkRead(t)
  PROVE  MemoryInv'
  <1>0. op.kind = "fork" /\ op.p \in Pids /\ op.want \in 0..MaxDepth /\ op.want > 0
    BY DEF ForkRead, Doing, MemoryInv, OpInv
  <1>1. <<t, op.want>> \in StackPages
    BY <1>0, MemoryAssumption DEF StackPages
  <1>2. op \in [kind : {"none", "fork"}, p : Pids \cup {Nobody}, want : Nat, old : 0..UserTop]
    BY <1>0 DEF MemoryInv, TypeOK, StateTypeOK
  <1>3. FaultIn(op.p, <<t, op.want>>, op, "fork")
    BY DEF ForkRead
  <1>4. QED
    BY <1>0, <1>1, <1>2, <1>3, FaultInInv

\* A fork writes a page of the copy.
LEMMA ForkWriteInv ==
  ASSUME MemoryInv, NEW t \in Threads, NEW u \in Threads, ForkWrite(t, u)
  PROVE  MemoryInv'
  <1> DEFINE next == [op EXCEPT !.want = @ - 1]
  <1>0. op.kind = "fork" /\ op.p \in Pids /\ op.want \in 0..MaxDepth /\ op.want > 0
    BY DEF ForkWrite, Doing, MemoryInv, OpInv
  <1>1. <<u, op.want>> \in StackPages
    BY <1>0, MemoryAssumption DEF StackPages
  <1>2. op.want - 1 \in Nat /\ op.want - 1 \in 0..MaxDepth
    BY <1>0, MemoryAssumption
  <1>3. /\ next \in [kind : {"none", "fork"}, p : Pids \cup {Nobody}, want : Nat, old : 0..UserTop]
        /\ next.kind = op.kind /\ next.p = op.p /\ next.want = op.want - 1
    BY <1>0, <1>2 DEF MemoryInv, TypeOK, StateTypeOK
  <1>4. FaultIn(op.p, <<u, op.want>>, next, "fork")
    BY DEF ForkWrite
  <1> HIDE DEF next
  <1>5. QED
    BY <1>0, <1>1, <1>2, <1>3, <1>4, FaultInInv

\* The new thread is complete.
LEMMA ForkDoneInv ==
  ASSUME MemoryInv, NEW t \in Threads, NEW u \in Threads, ForkDone(t, u)
  PROVE  MemoryInv'
  <1>1. PoolTypeOK'
    BY PoolUntouched DEF ForkDone
  <1>2. BrkTypeOK'
    BY DEF MemoryInv, TypeOK, BrkTypeOK, ForkDone
  <1>3. StateTypeOK'
    <2>1. op.p \in Pids
      BY DEF MemoryInv, OpInv, ForkDone, Doing
    <2>2. tstate' \in [Pids -> [Threads -> {"none", "live", "forking", "new", "dead", "collected"}]]
      BY <2>1, TwoThreadsType DEF ForkDone
    <2>3. QED
      BY <2>2, MemoryAssumption DEF MemoryInv, TypeOK, StateTypeOK, ForkDone, Doing, NoOp
  <1>4. DirectoryHeld' /\ CurHeld'
    BY DEF MemoryInv, TypeOK, PoolTypeOK, StateTypeOK, DirectoryHeld, CurHeld, ForkDone, Doing, NoOp
  <1>5. BrkInv'
    BY DEF MemoryInv, TypeOK, StateTypeOK, BrkInv, OpInv, ForkDone, Doing, NoOp
  <1>6. GrowInv' /\ ShrinkInv'
    BY DEF MemoryInv, GrowInv, ShrinkInv, OpInv, RoundUp, ForkDone, Doing, NoOp
  <1>7. OpInv'
    BY DEF MemoryInv, TypeOK, StateTypeOK, OpInv, ForkDone, Doing, NoOp
  <1>8. MapInv'
    BY DEF MemoryInv, TypeOK, StateTypeOK, MapInv, ForkDone, Doing, NoOp
  <1>9. BrkLeavesReserve'
    BY DEF MemoryInv, BrkLeavesReserve, Available, ForkDone, Doing, NoOp
  <1>10. QED
    BY <1>1, <1>2, <1>3, <1>4, <1>5, <1>6, <1>7, <1>8, <1>9 DEF MemoryInv, TypeOK

\* A thread exits, or what is left of it is collected: no frame is concerned.
LEMMA ThreadEndInv ==
  ASSUME MemoryInv, NEW p \in Pids, NEW t \in Threads, ThreadExit(p, t) \/ ThreadCollect(p, t)
  PROVE  MemoryInv'
  <1>1. PICK state \in {"dead", "collected"} : tstate' = [tstate EXCEPT ![p][t] = state]
    BY DEF ThreadExit, ThreadCollect
  <1>2. /\ cur' = Nobody
        /\ UNCHANGED <<pmem_stack, pstate, directory, regions, userVars, stackVars, cr3, op, taken,
                       panic>>
    BY DEF ThreadExit, ThreadCollect
  <1>3. PoolTypeOK'
    BY <1>2, PoolUntouched
  <1>4. BrkTypeOK' /\ BrkInv' /\ GrowInv' /\ ShrinkInv' /\ OpInv' /\ MapInv'
    BY <1>2, BrkUntouched
  <1>5. StateTypeOK'
    <2>1. tstate' \in [Pids -> [Threads -> {"none", "live", "forking", "new", "dead", "collected"}]]
      BY <1>1, OneThreadType
    <2>2. QED
      BY <1>2, <2>1 DEF MemoryInv, TypeOK, StateTypeOK
  <1>6. DirectoryHeld' /\ CurHeld'
    BY <1>2, MemoryAssumption DEF MemoryInv, DirectoryHeld, CurHeld
  <1>7. BrkLeavesReserve'
    BY <1>2 DEF MemoryInv, BrkLeavesReserve, Available
  <1>8. QED
    BY <1>3, <1>4, <1>5, <1>6, <1>7 DEF MemoryInv, TypeOK

\* One page of a region of a dead process goes back to the pool.
LEMMA RegionPageInv ==
  ASSUME MemoryInv, RegionPage
  PROVE  MemoryInv'
  <1> DEFINE p == op.p
             v == Head(regions[p])
  <1>1. /\ ReleasePage(p, v) /\ regions[p] # <<>>
        /\ regions' = [regions EXCEPT ![p] = Tail(@)]
        /\ UNCHANGED <<pstate, directory, tstate, table, brk, pgbrk, brk_offset, stackVars, cpuVars,
                       op, taken, panic>>
        /\ op.kind = "regions"
    BY DEF RegionPage, Doing
  <1>2. p \in Pids
    BY <1>1 DEF MemoryInv, OpInv
  <1>3. v \in Vpages /\ Tail(regions[p]) \in Seq(Vpages)
    BY <1>1, <1>2, SequenceFacts DEF MemoryInv, TypeOK, StateTypeOK
  <1> HIDE DEF p, v
  <1>4. BrkTypeOK' /\ BrkInv' /\ GrowInv' /\ ShrinkInv' /\ OpInv' /\ MapInv'
    BY <1>1, BrkUntouched
  <1>5. PoolTypeOK'
    <2>1. pmem_stack' \in Seq(1..Frames) /\ page' \in [Pids -> [Vpages -> 0..Frames]]
      BY <1>1, <1>2, <1>3, ReleasePageType DEF MemoryInv, TypeOK
    <2>2. QED
      BY <1>1, <2>1 DEF MemoryInv, TypeOK, PoolTypeOK
  <1>6. StateTypeOK'
    BY <1>1, <1>3 DEF MemoryInv, TypeOK, StateTypeOK
  <1>7. DirectoryHeld' /\ CurHeld'
    BY <1>1 DEF MemoryInv, DirectoryHeld, CurHeld
  <1>8. BrkLeavesReserve'
    BY <1>1 DEF MemoryInv, BrkLeavesReserve
  <1>9. QED
    BY <1>4, <1>5, <1>6, <1>7, <1>8 DEF MemoryInv, TypeOK

\* All regions are released.
LEMMA ReapDoneInv ==
  ASSUME MemoryInv, ReapDone
  PROVE  MemoryInv'
  <1>1. /\ pstate' = [pstate EXCEPT ![op.p] = "gone"]
        /\ op' = NoOp /\ op.kind = "regions" /\ op.p \in Pids
        /\ pstate[op.p] = "reaping"
        /\ UNCHANGED <<pmem_stack, directory, regions, tstate, userVars, stackVars, cpuVars, taken,
                       panic>>
    BY DEF ReapDone, Doing, MemoryInv, OpInv
  <1>2. PoolTypeOK'
    BY PoolUntouched DEF ReapDone
  <1>3. BrkTypeOK'
    BY DEF MemoryInv, TypeOK, BrkTypeOK, ReapDone
  <1>4. StateTypeOK'
    <2>1. NoOp \in [kind : {"none", "grow", "rollback", "shrink", "load", "map", "fork", "regions"},
                    p : Pids \cup {Nobody}, want : Nat, old : 0..UserTop]
      BY MemoryAssumption DEF NoOp
    <2>2. QED
      BY <1>1, <2>1 DEF MemoryInv, TypeOK, StateTypeOK
  <1>5. DirectoryHeld' /\ CurHeld'
    BY <1>1 DEF MemoryInv, TypeOK, StateTypeOK, DirectoryHeld, CurHeld
  <1>6. BrkInv'
    <2>1. \A p \in Pids : pstate'[p] \in {"none", "starting", "loading"}
                        => pstate[p] \in {"none", "starting", "loading"}
      BY <1>1 DEF MemoryInv, TypeOK, StateTypeOK, Procs
    <2>2. QED
      BY <1>1, <2>1 DEF MemoryInv, BrkInv, Aligned
  <1>7. GrowInv' /\ ShrinkInv'
    BY DEF MemoryInv, GrowInv, ShrinkInv, OpInv, RoundUp, ReapDone, Doing, NoOp
  <1>8. OpInv'
    BY DEF MemoryInv, TypeOK, StateTypeOK, OpInv, ReapDone, Doing, NoOp
  <1>9. MapInv'
    BY DEF MemoryInv, TypeOK, StateTypeOK, MapInv, ReapDone, Doing, NoOp
  <1>10. BrkLeavesReserve'
    BY DEF MemoryInv, BrkLeavesReserve, Available, ReapDone, Doing, NoOp
  <1>11. QED
    BY <1>2, <1>3, <1>4, <1>5, <1>6, <1>7, <1>8, <1>9, <1>10 DEF MemoryInv, TypeOK

\* A process that has a directory is reaped, with or without a switch to
\* another process.
LEMMA StartReapInv ==
  ASSUME MemoryInv, NEW p \in Pids, op.kind = "none", directory[p] # NoFrame,
         pstate[p] \notin {"none", "starting", "loading"} \/ brk_offset[p] = 0,
         StartReap(p), cur' \in Procs \cup {Nobody}, cr3' \in 1..Frames,
         cur' \in Pids => cur' # p /\ pstate[cur'] \in {"loading", "running"}
  PROVE  MemoryInv'
  <1> DEFINE end == pgbrk[p] - brk_offset[p]
             kind == IF end = 0 \/ end = pgbrk[p] THEN "regions" ELSE "shrink"
  <1>1. /\ pmem_stack' = Append(pmem_stack, directory[p])
        /\ directory' = [directory EXCEPT ![p] = NoFrame]
        /\ pstate' = [pstate EXCEPT ![p] = "reaping"]
        /\ tstate' = [tstate EXCEPT ![p] = Ended(p)]
        /\ op' = [kind |-> kind, p |-> p, want |-> end, old |-> pgbrk[p]]
        /\ UNCHANGED <<regions, userVars, stackVars, taken, panic>>
    BY DEF StartReap
  <1>2. kind \in {"regions", "shrink"}
    OBVIOUS
  <1>3. end \in Nat /\ end <= pgbrk[p]
    BY BrkFacts DEF MemoryInv, BrkInv
  <1> HIDE DEF kind
  <1>4. /\ op'.kind = kind /\ op'.p = p /\ op'.want = end /\ op'.old = pgbrk[p]
        /\ pstate'[p] = "reaping" /\ p \in Procs
        /\ \A q \in Procs : q # p => pstate'[q] = pstate[q] /\ directory'[q] = directory[q]
    BY <1>1 DEF MemoryInv, TypeOK, PoolTypeOK, StateTypeOK, Procs
  <1>5. PoolTypeOK'
    <2>1. directory[p] \in 0..Frames
      BY <1>4 DEF MemoryInv, TypeOK, PoolTypeOK
    <2>2. directory[p] \in 1..Frames /\ NoFrame \in 0..Frames
      BY <2>1, MemoryAssumption DEF NoFrame
    <2>3. pmem_stack' \in Seq(1..Frames)
      BY <1>1, <2>2, SequenceFacts DEF MemoryInv, TypeOK, PoolTypeOK
    <2>4. directory' \in [Procs -> 0..Frames]
      BY <1>1, <2>2 DEF MemoryInv, TypeOK, PoolTypeOK
    <2>5. QED
      BY <1>1, <2>3, <2>4 DEF MemoryInv, TypeOK, PoolTypeOK
  <1>6. BrkTypeOK'
    BY <1>1 DEF MemoryInv, TypeOK, BrkTypeOK
  <1>7. StateTypeOK'
    <2>1. pgbrk[p] \in 0..UserTop
      BY DEF MemoryInv, TypeOK, BrkTypeOK
    <2> HIDE DEF end
    <2>2. op' \in [kind : {"none", "grow", "rollback", "shrink", "load", "map", "fork", "regions"},
                   p : Pids \cup {Nobody}, want : Nat, old : 0..UserTop]
      BY <1>1, <1>2, <1>3, <2>1
    <2>3. tstate' \in [Pids -> [Threads -> {"none", "live", "forking", "new", "dead", "collected"}]]
      BY <1>1, EndedType
    <2>4. QED
      BY <1>1, <2>2, <2>3 DEF MemoryInv, TypeOK, StateTypeOK
  <1>8. DirectoryHeld' /\ CurHeld'
    <2>1. CurHeld'
      BY <1>4 DEF CurHeld, Procs
    <2>2. DirectoryHeld'
      BY <1>4 DEF MemoryInv, DirectoryHeld
    <2>3. QED
      BY <2>1, <2>2
  <1>9. BrkInv'
    <2> SUFFICES ASSUME NEW q \in Pids
                 PROVE  /\ Aligned(pgbrk[q]) /\ brk_offset[q] <= pgbrk[q]
                        /\ pstate'[q] \in {"none", "starting", "loading"} => brk_offset[q] = 0
      BY <1>1 DEF BrkInv, Aligned
    <2>1. /\ Aligned(pgbrk[q]) /\ brk_offset[q] <= pgbrk[q]
          /\ pstate[q] \in {"none", "starting", "loading"} => brk_offset[q] = 0
      BY DEF MemoryInv, BrkInv
    <2>2. pstate'[q] \in {"none", "starting", "loading"} => pstate'[q] = pstate[q]
      BY <1>4 DEF Procs
    <2>3. QED
      BY <2>1, <2>2
  <1>10. GrowInv' /\ ShrinkInv'
    <2>1. GrowInv'
      BY <1>2, <1>4 DEF GrowInv
    <2>2. RoundUp(end) <= pgbrk[p]
      <3>1. pgbrk[p] \in Nat /\ Aligned(pgbrk[p])
        BY BrkFacts
      <3> HIDE DEF end
      <3>2. QED
        BY <1>3, <3>1, RoundUpLeast
    <2>3. brk_offset[p] <= pgbrk[p] /\ pgbrk[p] <= pgbrk[p] /\ pgbrk[p] - brk_offset[p] <= end
      BY BrkFacts DEF MemoryInv, BrkInv
    <2>4. UNCHANGED <<pgbrk, brk_offset>>
      BY <1>1
    <2> HIDE DEF end
    <2>5. ShrinkInv'
      BY <1>4, <2>2, <2>3, <2>4 DEF ShrinkInv, RoundUp
    <2>6. QED
      BY <2>1, <2>5
  <1>11. OpInv' /\ MapInv'
    BY <1>2, <1>4 DEF OpInv, MapInv
  <1>12. BrkLeavesReserve'
    BY <1>1, <1>2, <1>4 DEF MemoryInv, BrkLeavesReserve
  <1>13. QED
    BY <1>5, <1>6, <1>7, <1>8, <1>9, <1>10, <1>11, <1>12 DEF MemoryInv, TypeOK

\* A process is kept for the thread that waits for it.
LEMMA KeepInv ==
  ASSUME MemoryInv, NEW p \in Pids, op.kind = "none", directory[p] # NoFrame,
         Keep(p), UNCHANGED cr3, cur' \in {cur, Nobody}, cur' # p
  PROVE  MemoryInv'
  <1>1. /\ pstate' = [pstate EXCEPT ![p] = "exited"]
        /\ tstate' = [tstate EXCEPT ![p] = Ended(p)]
        /\ UNCHANGED <<pmem_stack, directory, regions, userVars, stackVars, op, taken, panic>>
    BY DEF Keep
  <1>2. PoolTypeOK'
    BY <1>1, PoolUntouched
  <1>3. BrkTypeOK' /\ BrkInv' /\ GrowInv' /\ ShrinkInv' /\ OpInv' /\ MapInv'
    BY <1>1, BrkUntouched
  <1>4. StateTypeOK'
    <2>1. tstate' \in [Pids -> [Threads -> {"none", "live", "forking", "new", "dead", "collected"}]]
      BY <1>1, EndedType
    <2>2. QED
      BY <1>1, <2>1 DEF MemoryInv, TypeOK, StateTypeOK
  <1>5. DirectoryHeld'
    BY <1>1 DEF MemoryInv, TypeOK, StateTypeOK, DirectoryHeld
  <1>6. CurHeld'
    <2>1. Nobody \notin Pids
      BY MemoryAssumption
    <2>2. QED
      BY <1>1, <2>1 DEF MemoryInv, TypeOK, StateTypeOK, CurHeld, Procs
  <1>7. BrkLeavesReserve'
    BY <1>1 DEF MemoryInv, BrkLeavesReserve
  <1>8. QED
    BY <1>2, <1>3, <1>4, <1>5, <1>6, <1>7 DEF MemoryInv, TypeOK

\* A process exits.
LEMMA ExitInv ==
  ASSUME MemoryInv, NEW p \in Pids, NEW waited \in BOOLEAN, Exit(p, waited)
  PROVE  MemoryInv'
  <1>1. /\ op.kind = "none" /\ cur = p /\ cur' = Nobody /\ UNCHANGED cr3
        /\ IF waited THEN Keep(p) ELSE StartReap(p)
    BY DEF Exit, Idle
  <1>2. Nobody \notin Pids /\ p # Nobody
    BY MemoryAssumption
  <1>3. directory[p] # NoFrame
    BY <1>1 DEF MemoryInv, CurHeld, DirectoryHeld, Procs
  <1>4. cr3 \in 1..Frames
    BY DEF MemoryInv, TypeOK, PoolTypeOK
  <1>5. QED
    <2>1. CASE waited
      BY <1>1, <1>2, <1>3, <2>1, KeepInv
    <2>2. CASE ~ waited
      BY <1>1, <1>2, <1>3, <1>4, <2>2, StartReapInv DEF MemoryInv, BrkInv
    <2>3. QED
      BY <2>1, <2>2

\* A process kills another one.
LEMMA KillInv ==
  ASSUME MemoryInv, NEW p \in Pids, NEW q \in Pids, NEW waited \in BOOLEAN, Kill(p, q, waited)
  PROVE  MemoryInv'
  <1>1. /\ op.kind = "none" /\ cur = p /\ pstate[p] = "running" /\ UNCHANGED <<cur, cr3>>
        /\ q # p /\ pstate[q] \notin {"none", "reaping", "gone"}
        /\ IF waited THEN Keep(q) ELSE StartReap(q)
    BY DEF Kill, InUser, Idle
  <1>2. directory[q] # NoFrame
    BY <1>1 DEF MemoryInv, TypeOK, StateTypeOK, DirectoryHeld, Procs
  <1>3. cr3 \in 1..Frames /\ cur \in Procs \cup {Nobody}
    BY DEF MemoryInv, TypeOK, PoolTypeOK, StateTypeOK
  <1>4. QED
    <2>1. CASE waited
      BY <1>1, <1>2, <2>1, KeepInv
    <2>2. CASE ~ waited
      BY <1>1, <1>2, <1>3, <2>2, StartReapInv DEF MemoryInv, BrkInv
    <2>3. QED
      BY <2>1, <2>2

\* The waiter is chosen to run and the process it waited for is reaped.
LEMMA CollectInv ==
  ASSUME MemoryInv, NEW p \in Pids, NEW w \in Procs, Collect(p, w)
  PROVE  MemoryInv'
  <1>1. /\ op.kind = "none" /\ pstate[p] = "exited" /\ w # p /\ pstate[w] = "running"
        /\ StartReap(p) /\ cur' = w /\ cr3' = directory[w]
    BY DEF Collect, Idle
  <1>2. directory[p] # NoFrame /\ directory[w] # NoFrame
    BY <1>1 DEF MemoryInv, DirectoryHeld, Procs
  <1>3. directory[w] \in 1..Frames
    BY <1>2, MemoryAssumption DEF MemoryInv, TypeOK, PoolTypeOK, NoFrame
  <1>4. QED
    BY <1>1, <1>2, <1>3, StartReapInv

\* sched_pick_next picks a thread of p.
LEMMA ResumeInv ==
  ASSUME MemoryInv, NEW p \in Procs, Resume(p)
  PROVE  MemoryInv'
  <1>1. /\ op.kind = "none" /\ pstate[p] \in {"loading", "running"}
        /\ cur' = p /\ cr3' = directory[p]
        /\ UNCHANGED <<pmem_stack, procVars, userVars, stackVars, op, taken, panic>>
    BY DEF Resume, Idle
  <1>2. directory[p] # NoFrame
    BY <1>1 DEF MemoryInv, DirectoryHeld
  <1>3. directory[p] \in 1..Frames
    BY <1>2, MemoryAssumption DEF MemoryInv, TypeOK, PoolTypeOK, NoFrame
  <1>4. PoolTypeOK'
    BY <1>1, <1>3 DEF MemoryInv, TypeOK, PoolTypeOK
  <1>5. BrkTypeOK' /\ BrkInv' /\ GrowInv' /\ ShrinkInv' /\ OpInv' /\ MapInv'
    BY <1>1, BrkUntouched
  <1>6. StateTypeOK'
    BY <1>1 DEF MemoryInv, TypeOK, StateTypeOK
  <1>7. DirectoryHeld' /\ CurHeld'
    BY <1>1 DEF MemoryInv, DirectoryHeld, CurHeld
  <1>8. BrkLeavesReserve'
    BY <1>1 DEF MemoryInv, BrkLeavesReserve
  <1>9. QED
    BY <1>4, <1>5, <1>6, <1>7, <1>8 DEF MemoryInv, TypeOK

-----------------------------------------------------------------------------
(* The theorems.                                                            *)

\* The kernel boots.
LEMMA InitInv == Init => MemoryInv
  <1> SUFFICES ASSUME Init
               PROVE  MemoryInv
    OBVIOUS
  <1>1. PoolTypeOK
    <2>1. \A i \in 1..(Frames - 1) : i + 1 \in 1..Frames
      BY MemoryAssumption
    <2>2. pmem_stack \in Seq(1..Frames)
      <3>1. Frames - 1 \in Nat
        BY MemoryAssumption
      <3> DEFINE n == Frames - 1
      <3>2. n \in Nat /\ \A i \in 1..n : i + 1 \in 1..Frames
        BY <2>1, <3>1
      <3>3. pmem_stack = [i \in 1..n |-> i + 1]
        BY DEF Init
      <3> HIDE DEF n
      <3>4. QED
        BY <3>2, <3>3
    <2>3. 0 \in 0..Frames /\ 1 \in 0..Frames /\ 1 \in 1..Frames
      BY MemoryAssumption
    <2>4. /\ directory \in [Procs -> 0..Frames]
          /\ table \in [Pids -> [Tables -> 0..Frames]]
          /\ page \in [Pids -> [Vpages -> 0..Frames]]
      BY <2>3 DEF Init, NoFrame
    <2>5. /\ stackpt \in [Pids -> [Threads -> 0..Frames]]
          /\ stack \in [Pids -> [StackPages -> 0..Frames]]
          /\ taken \in Seq(1..Frames)
      BY <2>3 DEF Init, NoFrame
    <2>6. QED
      BY <2>2, <2>3, <2>4, <2>5 DEF PoolTypeOK, Init
  <1>2. BrkTypeOK
    <2>1. 0 \in 0..UserTop
      BY MemoryAssumption
    <2>2. QED
      BY <2>1 DEF BrkTypeOK, Init
  <1>3. op.kind = "none"
    BY DEF Init, NoOp
  <1>4. StateTypeOK
    <2>1. 0 \in 0..UserTop
      BY MemoryAssumption
    <2>2. NoOp \in [kind : {"none", "grow", "rollback", "shrink", "load", "map", "fork", "regions"},
                    p : Pids \cup {Nobody}, want : Nat, old : 0..UserTop]
      BY <2>1 DEF NoOp
    <2>3. regions \in [Pids -> Seq(Vpages)]
      BY DEF Init
    <2>4. QED
      BY <2>1, <2>2, <2>3 DEF StateTypeOK, Init, Procs
  <1>5. DirectoryHeld /\ CurHeld
    <2>1. KernelPid \notin Pids
      BY MemoryAssumption
    <2>2. QED
      BY <2>1 DEF Init, DirectoryHeld, CurHeld, NoFrame
  <1>6. BrkInv
    BY AlignedEnds DEF Init, BrkInv
  <1>7. GrowInv /\ ShrinkInv /\ OpInv /\ MapInv
    BY <1>3 DEF GrowInv, ShrinkInv, OpInv, MapInv
  <1>8. BrkLeavesReserve
    BY <1>3 DEF Init, BrkLeavesReserve
  <1>9. QED
    BY <1>1, <1>2, <1>4, <1>5, <1>6, <1>7, <1>8 DEF MemoryInv, TypeOK

\* Nothing happens.
LEMMA StutterInv ==
  ASSUME MemoryInv, UNCHANGED vars
  PROVE  MemoryInv'
  <1>1. /\ PoolTypeOK' /\ BrkTypeOK' /\ BrkInv' /\ GrowInv' /\ ShrinkInv' /\ OpInv' /\ MapInv'
    BY PoolUntouched, BrkUntouched DEF vars
  <1>2. StateTypeOK' /\ DirectoryHeld' /\ CurHeld'
    BY DEF vars, MemoryInv, TypeOK, StateTypeOK, DirectoryHeld, CurHeld
  <1>3. BrkLeavesReserve'
    BY DEF vars, MemoryInv, BrkLeavesReserve, Available
  <1>4. QED
    BY <1>1, <1>2, <1>3 DEF MemoryInv, TypeOK

\* One step of any kind.
LEMMA NextInv ==
  ASSUME MemoryInv, [Next]_vars
  PROVE  MemoryInv'
  <1>1. ASSUME NEW p \in Pids, NEW want \in 1..(UserTop + PageSize), BrkSamePages(p, want)
        PROVE  MemoryInv'
    BY <1>1, BrkSamePagesInv
  <1>2. ASSUME NEW p \in Pids, NEW want \in 1..(UserTop + PageSize), BrkStart(p, want)
        PROVE  MemoryInv'
    BY <1>2, BrkStartInv
  <1>3. ASSUME NEW p \in Pids, Exec(p) \/ LoadStart(p)
        PROVE  MemoryInv'
    BY <1>3, ExecInv, LoadStartInv
  <1>16. ASSUME NEW p \in Pids, NEW t \in Threads,
                StackFault(p, t) \/ ThreadExit(p, t) \/ ThreadCollect(p, t)
         PROVE  MemoryInv'
    BY <1>16, StackFaultInv, ThreadEndInv
  <1>17. ASSUME NEW p \in Pids, NEW t \in Threads, NEW u \in Threads, ForkStart(p, t, u)
         PROVE  MemoryInv'
    BY <1>17, ForkStartInv
  <1>4. ASSUME NEW p \in Pids, NEW waited \in BOOLEAN, Exit(p, waited)
        PROVE  MemoryInv'
    BY <1>4, ExitInv
  <1>5. ASSUME NEW p \in Pids, NEW waited \in BOOLEAN, NEW q \in Pids, Kill(p, q, waited)
        PROVE  MemoryInv'
    BY <1>5, KillInv
  <1>6. ASSUME NEW p \in Pids, NEW w \in Procs, Collect(p, w)
        PROVE  MemoryInv'
    BY <1>6, CollectInv
  <1>7. ASSUME NEW p \in Procs, Resume(p)
        PROVE  MemoryInv'
    BY <1>7, ResumeInv
  <1>8. CASE GrowPage \/ GrowGivesUp \/ GrowDone \/ RollbackPage \/ RollbackDone
    BY <1>8, GrowPageInv, GrowGivesUpInv, GrowDoneInv, RollbackPageInv, RollbackDoneInv
  <1>9. CASE ShrinkPage \/ ShrinkDone
    BY <1>9, ShrinkPageInv, ShrinkDoneInv
  <1>10. CASE LoadTake \/ LoadTaken \/ LoadMap \/ LoadFails \/ LoadMapped \/ LoadDone
    BY <1>10, LoadTakeInv, LoadTakenInv, LoadMapInv, LoadFailsInv, LoadMappedInv, LoadDoneInv
  <1>11. ASSUME NEW t \in Threads, ForkRead(t) \/ \E u \in Threads : ForkWrite(t, u) \/ ForkDone(t, u)
         PROVE  MemoryInv'
    BY <1>11, ForkReadInv, ForkWriteInv, ForkDoneInv
  <1>12. CASE RegionPage \/ ReapDone
    BY <1>12, RegionPageInv, ReapDoneInv
  <1>13. CASE UNCHANGED vars
    BY <1>13, StutterInv
  <1>14. CASE Halted
    BY <1>13, <1>14 DEF Halted
  <1>15. QED
    BY <1>1, <1>2, <1>3, <1>4, <1>5, <1>6, <1>7, <1>8, <1>9, <1>10, <1>11, <1>12, <1>13, <1>14,
       <1>16, <1>17
    DEF Next

\* MemoryInv holds in every state the kernel reaches.
THEOREM MemoryInvariant == Spec => []MemoryInv
  <1>1. Init => MemoryInv
    BY InitInv
  <1>2. MemoryInv /\ [Next]_vars => MemoryInv'
    BY NextInv
  <1>3. QED
    BY <1>1, <1>2, PTL DEF Spec

\* Every variable keeps its C type, every frame named anywhere is a frame of
\* the machine, and no break leaves user memory, for any number of frames and
\* any page size: pmm.c, vmm.c and sched_setbrk_true.
THEOREM TypeCorrect == Spec => []TypeOK
  <1>1. MemoryInv => TypeOK
    BY DEF MemoryInv
  <1>2. QED
    BY <1>1, MemoryInvariant, PTL

\* "keep a reserve so pmm can't panic": the loop of sched_setbrk_true never
\* finds the pool empty, whichever page tables it has to create, as long as
\* the reserve is at least a page and a page table.
THEOREM ReserveKept == Spec => []BrkLeavesReserve
  <1>1. MemoryInv => BrkLeavesReserve
    BY DEF MemoryInv
  <1>2. QED
    BY <1>1, MemoryInvariant, PTL

\* The process that executes and every process that can be scheduled have a
\* page directory: sched_reap_process frees one only when the process can no
\* longer be picked.
THEOREM RunningProcessHasDirectory == Spec => [](DirectoryHeld /\ CurHeld)
  <1>1. MemoryInv => DirectoryHeld /\ CurHeld
    BY DEF MemoryInv
  <1>2. QED
    BY <1>1, MemoryInvariant, PTL

-----------------------------------------------------------------------------
(* Which pages a process has mapped in each state of its life.              *)

\* The frames the loader holds are those of the segment that it still has to
\* map, and nobody holds frames when no segment is being loaded.
TakenInv ==
  IF op.kind \in {"load", "map"} /\ LoadsMore THEN Len(taken) <= Segment.count ELSE taken = <<>>

SegmentPages(p, i) == {v \in Vpages : /\ Program[p][i].first <= v
                                      /\ v < Program[p][i].first + Program[p][i].count}

\* The pages of the segments before the n-th.
PagesBefore(p, n) == UNION {SegmentPages(p, i) : i \in {j \in DOMAIN Program[p] : j < n}}

\* The pages of the current segment that are mapped so far.
MappedSoFar == IF op.kind = "map" THEN {v \in Vpages : Segment.first <= v /\ v < NextPage} ELSE {}

Loads(p) == op.p = p /\ op.kind \in {"load", "map"}

\* The pages from address lo to address hi.
PagesBetween(lo, hi) == {v \in Vpages : lo <= v * PageSize /\ v * PageSize < hi}

PagesBelowBrk(p) == PagesBetween(MinBrk(p), pgbrk[p])

\* What the reaper can find: the regions, and the pages between the lowest
\* break and the break.
Reclaimable(p) ==
  /\ MappedPages(p) \subseteq Range(regions[p]) \cup PagesBelowBrk(p)
  /\ Aligned(MinBrk(p))
  /\ MinBrk(p) = 0 => pgbrk[p] = 0

Unloaded(p) ==
  pstate[p] \in {"none", "starting"} => regions[p] = <<>> /\ MappedPages(p) = {} /\ pgbrk[p] = 0

Loading(p) ==
  /\ pstate[p] = "loading" => pgbrk[p] = 0 /\ (Loads(p) \/ ~LoadsCleanly(p))
  /\ Loads(p) => /\ Range(regions[p]) = PagesBefore(p, op.want)
                 /\ MappedPages(p) = Range(regions[p]) \cup MappedSoFar

Running(p) ==
  pstate[p] = "running" =>
    /\ MinBrk(p) = LoaderEnd(p)
    /\ MappedPages(p) = Range(regions[p]) \cup PagesBelowBrk(p)
    /\ RoundUp(brk[p]) = IF MovingBrk(p) THEN op.old ELSE pgbrk[p]
    /\ \A v \in Range(regions[p]) : v * PageSize < LoaderEnd(p)

Exited(p) == pstate[p] = "exited" /\ LoadsCleanly(p) => Reclaimable(p)

Reaping(p) ==
  pstate[p] = "reaping" =>
    /\ op.p = p /\ op.kind \in {"shrink", "regions"}
    /\ LoadsCleanly(p) =>
         IF op.kind = "shrink" THEN Reclaimable(p) /\ op.want = MinBrk(p)
                               ELSE MappedPages(p) \subseteq Range(regions[p])

Gone(p) == pstate[p] = "gone" /\ LoadsCleanly(p) => MappedPages(p) = {}

PagesOK(p) ==
  Unloaded(p) /\ Loading(p) /\ Running(p) /\ Exited(p) /\ Reaping(p) /\ Gone(p)

PageInv == TakenInv /\ (\A p \in Pids : PagesOK(p))
-----------------------------------------------------------------------------
(* Page tables as data, and the pages below a break.                        *)

USE DEF procVars, userVars, stackVars, cpuVars

\* A page that is mapped, and one that is released.
LEMMA MapsOne ==
  ASSUME PoolTypeOK, NEW p \in Pids, NEW v \in Vpages, NEW f \in 1..Frames, NEW n,
         MapPage(p, v, f, n)
  PROVE  /\ MappedPages(p)' = MappedPages(p) \cup {v}
         /\ \A q \in Pids : q # p => page'[q] = page[q]
  <1>1. page \in [Pids -> [Vpages -> 0..Frames]] /\ page[p] \in [Vpages -> 0..Frames]
    BY DEF PoolTypeOK
  <1>2. page' = [page EXCEPT ![p] = [page[p] EXCEPT ![v] = f]]
    BY DEF MapPage
  <1>3. page'[p] = [page[p] EXCEPT ![v] = f]
    BY <1>1, <1>2
  <1>4. /\ \A q \in Pids : q # p => page'[q] = page[q]
        /\ \A w \in Vpages : page'[p][w] = IF w = v THEN f ELSE page[p][w]
    BY <1>1, <1>2, <1>3
  <1>5. QED
    BY <1>4, MemoryAssumption DEF MappedPages, NoFrame

\* A page that is released is mapped no more.
LEMMA ReleasesOne ==
  ASSUME PoolTypeOK, NEW p \in Pids, NEW v \in Vpages, ReleasePage(p, v)
  PROVE  /\ MappedPages(p)' = MappedPages(p) \ {v}
         /\ \A q \in Pids : q # p => page'[q] = page[q]
  <1>1. page \in [Pids -> [Vpages -> 0..Frames]] /\ page[p] \in [Vpages -> 0..Frames]
    BY DEF PoolTypeOK
  <1>2. page' = [page EXCEPT ![p] = [page[p] EXCEPT ![v] = NoFrame]]
    BY DEF ReleasePage
  <1>3. page'[p] = [page[p] EXCEPT ![v] = NoFrame]
    BY <1>1, <1>2
  <1>4. /\ \A q \in Pids : q # p => page'[q] = page[q]
        /\ \A w \in Vpages : page'[p][w] = IF w = v THEN NoFrame ELSE page[p][w]
    BY <1>1, <1>2, <1>3
  <1>5. QED
    BY <1>4 DEF MappedPages

\* Moving the upper end by one page adds the page at it.
LEMMA OnePageMore ==
  ASSUME NEW lo \in Int, NEW x \in Nat, Aligned(x), x < UserTop, lo <= x
  PROVE  /\ PageOf(x) \in Vpages /\ PageOf(x) * PageSize = x
         /\ PagesBetween(lo, x + PageSize) = PagesBetween(lo, x) \cup {PageOf(x)}
         /\ PageOf(x) \notin PagesBetween(lo, x)
  <1> DEFINE v == PageOf(x)
  <1>1. v \in Vpages /\ v * PageSize = x /\ v \in Nat /\ PageSize \in Nat \ {0}
    BY PageOfAligned, MemoryAssumption
  <1> HIDE DEF v
  <1>2. ASSUME NEW w \in Vpages
        PROVE  /\ w * PageSize \in Int
               /\ w * PageSize < x + PageSize <=> w <= v
               /\ w * PageSize < x <=> w < v
    <2>1. w \in Int /\ v + 1 \in Int /\ (v + 1) * PageSize = x + PageSize
      BY <1>1, ProductOrder DEF Vpages
    <2>2. /\ w * PageSize \in Int
          /\ w < v + 1 <=> w * PageSize < (v + 1) * PageSize
          /\ w < v <=> w * PageSize < v * PageSize
      BY <1>1, <2>1, ProductOrder
    <2>3. QED
      BY <1>1, <2>1, <2>2
  <1>3. \A w \in Vpages : w <= v <=> (w < v \/ w = v)
    BY <1>1 DEF Vpages
  <1>4. PagesBetween(lo, x + PageSize) = PagesBetween(lo, x) \cup {v} /\ v \notin PagesBetween(lo, x)
    <2>1. \A w \in Vpages : w \in PagesBetween(lo, x + PageSize) <=> lo <= w * PageSize /\ w <= v
      BY <1>2 DEF PagesBetween
    <2>2. \A w \in Vpages : w \in PagesBetween(lo, x) <=> lo <= w * PageSize /\ w < v
      BY <1>2 DEF PagesBetween
    <2>3. lo <= v * PageSize /\ ~ (v < v)
      BY <1>1
    <2>4. PagesBetween(lo, x + PageSize) \subseteq Vpages /\ PagesBetween(lo, x) \subseteq Vpages
      BY DEF PagesBetween
    <2>5. QED
      BY <1>1, <1>3, <2>1, <2>2, <2>3, <2>4
  <1>5. QED
    BY <1>1, <1>4 DEF v

\* Moving it back removes the page below it.
LEMMA OnePageLess ==
  ASSUME NEW lo \in Nat, NEW y \in Nat, Aligned(y), y <= UserTop, lo < y, Aligned(lo)
  PROVE  /\ PageOf(y) - 1 \in Vpages /\ (PageOf(y) - 1) * PageSize = y - PageSize
         /\ lo <= y - PageSize
         /\ PagesBetween(lo, y - PageSize) = PagesBetween(lo, y) \ {PageOf(y) - 1}
  <1> DEFINE x == y - PageSize
  <1>1. x \in Nat /\ Aligned(x) /\ lo <= x /\ x < UserTop /\ y = x + PageSize
    BY AlignedApart, MemoryAssumption
  <1> HIDE DEF x
  <1>2. /\ PageOf(x) \in Vpages /\ PageOf(x) * PageSize = x
        /\ PagesBetween(lo, y) = PagesBetween(lo, x) \cup {PageOf(x)}
        /\ PageOf(x) \notin PagesBetween(lo, x)
    BY <1>1, OnePageMore
  <1>3. PageOf(y) = PageOf(x) + 1
    <2>1. PageOf(x) \in Nat /\ PageOf(x) + 1 \in Nat /\ PageSize \in Nat \ {0}
      BY <1>2, MemoryAssumption DEF Vpages
    <2>2. (PageOf(x) + 1) * PageSize = PageOf(x) * PageSize + PageSize
      BY <2>1, ProductOrder
    <2>3. (PageOf(x) + 1) * PageSize = y
      BY <1>1, <1>2, <2>2
    <2>4. QED
      BY <2>1, <2>3, DivisionExact DEF PageOf
  <1>4. PageOf(y) - 1 = PageOf(x)
    BY <1>2, <1>3 DEF Vpages
  <1>5. PagesBetween(lo, x) = PagesBetween(lo, y) \ {PageOf(x)}
    BY <1>2
  <1>6. QED
    BY <1>1, <1>2, <1>4, <1>5 DEF x

\* Nothing lies between equal ends.
LEMMA NoPages ==
  ASSUME NEW x \in Int
  PROVE  PagesBetween(x, x) = {}
  <1>1. \A v \in Vpages : v * PageSize \in Int
    BY MemoryAssumption, ProductOrder DEF Vpages
  <1>2. QED
    BY <1>1 DEF PagesBetween

\* A page boundary is its own rounding.
LEMMA RoundUpAligned ==
  ASSUME NEW x \in Nat, Aligned(x)
  PROVE  RoundUp(x) = x
  BY RoundUpFacts, RoundUpLeast

\* An empty list has no elements.
LEMMA RangeEmpty == Range(<<>>) = {}
  BY DEF Range

\* What a sequence of pages holds, longer or shorter.
LEMMA RangeFacts ==
  ASSUME NEW S, NEW q \in Seq(S)
  PROVE  /\ Range(<<>>) = {}
         /\ \A r \in Seq(S) : Range(q \o r) = Range(q) \cup Range(r)
         /\ q # <<>> => /\ Head(q) \in S
                        /\ Range(q) \subseteq Range(Tail(q)) \cup {Head(q)}
  <1>1. Range(<<>>) = {}
    BY DEF Range
  <1>2. ASSUME NEW r \in Seq(S)
        PROVE  Range(q \o r) = Range(q) \cup Range(r)
    <2>1. /\ DOMAIN q = 1..Len(q) /\ DOMAIN r = 1..Len(r) /\ Len(q) \in Nat /\ Len(r) \in Nat
          /\ DOMAIN (q \o r) = 1..(Len(q) + Len(r))
          /\ \A i \in 1..(Len(q) + Len(r)) :
               (q \o r)[i] = IF i <= Len(q) THEN q[i] ELSE r[i - Len(q)]
      OBVIOUS
    <2>2. ASSUME NEW i \in 1..(Len(q) + Len(r))
          PROVE  (q \o r)[i] \in Range(q) \cup Range(r)
      <3>1. CASE i <= Len(q)
        <4>1. i \in DOMAIN q /\ (q \o r)[i] = q[i]
          BY <2>1, <3>1
        <4>2. QED
          BY <4>1 DEF Range
      <3>2. CASE i > Len(q)
        <4>1. i - Len(q) \in DOMAIN r /\ (q \o r)[i] = r[i - Len(q)]
          BY <2>1, <3>2
        <4>2. QED
          BY <4>1 DEF Range
      <3>3. QED
        BY <2>1, <3>1, <3>2
    <2>3. ASSUME NEW i \in DOMAIN q
          PROVE  q[i] \in Range(q \o r)
      <3>1. i \in DOMAIN (q \o r) /\ (q \o r)[i] = q[i]
        BY <2>1
      <3>2. QED
        BY <3>1 DEF Range
    <2>4. ASSUME NEW i \in DOMAIN r
          PROVE  r[i] \in Range(q \o r)
      <3>1. Len(q) + i \in DOMAIN (q \o r) /\ (q \o r)[Len(q) + i] = r[i]
        BY <2>1
      <3>2. QED
        BY <3>1 DEF Range
    <2>5. Range(q \o r) \subseteq Range(q) \cup Range(r)
      BY <2>1, <2>2 DEF Range
    <2>6. Range(q) \subseteq Range(q \o r) /\ Range(r) \subseteq Range(q \o r)
      BY <2>3, <2>4 DEF Range
    <2>7. QED
      BY <2>5, <2>6
  <1>3. ASSUME q # <<>>
        PROVE  Head(q) \in S /\ Range(q) \subseteq Range(Tail(q)) \cup {Head(q)}
    <2>1. /\ DOMAIN q = 1..Len(q) /\ Len(q) \in Nat /\ Len(q) # 0
          /\ DOMAIN Tail(q) = 1..(Len(q) - 1) /\ Head(q) = q[1] /\ q[1] \in S
          /\ \A i \in 1..(Len(q) - 1) : Tail(q)[i] = q[i + 1]
      BY <1>3
    <2>2. ASSUME NEW i \in 1..Len(q), i # 1
          PROVE  q[i] \in Range(Tail(q))
      <3>1. i - 1 \in DOMAIN Tail(q) /\ Tail(q)[i - 1] = q[i]
        BY <2>1, <2>2
      <3>2. QED
        BY <3>1 DEF Range
    <2>3. QED
      BY <2>1, <2>2 DEF Range
  <1>4. QED
    BY <1>1, <1>2, <1>3

-----------------------------------------------------------------------------
(* What a step leaves alone.                                                *)

\* A process none of whose pages, regions or breaks changes, while no operation
\* works for it before or after the step, or the operation goes on unchanged.
LEMMA PagesUntouched ==
  ASSUME NEW p \in Pids, PagesOK(p),
         pstate'[p] = pstate[p], regions'[p] = regions[p], page'[p] = page[p],
         brk'[p] = brk[p], pgbrk'[p] = pgbrk[p], brk_offset'[p] = brk_offset[p],
         \/ op' = op /\ (taken' = taken \/ ~Loads(p))
         \/ (op.kind = "none" \/ op.p # p) /\ (op'.kind = "none" \/ op'.p # p)
  PROVE  PagesOK(p)'
  <1>1. MappedPages(p)' = MappedPages(p)
    BY DEF MappedPages
  <1>2. Range(regions[p])' = Range(regions[p])
    BY DEF Range
  <1>3. CASE op' = op /\ (taken' = taken \/ ~Loads(p))
    <2>1. /\ MinBrk(p)' = MinBrk(p) /\ MovingBrk(p)' = MovingBrk(p) /\ Loads(p)' = Loads(p)
          /\ PagesBelowBrk(p)' = PagesBelowBrk(p)
      BY <1>3 DEF MinBrk, MovingBrk, Loads, PagesBelowBrk, PagesBetween
    <2>2. Reclaimable(p)' = Reclaimable(p)
      BY <1>1, <1>2, <2>1 DEF Reclaimable, Aligned
    <2>3. Loads(p) => MappedSoFar' = MappedSoFar
      BY <1>3 DEF MappedSoFar, Segment, NextPage
    <2>4. Unloaded(p)' /\ Exited(p)' /\ Gone(p)' /\ Reaping(p)'
      BY <1>1, <1>2, <1>3, <2>1, <2>2
         DEF PagesOK, Unloaded, Exited, Gone, Reaping, LoadsCleanly
    <2>5. Running(p)'
      BY <1>1, <1>2, <1>3, <2>1 DEF PagesOK, Running, RoundUp, LoaderEnd
    <2>6. Loading(p)'
      BY <1>1, <1>2, <1>3, <2>1, <2>3 DEF PagesOK, Loading, PagesBefore, SegmentPages, LoadsCleanly
    <2>7. QED
      BY <2>4, <2>5, <2>6 DEF PagesOK
  <1>4. CASE (op.kind = "none" \/ op.p # p) /\ (op'.kind = "none" \/ op'.p # p)
    <2>1. /\ MinBrk(p)' = MinBrk(p) /\ ~MovingBrk(p)' /\ ~MovingBrk(p)
          /\ ~Loads(p)' /\ ~Loads(p)
          /\ PagesBelowBrk(p)' = PagesBelowBrk(p)
      BY <1>4 DEF MinBrk, MovingBrk, Loads, PagesBelowBrk, PagesBetween
    <2>2. Reclaimable(p)' = Reclaimable(p)
      BY <1>1, <1>2, <2>1 DEF Reclaimable, Aligned
    <2>3. Unloaded(p)' /\ Exited(p)' /\ Gone(p)' /\ Reaping(p)'
      BY <1>1, <1>2, <1>4, <2>1, <2>2
         DEF PagesOK, Unloaded, Exited, Gone, Reaping, LoadsCleanly
    <2>4. Running(p)'
      BY <1>1, <1>2, <2>1 DEF PagesOK, Running, RoundUp, LoaderEnd
    <2>5. Loading(p)'
      BY <2>1 DEF PagesOK, Loading, LoadsCleanly
    <2>6. QED
      BY <2>3, <2>4, <2>5 DEF PagesOK
  <1>5. QED
    BY <1>3, <1>4

\* A step that works on one process.
LEMMA OneProcess ==
  ASSUME PageInv, NEW p \in Pids,
         \A q \in Pids : q # p =>
           /\ pstate'[q] = pstate[q] /\ regions'[q] = regions[q] /\ page'[q] = page[q]
           /\ brk'[q] = brk[q] /\ pgbrk'[q] = pgbrk[q] /\ brk_offset'[q] = brk_offset[q],
         op.kind = "none" \/ op.p = p,
         op'.kind = "none" \/ op'.p = p,
         PagesOK(p)', TakenInv'
  PROVE  PageInv'
  <1>1. \A q \in Pids : q # p => PagesOK(q)'
    BY PagesUntouched DEF PageInv
  <1>2. QED
    BY <1>1 DEF PageInv

\* Stacks, forks and the choice of the next thread touch no user page.
LEMMA QuietStep ==
  ASSUME PageInv, UNCHANGED <<pstate, regions, page, brk, pgbrk, brk_offset, taken>>,
         \/ op' = op
         \/ op.kind \in {"none", "fork"} /\ op'.kind \in {"none", "fork"}
  PROVE  PageInv'
  <1>1. CASE op' = op
    <2>1. TakenInv'
      BY <1>1 DEF PageInv, TakenInv, LoadsMore, Segment
    <2>2. \A p \in Pids : PagesOK(p)'
      BY <1>1, PagesUntouched DEF PageInv
    <2>3. QED
      BY <2>1, <2>2 DEF PageInv
  <1>2. CASE op.kind \in {"none", "fork"} /\ op'.kind \in {"none", "fork"}
    <2>1. TakenInv'
      BY <1>2 DEF PageInv, TakenInv
    <2> SUFFICES ASSUME NEW p \in Pids
                 PROVE  PagesOK(p)'
      BY <2>1 DEF PageInv
    <2>2. MappedPages(p)' = MappedPages(p) /\ Range(regions[p])' = Range(regions[p])
      BY DEF MappedPages, Range
    <2>3. /\ MinBrk(p)' = MinBrk(p) /\ ~MovingBrk(p)' /\ ~MovingBrk(p)
          /\ ~Loads(p)' /\ ~Loads(p)
          /\ PagesBelowBrk(p)' = PagesBelowBrk(p)
      BY <1>2 DEF MinBrk, MovingBrk, Loads, PagesBelowBrk, PagesBetween
    <2>4. Reclaimable(p)' = Reclaimable(p)
      BY <2>2, <2>3 DEF Reclaimable, Aligned
    <2>5. Unloaded(p)' /\ Exited(p)' /\ Gone(p)' /\ Reaping(p)'
      BY <1>2, <2>2, <2>3, <2>4
         DEF PageInv, PagesOK, Unloaded, Exited, Gone, Reaping, LoadsCleanly
    <2>6. Running(p)' /\ Loading(p)'
      BY <2>2, <2>3 DEF PageInv, PagesOK, Running, RoundUp, LoaderEnd, Loading, LoadsCleanly
    <2>7. QED
      BY <2>5, <2>6 DEF PagesOK
  <1>3. QED
    BY <1>1, <1>2

\* For a running process that is not being loaded only one clause matters.
LEMMA RunningOnly ==
  ASSUME NEW p \in Pids, pstate'[p] = "running", Running(p)', ~Loads(p)'
  PROVE  PagesOK(p)'
  BY DEF PagesOK, Unloaded, Loading, Exited, Reaping, Gone

\* For one that is reaped, too.
LEMMA ReapingOnly ==
  ASSUME NEW p \in Pids, pstate'[p] = "reaping", Reaping(p)', ~Loads(p)'
  PROVE  PagesOK(p)'
  BY DEF PagesOK, Unloaded, Loading, Exited, Running, Gone

-----------------------------------------------------------------------------
(* The break.                                                               *)

\* Where the break of a process lies when an operation moves it, and the
\* bounds on its lowest value.
LEMMA MinBrkFacts ==
  ASSUME MemoryInv, NEW p \in Pids
  PROVE  /\ MinBrk(p) \in Int /\ op.old \in Nat
         /\ MovingBrk(p) => MinBrk(p) = op.old - brk_offset[p]
         /\ ~MovingBrk(p) => MinBrk(p) = pgbrk[p] - brk_offset[p] /\ MinBrk(p) \in Nat
  BY BrkFacts, OpFacts DEF MinBrk, MovingBrk, MemoryInv, BrkInv

\* An operation on the break by a process that runs.
LEMMA RunningBrkStep ==
  ASSUME MemoryInv, PageInv, NEW p \in Pids, pstate[p] = "running",
         UNCHANGED <<pstate, regions, taken>>,
         op.kind = "none" \/ MovingBrk(p), op'.kind = "none" \/ MovingBrk(p)',
         \A q \in Pids : q # p => /\ page'[q] = page[q] /\ brk'[q] = brk[q]
                                  /\ pgbrk'[q] = pgbrk[q] /\ brk_offset'[q] = brk_offset[q],
         MinBrk(p)' = MinBrk(p),
         MappedPages(p)' = Range(regions[p]) \cup PagesBelowBrk(p)',
         RoundUp(brk'[p]) = IF MovingBrk(p)' THEN op'.old ELSE pgbrk'[p]
  PROVE  PageInv'
  <1>1. TakenInv'
    BY DEF PageInv, TakenInv, MovingBrk
  <1>2. Range(regions[p])' = Range(regions[p]) /\ RoundUp(brk[p])' = RoundUp(brk'[p])
    BY DEF Range, RoundUp
  <1>3. Running(p)'
    BY <1>2 DEF PageInv, PagesOK, Running, LoaderEnd
  <1>4. PagesOK(p)'
    BY <1>3, RunningOnly DEF Loads, MovingBrk
  <1>5. QED
    BY <1>1, <1>4, OneProcess DEF MovingBrk

\* What the invariant says of a process that runs.
LEMMA RunningFacts ==
  ASSUME MemoryInv, PageInv, NEW p \in Pids, pstate[p] = "running"
  PROVE  /\ MinBrk(p) = LoaderEnd(p) /\ MinBrk(p) \in Nat /\ Aligned(MinBrk(p))
         /\ MappedPages(p) = Range(regions[p]) \cup PagesBelowBrk(p)
         /\ RoundUp(brk[p]) = IF MovingBrk(p) THEN op.old ELSE pgbrk[p]
         /\ \A v \in Range(regions[p]) : v * PageSize < MinBrk(p)
         /\ PagesBelowBrk(p) = PagesBetween(MinBrk(p), pgbrk[p])
  BY LoaderEndFacts DEF PageInv, PagesOK, Running, PagesBelowBrk

\* A break in the page of the old one.
LEMMA BrkSamePagesPages ==
  ASSUME MemoryInv, PageInv, NEW p \in Pids, NEW want \in 1..(UserTop + PageSize),
         BrkSamePages(p, want)
  PROVE  PageInv'
  <1>1. /\ op.kind = "none" /\ op' = op /\ pstate[p] = "running" /\ RoundUp(want) = pgbrk[p]
        /\ brk' = [brk EXCEPT ![p] = want]
        /\ UNCHANGED <<procVars, page, pgbrk, brk_offset, stackVars, taken>>
    BY DEF BrkSamePages, InUser, Idle
  <1>2. /\ brk'[p] = want /\ \A q \in Pids : q # p => brk'[q] = brk[q]
    BY <1>1 DEF MemoryInv, TypeOK, BrkTypeOK
  <1>3. ~MovingBrk(p)' /\ ~MovingBrk(p) /\ MinBrk(p)' = MinBrk(p)
    BY <1>1 DEF MovingBrk, MinBrk
  <1>4. MappedPages(p)' = Range(regions[p]) \cup PagesBelowBrk(p)'
    BY <1>1, <1>3, RunningFacts DEF MappedPages, PagesBelowBrk, PagesBetween
  <1>5. QED
    BY <1>1, <1>2, <1>3, <1>4, RunningBrkStep

\* The break starts to move, gives up growing, or is back where it was.
LEMMA BrkStartPages ==
  ASSUME MemoryInv, PageInv, NEW p \in Pids, NEW want \in 1..(UserTop + PageSize),
         BrkStart(p, want)
  PROVE  PageInv'
  <1>1. /\ op.kind = "none" /\ pstate[p] = "running"
        /\ op' = [kind |-> IF RoundUp(want) > pgbrk[p] THEN "grow" ELSE "shrink",
                  p |-> p, want |-> want, old |-> pgbrk[p]]
        /\ UNCHANGED <<procVars, userVars, stackVars, taken>>
    BY DEF BrkStart, InUser, Idle
  <1>2. MovingBrk(p)' /\ ~MovingBrk(p) /\ op'.old = pgbrk[p] /\ MinBrk(p)' = MinBrk(p)
    BY <1>1 DEF MovingBrk, MinBrk
  <1>3. MappedPages(p)' = Range(regions[p]) \cup PagesBelowBrk(p)'
    BY <1>1, <1>2, RunningFacts DEF MappedPages, PagesBelowBrk, PagesBetween
  <1>4. RoundUp(brk'[p]) = op'.old
    BY <1>1, <1>2, RunningFacts
  <1>5. QED
    BY <1>1, <1>2, <1>3, <1>4, RunningBrkStep

\* brk: growing that finds no frame starts the way back.
LEMMA GrowGivesUpPages ==
  ASSUME MemoryInv, PageInv, GrowGivesUp
  PROVE  PageInv'
  <1>0. PICK p \in Pids : p = op.p
    BY DEF GrowGivesUp, Doing, MemoryInv, OpInv
  <1>1. /\ op.kind = "grow" /\ p = op.p /\ pstate[p] = "running"
        /\ op' = [op EXCEPT !.kind = "rollback"]
        /\ UNCHANGED <<procVars, userVars, stackVars, taken>>
    BY <1>0 DEF GrowGivesUp, Doing, MemoryInv, GrowInv, OpInv
  <1>2. op'.kind = "rollback" /\ op'.p = p /\ op'.old = op.old
    BY <1>1, OpFacts
  <1>3. MovingBrk(p)' /\ MovingBrk(p) /\ MinBrk(p)' = MinBrk(p)
    BY <1>1, <1>2 DEF MovingBrk, MinBrk
  <1>4. MappedPages(p)' = Range(regions[p]) \cup PagesBelowBrk(p)'
    BY <1>1, <1>3, RunningFacts DEF MappedPages, PagesBelowBrk, PagesBetween
  <1>5. RoundUp(brk'[p]) = op'.old
    BY <1>1, <1>2, <1>3, RunningFacts
  <1>6. QED
    BY <1>1, <1>3, <1>4, <1>5, RunningBrkStep

\* The way back ends at the old break.
LEMMA RollbackDonePages ==
  ASSUME MemoryInv, PageInv, RollbackDone
  PROVE  PageInv'
  <1>0. PICK p \in Pids : p = op.p
    BY DEF RollbackDone, Doing, MemoryInv, OpInv
  <1>1. /\ op.kind = "rollback" /\ p = op.p /\ pstate[p] = "running" /\ pgbrk[p] = op.old
        /\ op' = NoOp
        /\ UNCHANGED <<procVars, userVars, stackVars, taken>>
    BY <1>0 DEF RollbackDone, RollbackEnd, Doing, MemoryInv, GrowInv, OpInv
  <1>2. ~MovingBrk(p)' /\ MovingBrk(p) /\ op'.kind = "none" /\ MinBrk(p)' = MinBrk(p)
    BY <1>1 DEF MovingBrk, MinBrk, NoOp
  <1>3. MappedPages(p)' = Range(regions[p]) \cup PagesBelowBrk(p)'
    BY <1>1, <1>2, RunningFacts DEF MappedPages, PagesBelowBrk, PagesBetween
  <1>4. RoundUp(brk'[p]) = pgbrk'[p]
    BY <1>1, <1>2, RunningFacts
  <1>5. QED
    BY <1>1, <1>2, <1>3, <1>4, RunningBrkStep

\* One page more is mapped at the break.
LEMMA GrowPagePages ==
  ASSUME MemoryInv, PageInv, GrowPage
  PROVE  PageInv'
  <1>0. PICK p \in Pids : p = op.p
    BY DEF GrowPage, Doing, MemoryInv, OpInv
  <1> DEFINE v == PageOf(pgbrk[p])
             frames == IF NeedsTable(p, v) THEN 2 ELSE 1
  <1>1. /\ op.kind = "grow" /\ p = op.p /\ pstate[p] = "running"
        /\ pgbrk[p] < RoundUp(op.want) /\ RoundUp(op.want) <= UserTop
        /\ BrkReserve <= Available
    BY <1>0, SequenceFacts, MemoryAssumption
       DEF GrowPage, Doing, GrowFails, MemoryInv, TypeOK, PoolTypeOK, OpInv, GrowInv, Available
  <1>2. /\ frames \in 1..2 /\ frames <= Available /\ Available \in Nat
    BY <1>1, SequenceFacts, MemoryAssumption DEF MemoryInv, TypeOK, PoolTypeOK, Available
  <1>3. /\ MapPage(p, v, Top(1), 2) /\ op' = op
        /\ pgbrk' = [pgbrk EXCEPT ![p] = @ + PageSize]
        /\ UNCHANGED <<procVars, brk, brk_offset, stackVars, taken>>
    BY <1>1, <1>2 DEF GrowPage
  <1>4. Top(1) \in 1..Frames
    BY <1>2, PoppedFacts DEF MemoryInv, TypeOK, PoolTypeOK
  <1>5. /\ pgbrk[p] \in Nat /\ Aligned(pgbrk[p]) /\ pgbrk[p] < UserTop /\ MinBrk(p) <= pgbrk[p]
        /\ MinBrk(p) \in Int
    <2>1. op.old <= pgbrk[p] /\ brk_offset[p] \in Nat /\ RoundUp(op.want) \in Nat
      BY <1>1, BrkFacts, OpFacts, RoundUpFacts DEF MemoryInv, GrowInv
    <2>2. MinBrk(p) = op.old - brk_offset[p]
      BY <1>1, MinBrkFacts DEF MovingBrk
    <2>3. QED
      BY <1>1, <2>1, <2>2, BrkFacts, OpFacts
  <1>6. /\ v \in Vpages
        /\ PagesBetween(MinBrk(p), pgbrk[p] + PageSize) = PagesBetween(MinBrk(p), pgbrk[p]) \cup {v}
    BY <1>5, OnePageMore DEF v
  <1>7. /\ MappedPages(p)' = MappedPages(p) \cup {v}
        /\ \A q \in Pids : q # p => page'[q] = page[q]
    BY <1>1, <1>3, <1>4, <1>6, MapsOne DEF MemoryInv, TypeOK
  <1>8. /\ pgbrk'[p] = pgbrk[p] + PageSize /\ \A q \in Pids : q # p => pgbrk'[q] = pgbrk[q]
    BY <1>1, <1>3 DEF MemoryInv, TypeOK, BrkTypeOK
  <1>9. MovingBrk(p)' /\ MovingBrk(p) /\ MinBrk(p)' = MinBrk(p)
    BY <1>1, <1>3 DEF MovingBrk, MinBrk
  <1>10. PagesBelowBrk(p)' = PagesBetween(MinBrk(p), pgbrk'[p])
    BY <1>9 DEF PagesBelowBrk, PagesBetween
  <1>11. MappedPages(p)' = Range(regions[p]) \cup PagesBelowBrk(p)'
    BY <1>1, <1>6, <1>7, <1>8, <1>10, RunningFacts
  <1>12. RoundUp(brk'[p]) = op'.old
    BY <1>1, <1>3, <1>9, RunningFacts
  <1>13. QED
    BY <1>1, <1>3, <1>7, <1>8, <1>9, <1>11, <1>12, RunningBrkStep

\* The break has grown.
LEMMA GrowDonePages ==
  ASSUME MemoryInv, PageInv, GrowDone
  PROVE  PageInv'
  <1>0. PICK p \in Pids : p = op.p
    BY DEF GrowDone, Doing, MemoryInv, OpInv
  <1>1. /\ op.kind = "grow" /\ p = op.p /\ pstate[p] = "running"
        /\ pgbrk[p] = RoundUp(op.want)
        /\ brk_offset' = [brk_offset EXCEPT ![p] = @ + (pgbrk[p] - op.old)]
        /\ brk' = [brk EXCEPT ![p] = op.want]
        /\ op' = NoOp
        /\ UNCHANGED <<procVars, page, pgbrk, stackVars, taken>>
    BY <1>0 DEF GrowDone, Doing, MemoryInv, GrowInv, OpInv
  <1>2. /\ brk_offset'[p] = brk_offset[p] + (pgbrk[p] - op.old) /\ brk'[p] = op.want
        /\ \A q \in Pids : q # p => brk_offset'[q] = brk_offset[q] /\ brk'[q] = brk[q]
    BY <1>1 DEF MemoryInv, TypeOK, BrkTypeOK
  <1>3. ~MovingBrk(p)' /\ MovingBrk(p) /\ op'.kind = "none"
    BY <1>1 DEF MovingBrk, NoOp
  <1>4. MinBrk(p)' = MinBrk(p)
    <2>1. MinBrk(p)' = pgbrk[p] - brk_offset'[p]
      BY <1>1, <1>3 DEF MinBrk
    <2>2. MinBrk(p) = op.old - brk_offset[p]
      BY <1>1, <1>3 DEF MinBrk
    <2>3. pgbrk[p] \in Int /\ brk_offset[p] \in Int /\ op.old \in Int
      BY <1>1, BrkFacts, OpFacts
    <2>4. QED
      BY <1>2, <2>1, <2>2, <2>3
  <1>5. MappedPages(p)' = Range(regions[p]) \cup PagesBelowBrk(p)'
    BY <1>1, <1>4, RunningFacts DEF MappedPages, PagesBelowBrk, PagesBetween
  <1>6. QED
    BY <1>1, <1>2, <1>3, <1>4, <1>5, RunningBrkStep

\* Releasing the page below the break, which lies above the lowest break.
LEMMA BelowBrkReleased ==
  ASSUME MemoryInv, NEW p \in Pids, MinBrk(p) \in Nat, Aligned(MinBrk(p)), MinBrk(p) < pgbrk[p],
         ReleasePage(p, PageOf(pgbrk[p]) - 1),
         pgbrk' = [pgbrk EXCEPT ![p] = @ - PageSize], MinBrk(p)' = MinBrk(p)
  PROVE  /\ MappedPages(p)' = MappedPages(p) \ {PageOf(pgbrk[p]) - 1}
         /\ PagesBelowBrk(p)' = PagesBelowBrk(p) \ {PageOf(pgbrk[p]) - 1}
         /\ (PageOf(pgbrk[p]) - 1) * PageSize >= MinBrk(p)
         /\ pgbrk'[p] = pgbrk[p] - PageSize
         /\ \A q \in Pids : q # p => page'[q] = page[q] /\ pgbrk'[q] = pgbrk[q]
  <1> DEFINE v == PageOf(pgbrk[p]) - 1
  <1>1. pgbrk[p] \in Nat /\ Aligned(pgbrk[p]) /\ pgbrk[p] <= UserTop
    BY BrkFacts
  <1>2. /\ v \in Vpages /\ v * PageSize = pgbrk[p] - PageSize /\ MinBrk(p) <= pgbrk[p] - PageSize
        /\ PagesBetween(MinBrk(p), pgbrk[p] - PageSize) = PagesBetween(MinBrk(p), pgbrk[p]) \ {v}
    BY <1>1, OnePageLess
  <1> HIDE DEF v
  <1>3. ReleasePage(p, v)
    BY DEF v
  <1>4. MappedPages(p)' = MappedPages(p) \ {v} /\ \A q \in Pids : q # p => page'[q] = page[q]
    BY <1>2, <1>3, ReleasesOne DEF MemoryInv, TypeOK
  <1>5. /\ pgbrk'[p] = pgbrk[p] - PageSize /\ \A q \in Pids : q # p => pgbrk'[q] = pgbrk[q]
    BY DEF MemoryInv, TypeOK, BrkTypeOK
  <1>6. PagesBelowBrk(p)' = PagesBetween(MinBrk(p), pgbrk'[p])
    BY DEF PagesBelowBrk, PagesBetween
  <1>7. PagesBelowBrk(p)' = PagesBelowBrk(p) \ {v}
    BY <1>2, <1>5, <1>6 DEF PagesBelowBrk
  <1>8. v * PageSize >= MinBrk(p)
    BY <1>1, <1>2, BrkFacts
  <1>9. QED
    BY <1>4, <1>5, <1>7, <1>8 DEF v

\* ... by a process that runs.
LEMMA RunningReleases ==
  ASSUME MemoryInv, PageInv, NEW p \in Pids, pstate[p] = "running", MovingBrk(p),
         MinBrk(p) < pgbrk[p],
         ReleasePage(p, PageOf(pgbrk[p]) - 1), pgbrk' = [pgbrk EXCEPT ![p] = @ - PageSize],
         UNCHANGED <<procVars, brk, brk_offset, stackVars, op, taken>>
  PROVE  PageInv'
  <1>1. MinBrk(p)' = MinBrk(p) /\ MovingBrk(p)'
    BY DEF MinBrk, MovingBrk
  <1>2. MinBrk(p) \in Nat /\ Aligned(MinBrk(p))
    BY RunningFacts
  <1>3. /\ MappedPages(p)' = MappedPages(p) \ {PageOf(pgbrk[p]) - 1}
        /\ PagesBelowBrk(p)' = PagesBelowBrk(p) \ {PageOf(pgbrk[p]) - 1}
        /\ (PageOf(pgbrk[p]) - 1) * PageSize >= MinBrk(p)
        /\ \A q \in Pids : q # p => page'[q] = page[q] /\ pgbrk'[q] = pgbrk[q]
    BY <1>1, <1>2, BelowBrkReleased
  <1>4. PageOf(pgbrk[p]) - 1 \notin Range(regions[p])
    <2>1. \A v \in Range(regions[p]) : v * PageSize < MinBrk(p) /\ v * PageSize \in Int
      <3>1. Range(regions[p]) \subseteq Vpages
        BY DEF MemoryInv, TypeOK, StateTypeOK, Range
      <3>2. QED
        BY <3>1, RunningFacts, ProductOrder, MemoryAssumption DEF Vpages
    <2>2. QED
      BY <1>2, <1>3, <2>1
  <1>5. MappedPages(p)' = Range(regions[p]) \cup PagesBelowBrk(p)'
    BY <1>3, <1>4, RunningFacts
  <1>6. RoundUp(brk'[p]) = op'.old
    BY RunningFacts
  <1>7. QED
    BY <1>1, <1>3, <1>5, <1>6, RunningBrkStep

\* One page of the way back.
LEMMA RollbackPagePages ==
  ASSUME MemoryInv, PageInv, RollbackPage
  PROVE  PageInv'
  <1>1. PICK p \in Pids : p = op.p
    BY DEF RollbackPage, Doing, MemoryInv, OpInv
  <1>2. /\ op.kind = "rollback" /\ pstate[p] = "running" /\ pgbrk[p] > op.old
        /\ pgbrk' = [pgbrk EXCEPT ![p] = @ - PageSize]
        /\ ReleasePage(p, PageOf(pgbrk[p]) - 1)
        /\ UNCHANGED <<procVars, brk, brk_offset, stackVars, op, taken>>
    BY <1>1 DEF RollbackPage, RollbackEnd, Doing, MemoryInv, GrowInv
  <1>3. MovingBrk(p) /\ MinBrk(p) = op.old - brk_offset[p]
    BY <1>1, <1>2 DEF MovingBrk, MinBrk
  <1>4. MinBrk(p) < pgbrk[p]
    BY <1>2, <1>3, BrkFacts, OpFacts
  <1>5. QED
    BY <1>2, <1>3, <1>4, RunningReleases

\* ... and by one that is reaped.
LEMMA ReapedReleases ==
  ASSUME MemoryInv, PageInv, NEW p \in Pids, pstate[p] = "reaping", op.p = p, op.kind = "shrink",
         MinBrk(p) \in Nat, MinBrk(p) < pgbrk[p],
         ReleasePage(p, PageOf(pgbrk[p]) - 1), pgbrk' = [pgbrk EXCEPT ![p] = @ - PageSize],
         UNCHANGED <<procVars, brk, brk_offset, stackVars, op, taken>>
  PROVE  PageInv'
  <1>1. MinBrk(p)' = MinBrk(p)
    BY DEF MinBrk, MovingBrk
  <1>2. \A q \in Pids : q # p => page'[q] = page[q] /\ pgbrk'[q] = pgbrk[q]
    <2>1. page' = [page EXCEPT ![p] = [page[p] EXCEPT ![PageOf(pgbrk[p]) - 1] = NoFrame]]
      BY DEF ReleasePage
    <2>2. QED
      BY <2>1 DEF MemoryInv, TypeOK, PoolTypeOK, BrkTypeOK
  <1>3. Range(regions[p])' = Range(regions[p])
    BY DEF Range
  <1>4. LoadsCleanly(p) => Reclaimable(p)' /\ op'.want = MinBrk(p)'
    <2> SUFFICES ASSUME LoadsCleanly(p)
                 PROVE  Reclaimable(p)' /\ op'.want = MinBrk(p)'
      OBVIOUS
    <2>1. Reclaimable(p) /\ op.want = MinBrk(p)
      BY DEF PageInv, PagesOK, Reaping
    <2>2. /\ MappedPages(p)' = MappedPages(p) \ {PageOf(pgbrk[p]) - 1}
          /\ PagesBelowBrk(p)' = PagesBelowBrk(p) \ {PageOf(pgbrk[p]) - 1}
      BY <1>1, <2>1, BelowBrkReleased DEF Reclaimable
    <2>3. MinBrk(p) # 0
      BY <2>1 DEF Reclaimable
    <2>4. Reclaimable(p)'
      BY <1>1, <1>3, <2>1, <2>2, <2>3 DEF Reclaimable, Aligned
    <2>5. QED
      BY <1>1, <2>1, <2>4
  <1>5. Reaping(p)'
    BY <1>4 DEF Reaping, LoadsCleanly
  <1>6. PagesOK(p)' /\ TakenInv'
    BY <1>5, ReapingOnly DEF Loads, PageInv, TakenInv
  <1>7. QED
    BY <1>2, <1>6, OneProcess

\* The bounds of a break that shrinks.
LEMMA ShrinkFacts ==
  ASSUME MemoryInv, PageInv, NEW p \in Pids, op.p = p, op.kind = "shrink"
  PROVE  /\ MovingBrk(p) /\ MinBrk(p) = op.old - brk_offset[p] /\ MinBrk(p) \in Nat
         /\ MinBrk(p) <= op.want /\ op.want <= RoundUp(op.want) /\ RoundUp(op.want) <= pgbrk[p]
         /\ pgbrk[p] <= op.old /\ RoundUp(op.want) \in Nat /\ Aligned(RoundUp(op.want))
         /\ pstate[p] \in {"running", "reaping"}
  BY BrkFacts, OpFacts, RoundUpFacts DEF MovingBrk, MinBrk, MemoryInv, ShrinkInv

\* One page fewer.
LEMMA ShrinkPagePages ==
  ASSUME MemoryInv, PageInv, ShrinkPage
  PROVE  PageInv'
  <1>1. PICK p \in Pids : p = op.p
    BY DEF ShrinkPage, Doing, MemoryInv, OpInv
  <1>2. /\ op.kind = "shrink" /\ pgbrk[p] > RoundUp(op.want)
        /\ pgbrk' = [pgbrk EXCEPT ![p] = @ - PageSize]
        /\ ReleasePage(p, PageOf(pgbrk[p]) - 1)
        /\ UNCHANGED <<procVars, brk, brk_offset, stackVars, op, taken>>
    BY <1>1 DEF ShrinkPage, Doing
  <1>3. MovingBrk(p) /\ MinBrk(p) \in Nat /\ pstate[p] \in {"running", "reaping"}
    BY <1>1, <1>2, ShrinkFacts
  <1>4. MinBrk(p) < pgbrk[p]
    <2>1. MinBrk(p) <= op.want /\ op.want <= RoundUp(op.want) /\ op.want \in Nat
      BY <1>1, <1>2, ShrinkFacts, OpFacts
    <2>2. QED
      BY <1>2, <1>3, <2>1, RoundUpFacts, BrkFacts
  <1>5. QED
    BY <1>1, <1>2, <1>3, <1>4, RunningReleases, ReapedReleases

\* The break has shrunk; the reaper goes on with the regions, and by then no
\* page of a process that was loaded is left outside them.
LEMMA ShrinkDonePages ==
  ASSUME MemoryInv, PageInv, ShrinkDone
  PROVE  PageInv'
  <1>1. PICK p \in Pids : p = op.p
    BY DEF ShrinkDone, Doing, MemoryInv, OpInv
  <1>2. /\ op.kind = "shrink" /\ pgbrk[p] = RoundUp(op.want)
        /\ brk_offset' = [brk_offset EXCEPT ![p] = @ - (op.old - pgbrk[p])]
        /\ brk' = [brk EXCEPT ![p] = op.want]
        /\ op' = IF pstate[p] = "reaping" THEN [op EXCEPT !.kind = "regions"] ELSE NoOp
        /\ UNCHANGED <<procVars, page, pgbrk, stackVars, taken>>
    BY <1>1 DEF ShrinkDone, Doing
  <1>3. /\ brk_offset'[p] = brk_offset[p] - (op.old - pgbrk[p]) /\ brk'[p] = op.want
        /\ \A q \in Pids : q # p => brk_offset'[q] = brk_offset[q] /\ brk'[q] = brk[q]
    BY <1>2 DEF MemoryInv, TypeOK, BrkTypeOK
  <1>4. /\ MovingBrk(p) /\ MinBrk(p) = op.old - brk_offset[p] /\ MinBrk(p) \in Nat
        /\ pstate[p] \in {"running", "reaping"}
    BY <1>1, <1>2, ShrinkFacts
  <1>5. CASE pstate[p] = "running"
    <2>1. ~MovingBrk(p)' /\ op'.kind = "none"
      BY <1>2, <1>5 DEF MovingBrk, NoOp
    <2>2. MinBrk(p)' = pgbrk[p] - brk_offset'[p]
      BY <1>2, <2>1 DEF MinBrk
    <2>3. MinBrk(p)' = MinBrk(p)
      BY <1>3, <1>4, <2>2, BrkFacts, OpFacts
    <2>4. MappedPages(p)' = Range(regions[p]) \cup PagesBelowBrk(p)'
      BY <1>2, <1>5, <2>3, RunningFacts DEF MappedPages, PagesBelowBrk, PagesBetween
    <2>5. QED
      BY <1>2, <1>3, <1>4, <1>5, <2>1, <2>3, <2>4, RunningBrkStep
  <1>6. CASE pstate[p] = "reaping"
    <2>1. op'.kind = "regions" /\ op'.p = p
      BY <1>1, <1>2, <1>6, OpFacts
    <2>2. LoadsCleanly(p) => MappedPages(p) \subseteq Range(regions[p])
      <3> SUFFICES ASSUME LoadsCleanly(p)
                   PROVE  MappedPages(p) \subseteq Range(regions[p])
        OBVIOUS
      <3>1. Reclaimable(p) /\ op.want = MinBrk(p)
        BY <1>2, <1>6 DEF PageInv, PagesOK, Reaping
      <3>2. pgbrk[p] = MinBrk(p)
        BY <1>2, <1>4, <3>1, RoundUpAligned DEF Reclaimable
      <3>3. PagesBelowBrk(p) = {}
        BY <1>4, <3>2, NoPages DEF PagesBelowBrk
      <3>4. QED
        BY <3>1, <3>3 DEF Reclaimable
    <2>3. MappedPages(p)' = MappedPages(p) /\ Range(regions[p])' = Range(regions[p])
      BY <1>2 DEF MappedPages, Range
    <2>4. Reaping(p)'
      BY <2>1, <2>2, <2>3 DEF Reaping, LoadsCleanly
    <2>5. PagesOK(p)' /\ TakenInv'
      BY <1>2, <1>6, <2>1, <2>4, ReapingOnly DEF Loads, PageInv, TakenInv
    <2>6. QED
      BY <1>1, <1>2, <1>3, <1>6, <2>1, <2>5, OneProcess
  <1>7. QED
    BY <1>4, <1>5, <1>6

-----------------------------------------------------------------------------
(* Creating and loading.                                                    *)

\* Of the clauses for a process that is being loaded only one matters.
LEMMA LoadingOnly ==
  ASSUME NEW p \in Pids, pstate'[p] = "loading", Loading(p)'
  PROVE  PagesOK(p)'
  BY DEF PagesOK, Unloaded, Running, Exited, Reaping, Gone

\* exec takes the frames of a directory; no page is mapped yet.
LEMMA ExecPages ==
  ASSUME MemoryInv, PageInv, NEW p \in Pids, Exec(p)
  PROVE  PageInv'
  <1>1. op.kind = "none" /\ pstate[p] = "none"
    BY DEF Exec, Idle
  <1>2. CASE Available < 2
    <2>1. Panic("exec")
      BY <1>2 DEF Exec
    <2>2. QED
      BY <2>1, QuietStep DEF Panic
  <1>3. CASE ~ (Available < 2)
    <2>1. /\ pstate' = [pstate EXCEPT ![p] = "starting"]
          /\ UNCHANGED <<regions, userVars, op, taken>>
      BY <1>3 DEF Exec
    <2>2. pstate'[p] = "starting" /\ \A q \in Pids : q # p => pstate'[q] = pstate[q]
      BY <2>1 DEF MemoryInv, TypeOK, StateTypeOK, Procs
    <2>3. Unloaded(p)'
      BY <1>1, <2>1 DEF PageInv, PagesOK, Unloaded, MappedPages
    <2>4. PagesOK(p)' /\ TakenInv'
      BY <1>1, <2>1, <2>2, <2>3
         DEF PagesOK, Loading, Loads, Running, Exited, Reaping, Gone, PageInv, TakenInv
    <2>5. QED
      BY <1>1, <2>1, <2>2, <2>4, OneProcess
  <1>4. QED
    BY <1>2, <1>3

\* Loading a program begins with its first segment.
LEMMA LoadStartPages ==
  ASSUME MemoryInv, PageInv, NEW p \in Pids, LoadStart(p)
  PROVE  PageInv'
  <1>1. /\ op.kind = "none" /\ pstate[p] = "starting"
        /\ pstate' = [pstate EXCEPT ![p] = "loading"]
        /\ op' = [kind |-> "load", p |-> p, want |-> 1, old |-> 0]
        /\ UNCHANGED <<regions, userVars, taken>>
    BY DEF LoadStart, Idle
  <1>2. /\ pstate'[p] = "loading" /\ \A q \in Pids : q # p => pstate'[q] = pstate[q]
        /\ op'.kind = "load" /\ op'.p = p /\ op'.want = 1
    BY <1>1 DEF MemoryInv, TypeOK, StateTypeOK, Procs
  <1>3. taken = <<>>
    BY <1>1 DEF PageInv, TakenInv
  <1>4. TakenInv'
    <2>1. LoadsMore' => Segment'.count \in Nat
      BY <1>2, ProgramFacts DEF LoadsMore, Segment
    <2>2. Len(taken) = 0
      BY <1>3
    <2>3. LoadsMore' => Len(taken') <= Segment'.count
      BY <1>1, <2>1, <2>2
    <2>4. QED
      BY <1>1, <1>3, <2>3 DEF TakenInv
  <1>5. regions[p] = <<>> /\ MappedPages(p) = {} /\ pgbrk[p] = 0
    BY <1>1 DEF PageInv, PagesOK, Unloaded
  <1>6. Range(regions[p])' = {} /\ MappedPages(p)' = {}
    BY <1>1, <1>5, RangeEmpty DEF MappedPages, Range
  <1>7. PagesBefore(p, 1) = {}
    BY ProgramFacts DEF PagesBefore
  <1>8. Loading(p)'
    <2>1. Loads(p)' /\ MappedSoFar' = {}
      BY <1>2 DEF Loads, MappedSoFar
    <2>2. PagesBefore(p, op'.want) = {}
      BY <1>2, <1>7
    <2>3. QED
      BY <1>1, <1>5, <1>6, <2>1, <2>2 DEF Loading, PagesBefore, SegmentPages
  <1>9. QED
    BY <1>1, <1>2, <1>4, <1>8, LoadingOnly, OneProcess

\* A step of the loader on process p that leaves its regions alone.
LEMMA LoaderStep ==
  ASSUME PageInv, NEW p \in Pids, pstate[p] = "loading", Loads(p), Loads(p)',
         UNCHANGED <<pstate, regions, brk, pgbrk, brk_offset>>,
         op'.want = op.want, \A q \in Pids : q # p => page'[q] = page[q],
         MappedPages(p)' = Range(regions[p]) \cup MappedSoFar', TakenInv'
  PROVE  PageInv'
  <1>1. Range(regions[p]) = PagesBefore(p, op.want) /\ pgbrk[p] = 0
    BY DEF PageInv, PagesOK, Loading
  <1>2. Range(regions[p])' = Range(regions[p]) /\ PagesBefore(p, op.want)' = PagesBefore(p, op.want)
    BY DEF Range, PagesBefore, SegmentPages
  <1>3. Loading(p)'
    BY <1>1, <1>2 DEF Loading
  <1>4. QED
    BY <1>3, LoadingOnly, OneProcess DEF Loads

\* Who loads, and what.
LEMMA LoaderFacts ==
  ASSUME MemoryInv, PageInv, op.kind \in {"load", "map"}
  PROVE  \E p \in Pids : /\ p = op.p /\ pstate[p] = "loading" /\ Loads(p) /\ pgbrk[p] = 0
                         /\ brk_offset[p] = 0
                         /\ Range(regions[p]) = PagesBefore(p, op.want)
                         /\ MappedPages(p) = Range(regions[p]) \cup MappedSoFar
                         /\ op.want \in Nat \ {0}
                         /\ LoadsMore => /\ op.want \in DOMAIN Program[p]
                                         /\ Segment = Program[p][op.want]
                                         /\ Segment.first \in Nat /\ Segment.count \in Nat \ {0}
                                         /\ Segment.first + Segment.count <= UserTop \div PageSize
                         /\ op.kind = "map" => LoadsMore
  <1>1. PICK p \in Pids : p = op.p
    BY DEF MemoryInv, OpInv
  <1>2. pstate[p] = "loading" /\ Loads(p) /\ brk_offset[p] = 0
    BY <1>1 DEF MemoryInv, OpInv, Loads, BrkInv
  <1>3. op.want \in Nat \ {0} /\ (op.kind = "map" => LoadsMore)
    BY <1>1, OpFacts, ProgramFacts DEF MemoryInv, MapInv, LoadsMore
  <1>4. LoadsMore => op.want \in DOMAIN Program[p] /\ Segment = Program[p][op.want]
    BY <1>1, <1>3, ProgramFacts DEF LoadsMore, Segment
  <1>5. QED
    BY <1>1, <1>2, <1>3, <1>4, ProgramFacts DEF PageInv, PagesOK, Loading

\* A frame for a page of the segment.
LEMMA LoadTakePages ==
  ASSUME MemoryInv, PageInv, LoadTake
  PROVE  PageInv'
  <1>1. CASE Available = 0
    <2>1. Panic("load")
      BY <1>1 DEF LoadTake
    <2>2. QED
      BY <2>1, QuietStep DEF Panic
  <1>2. CASE Available # 0
    <2>1. /\ op.kind = "load" /\ LoadsMore /\ Len(taken) < Segment.count
          /\ taken' = Append(taken, Top(1)) /\ op' = op
          /\ UNCHANGED <<procVars, userVars, stackVars>>
      BY <1>2 DEF LoadTake, Doing
    <2>2. PICK p \in Pids : /\ p = op.p /\ pstate[p] = "loading" /\ Loads(p)
                            /\ MappedPages(p) = Range(regions[p]) \cup MappedSoFar
                            /\ Segment.count \in Nat
      BY <2>1, LoaderFacts
    <2>3. Len(taken') <= Segment.count
      BY <2>1, <2>2 DEF MemoryInv, TypeOK, PoolTypeOK
    <2>4. TakenInv'
      BY <2>1, <2>3 DEF TakenInv, LoadsMore, Segment
    <2>5. MappedPages(p)' = Range(regions[p]) \cup MappedSoFar' /\ Loads(p)'
      BY <2>1, <2>2 DEF MappedPages, MappedSoFar, Loads
    <2>6. QED
      BY <2>1, <2>2, <2>4, <2>5, LoaderStep
  <1>3. QED
    BY <1>1, <1>2

\* The frames of a segment are all there.
LEMMA LoadTakenPages ==
  ASSUME MemoryInv, PageInv, LoadTaken
  PROVE  PageInv'
  <1>1. /\ op.kind = "load" /\ LoadsMore /\ Len(taken) = Segment.count
        /\ op' = [op EXCEPT !.kind = "map"]
        /\ UNCHANGED <<procVars, userVars, stackVars, taken>>
    BY DEF LoadTaken, Doing
  <1>2. op'.kind = "map" /\ op'.p = op.p /\ op'.want = op.want
    BY <1>1, OpFacts
  <1>3. PICK p \in Pids : /\ p = op.p /\ pstate[p] = "loading" /\ Loads(p)
                          /\ MappedPages(p) = Range(regions[p]) \cup MappedSoFar
                          /\ Segment.first \in Nat /\ Segment.count \in Nat
    BY <1>1, LoaderFacts
  <1>4. Segment' = Segment /\ LoadsMore' = LoadsMore /\ NextPage' = Segment.first
    BY <1>1, <1>2, <1>3 DEF Segment, LoadsMore, NextPage
  <1>5. TakenInv'
    BY <1>1, <1>2, <1>3, <1>4 DEF TakenInv
  <1>6. MappedSoFar' = {} /\ MappedSoFar = {}
    BY <1>1, <1>2, <1>3, <1>4 DEF MappedSoFar, Vpages
  <1>7. MappedPages(p)' = MappedPages(p) /\ Loads(p)'
    BY <1>1, <1>2, <1>3 DEF MappedPages, Loads
  <1>8. QED
    BY <1>1, <1>2, <1>3, <1>5, <1>6, <1>7, LoaderStep

\* The page the loader maps next.
LEMMA NextPageFacts ==
  ASSUME MemoryInv, PageInv, op.kind = "map", taken # <<>>
  PROVE  /\ NextPage \in Vpages /\ Segment.first <= NextPage
         /\ NextPage < Segment.first + Segment.count
         /\ Len(taken) \in Nat \ {0} /\ Len(taken) <= Segment.count
  <1>1. LoadsMore /\ Segment.first \in Nat /\ Segment.count \in Nat
        /\ Segment.first + Segment.count <= UserTop \div PageSize
    BY LoaderFacts
  <1>2. Len(taken) \in Nat \ {0}
    BY DEF MemoryInv, TypeOK, PoolTypeOK
  <1>3. Len(taken) <= Segment.count
    BY <1>1 DEF PageInv, TakenInv
  <1>4. UserTop \div PageSize \in Nat
    BY Division, MemoryAssumption
  <1>5. QED
    BY <1>1, <1>2, <1>3, <1>4 DEF NextPage, Vpages

\* One page of the image is mapped.
LEMMA LoadMapPages ==
  ASSUME MemoryInv, PageInv, LoadMap
  PROVE  PageInv'
  <1>1. PICK p \in Pids : /\ p = op.p /\ pstate[p] = "loading" /\ Loads(p)
                          /\ MappedPages(p) = Range(regions[p]) \cup MappedSoFar
                          /\ LoadsMore /\ Segment.first \in Nat /\ Segment.count \in Nat
    BY LoaderFacts DEF LoadMap, Doing
  <1> DEFINE frames == IF NeedsTable(p, NextPage) THEN 1 ELSE 0
  <1>2. CASE Available < frames
    <2>1. Panic("load")
      BY <1>1, <1>2 DEF LoadMap
    <2>2. QED
      BY <2>1, QuietStep DEF Panic
  <1>3. CASE ~ (Available < frames)
    <2>1. /\ op.kind = "map" /\ taken # <<>> /\ MapPage(p, NextPage, Head(taken), 1)
          /\ taken' = Tail(taken) /\ op' = op
          /\ UNCHANGED <<procVars, brk, pgbrk, brk_offset, stackVars>>
      BY <1>1, <1>3 DEF LoadMap, Doing
    <2>2. /\ NextPage \in Vpages /\ Segment.first <= NextPage
          /\ Len(taken) \in Nat \ {0} /\ Len(taken) <= Segment.count
      BY <2>1, NextPageFacts
    <2>3. Head(taken) \in 1..Frames /\ Len(taken') = Len(taken) - 1
      <3>1. taken \in Seq(1..Frames)
        BY DEF MemoryInv, TypeOK, PoolTypeOK
      <3>2. Head(taken) \in 1..Frames
        BY <2>1, <3>1, SequenceFacts
      <3>3. Len(Tail(taken)) = Len(taken) - 1
        BY <2>1, <3>1
      <3>4. QED
        BY <2>1, <3>2, <3>3
    <2>4. /\ MappedPages(p)' = MappedPages(p) \cup {NextPage}
          /\ \A q \in Pids : q # p => page'[q] = page[q]
      BY <2>1, <2>2, <2>3, MapsOne DEF MemoryInv, TypeOK
    <2>5. Segment' = Segment /\ LoadsMore' = LoadsMore
      BY <2>1 DEF Segment, LoadsMore
    <2>6. NextPage' = NextPage + 1
      BY <1>1, <2>2, <2>3, <2>5 DEF NextPage
    <2>7. TakenInv'
      BY <1>1, <2>1, <2>2, <2>3, <2>5 DEF TakenInv
    <2>8. MappedSoFar' = MappedSoFar \cup {NextPage}
      BY <1>1, <2>1, <2>2, <2>5, <2>6 DEF MappedSoFar, Vpages
    <2>9. Loads(p)'
      BY <1>1, <2>1 DEF Loads
    <2>10. QED
      BY <1>1, <2>1, <2>4, <2>7, <2>8, <2>9, LoaderStep
  <1>4. QED
    BY <1>2, <1>3

\* The loader finds a page mapped only when two segments share it.
LEMMA LoadFailsUnclean ==
  ASSUME MemoryInv, PageInv, LoadFails
  PROVE  \E p \in Pids : p = op.p /\ pstate[p] = "loading" /\ ~LoadsCleanly(p)
  <1>1. op.kind = "map" /\ taken # <<>> /\ page[op.p][NextPage] # NoFrame
    BY DEF LoadFails, Doing
  <1>2. PICK p \in Pids : /\ p = op.p /\ pstate[p] = "loading"
                          /\ Range(regions[p]) = PagesBefore(p, op.want)
                          /\ MappedPages(p) = Range(regions[p]) \cup MappedSoFar
                          /\ op.want \in DOMAIN Program[p] /\ Segment = Program[p][op.want]
                          /\ Segment.first \in Nat /\ Segment.count \in Nat
    BY <1>1, LoaderFacts
  <1>3. /\ NextPage \in Vpages /\ Segment.first <= NextPage
        /\ NextPage < Segment.first + Segment.count
    BY <1>1, NextPageFacts
  <1>4. NextPage \in MappedPages(p) /\ NextPage \notin MappedSoFar
    BY <1>1, <1>2, <1>3 DEF MappedPages, MappedSoFar, Vpages
  <1>5. PICK i \in DOMAIN Program[p] : i < op.want /\ NextPage \in SegmentPages(p, i)
    BY <1>2, <1>4 DEF PagesBefore
  <1>6. /\ Program[p][i].first <= NextPage /\ NextPage < Program[p][i].first + Program[p][i].count
        /\ Program[p][i].first \in Nat /\ Program[p][i].count \in Nat /\ NextPage \in Nat
    BY <1>5, ProgramFacts DEF SegmentPages, Vpages
  <1>7. ~LoadsCleanly(p)
    BY <1>2, <1>3, <1>5, <1>6 DEF LoadsCleanly
  <1>8. QED
    BY <1>2, <1>7

\* A load that meets a page already mapped ends.
LEMMA LoadFailsPages ==
  ASSUME MemoryInv, PageInv, LoadFails
  PROVE  PageInv'
  <1>1. /\ op.kind = "map" /\ op' = NoOp /\ taken' = <<>>
        /\ UNCHANGED <<procVars, userVars, stackVars>>
    BY DEF LoadFails, Doing
  <1>2. PICK p \in Pids : p = op.p /\ pstate[p] = "loading" /\ ~LoadsCleanly(p)
    BY LoadFailsUnclean
  <1>3. op'.kind = "none" /\ TakenInv'
    BY <1>1 DEF NoOp, TakenInv
  <1>4. Loading(p)'
    BY <1>1, <1>2, <1>3 DEF Loading, Loads, LoadsCleanly, PageInv, PagesOK
  <1>5. QED
    BY <1>1, <1>2, <1>3, <1>4, LoadingOnly, OneProcess

\* The pages of a region are those of its segment.
LEMMA RegionPages ==
  ASSUME MemoryInv, PageInv, op.kind = "map"
  PROVE  Range(Region) = SegmentPages(op.p, op.want)
  <1>1. PICK p \in Pids : /\ p = op.p /\ op.want \in DOMAIN Program[p]
                          /\ Segment = Program[p][op.want]
                          /\ Segment.first \in Nat /\ Segment.count \in Nat
                          /\ Segment.first + Segment.count <= UserTop \div PageSize
    BY LoaderFacts
  <1>2. DOMAIN Region = 1..Segment.count /\ \A i \in 1..Segment.count : Region[i] = Segment.first + i - 1
    BY DEF Region
  <1>3. UserTop \div PageSize \in Nat
    BY Division, MemoryAssumption
  <1>4. ASSUME NEW v \in SegmentPages(p, op.want)
        PROVE  v \in Range(Region)
    <2>1. v \in Nat /\ Segment.first <= v /\ v < Segment.first + Segment.count
      BY <1>1 DEF SegmentPages, Vpages
    <2>2. PICK i \in 1..Segment.count : Segment.first + i - 1 = v
      <3>1. v - Segment.first + 1 \in 1..Segment.count
        BY <1>1, <2>1
      <3>2. Segment.first + (v - Segment.first + 1) - 1 = v
        BY <1>1, <2>1
      <3>3. QED
        BY <3>1, <3>2
    <2>3. QED
      BY <1>2, <2>2 DEF Range
  <1>5. ASSUME NEW i \in 1..Segment.count
        PROVE  Region[i] \in SegmentPages(p, op.want)
    BY <1>1, <1>2, <1>3 DEF SegmentPages, Vpages
  <1>6. QED
    BY <1>1, <1>2, <1>4, <1>5 DEF Range

\* The pages of a segment are all mapped.
LEMMA LoadMappedPages ==
  ASSUME MemoryInv, PageInv, LoadMapped
  PROVE  PageInv'
  <1>1. /\ op.kind = "map" /\ taken = <<>>
        /\ regions' = [regions EXCEPT ![op.p] = @ \o Region]
        /\ op' = [op EXCEPT !.kind = "load", !.want = @ + 1]
        /\ UNCHANGED <<pstate, userVars, taken>>
    BY DEF LoadMapped, Doing
  <1>2. PICK p \in Pids : /\ p = op.p /\ pstate[p] = "loading" /\ pgbrk[p] = 0
                          /\ Range(regions[p]) = PagesBefore(p, op.want)
                          /\ MappedPages(p) = Range(regions[p]) \cup MappedSoFar
                          /\ op.want \in Nat \ {0}
                          /\ op.want \in DOMAIN Program[p] /\ Segment = Program[p][op.want]
                          /\ Segment.first \in Nat /\ Segment.count \in Nat
    BY <1>1, LoaderFacts
  <1>3. op'.kind = "load" /\ op'.p = p /\ op'.want = op.want + 1
    BY <1>1, <1>2, OpFacts
  <1>4. /\ regions'[p] = regions[p] \o Region /\ \A q \in Pids : q # p => regions'[q] = regions[q]
        /\ regions[p] \in Seq(Vpages) /\ Region \in Seq(Vpages)
    BY <1>1, <1>2, RegionType DEF MemoryInv, TypeOK, StateTypeOK
  <1>5. Range(regions'[p]) = PagesBefore(p, op.want) \cup SegmentPages(p, op.want)
    BY <1>1, <1>2, <1>4, RangeFacts, RegionPages
  <1>6. PagesBefore(p, op.want + 1) = PagesBefore(p, op.want) \cup SegmentPages(p, op.want)
    <2>1. {j \in DOMAIN Program[p] : j < op.want + 1} = {j \in DOMAIN Program[p] : j < op.want} \cup {op.want}
      BY <1>2, ProgramFacts
    <2>2. QED
      BY <2>1 DEF PagesBefore
  <1>7. MappedSoFar = SegmentPages(p, op.want)
    <2>1. NextPage = Segment.first + Segment.count
      BY <1>1, <1>2 DEF NextPage
    <2>2. QED
      BY <1>1, <1>2, <2>1 DEF MappedSoFar, SegmentPages
  <1>8. MappedSoFar' = {} /\ MappedPages(p)' = MappedPages(p) /\ Loads(p)'
    BY <1>1, <1>2, <1>3 DEF MappedSoFar, MappedPages, Loads
  <1>9. Loading(p)'
    <2>1. Range(regions[p])' = Range(regions'[p])
      BY DEF Range
    <2>2. PagesBefore(p, op.want)' = PagesBefore(p, op.want + 1)
      BY <1>3 DEF PagesBefore, SegmentPages
    <2>3. MappedPages(p) = PagesBefore(p, op.want + 1)
      BY <1>2, <1>6, <1>7
    <2>4. QED
      BY <1>1, <1>2, <1>5, <1>6, <1>8, <2>1, <2>2, <2>3 DEF Loading
  <1>10. TakenInv'
    <2>1. ASSUME LoadsMore'
          PROVE  Segment'.count \in Nat
      <3>1. op.want + 1 \in Nat \ {0} /\ op.want + 1 <= Len(Program[p])
        BY <1>2, <1>3, <2>1 DEF LoadsMore
      <3>2. op.want + 1 \in DOMAIN Program[p]
        BY <3>1, ProgramFacts
      <3>3. Segment' = Program[p][op.want + 1]
        BY <1>3 DEF Segment
      <3>4. QED
        BY <3>2, <3>3, ProgramFacts
    <2>2. Len(taken) = 0
      BY <1>1
    <2>3. QED
      BY <1>1, <2>1, <2>2 DEF TakenInv
  <1>11. QED
    BY <1>1, <1>2, <1>3, <1>4, <1>9, <1>10, LoadingOnly, OneProcess

-----------------------------------------------------------------------------
(* The end of loading.                                                      *)

\* The loader's end is the end of a segment, and no segment ends above it.
LEMMA SegmentsBelowEnd ==
  ASSUME NEW p \in Pids
  PROVE  /\ \A i \in DOMAIN Program[p] :
              (Program[p][i].first + Program[p][i].count) * PageSize <= LoaderEnd(p)
         /\ LoaderEnd(p) > 0
  <1> DEFINE ends == {(Program[p][i].first + Program[p][i].count) * PageSize : i \in DOMAIN Program[p]}
             n == UserTop \div PageSize
  <1>1. PageSize \in Nat \ {0} /\ n \in Nat /\ UserTop = n * PageSize
    BY MemoryAssumption, Division
  <1>2. ASSUME NEW i \in DOMAIN Program[p]
        PROVE  LET e == (Program[p][i].first + Program[p][i].count) * PageSize
               IN  e \in Nat /\ e <= UserTop /\ 0 < e
    <2> DEFINE k == Program[p][i].first + Program[p][i].count
    <2>1. k \in Nat /\ 0 < k /\ k <= n
      BY ProgramFacts
    <2> HIDE DEF k, n
    <2>2. /\ 0 * PageSize < k * PageSize /\ k * PageSize <= n * PageSize /\ k * PageSize \in Int
          /\ 0 * PageSize = 0
      BY <1>1, <2>1, ProductOrder
    <2>3. k * PageSize \in Nat /\ k * PageSize <= UserTop /\ 0 < k * PageSize
      BY <1>1, <2>2
    <2>4. QED
      BY <2>3 DEF k
  <1>3. \A e \in ends : e \in Nat /\ e <= UserTop /\ 0 < e
    BY <1>2
  <1>4. 1 \in DOMAIN Program[p]
    BY ProgramFacts, MemoryAssumption
  <1>5. ends # {}
    BY <1>4
  <1>6. LoaderEnd(p) = CHOOSE e \in ends : \A f \in ends : f <= e
    BY <1>5 DEF LoaderEnd
  <1>7. \A i \in DOMAIN Program[p] :
          (Program[p][i].first + Program[p][i].count) * PageSize \in ends
    OBVIOUS
  <1> HIDE DEF ends
  <1>8. \E e \in ends : \A f \in ends : f <= e
    BY <1>3, <1>5, MaxOfBounded, MemoryAssumption
  <1>9. LoaderEnd(p) \in ends /\ \A f \in ends : f <= LoaderEnd(p)
    BY <1>6, <1>8
  <1>10. QED
    BY <1>3, <1>7, <1>9

\* The pages of the segments lie below the loader's end.
LEMMA PagesBelowEnd ==
  ASSUME NEW p \in Pids, NEW n, NEW v \in PagesBefore(p, n)
  PROVE  v * PageSize < LoaderEnd(p)
  <1>1. PICK i \in DOMAIN Program[p] : v \in SegmentPages(p, i)
    BY DEF PagesBefore
  <1> DEFINE k == Program[p][i].first + Program[p][i].count
  <1>2. v \in Int /\ k \in Int /\ v < k
    BY <1>1, ProgramFacts DEF SegmentPages, Vpages
  <1>3. k * PageSize <= LoaderEnd(p)
    BY SegmentsBelowEnd
  <1> HIDE DEF k
  <1>4. v * PageSize < k * PageSize /\ v * PageSize \in Int /\ k * PageSize \in Int
    BY <1>2, ProductOrder, MemoryAssumption
  <1>5. QED
    BY <1>3, <1>4, LoaderEndFacts

\* The image is complete and the process has its break.
LEMMA LoadDonePages ==
  ASSUME MemoryInv, PageInv, LoadDone
  PROVE  PageInv'
  <1>1. /\ op.kind = "load" /\ ~LoadsMore
        /\ brk' = [brk EXCEPT ![op.p] = LoaderEnd(op.p)]
        /\ pgbrk' = [pgbrk EXCEPT ![op.p] = LoaderEnd(op.p)]
        /\ pstate' = [pstate EXCEPT ![op.p] = "running"]
        /\ op' = NoOp
        /\ UNCHANGED <<regions, page, brk_offset, taken>>
    BY DEF LoadDone, Doing
  <1>2. PICK p \in Pids : /\ p = op.p /\ pstate[p] = "loading" /\ brk_offset[p] = 0
                          /\ Range(regions[p]) = PagesBefore(p, op.want)
                          /\ MappedPages(p) = Range(regions[p]) \cup MappedSoFar
    BY <1>1, LoaderFacts
  <1>3. /\ pstate'[p] = "running" /\ brk'[p] = LoaderEnd(p) /\ pgbrk'[p] = LoaderEnd(p)
        /\ \A q \in Pids : q # p => pstate'[q] = pstate[q] /\ brk'[q] = brk[q] /\ pgbrk'[q] = pgbrk[q]
    BY <1>1, <1>2 DEF MemoryInv, TypeOK, BrkTypeOK, StateTypeOK, Procs
  <1>4. op'.kind = "none" /\ ~MovingBrk(p)' /\ ~Loads(p)'
    BY <1>1 DEF NoOp, MovingBrk, Loads
  <1>5. LoaderEnd(p) \in Nat /\ Aligned(LoaderEnd(p)) /\ LoaderEnd(p) - 0 = LoaderEnd(p)
    BY LoaderEndFacts
  <1>6. MinBrk(p)' = LoaderEnd(p)
    BY <1>1, <1>2, <1>3, <1>4, <1>5 DEF MinBrk
  <1>7. PagesBelowBrk(p)' = {}
    BY <1>3, <1>5, <1>6, NoPages DEF PagesBelowBrk, PagesBetween
  <1>8. MappedPages(p)' = Range(regions[p])' /\ Range(regions[p])' = Range(regions[p])
    BY <1>1, <1>2 DEF MappedPages, Range, MappedSoFar
  <1>9. \A v \in Range(regions[p]) : v * PageSize < LoaderEnd(p)
    BY <1>2, PagesBelowEnd
  <1>10. RoundUp(brk[p])' = LoaderEnd(p)
    BY <1>3, <1>5, RoundUpAligned DEF RoundUp
  <1>11. Running(p)'
    BY <1>3, <1>4, <1>6, <1>7, <1>8, <1>9, <1>10 DEF Running, LoaderEnd
  <1>12. TakenInv'
    BY <1>1, <1>4 DEF PageInv, TakenInv
  <1>13. QED
    BY <1>1, <1>2, <1>3, <1>4, <1>11, <1>12, RunningOnly, OneProcess

-----------------------------------------------------------------------------
(* Stacks, and the choice of the next thread.                               *)

\* A page of a stack.
LEMMA FaultInPages ==
  ASSUME PageInv, NEW p, NEW s, NEW next, NEW what, FaultIn(p, s, next, what),
         op.kind \in {"none", "fork"}, next.kind \in {"none", "fork"}
  PROVE  PageInv'
  <1>1. CASE Available = 0
    BY <1>1, QuietStep DEF FaultIn, Panic
  <1>2. CASE Available # 0
    BY <1>2, QuietStep DEF FaultIn
  <1>3. QED
    BY <1>1, <1>2

\* On demand.
LEMMA StackFaultPages ==
  ASSUME PageInv, NEW p \in Pids, NEW t \in Threads, StackFault(p, t)
  PROVE  PageInv'
  <1>1. op.kind = "none" /\ \E k \in 1..MaxDepth : FaultIn(p, <<t, k>>, op, "stack")
    BY DEF StackFault, InUser, Idle
  <1>2. QED
    BY <1>1, FaultInPages

\* A fork begins.
LEMMA ForkStartPages ==
  ASSUME PageInv, NEW p \in Pids, NEW t \in Threads, NEW u \in Threads, ForkStart(p, t, u)
  PROVE  PageInv'
  <1>1. op.kind = "none"
    BY DEF ForkStart, InUser, Idle
  <1>2. CASE Available = 0
    <2>1. Panic("fork")
      BY <1>2 DEF ForkStart
    <2>2. QED
      BY <2>1, QuietStep DEF Panic
  <1>3. CASE Available # 0
    <2>1. op'.kind = "fork" /\ UNCHANGED <<pstate, regions, userVars, taken>>
      BY <1>3 DEF ForkStart
    <2>2. QED
      BY <1>1, <2>1, QuietStep
  <1>4. QED
    BY <1>2, <1>3

\* A page for a fork, in either stack.
LEMMA ForkCopyPages ==
  ASSUME MemoryInv, PageInv, NEW t \in Threads,
         ForkRead(t) \/ \E u \in Threads : ForkWrite(t, u)
  PROVE  PageInv'
  <1>1. op.kind = "fork" /\ [op EXCEPT !.want = @ - 1].kind = "fork"
    BY OpFacts DEF ForkRead, ForkWrite, Doing
  <1>2. CASE ForkRead(t)
    BY <1>1, <1>2, FaultInPages DEF ForkRead
  <1>3. ASSUME NEW u \in Threads, ForkWrite(t, u)
        PROVE  PageInv'
    BY <1>1, <1>3, FaultInPages DEF ForkWrite
  <1>4. QED
    BY <1>2, <1>3

\* The child exists, or a thread ends.
LEMMA ThreadPages ==
  ASSUME PageInv, NEW t \in Threads,
         \/ \E u \in Threads : ForkDone(t, u)
         \/ \E p \in Pids : ThreadExit(p, t) \/ ThreadCollect(p, t)
  PROVE  PageInv'
  <1>1. CASE \E u \in Threads : ForkDone(t, u)
    BY <1>1, QuietStep DEF ForkDone, Doing, NoOp
  <1>2. CASE \E p \in Pids : ThreadExit(p, t) \/ ThreadCollect(p, t)
    BY <1>2, QuietStep DEF ThreadExit, ThreadCollect
  <1>3. QED
    BY <1>1, <1>2

\* A process goes on.
LEMMA ResumePages ==
  ASSUME PageInv, NEW p \in Procs, Resume(p)
  PROVE  PageInv'
  BY QuietStep DEF Resume

-----------------------------------------------------------------------------
(* The end of a process.                                                    *)

\* Whenever a process can end, the reaper can find every page of it.
LEMMA EndsReclaimable ==
  ASSUME MemoryInv, PageInv, NEW p \in Pids, op.kind = "none", LoadsCleanly(p),
         pstate[p] \in {"starting", "loading", "running", "exited"}
  PROVE  Reclaimable(p)
  <1>1. pstate[p] # "loading"
    BY DEF PageInv, PagesOK, Loading, Loads
  <1>2. CASE pstate[p] = "starting"
    <2>1. MappedPages(p) = {} /\ pgbrk[p] = 0 /\ brk_offset[p] = 0
      BY <1>2 DEF PageInv, PagesOK, Unloaded, MemoryInv, BrkInv
    <2>2. MinBrk(p) = 0
      BY <2>1 DEF MinBrk, MovingBrk
    <2>3. QED
      BY <2>1, <2>2, AlignedEnds DEF Reclaimable
  <1>3. CASE pstate[p] = "running"
    <2>1. MinBrk(p) > 0
      BY <1>3, RunningFacts, SegmentsBelowEnd
    <2>2. QED
      BY <1>3, <2>1, RunningFacts DEF Reclaimable
  <1>4. CASE pstate[p] = "exited"
    BY <1>4 DEF PageInv, PagesOK, Exited
  <1>5. QED
    BY <1>1, <1>2, <1>3, <1>4

\* The reaper takes a dead process.
LEMMA StartReapPages ==
  ASSUME MemoryInv, PageInv, NEW p \in Pids, op.kind = "none",
         pstate[p] \in {"starting", "loading", "running", "exited"}, StartReap(p)
  PROVE  PageInv'
  <1> DEFINE end == pgbrk[p] - brk_offset[p]
             kind == IF end = 0 \/ end = pgbrk[p] THEN "regions" ELSE "shrink"
  <1>1. /\ pstate' = [pstate EXCEPT ![p] = "reaping"]
        /\ op' = [kind |-> kind, p |-> p, want |-> end, old |-> pgbrk[p]]
        /\ UNCHANGED <<regions, userVars, taken>>
    BY DEF StartReap
  <1>2. op'.kind = kind /\ op'.p = p /\ op'.want = end /\ op'.old = pgbrk[p]
    BY <1>1
  <1>3. pstate'[p] = "reaping" /\ \A q \in Pids : q # p => pstate'[q] = pstate[q]
    BY <1>1 DEF MemoryInv, TypeOK, StateTypeOK, Procs
  <1>4. MinBrk(p) = end /\ end \in Nat
    BY MinBrkFacts DEF MovingBrk
  <1>5. MinBrk(p)' = MinBrk(p)
    <2>1. MinBrk(p)' = (IF MovingBrk(p)' THEN op'.old ELSE pgbrk[p]) - brk_offset[p]
      BY <1>1 DEF MinBrk
    <2>2. QED
      BY <1>2, <1>4, <2>1
  <1>6. /\ MappedPages(p)' = MappedPages(p) /\ Range(regions[p])' = Range(regions[p])
        /\ PagesBelowBrk(p)' = PagesBelowBrk(p)
    BY <1>1, <1>5 DEF MappedPages, Range, PagesBelowBrk, PagesBetween
  <1>7. Reclaimable(p)' = Reclaimable(p)
    BY <1>1, <1>5, <1>6 DEF Reclaimable, Aligned
  <1>8. kind = "regions" /\ Reclaimable(p) => MappedPages(p) \subseteq Range(regions[p])
    <2> SUFFICES ASSUME end = 0 \/ end = pgbrk[p], Reclaimable(p)
                 PROVE  MappedPages(p) \subseteq Range(regions[p])
      OBVIOUS
    <2>1. MinBrk(p) = pgbrk[p]
      BY <1>4 DEF Reclaimable
    <2>2. PagesBelowBrk(p) = {}
      BY <1>4, <2>1, NoPages DEF PagesBelowBrk
    <2>3. QED
      BY <2>2 DEF Reclaimable
  <1>9. LoadsCleanly(p) => Reclaimable(p)
    BY EndsReclaimable
  <1>10. Reaping(p)'
    <2>1. kind \in {"shrink", "regions"}
      OBVIOUS
    <2> HIDE DEF kind, end
    <2>2. QED
      BY <1>2, <1>4, <1>5, <1>6, <1>7, <1>8, <1>9, <2>1 DEF Reaping, LoadsCleanly
  <1>11. ~Loads(p)' /\ TakenInv'
    <2>1. op'.kind \in {"shrink", "regions"}
      BY <1>2
    <2>2. QED
      BY <1>1, <2>1 DEF Loads, TakenInv, PageInv
  <1>12. QED
    BY <1>1, <1>2, <1>3, <1>10, <1>11, ReapingOnly, OneProcess

\* A process that ends keeps its pages while it is waited for.
LEMMA KeepPages ==
  ASSUME MemoryInv, PageInv, NEW p \in Pids, op.kind = "none",
         pstate[p] \in {"starting", "loading", "running", "exited"}, Keep(p)
  PROVE  PageInv'
  <1>1. /\ pstate' = [pstate EXCEPT ![p] = "exited"]
        /\ UNCHANGED <<regions, userVars, op, taken>>
    BY DEF Keep
  <1>2. pstate'[p] = "exited" /\ \A q \in Pids : q # p => pstate'[q] = pstate[q]
    BY <1>1 DEF MemoryInv, TypeOK, StateTypeOK, Procs
  <1>3. /\ MinBrk(p)' = MinBrk(p)
        /\ MappedPages(p)' = MappedPages(p) /\ Range(regions[p])' = Range(regions[p])
    BY <1>1 DEF MinBrk, MovingBrk, MappedPages, Range
  <1>4. Reclaimable(p)' = Reclaimable(p)
    BY <1>1, <1>3 DEF Reclaimable, Aligned, PagesBelowBrk, PagesBetween
  <1>5. PagesOK(p)'
    BY <1>1, <1>2, <1>4, EndsReclaimable
       DEF PagesOK, Unloaded, Loading, Loads, Running, Exited, Reaping, Gone, LoadsCleanly
  <1>6. TakenInv'
    BY <1>1 DEF PageInv, TakenInv
  <1>7. QED
    BY <1>1, <1>2, <1>5, <1>6, OneProcess

\* An exit.
LEMMA ExitPages ==
  ASSUME MemoryInv, PageInv, NEW p \in Pids, NEW waited \in BOOLEAN, Exit(p, waited)
  PROVE  PageInv'
  <1>1. op.kind = "none" /\ cur = p /\ IF waited THEN Keep(p) ELSE StartReap(p)
    BY DEF Exit, Idle
  <1>2. pstate[p] \in {"loading", "running"}
    BY <1>1 DEF MemoryInv, CurHeld
  <1>3. QED
    BY <1>1, <1>2, KeepPages, StartReapPages

\* A kill.
LEMMA KillPages ==
  ASSUME MemoryInv, PageInv, NEW p \in Pids, NEW waited \in BOOLEAN, NEW q \in Pids,
         Kill(p, q, waited)
  PROVE  PageInv'
  <1>1. /\ op.kind = "none" /\ pstate[q] \notin {"none", "reaping", "gone"}
        /\ IF waited THEN Keep(q) ELSE StartReap(q)
    BY DEF Kill, InUser, Idle
  <1>2. pstate[q] \in {"starting", "loading", "running", "exited"}
    BY <1>1 DEF MemoryInv, TypeOK, StateTypeOK, Procs
  <1>3. QED
    BY <1>1, <1>2, KeepPages, StartReapPages

\* The last waiter that collects the exit code starts the reaper.
LEMMA CollectPages ==
  ASSUME MemoryInv, PageInv, NEW p \in Pids, NEW w \in Procs, Collect(p, w)
  PROVE  PageInv'
  BY StartReapPages DEF Collect, Idle

\* One page of the regions is given back.
LEMMA RegionPagePages ==
  ASSUME MemoryInv, PageInv, RegionPage
  PROVE  PageInv'
  <1>1. PICK p \in Pids : p = op.p
    BY DEF RegionPage, Doing, MemoryInv, OpInv
  <1>2. /\ op.kind = "regions" /\ pstate[p] = "reaping" /\ regions[p] # <<>>
        /\ ReleasePage(p, Head(regions[p]))
        /\ regions' = [regions EXCEPT ![p] = Tail(@)]
        /\ UNCHANGED <<pstate, brk, pgbrk, brk_offset, op, taken>>
    BY <1>1 DEF RegionPage, Doing, MemoryInv, OpInv
  <1>3. regions[p] \in Seq(Vpages)
    BY DEF MemoryInv, TypeOK, StateTypeOK
  <1>4. /\ Head(regions[p]) \in Vpages
        /\ Range(regions[p]) \subseteq Range(Tail(regions[p])) \cup {Head(regions[p])}
    BY <1>2, <1>3, RangeFacts
  <1>5. /\ MappedPages(p)' = MappedPages(p) \ {Head(regions[p])}
        /\ \A q \in Pids : q # p => page'[q] = page[q]
    BY <1>2, <1>4, ReleasesOne DEF MemoryInv, TypeOK
  <1>6. /\ regions'[p] = Tail(regions[p]) /\ \A q \in Pids : q # p => regions'[q] = regions[q]
    BY <1>2 DEF MemoryInv, TypeOK, StateTypeOK
  <1>7. Range(regions[p])' = Range(Tail(regions[p]))
    BY <1>6 DEF Range
  <1>8. LoadsCleanly(p) => MappedPages(p)' \subseteq Range(regions[p])'
    BY <1>2, <1>4, <1>5, <1>7 DEF PageInv, PagesOK, Reaping
  <1>9. Reaping(p)'
    BY <1>1, <1>2, <1>8 DEF Reaping, LoadsCleanly
  <1>10. ~Loads(p)' /\ TakenInv'
    BY <1>2 DEF Loads, TakenInv, PageInv
  <1>11. QED
    BY <1>1, <1>2, <1>5, <1>6, <1>9, <1>10, ReapingOnly, OneProcess

\* The reaper ends.
LEMMA ReapDonePages ==
  ASSUME MemoryInv, PageInv, ReapDone
  PROVE  PageInv'
  <1>1. PICK p \in Pids : p = op.p
    BY DEF ReapDone, Doing, MemoryInv, OpInv
  <1>2. /\ op.kind = "regions" /\ pstate[p] = "reaping" /\ regions[p] = <<>>
        /\ pstate' = [pstate EXCEPT ![p] = "gone"] /\ op' = NoOp
        /\ UNCHANGED <<regions, userVars, taken>>
    BY <1>1 DEF ReapDone, Doing, MemoryInv, OpInv
  <1>3. pstate'[p] = "gone" /\ \A q \in Pids : q # p => pstate'[q] = pstate[q]
    BY <1>2 DEF MemoryInv, TypeOK, StateTypeOK, Procs
  <1>4. op'.kind = "none" /\ ~Loads(p)'
    BY <1>2 DEF NoOp, Loads
  <1>5. LoadsCleanly(p) => MappedPages(p)' = {}
    <2>1. LoadsCleanly(p) => MappedPages(p) \subseteq Range(regions[p])
      BY <1>2 DEF PageInv, PagesOK, Reaping
    <2>2. Range(regions[p]) = {}
      BY <1>2, RangeEmpty
    <2>3. MappedPages(p)' = MappedPages(p)
      BY <1>2 DEF MappedPages
    <2>4. QED
      BY <2>1, <2>2, <2>3
  <1>6. PagesOK(p)'
    BY <1>3, <1>4, <1>5 DEF PagesOK, Unloaded, Loading, Running, Exited, Reaping, Gone, LoadsCleanly
  <1>7. TakenInv'
    BY <1>2, <1>4 DEF PageInv, TakenInv
  <1>8. QED
    BY <1>1, <1>2, <1>3, <1>4, <1>6, <1>7, OneProcess

-----------------------------------------------------------------------------
(* The pages of a process, in every state of its life.                      *)

\* Nothing is mapped at the start.
LEMMA InitPages == Init => PageInv
  <1> SUFFICES ASSUME Init
               PROVE  PageInv
    OBVIOUS
  <1>1. op.kind = "none" /\ taken = <<>> /\ \A p \in Pids : pstate[p] = "none"
    BY MemoryAssumption DEF Init, NoOp, Procs
  <1>2. TakenInv
    BY <1>1 DEF TakenInv
  <1>3. ASSUME NEW p \in Pids
        PROVE  PagesOK(p)
    <2>1. regions[p] = <<>> /\ MappedPages(p) = {} /\ pgbrk[p] = 0
      BY DEF Init, MappedPages
    <2>2. QED
      BY <1>1, <2>1 DEF PagesOK, Unloaded, Loading, Loads, Running, Exited, Reaping, Gone
  <1>4. QED
    BY <1>2, <1>3 DEF PageInv

\* Every step keeps the invariant.
LEMMA NextPages ==
  ASSUME MemoryInv, PageInv, [Next]_vars
  PROVE  PageInv'
  <1>1. ASSUME NEW p \in Pids, NEW want \in 1..(UserTop + PageSize),
               BrkSamePages(p, want) \/ BrkStart(p, want)
        PROVE  PageInv'
    BY <1>1, BrkSamePagesPages, BrkStartPages
  <1>2. ASSUME NEW p \in Pids, Exec(p) \/ LoadStart(p)
        PROVE  PageInv'
    BY <1>2, ExecPages, LoadStartPages
  <1>14. ASSUME NEW p \in Pids, NEW t \in Threads,
                \/ StackFault(p, t) \/ ThreadExit(p, t) \/ ThreadCollect(p, t)
                \/ \E u \in Threads : ForkStart(p, t, u)
         PROVE  PageInv'
    BY <1>14, StackFaultPages, ThreadPages, ForkStartPages
  <1>3. ASSUME NEW p \in Pids, NEW waited \in BOOLEAN, Exit(p, waited)
        PROVE  PageInv'
    BY <1>3, ExitPages
  <1>4. ASSUME NEW p \in Pids, NEW waited \in BOOLEAN, NEW q \in Pids, Kill(p, q, waited)
        PROVE  PageInv'
    BY <1>4, KillPages
  <1>5. ASSUME NEW p \in Pids, NEW w \in Procs, Collect(p, w)
        PROVE  PageInv'
    BY <1>5, CollectPages
  <1>6. ASSUME NEW p \in Procs, Resume(p)
        PROVE  PageInv'
    BY <1>6, ResumePages
  <1>7. CASE GrowPage \/ GrowGivesUp \/ GrowDone \/ RollbackPage \/ RollbackDone
    BY <1>7, GrowPagePages, GrowGivesUpPages, GrowDonePages, RollbackPagePages, RollbackDonePages
  <1>8. CASE ShrinkPage \/ ShrinkDone
    BY <1>8, ShrinkPagePages, ShrinkDonePages
  <1>9. CASE LoadTake \/ LoadTaken \/ LoadMap \/ LoadFails \/ LoadMapped \/ LoadDone
    BY <1>9, LoadTakePages, LoadTakenPages, LoadMapPages, LoadFailsPages, LoadMappedPages,
       LoadDonePages
  <1>10. ASSUME NEW t \in Threads, ForkRead(t) \/ \E u \in Threads : ForkWrite(t, u) \/ ForkDone(t, u)
         PROVE  PageInv'
    BY <1>10, ForkCopyPages, ThreadPages
  <1>11. CASE RegionPage \/ ReapDone
    BY <1>11, RegionPagePages, ReapDonePages
  <1>12. CASE Halted \/ UNCHANGED vars
    BY <1>12, QuietStep DEF Halted, vars
  <1>13. QED
    BY <1>1, <1>2, <1>3, <1>4, <1>5, <1>6, <1>7, <1>8, <1>9, <1>10, <1>11, <1>12, <1>14
    DEF Next

\* PageInv holds in every state the kernel reaches.
THEOREM PageInvariant == Spec => []PageInv
  <1>1. Init => PageInv
    BY InitPages
  <1>2. MemoryInv /\ PageInv /\ [Next]_vars => PageInv'
    BY NextPages
  <1>3. QED
    BY <1>1, <1>2, MemoryInvariant, PTL DEF Spec

\* Through any series of breaks that grow, fail half way, are rolled back or
\* shrink (sched_setbrk_true), a running process has mapped the pages of its
\* segments and those from the loader's end to its break, and no other.
THEOREM BreakMatches == Spec => []BrkMatchesPages
  <1>1. PageInv => BrkMatchesPages
    <2> SUFFICES ASSUME PageInv, NEW p \in Pids, pstate[p] = "running"
                 PROVE  /\ MinBrk(p) = LoaderEnd(p)
                        /\ MappedPages(p) = Range(regions[p]) \cup PagesBelowBrk(p)
                        /\ ~MovingBrk(p) => RoundUp(brk[p]) = pgbrk[p]
      BY DEF BrkMatchesPages, PagesBelowBrk, PagesBetween
    <2>1. QED
      BY DEF PageInv, PagesOK, Running
  <1>2. QED
    BY <1>1, PageInvariant, PTL

\* sched_free_all gives back every page of the segments and of the break of a
\* process that was loaded: the regions and the break are all that is mapped below
\* the stacks, whether the process exits, is killed while others run, or is
\* collected by the thread that waits for it.  The stacks are not given back.
THEOREM PagesReturned == Spec => []ReapReturnsPages
  <1>1. PageInv => ReapReturnsPages
    BY DEF PageInv, PagesOK, Gone, ReapReturnsPages
  <1>2. QED
    BY <1>1, PageInvariant, PTL

-----------------------------------------------------------------------------
(* Every frame is in one place: each step moves frames between the pool, the *)
(* loader, the directories, the page tables, the pages, the tables of the   *)
(* stacks and the stacks, and only a load that fails drops some.  A place   *)
(* stays when the process or the thread it belongs to goes, and then what   *)
(* is in it is lost.                                                        *)

\* A process that does not exist yet has no directory and no thread, and a thread that
\* does not has no stack.
FreshHoldsNothing ==
  \A p \in Pids :
    /\ pstate[p] = "none" => directory[p] = NoFrame /\ \A t \in Threads : tstate[p][t] = "none"
    /\ \A t \in Threads : tstate[p][t] = "none" => stackpt[p][t] = NoFrame

\* Whether a place that holds x is a use of frame f.
Is(x, f) == IF x = f THEN 1 ELSE 0

FreeUses(f) == Cardinality({i \in DOMAIN pmem_stack : pmem_stack[i] = f})
TakenUses(f) == Cardinality({i \in DOMAIN taken : taken[i] = f})
DirectoryUses(f) == Cardinality({p \in Procs : directory[p] = f})
TableUses(f) == Cardinality({pk \in Pids \X Tables : table[pk[1]][pk[2]] = f})
PageUses(f) == Cardinality({pv \in Pids \X Vpages : page[pv[1]][pv[2]] = f})
StackTableUses(f) == Cardinality({pt \in Pids \X Threads : stackpt[pt[1]][pt[2]] = f})
StackUses(f) == Cardinality({ps \in Pids \X StackPages : stack[ps[1]][ps[2]] = f})

\* In how many places frame f is, those of processes and threads that are gone included.
Places(f) == FreeUses(f) + TakenUses(f) + DirectoryUses(f) + TableUses(f) + PageUses(f)
               + StackTableUses(f) + StackUses(f)

PlacedOnce == \A f \in 1..Frames : Places(f) = 1 \/ (Places(f) = 0 /\ LoadMayFail)

\* A step that moves frames and neither drops nor doubles one.
Conserves == \A f \in 1..Frames : Places(f)' = Places(f)

-----------------------------------------------------------------------------
(* Counting.                                                                *)

\* A set whose membership changes at one element at most.
LEMMA CountSlot ==
  ASSUME NEW G, NEW H, NEW d, IsFiniteSet(G), H \ {d} = G \ {d}
  PROVE  Cardinality(H) = Cardinality(G) - (IF d \in G THEN 1 ELSE 0) + (IF d \in H THEN 1 ELSE 0)
  <1> DEFINE R == G \ {d}
  <1>1. /\ IsFiniteSet(R) /\ Cardinality(R) \in Nat
        /\ Cardinality(R) = Cardinality(G) - (IF d \in G THEN 1 ELSE 0)
    BY FS_RemoveElement, FS_CardinalityType
  <1>2. d \notin R /\ H = IF d \in H THEN R \cup {d} ELSE R
    OBVIOUS
  <1> HIDE DEF R
  <1>3. Cardinality(R \cup {d}) = Cardinality(R) + 1
    BY <1>1, <1>2, FS_AddElement
  <1>4. CASE d \in H
    <2>1. Cardinality(H) = Cardinality(R) + 1
      BY <1>2, <1>3, <1>4
    <2>2. QED
      BY <1>1, <1>4, <2>1
  <1>5. CASE d \notin H
    <2>1. Cardinality(H) = Cardinality(R)
      BY <1>2, <1>5
    <2>2. QED
      BY <1>1, <1>5, <2>1
  <1>6. QED
    BY <1>4, <1>5

\* The first elements of a sequence.
LEMMA FrontFacts ==
  ASSUME NEW S, NEW q \in Seq(S), NEW m \in 0..Len(q)
  PROVE  /\ SubSeq(q, 1, m) \in Seq(S) /\ Len(SubSeq(q, 1, m)) = m
         /\ \A i \in 1..m : SubSeq(q, 1, m)[i] = q[i]
  OBVIOUS

\* The places of a sequence that hold f.
LEMMA CountFinite ==
  ASSUME NEW S, NEW q \in Seq(S), NEW f
  PROVE  /\ IsFiniteSet({i \in DOMAIN q : q[i] = f})
         /\ Cardinality({i \in DOMAIN q : q[i] = f}) \in Nat
  <1>1. DOMAIN q = 1..Len(q) /\ Len(q) \in Nat
    OBVIOUS
  <1>2. IsFiniteSet(DOMAIN q)
    BY <1>1, FS_Interval
  <1>3. QED
    BY <1>2, FS_Subset, FS_CardinalityType

\* How often a frame is in a list that has one entry more.
LEMMA CountAppend ==
  ASSUME NEW S, NEW q \in Seq(S), NEW x \in S, NEW f
  PROVE  Cardinality({i \in DOMAIN Append(q, x) : Append(q, x)[i] = f})
           = Cardinality({i \in DOMAIN q : q[i] = f}) + Is(x, f)
  <1> DEFINE r == Append(q, x)
             n == Len(q) + 1
             Q == {i \in DOMAIN q : q[i] = f}
             R == {i \in DOMAIN r : r[i] = f}
  <1>1. /\ DOMAIN q = 1..Len(q) /\ Len(q) \in Nat /\ DOMAIN r = 1..(Len(q) + 1) /\ r[Len(q) + 1] = x
        /\ \A i \in 1..Len(q) : r[i] = q[i]
    OBVIOUS
  <1>2. IsFiniteSet(Q) /\ Cardinality(Q) \in Nat
    BY CountFinite
  <1>3. n \notin Q
    BY <1>1
  <1>4. R = IF x = f THEN Q \cup {n} ELSE Q
    <2>1. \A i \in 1..(Len(q) + 1) : i = n \/ i \in 1..Len(q)
      BY <1>1
    <2>2. DOMAIN q \subseteq DOMAIN r /\ n \in DOMAIN r
      BY <1>1
    <2> HIDE DEF r
    <2>3. QED
      BY <1>1, <2>1, <2>2
  <1> HIDE DEF Q, R, n
  <1>5. Cardinality(Q \cup {n}) = Cardinality(Q) + 1
    BY <1>2, <1>3, FS_AddElement
  <1>6. Cardinality(R) = Cardinality(Q) + Is(x, f)
    BY <1>2, <1>4, <1>5 DEF Is
  <1>7. QED
    BY <1>6 DEF Q, R

\* ... without its last element,
LEMMA CountFront ==
  ASSUME NEW S, NEW q \in Seq(S), Len(q) > 0, NEW f
  PROVE  Cardinality({i \in DOMAIN SubSeq(q, 1, Len(q) - 1) : SubSeq(q, 1, Len(q) - 1)[i] = f})
           = Cardinality({i \in DOMAIN q : q[i] = f}) - Is(q[Len(q)], f)
  <1> DEFINE r == SubSeq(q, 1, Len(q) - 1)
             n == Len(q)
             Q == {i \in DOMAIN q : q[i] = f}
             R == {i \in DOMAIN r : r[i] = f}
  <1>1. /\ DOMAIN q = 1..n /\ n \in Nat /\ n > 0 /\ DOMAIN r = 1..(n - 1)
        /\ \A i \in 1..(n - 1) : r[i] = q[i]
    OBVIOUS
  <1>2. IsFiniteSet(Q) /\ Cardinality(Q) \in Nat
    BY CountFinite
  <1>3. R = Q \ {n}
    <2> HIDE DEF r, n
    <2>1. QED
      BY <1>1
  <1>4. q[n] = f <=> n \in Q
    BY <1>1
  <1> HIDE DEF Q, R, n
  <1>5. Cardinality(Q \ {n}) = IF n \in Q THEN Cardinality(Q) - 1 ELSE Cardinality(Q)
    BY <1>2, FS_RemoveElement
  <1>6. Cardinality(R) = Cardinality(Q) - Is(q[n], f)
    BY <1>2, <1>3, <1>4, <1>5 DEF Is
  <1>7. QED
    BY <1>6 DEF Q, R, n

\* ... and without its first.
LEMMA CountTail ==
  ASSUME NEW S, NEW q \in Seq(S), q # <<>>, NEW f
  PROVE  Cardinality({i \in DOMAIN Tail(q) : Tail(q)[i] = f})
           = Cardinality({i \in DOMAIN q : q[i] = f}) - Is(Head(q), f)
  <1> DEFINE r == Tail(q)
             n == Len(q)
             Q == {i \in DOMAIN q : q[i] = f}
             R == {i \in DOMAIN r : r[i] = f}
             shift == [i \in Q \ {1} |-> i - 1]
  <1>1. /\ DOMAIN q = 1..n /\ n \in Nat /\ n > 0 /\ DOMAIN r = 1..(n - 1) /\ Head(q) = q[1]
        /\ \A i \in 1..(n - 1) : r[i] = q[i + 1]
    OBVIOUS
  <1>2. IsFiniteSet(Q) /\ Cardinality(Q) \in Nat
    BY CountFinite
  <1>3. q[1] = f <=> 1 \in Q
    BY <1>1
  <1>4. shift \in Bijection(Q \ {1}, R)
    <2> HIDE DEF r, n
    <2>1. \A i \in Q \ {1} : i \in Nat /\ i - 1 \in R
      <3>1. \A i \in Q \ {1} : i \in 1..n /\ i # 1 /\ q[i] = f
        BY <1>1
      <3>2. \A i \in Q \ {1} : i - 1 \in 1..(n - 1) /\ (i - 1) + 1 = i
        BY <1>1, <3>1
      <3>3. \A i \in Q \ {1} : r[i - 1] = f
        BY <1>1, <3>1, <3>2
      <3>4. QED
        BY <1>1, <3>1, <3>2, <3>3
    <2>2. \A j \in R : j + 1 \in Q \ {1} /\ (j + 1) - 1 = j
      BY <1>1
    <2> HIDE DEF Q, R
    <2>3. shift \in [Q \ {1} -> R]
      BY <2>1
    <2>4. \A i, j \in Q \ {1} : shift[i] = shift[j] => i = j
      BY <2>1
    <2>5. \A j \in R : \E i \in Q \ {1} : shift[i] = j
      BY <2>2
    <2> HIDE DEF shift
    <2>6. QED
      BY <2>3, <2>4, <2>5 DEF Bijection, Injection, Surjection, IsInjective
  <1> HIDE DEF Q, R, shift
  <1>5. /\ IsFiniteSet(Q \ {1})
        /\ Cardinality(Q \ {1}) = IF 1 \in Q THEN Cardinality(Q) - 1 ELSE Cardinality(Q)
    BY <1>2, FS_RemoveElement
  <1>6. Cardinality(R) = Cardinality(Q \ {1})
    BY <1>4, <1>5, FS_Bijection DEF ExistsBijection
  <1>7. Cardinality(R) = Cardinality(Q) - Is(Head(q), f)
    BY <1>1, <1>2, <1>3, <1>5, <1>6 DEF Is
  <1>8. QED
    BY <1>7 DEF Q, R

-----------------------------------------------------------------------------
(* The uses of a frame, holder by holder.                                   *)

\* The places of a frame, before and after a step.
LEMMA UsesAdd ==
  ASSUME NEW f
  PROVE  /\ Places(f) = FreeUses(f) + TakenUses(f) + DirectoryUses(f) + TableUses(f)
                          + PageUses(f) + StackTableUses(f) + StackUses(f)
         /\ Places(f)' = FreeUses(f)' + TakenUses(f)' + DirectoryUses(f)' + TableUses(f)'
                           + PageUses(f)' + StackTableUses(f)' + StackUses(f)'
  BY DEF Places

\* The tables that hold frames are finite.
LEMMA HoldersFinite ==
  /\ IsFiniteSet(Procs) /\ IsFiniteSet(Pids)
  /\ IsFiniteSet(Pids \X Tables) /\ IsFiniteSet(Pids \X Vpages)
  /\ IsFiniteSet(Pids \X Threads) /\ IsFiniteSet(Pids \X StackPages)
  <1>1. IsFiniteSet(Pids) /\ PageSize \in Nat \ {0} /\ PagesPerTable \in Nat \ {0} /\ UserTop \in Nat \ {0}
    BY MemoryAssumption
  <1>2. IsFiniteSet(Procs)
    BY <1>1, FS_AddElement DEF Procs
  <1> DEFINE n == UserTop \div PageSize
  <1>3. n \in Nat
    BY <1>1, Division
  <1>4. IsFiniteSet(Vpages)
    <2> HIDE DEF n
    <2>1. n - 1 \in Int
      BY <1>3
    <2>2. QED
      BY <2>1, FS_Interval DEF Vpages, n
  <1>5. IsFiniteSet(Tables)
    <2>1. (n - 1) \div PagesPerTable \in Int
      BY <1>1, <1>3
    <2>2. QED
      BY <2>1, FS_Interval DEF Tables
  <1>6. IsFiniteSet(Threads)
    BY MemoryAssumption, FS_Interval DEF Threads
  <1>7. IsFiniteSet(StackPages)
    <2>1. IsFiniteSet(1..MaxDepth)
      BY MemoryAssumption, FS_Interval
    <2>2. QED
      BY <1>6, <2>1, FS_Product DEF StackPages
  <1>8. QED
    BY <1>1, <1>2, <1>4, <1>5, <1>6, <1>7, FS_Product

\* Uses are counted in natural numbers.
LEMMA UsesAreNumbers ==
  ASSUME MemoryInv, NEW f
  PROVE  /\ FreeUses(f) \in Nat /\ TakenUses(f) \in Nat /\ DirectoryUses(f) \in Nat
         /\ TableUses(f) \in Nat /\ PageUses(f) \in Nat
         /\ StackTableUses(f) \in Nat /\ StackUses(f) \in Nat
  <1>1. FreeUses(f) \in Nat /\ TakenUses(f) \in Nat
    <2>1. pmem_stack \in Seq(1..Frames) /\ taken \in Seq(1..Frames)
      BY DEF MemoryInv, TypeOK, PoolTypeOK
    <2>2. QED
      BY <2>1, CountFinite DEF FreeUses, TakenUses
  <1>2. DirectoryUses(f) \in Nat /\ TableUses(f) \in Nat /\ PageUses(f) \in Nat
    BY HoldersFinite, FS_Subset, FS_CardinalityType DEF DirectoryUses, TableUses, PageUses
  <1>3. StackTableUses(f) \in Nat /\ StackUses(f) \in Nat
    BY HoldersFinite, FS_Subset, FS_CardinalityType DEF StackTableUses, StackUses
  <1>4. QED
    BY <1>1, <1>2, <1>3

\* pmm_free_page.
LEMMA FreeAppended ==
  ASSUME MemoryInv, NEW f, NEW x \in 1..Frames, pmem_stack' = Append(pmem_stack, x)
  PROVE  FreeUses(f)' = FreeUses(f) + Is(x, f)
  <1>1. pmem_stack \in Seq(1..Frames)
    BY DEF MemoryInv, TypeOK, PoolTypeOK
  <1>2. Cardinality({i \in DOMAIN Append(pmem_stack, x) : Append(pmem_stack, x)[i] = f})
          = Cardinality({i \in DOMAIN pmem_stack : pmem_stack[i] = f}) + Is(x, f)
    BY <1>1, CountAppend
  <1>3. QED
    BY <1>2 DEF FreeUses

\* pmm_alloc_page, once or twice.
LEMMA FreePopped ==
  ASSUME MemoryInv, NEW f, Available >= 1, pmem_stack' = Popped(1)
  PROVE  FreeUses(f)' = FreeUses(f) - Is(Top(1), f)
  <1>1. pmem_stack \in Seq(1..Frames) /\ Len(pmem_stack) > 0
    BY DEF MemoryInv, TypeOK, PoolTypeOK, Available
  <1>2. pmem_stack' = SubSeq(pmem_stack, 1, Len(pmem_stack) - 1) /\ Top(1) = pmem_stack[Len(pmem_stack)]
    BY <1>1 DEF Popped, Top, Available
  <1>3. QED
    BY <1>1, <1>2, CountFront DEF FreeUses

\* Two frames taken from the stack of free ones.
LEMMA FreePoppedTwice ==
  ASSUME MemoryInv, NEW f, Available >= 2, pmem_stack' = Popped(2)
  PROVE  FreeUses(f)' = FreeUses(f) - Is(Top(1), f) - Is(Top(2), f)
  <1> DEFINE n == Available
             r == Popped(1)
  <1>1. pmem_stack \in Seq(1..Frames) /\ n = Len(pmem_stack) /\ n \in Nat /\ n >= 2
    BY DEF MemoryInv, TypeOK, PoolTypeOK, Available
  <1>2. r = SubSeq(pmem_stack, 1, n - 1) /\ Top(1) = pmem_stack[n] /\ Top(2) = pmem_stack[n - 1]
    BY <1>1 DEF Popped, Top
  <1>3. pmem_stack' = SubSeq(pmem_stack, 1, n - 2)
    BY DEF Popped
  <1> HIDE DEF n, r
  <1>4. n - 1 \in 0..Len(pmem_stack) /\ n - 2 \in 0..Len(pmem_stack) /\ n - 2 \in 0..(n - 1)
    BY <1>1
  <1>5. r \in Seq(1..Frames) /\ Len(r) = n - 1 /\ \A i \in 1..(n - 1) : r[i] = pmem_stack[i]
    BY <1>1, <1>2, <1>4, FrontFacts
  <1>6. pmem_stack' = SubSeq(r, 1, n - 2)
    <2> DEFINE a == SubSeq(r, 1, n - 2)
               b == SubSeq(pmem_stack, 1, n - 2)
    <2>1. a \in Seq(1..Frames) /\ Len(a) = n - 2 /\ \A i \in 1..(n - 2) : a[i] = r[i]
      BY <1>4, <1>5, FrontFacts
    <2>2. b \in Seq(1..Frames) /\ Len(b) = n - 2 /\ \A i \in 1..(n - 2) : b[i] = pmem_stack[i]
      BY <1>1, <1>4, FrontFacts
    <2> HIDE DEF a, b
    <2>3. \A i \in 1..(n - 2) : i \in 1..(n - 1)
      BY <1>1
    <2>4. \A i \in 1..(n - 2) : a[i] = b[i]
      BY <1>5, <2>1, <2>2, <2>3
    <2>5. a = b
      BY <2>1, <2>2, <2>4
    <2>6. QED
      BY <1>3, <2>5 DEF a, b
  <1>7. pmem_stack' = SubSeq(r, 1, Len(r) - 1) /\ r[Len(r)] = Top(2) /\ Len(r) > 0
    <2>1. n - 1 \in 1..(n - 1) /\ (n - 1) - 1 = n - 2
      BY <1>1
    <2>2. QED
      BY <1>2, <1>5, <1>6, <2>1
  <1>8. Cardinality({i \in DOMAIN r : r[i] = f}) = FreeUses(f) - Is(Top(1), f)
    <2>1. Len(pmem_stack) > 0
      BY <1>1
    <2>2. Cardinality({i \in DOMAIN SubSeq(pmem_stack, 1, Len(pmem_stack) - 1) :
                         SubSeq(pmem_stack, 1, Len(pmem_stack) - 1)[i] = f})
            = FreeUses(f) - Is(pmem_stack[Len(pmem_stack)], f)
      BY <1>1, <2>1, CountFront DEF FreeUses
    <2>3. QED
      BY <1>1, <1>2, <2>2
  <1>9. FreeUses(f)' = Cardinality({i \in DOMAIN r : r[i] = f}) - Is(r[Len(r)], f)
    BY <1>5, <1>7, CountFront DEF FreeUses
  <1>10. QED
    BY <1>7, <1>8, <1>9

\* What pmm_alloc_page returns was free.
LEMMA TopWasFree ==
  ASSUME MemoryInv, Available >= 1
  PROVE  Top(1) \in 1..Frames /\ FreeUses(Top(1)) >= 1
  <1> DEFINE x == Top(1)
             Q == {i \in DOMAIN pmem_stack : pmem_stack[i] = x}
  <1>1. pmem_stack \in Seq(1..Frames) /\ Available \in Nat /\ DOMAIN pmem_stack = 1..Available
    BY DEF MemoryInv, TypeOK, PoolTypeOK, Available
  <1>2. Top(1) \in 1..Frames
    BY <1>1, PoppedFacts
  <1>3. Available \in Q
    BY <1>1 DEF Top
  <1>4. IsFiniteSet(Q) /\ Cardinality(Q) \in Nat
    BY <1>1, CountFinite
  <1>5. Cardinality(Q) # 0
    BY <1>3, <1>4, FS_EmptySet
  <1>6. QED
    BY <1>2, <1>4, <1>5 DEF FreeUses

\* A process's directory changes.
LEMMA DirectorySlot ==
  ASSUME NEW f, NEW p \in Procs, \A q \in Procs : q # p => directory'[q] = directory[q]
  PROVE  DirectoryUses(f)' = DirectoryUses(f) - Is(directory[p], f) + Is(directory'[p], f)
  <1> DEFINE G == {q \in Procs : directory[q] = f}
             H == {q \in Procs : directory'[q] = f}
  <1>1. IsFiniteSet(G) /\ H \ {p} = G \ {p}
    BY HoldersFinite, FS_Subset
  <1>2. (p \in G <=> directory[p] = f) /\ (p \in H <=> directory'[p] = f)
    OBVIOUS
  <1> HIDE DEF G, H
  <1>3. Cardinality(H) = Cardinality(G) - Is(directory[p], f) + Is(directory'[p], f)
    BY <1>1, <1>2, CountSlot DEF Is
  <1>4. QED
    BY <1>3 DEF DirectoryUses, G, H

\* A page changes.
LEMMA PageSlot ==
  ASSUME NEW f, NEW p \in Pids, NEW v \in Vpages,
         \A q \in Pids : \A w \in Vpages : <<q, w>> # <<p, v>> => page'[q][w] = page[q][w]
  PROVE  PageUses(f)' = PageUses(f) - Is(page[p][v], f) + Is(page'[p][v], f)
  <1> DEFINE G == {pv \in Pids \X Vpages : page[pv[1]][pv[2]] = f}
             H == {pv \in Pids \X Vpages : page'[pv[1]][pv[2]] = f}
             d == <<p, v>>
  <1>1. IsFiniteSet(G)
    BY HoldersFinite, FS_Subset
  <1>2. H \ {d} = G \ {d}
    OBVIOUS
  <1>3. (d \in G <=> page[p][v] = f) /\ (d \in H <=> page'[p][v] = f)
    OBVIOUS
  <1> HIDE DEF G, H, d
  <1>4. Cardinality(H) = Cardinality(G) - Is(page[p][v], f) + Is(page'[p][v], f)
    BY <1>1, <1>2, <1>3, CountSlot DEF Is
  <1>5. QED
    BY <1>4 DEF PageUses, G, H

\* The uses in page tables, when one entry changes.
LEMMA TableSlot ==
  ASSUME NEW f, NEW p \in Pids, NEW k \in Tables,
         \A q \in Pids : \A w \in Tables : <<q, w>> # <<p, k>> => table'[q][w] = table[q][w]
  PROVE  TableUses(f)' = TableUses(f) - Is(table[p][k], f) + Is(table'[p][k], f)
  <1> DEFINE G == {pk \in Pids \X Tables : table[pk[1]][pk[2]] = f}
             H == {pk \in Pids \X Tables : table'[pk[1]][pk[2]] = f}
             d == <<p, k>>
  <1>1. IsFiniteSet(G)
    BY HoldersFinite, FS_Subset
  <1>2. H \ {d} = G \ {d}
    OBVIOUS
  <1>3. (d \in G <=> table[p][k] = f) /\ (d \in H <=> table'[p][k] = f)
    OBVIOUS
  <1> HIDE DEF G, H, d
  <1>4. Cardinality(H) = Cardinality(G) - Is(table[p][k], f) + Is(table'[p][k], f)
    BY <1>1, <1>2, <1>3, CountSlot DEF Is
  <1>5. QED
    BY <1>4 DEF TableUses, G, H

\* The table of a stack changes.
LEMMA StackTableSlot ==
  ASSUME NEW f, NEW p \in Pids, NEW t \in Threads,
         \A q \in Pids : \A w \in Threads : <<q, w>> # <<p, t>> => stackpt'[q][w] = stackpt[q][w]
  PROVE  StackTableUses(f)' = StackTableUses(f) - Is(stackpt[p][t], f) + Is(stackpt'[p][t], f)
  <1> DEFINE G == {pt \in Pids \X Threads : stackpt[pt[1]][pt[2]] = f}
             H == {pt \in Pids \X Threads : stackpt'[pt[1]][pt[2]] = f}
             d == <<p, t>>
  <1>1. IsFiniteSet(G)
    BY HoldersFinite, FS_Subset
  <1>2. H \ {d} = G \ {d}
    OBVIOUS
  <1>3. (d \in G <=> stackpt[p][t] = f) /\ (d \in H <=> stackpt'[p][t] = f)
    OBVIOUS
  <1> HIDE DEF G, H, d
  <1>4. Cardinality(H) = Cardinality(G) - Is(stackpt[p][t], f) + Is(stackpt'[p][t], f)
    BY <1>1, <1>2, <1>3, CountSlot DEF Is
  <1>5. QED
    BY <1>4 DEF StackTableUses, G, H

\* A page of a stack changes.
LEMMA StackSlot ==
  ASSUME NEW f, NEW p \in Pids, NEW s \in StackPages,
         \A q \in Pids : \A w \in StackPages : <<q, w>> # <<p, s>> => stack'[q][w] = stack[q][w]
  PROVE  StackUses(f)' = StackUses(f) - Is(stack[p][s], f) + Is(stack'[p][s], f)
  <1> DEFINE G == {ps \in Pids \X StackPages : stack[ps[1]][ps[2]] = f}
             H == {ps \in Pids \X StackPages : stack'[ps[1]][ps[2]] = f}
             d == <<p, s>>
  <1>1. IsFiniteSet(G)
    BY HoldersFinite, FS_Subset
  <1>2. H \ {d} = G \ {d}
    OBVIOUS
  <1>3. (d \in G <=> stack[p][s] = f) /\ (d \in H <=> stack'[p][s] = f)
    OBVIOUS
  <1> HIDE DEF G, H, d
  <1>4. Cardinality(H) = Cardinality(G) - Is(stack[p][s], f) + Is(stack'[p][s], f)
    BY <1>1, <1>2, <1>3, CountSlot DEF Is
  <1>5. QED
    BY <1>4 DEF StackUses, G, H

-----------------------------------------------------------------------------
(* Steps that move frames.                                                  *)

USE DEF procVars, userVars, stackVars, cpuVars

\* A page lies in a table of its process.
LEMMA TableOfPage ==
  ASSUME NEW v \in Vpages
  PROVE  TableOf(v) \in Tables
  <1> DEFINE n == UserTop \div PageSize - 1
  <1>1. v \in Nat /\ v <= n /\ n \in Int /\ PagesPerTable \in Nat \ {0}
    BY MemoryAssumption, Division DEF Vpages
  <1> HIDE DEF n
  <1>2. n \in Nat
    BY <1>1
  <1>3. /\ v \div PagesPerTable \in Nat /\ n \div PagesPerTable \in Nat
        /\ (v \div PagesPerTable) * PagesPerTable <= v
        /\ n < (n \div PagesPerTable) * PagesPerTable + PagesPerTable
    BY <1>1, <1>2, Division
  <1> DEFINE a == v \div PagesPerTable
             b == n \div PagesPerTable
  <1>4. a \in Nat /\ b \in Nat /\ a * PagesPerTable < b * PagesPerTable + PagesPerTable
    <2> HIDE DEF a, b
    <2>1. a * PagesPerTable \in Int /\ b * PagesPerTable \in Int
      BY <1>1, <1>3, ProductOrder DEF a, b
    <2>2. QED
      BY <1>1, <1>2, <1>3, <2>1 DEF a, b
  <1> HIDE DEF a, b
  <1>5. (b + 1) * PagesPerTable = b * PagesPerTable + PagesPerTable
    BY <1>1, <1>4, ProductOrder
  <1>6. a < b + 1
    <2>1. b + 1 \in Int
      BY <1>4
    <2>2. QED
      BY <1>1, <1>4, <1>5, <2>1, ProductOrder
  <1>7. QED
    BY <1>4, <1>6 DEF a, b, n, TableOf, Tables

\* vmm_map_page of a page that is not mapped.
LEMMA MapUses ==
  ASSUME MemoryInv, NEW p \in Pids, NEW v \in Vpages, NEW x \in 1..Frames, NEW n \in 1..2,
         MapPage(p, v, x, n), page[p][v] = NoFrame, NEW f \in 1..Frames
  PROVE  /\ PageUses(f)' = PageUses(f) + Is(x, f)
         /\ TableUses(f)' = TableUses(f) + (IF NeedsTable(p, v) THEN Is(Top(n), f) ELSE 0)
  <1>1. Is(NoFrame, f) = 0
    BY DEF Is, NoFrame
  <1>2. PageUses(f)' = PageUses(f) + Is(x, f)
    <2>1. page' = [page EXCEPT ![p] = [page[p] EXCEPT ![v] = x]]
      BY DEF MapPage
    <2>2. /\ page'[p][v] = x
          /\ \A q \in Pids : \A w \in Vpages : <<q, w>> # <<p, v>> => page'[q][w] = page[q][w]
      BY <2>1 DEF MemoryInv, TypeOK, PoolTypeOK
    <2>3. PageUses(f)' = PageUses(f) - Is(page[p][v], f) + Is(page'[p][v], f)
      BY <2>2, PageSlot
    <2>4. QED
      BY <1>1, <2>2, <2>3, UsesAreNumbers DEF Is
  <1> DEFINE k == TableOf(v)
             new == IF NeedsTable(p, v) THEN Top(n) ELSE table[p][k]
  <1>3. k \in Tables
    BY TableOfPage
  <1>4. TableUses(f)' = TableUses(f) - Is(table[p][k], f) + Is(new, f)
    <2>1. table' = [table EXCEPT ![p] = [table[p] EXCEPT ![k] = new]]
      BY DEF MapPage
    <2> HIDE DEF k, new
    <2>2. /\ table'[p][k] = new
          /\ \A q \in Pids : \A w \in Tables : <<q, w>> # <<p, k>> => table'[q][w] = table[q][w]
      BY <1>3, <2>1 DEF MemoryInv, TypeOK, PoolTypeOK
    <2>3. QED
      BY <1>3, <2>2, TableSlot
  <1>5. CASE NeedsTable(p, v)
    <2>1. table[p][k] = NoFrame /\ new = Top(n)
      BY <1>5 DEF NeedsTable
    <2>2. QED
      BY <1>1, <1>2, <1>4, <1>5, <2>1, UsesAreNumbers DEF Is
  <1>6. CASE ~NeedsTable(p, v)
    <2>1. new = table[p][k]
      BY <1>6
    <2>2. QED
      BY <1>2, <1>4, <1>6, <2>1, UsesAreNumbers DEF Is
  <1>7. QED
    BY <1>5, <1>6

\* A step that touches none of the holders,
LEMMA QuietFrames ==
  ASSUME UNCHANGED <<pmem_stack, directory, table, page, stackVars, taken>>
  PROVE  Conserves
  BY DEF Conserves, Places, FreeUses, TakenUses, DirectoryUses, TableUses, PageUses, StackTableUses,
         StackUses

\* and one that changes only some of them.
LEMMA HoldersUntouched ==
  ASSUME NEW f
  PROVE  /\ taken' = taken => TakenUses(f)' = TakenUses(f)
         /\ directory' = directory => DirectoryUses(f)' = DirectoryUses(f)
         /\ table' = table => TableUses(f)' = TableUses(f)
         /\ page' = page => PageUses(f)' = PageUses(f)
         /\ stackpt' = stackpt => StackTableUses(f)' = StackTableUses(f)
         /\ stack' = stack => StackUses(f)' = StackUses(f)
         /\ pmem_stack' = pmem_stack => FreeUses(f)' = FreeUses(f)
  BY DEF FreeUses, TakenUses, DirectoryUses, TableUses, PageUses, StackTableUses, StackUses

\* Being one frame or not, as a number.
LEMMA IsNumber == \A x, f : Is(x, f) \in 0..1
  BY DEF Is

\* ReleasePage.
LEMMA ReleaseConserves ==
  ASSUME MemoryInv, NEW p \in Pids, NEW v \in Vpages, ReleasePage(p, v),
         UNCHANGED <<directory, table, stackVars, taken>>
  PROVE  Conserves
  <1>1. CASE page[p][v] = NoFrame
    <2>1. pmem_stack' = pmem_stack /\ page' = page
      <3>1. page' = [page EXCEPT ![p] = [page[p] EXCEPT ![v] = NoFrame]] /\ pmem_stack' = pmem_stack
        BY <1>1 DEF ReleasePage
      <3>2. page \in [Pids -> [Vpages -> 0..Frames]]
        BY DEF MemoryInv, TypeOK, PoolTypeOK
      <3>3. [page[p] EXCEPT ![v] = NoFrame] = page[p]
        BY <1>1, <3>2
      <3>4. QED
        BY <3>1, <3>2, <3>3
    <2>2. QED
      BY <2>1, QuietFrames
  <1>2. CASE page[p][v] # NoFrame
    <2> SUFFICES ASSUME NEW f \in 1..Frames
                 PROVE  Places(f)' = Places(f)
      BY DEF Conserves
    <2>1. /\ pmem_stack' = Append(pmem_stack, page[p][v])
          /\ page' = [page EXCEPT ![p] = [page[p] EXCEPT ![v] = NoFrame]]
      BY <1>2 DEF ReleasePage
    <2>2. page[p][v] \in 1..Frames
      BY <1>2, MemoryAssumption DEF MemoryInv, TypeOK, PoolTypeOK, NoFrame
    <2>3. FreeUses(f)' = FreeUses(f) + Is(page[p][v], f)
      BY <2>1, <2>2, FreeAppended
    <2>4. /\ page'[p][v] = NoFrame
          /\ \A q \in Pids : \A w \in Vpages : <<q, w>> # <<p, v>> => page'[q][w] = page[q][w]
      BY <2>1 DEF MemoryInv, TypeOK, PoolTypeOK
    <2>5. PageUses(f)' = PageUses(f) - Is(page[p][v], f) + Is(page'[p][v], f)
      BY <2>4, PageSlot
    <2>6. Is(page'[p][v], f) = 0
      BY <2>4 DEF Is, NoFrame
    <2>7. /\ TakenUses(f)' = TakenUses(f) /\ DirectoryUses(f)' = DirectoryUses(f)
          /\ TableUses(f)' = TableUses(f)
          /\ StackTableUses(f)' = StackTableUses(f) /\ StackUses(f)' = StackUses(f)
      BY HoldersUntouched
    <2>8. Is(page[p][v], f) \in Int
      BY IsNumber
    <2>9. QED
      BY <2>3, <2>5, <2>6, <2>7, <2>8, UsesAdd, UsesAreNumbers
  <1>3. QED
    BY <1>1, <1>2

\* A page of the way back puts its frame on the stack.
LEMMA RollbackPageConserves ==
  ASSUME MemoryInv, RollbackPage
  PROVE  Conserves
  <1>1. PICK p \in Pids : p = op.p
    BY DEF RollbackPage, Doing, MemoryInv, OpInv
  <1>2. /\ pgbrk[p] > op.old /\ ReleasePage(p, PageOf(pgbrk[p]) - 1)
        /\ UNCHANGED <<directory, table, stackVars, taken>>
    BY <1>1 DEF RollbackPage, RollbackEnd
  <1>3. PageOf(pgbrk[p]) - 1 \in Vpages
    BY <1>2, BrkFacts, OpFacts, PageOfAligned
  <1>4. QED
    BY <1>2, <1>3, ReleaseConserves

\* So does a page given up.
LEMMA ShrinkPageConserves ==
  ASSUME MemoryInv, ShrinkPage
  PROVE  Conserves
  <1>1. PICK p \in Pids : p = op.p
    BY DEF ShrinkPage, Doing, MemoryInv, OpInv
  <1>2. /\ pgbrk[p] > RoundUp(op.want) /\ ReleasePage(p, PageOf(pgbrk[p]) - 1)
        /\ UNCHANGED <<directory, table, stackVars, taken>>
    BY <1>1 DEF ShrinkPage
  <1>3. PageOf(pgbrk[p]) - 1 \in Vpages
    BY <1>2, BrkFacts, OpFacts, RoundUpFacts, PageOfAligned
  <1>4. QED
    BY <1>2, <1>3, ReleaseConserves

\* And a page of a region the reaper frees.
LEMMA RegionPageConserves ==
  ASSUME MemoryInv, RegionPage
  PROVE  Conserves
  <1>1. PICK p \in Pids : p = op.p
    BY DEF RegionPage, Doing, MemoryInv, OpInv
  <1>2. /\ regions[p] # <<>> /\ ReleasePage(p, Head(regions[p]))
        /\ UNCHANGED <<directory, table, stackVars, taken>>
    BY <1>1 DEF RegionPage
  <1>3. regions[p] \in Seq(Vpages)
    BY DEF MemoryInv, TypeOK, StateTypeOK
  <1>4. Head(regions[p]) \in Vpages
    BY <1>2, <1>3, SequenceFacts
  <1>5. QED
    BY <1>2, <1>4, ReleaseConserves

\* One frame moves from the pool to a page of a stack.
LEMMA FaultInConserves ==
  ASSUME MemoryInv, NEW p \in Pids, NEW s \in StackPages, NEW next, NEW what, FaultIn(p, s, next, what)
  PROVE  Conserves
  <1>1. CASE Available = 0
    BY <1>1, QuietFrames DEF FaultIn, Panic
  <1>2. CASE Available # 0
    <2> SUFFICES ASSUME NEW f \in 1..Frames
                 PROVE  Places(f)' = Places(f)
      BY DEF Conserves
    <2>1. /\ stack[p][s] = NoFrame /\ pmem_stack' = Popped(1)
          /\ stack' = [stack EXCEPT ![p][s] = Top(1)]
          /\ UNCHANGED <<directory, table, page, stackpt, taken>>
      BY <1>2 DEF FaultIn
    <2>2. Available >= 1
      BY <1>2 DEF Available, MemoryInv, TypeOK, PoolTypeOK
    <2>3. FreeUses(f)' = FreeUses(f) - Is(Top(1), f)
      BY <2>1, <2>2, FreePopped
    <2>4. /\ stack'[p][s] = Top(1)
          /\ \A q \in Pids : \A w \in StackPages : <<q, w>> # <<p, s>> => stack'[q][w] = stack[q][w]
      <3>1. stack' = [stack EXCEPT ![p] = [stack[p] EXCEPT ![s] = Top(1)]]
        BY <2>1
      <3>2. QED
        BY <3>1 DEF MemoryInv, TypeOK, PoolTypeOK
    <2>5. StackUses(f)' = StackUses(f) - Is(stack[p][s], f) + Is(stack'[p][s], f)
      BY <2>4, StackSlot
    <2>6. Is(stack[p][s], f) = 0 /\ Is(stack'[p][s], f) = Is(Top(1), f)
      BY <2>1, <2>4 DEF Is, NoFrame
    <2>7. /\ TakenUses(f)' = TakenUses(f) /\ DirectoryUses(f)' = DirectoryUses(f)
          /\ TableUses(f)' = TableUses(f) /\ PageUses(f)' = PageUses(f)
          /\ StackTableUses(f)' = StackTableUses(f)
      BY <2>1, HoldersUntouched
    <2>8. Is(Top(1), f) \in Int
      BY IsNumber
    <2>9. QED
      BY <2>3, <2>5, <2>6, <2>7, <2>8, UsesAdd, UsesAreNumbers
  <1>3. QED
    BY <1>1, <1>2

\* The frame of a page of a stack, on demand,
LEMMA StackFaultConserves ==
  ASSUME MemoryInv, NEW p \in Pids, NEW t \in Threads, StackFault(p, t)
  PROVE  Conserves
  <1>1. PICK k \in 1..MaxDepth : FaultIn(p, <<t, k>>, op, "stack")
    BY DEF StackFault
  <1>2. <<t, k>> \in StackPages
    BY DEF StackPages
  <1>3. QED
    BY <1>1, <1>2, FaultInConserves

\* and for a fork.
LEMMA ForkCopyConserves ==
  ASSUME MemoryInv, NEW t \in Threads, ForkRead(t) \/ \E u \in Threads : ForkWrite(t, u)
  PROVE  Conserves
  <1>1. op.kind = "fork" /\ op.want > 0
    BY DEF ForkRead, ForkWrite, Doing
  <1>2. op.p \in Pids /\ op.want \in 0..MaxDepth
    BY <1>1 DEF MemoryInv, OpInv
  <1>3. \A u \in Threads : <<u, op.want>> \in StackPages
    BY <1>1, <1>2, MemoryAssumption DEF StackPages
  <1>4. \E u \in Threads : \E next : FaultIn(op.p, <<u, op.want>>, next, "fork")
    BY DEF ForkRead, ForkWrite
  <1>5. QED
    BY <1>2, <1>3, <1>4, FaultInConserves

\* A frame moves from the pool to the table of a new stack.
LEMMA StackTableUsed ==
  ASSUME MemoryInv, NEW p \in Pids, NEW t \in Threads, NEW x \in 1..Frames, stackpt[p][t] = NoFrame,
         stackpt' = [stackpt EXCEPT ![p][t] = x], NEW f \in 1..Frames
  PROVE  StackTableUses(f)' = StackTableUses(f) + Is(x, f)
  <1>1. /\ stackpt'[p][t] = x
        /\ \A q \in Pids : \A w \in Threads : <<q, w>> # <<p, t>> => stackpt'[q][w] = stackpt[q][w]
    <2>1. stackpt' = [stackpt EXCEPT ![p] = [stackpt[p] EXCEPT ![t] = x]]
      OBVIOUS
    <2>2. QED
      BY <2>1 DEF MemoryInv, TypeOK, PoolTypeOK
  <1>2. StackTableUses(f)' = StackTableUses(f) - Is(stackpt[p][t], f) + Is(stackpt'[p][t], f)
    BY <1>1, StackTableSlot
  <1>3. Is(stackpt[p][t], f) = 0
    BY DEF Is, NoFrame
  <1>4. QED
    BY <1>1, <1>2, <1>3, UsesAreNumbers, IsNumber

\* sched_create_thread in a fork.
LEMMA ForkStartConserves ==
  ASSUME MemoryInv, FreshHoldsNothing, NEW p \in Pids, NEW t \in Threads, NEW u \in Threads,
         ForkStart(p, t, u)
  PROVE  Conserves
  <1>1. CASE Available = 0
    <2>1. Panic("fork")
      BY <1>1 DEF ForkStart
    <2>2. QED
      BY <2>1, QuietFrames DEF Panic
  <1>2. CASE Available # 0
    <2> SUFFICES ASSUME NEW f \in 1..Frames
                 PROVE  Places(f)' = Places(f)
      BY DEF Conserves
    <2>1. /\ tstate[p][u] = "none" /\ pmem_stack' = Popped(1)
          /\ stackpt' = [stackpt EXCEPT ![p][u] = Top(1)]
          /\ UNCHANGED <<directory, table, page, stack, taken>>
      BY <1>2 DEF ForkStart, NextThread
    <2>2. Available >= 1
      BY <1>2 DEF Available, MemoryInv, TypeOK, PoolTypeOK
    <2>3. FreeUses(f)' = FreeUses(f) - Is(Top(1), f)
      BY <2>1, <2>2, FreePopped
    <2>4. stackpt[p][u] = NoFrame
      BY <2>1 DEF FreshHoldsNothing
    <2>5. StackTableUses(f)' = StackTableUses(f) + Is(Top(1), f)
      BY <2>1, <2>2, <2>4, TopWasFree, StackTableUsed
    <2>6. /\ TakenUses(f)' = TakenUses(f) /\ DirectoryUses(f)' = DirectoryUses(f)
          /\ TableUses(f)' = TableUses(f) /\ PageUses(f)' = PageUses(f)
          /\ StackUses(f)' = StackUses(f)
      BY <2>1, HoldersUntouched
    <2>7. Is(Top(1), f) \in Int
      BY IsNumber
    <2>8. QED
      BY <2>3, <2>5, <2>6, <2>7, UsesAdd, UsesAreNumbers
  <1>3. QED
    BY <1>1, <1>2

\* sched_create_process: a frame for the directory, one for the table of the stack.
LEMMA ExecConserves ==
  ASSUME MemoryInv, FreshHoldsNothing, NEW p \in Pids, Exec(p)
  PROVE  Conserves
  <1>1. CASE Available < 2
    BY <1>1, QuietFrames DEF Exec, Panic
  <1>2. CASE ~ (Available < 2)
    <2> SUFFICES ASSUME NEW f \in 1..Frames
                 PROVE  Places(f)' = Places(f)
      BY DEF Conserves
    <2>1. /\ pstate[p] = "none" /\ pmem_stack' = Popped(2)
          /\ directory' = [directory EXCEPT ![p] = Top(1)]
          /\ stackpt' = [stackpt EXCEPT ![p][1] = Top(2)]
          /\ UNCHANGED <<table, page, stack, taken>>
      BY <1>2 DEF Exec
    <2>2. Available >= 2
      BY <1>2 DEF Available, MemoryInv, TypeOK, PoolTypeOK
    <2>3. 1 \in Threads /\ p \in Procs
      BY MemoryAssumption DEF Threads, Procs
    <2>4. directory[p] = NoFrame /\ stackpt[p][1] = NoFrame
      BY <2>1, <2>3 DEF FreshHoldsNothing
    <2>5. FreeUses(f)' = FreeUses(f) - Is(Top(1), f) - Is(Top(2), f)
      BY <2>1, <2>2, FreePoppedTwice
    <2>6. directory'[p] = Top(1) /\ \A q \in Procs : q # p => directory'[q] = directory[q]
      BY <2>1, <2>3 DEF MemoryInv, TypeOK, PoolTypeOK
    <2>7. DirectoryUses(f)' = DirectoryUses(f) - Is(directory[p], f) + Is(directory'[p], f)
      BY <2>3, <2>6, DirectorySlot
    <2>8. StackTableUses(f)' = StackTableUses(f) + Is(Top(2), f)
      <3>1. Top(2) \in 1..Frames
        BY <2>2, PoppedFacts DEF MemoryInv, TypeOK, PoolTypeOK
      <3>2. QED
        BY <2>1, <2>3, <2>4, <3>1, StackTableUsed
    <2>9. Is(directory[p], f) = 0 /\ Is(directory'[p], f) = Is(Top(1), f)
      BY <2>6, <2>4 DEF Is, NoFrame
    <2>10. /\ TakenUses(f)' = TakenUses(f) /\ TableUses(f)' = TableUses(f)
           /\ PageUses(f)' = PageUses(f) /\ StackUses(f)' = StackUses(f)
      BY <2>1, HoldersUntouched
    <2>11. Is(Top(1), f) \in Int /\ Is(Top(2), f) \in Int
      BY IsNumber
    <2>12. QED
      BY <2>5, <2>7, <2>8, <2>9, <2>10, <2>11, UsesAdd, UsesAreNumbers
  <1>3. QED
    BY <1>1, <1>2

\* The directory goes back to the pool.
LEMMA StartReapConserves ==
  ASSUME MemoryInv, NEW p \in Pids, directory[p] # NoFrame, StartReap(p)
  PROVE  Conserves
  <1> SUFFICES ASSUME NEW f \in 1..Frames
               PROVE  Places(f)' = Places(f)
    BY DEF Conserves
  <1>1. /\ pmem_stack' = Append(pmem_stack, directory[p])
        /\ directory' = [directory EXCEPT ![p] = NoFrame]
        /\ UNCHANGED <<table, page, stackVars, taken>>
    BY DEF StartReap
  <1>2. directory[p] \in 1..Frames /\ p \in Procs
    BY MemoryAssumption DEF MemoryInv, TypeOK, PoolTypeOK, NoFrame, Procs
  <1>3. FreeUses(f)' = FreeUses(f) + Is(directory[p], f)
    BY <1>1, <1>2, FreeAppended
  <1>4. directory'[p] = NoFrame /\ \A q \in Procs : q # p => directory'[q] = directory[q]
    BY <1>1, <1>2 DEF MemoryInv, TypeOK, PoolTypeOK
  <1>5. DirectoryUses(f)' = DirectoryUses(f) - Is(directory[p], f) + Is(directory'[p], f)
    BY <1>2, <1>4, DirectorySlot
  <1>6. Is(directory'[p], f) = 0
    BY <1>4 DEF Is, NoFrame
  <1>7. /\ TakenUses(f)' = TakenUses(f) /\ TableUses(f)' = TableUses(f)
        /\ PageUses(f)' = PageUses(f)
        /\ StackTableUses(f)' = StackTableUses(f) /\ StackUses(f)' = StackUses(f)
    BY <1>1, HoldersUntouched
  <1>8. Is(directory[p], f) \in Int
    BY IsNumber
  <1>9. QED
    BY <1>3, <1>5, <1>6, <1>7, <1>8, UsesAdd, UsesAreNumbers

\* A process that ends is kept or reaped.
LEMMA EndConserves ==
  ASSUME MemoryInv, NEW p \in Pids, pstate[p] \in {"starting", "loading", "running", "exited"},
         Keep(p) \/ StartReap(p)
  PROVE  Conserves
  <1>1. CASE Keep(p)
    BY <1>1, QuietFrames DEF Keep
  <1>2. CASE StartReap(p)
    <2>1. directory[p] # NoFrame
      BY DEF MemoryInv, DirectoryHeld, Procs
    <2>2. QED
      BY <1>2, <2>1, StartReapConserves
  <1>3. QED
    BY <1>1, <1>2

\* A page, and a table for it if there is none, at the break.
LEMMA GrowPageConserves ==
  ASSUME MemoryInv, GrowPage
  PROVE  Conserves
  <1>0. PICK p \in Pids : p = op.p
    BY DEF GrowPage, Doing, MemoryInv, OpInv
  <1> DEFINE v == PageOf(pgbrk[p])
             frames == IF NeedsTable(p, v) THEN 2 ELSE 1
  <1>1. CASE Available < frames
    BY <1>0, <1>1, QuietFrames DEF GrowPage, Panic
  <1>2. CASE ~ (Available < frames)
    <2> SUFFICES ASSUME NEW f \in 1..Frames
                 PROVE  Places(f)' = Places(f)
      BY DEF Conserves
    <2>1. /\ op.kind = "grow" /\ pgbrk[p] < RoundUp(op.want) /\ page[p][v] = NoFrame
          /\ pmem_stack' = Popped(frames) /\ MapPage(p, v, Top(1), 2)
          /\ UNCHANGED <<directory, stackVars, taken>>
      BY <1>0, <1>2 DEF GrowPage, GrowFails, Doing
    <2>2. RoundUp(op.want) <= UserTop
      BY <1>0, <2>1 DEF MemoryInv, GrowInv
    <2>3. v \in Vpages
      <3>1. pgbrk[p] \in Nat /\ Aligned(pgbrk[p]) /\ RoundUp(op.want) \in Nat
        BY BrkFacts, OpFacts, RoundUpFacts
      <3>2. pgbrk[p] < UserTop /\ pgbrk[p] <= UserTop
        BY <2>1, <2>2, <3>1, MemoryAssumption
      <3>3. QED
        BY <3>1, <3>2, PageOfAligned
    <2>4. Available \in Nat /\ frames \in 1..2 /\ frames <= Available
      BY <1>2 DEF Available, MemoryInv, TypeOK, PoolTypeOK
    <2>5. Top(1) \in 1..Frames
      BY <2>4, TopWasFree
    <2> HIDE DEF v
    <2>6. /\ PageUses(f)' = PageUses(f) + Is(Top(1), f)
          /\ TableUses(f)' = TableUses(f) + (IF NeedsTable(p, v) THEN Is(Top(2), f) ELSE 0)
      BY <2>1, <2>3, <2>5, MapUses
    <2>7. FreeUses(f)' = FreeUses(f) - Is(Top(1), f) - (IF NeedsTable(p, v) THEN Is(Top(2), f) ELSE 0)
      <3>1. CASE NeedsTable(p, v)
        BY <2>1, <2>4, <3>1, FreePoppedTwice
      <3>2. CASE ~NeedsTable(p, v)
        <4>1. FreeUses(f)' = FreeUses(f) - Is(Top(1), f)
          BY <2>1, <2>4, <3>2, FreePopped
        <4>2. QED
          BY <3>2, <4>1, UsesAreNumbers, IsNumber
      <3>3. QED
        BY <3>1, <3>2
    <2> DEFINE t == IF NeedsTable(p, v) THEN Is(Top(2), f) ELSE 0
    <2>8. t \in 0..1
      BY IsNumber
    <2> HIDE DEF t
    <2>9. /\ TableUses(f)' = TableUses(f) + t
          /\ FreeUses(f)' = FreeUses(f) - Is(Top(1), f) - t
      BY <2>6, <2>7 DEF t
    <2>10. /\ TakenUses(f)' = TakenUses(f) /\ DirectoryUses(f)' = DirectoryUses(f)
           /\ StackTableUses(f)' = StackTableUses(f) /\ StackUses(f)' = StackUses(f)
      BY <2>1, HoldersUntouched
    <2>11. Is(Top(1), f) \in Int
      BY IsNumber
    <2>12. QED
      BY <2>6, <2>8, <2>9, <2>10, <2>11, UsesAdd, UsesAreNumbers
  <1>3. QED
    BY <1>1, <1>2

\* The loader takes a frame from the pool,
LEMMA LoadTakeConserves ==
  ASSUME MemoryInv, LoadTake
  PROVE  Conserves
  <1>1. CASE Available = 0
    BY <1>1, QuietFrames DEF LoadTake, Panic
  <1>2. CASE Available # 0
    <2> SUFFICES ASSUME NEW f \in 1..Frames
                 PROVE  Places(f)' = Places(f)
      BY DEF Conserves
    <2>1. /\ pmem_stack' = Popped(1) /\ taken' = Append(taken, Top(1))
          /\ UNCHANGED <<directory, table, page, stackVars>>
      BY <1>2 DEF LoadTake
    <2>2. Available >= 1 /\ taken \in Seq(1..Frames)
      BY <1>2 DEF Available, MemoryInv, TypeOK, PoolTypeOK
    <2>3. FreeUses(f)' = FreeUses(f) - Is(Top(1), f)
      BY <2>1, <2>2, FreePopped
    <2>4. TakenUses(f)' = TakenUses(f) + Is(Top(1), f)
      <3>1. Top(1) \in 1..Frames
        BY <2>2, TopWasFree
      <3>2. Cardinality({i \in DOMAIN Append(taken, Top(1)) : Append(taken, Top(1))[i] = f})
              = Cardinality({i \in DOMAIN taken : taken[i] = f}) + Is(Top(1), f)
        BY <2>2, <3>1, CountAppend
      <3>3. QED
        BY <2>1, <3>2 DEF TakenUses
    <2>5. /\ DirectoryUses(f)' = DirectoryUses(f) /\ TableUses(f)' = TableUses(f)
          /\ PageUses(f)' = PageUses(f)
          /\ StackTableUses(f)' = StackTableUses(f) /\ StackUses(f)' = StackUses(f)
      BY <2>1, HoldersUntouched
    <2>6. Is(Top(1), f) \in Int
      BY IsNumber
    <2>7. QED
      BY <2>3, <2>4, <2>5, <2>6, UsesAdd, UsesAreNumbers
  <1>3. QED
    BY <1>1, <1>2

\* and maps it.
LEMMA LoadMapConserves ==
  ASSUME MemoryInv, PageInv, LoadMap
  PROVE  Conserves
  <1>0. PICK p \in Pids : p = op.p
    BY DEF LoadMap, Doing, MemoryInv, OpInv
  <1>1. PICK v \in Vpages : v = NextPage
    BY NextPageFacts DEF LoadMap, Doing
  <1> DEFINE frames == IF NeedsTable(p, v) THEN 1 ELSE 0
  <1>2. CASE Available < frames
    BY <1>0, <1>1, <1>2, QuietFrames DEF LoadMap, Panic
  <1>3. CASE ~ (Available < frames)
    <2> SUFFICES ASSUME NEW f \in 1..Frames
                 PROVE  Places(f)' = Places(f)
      BY DEF Conserves
    <2>1. /\ taken # <<>> /\ page[p][v] = NoFrame /\ pmem_stack' = Popped(frames)
          /\ MapPage(p, v, Head(taken), 1) /\ taken' = Tail(taken)
          /\ UNCHANGED <<directory, stackVars>>
      BY <1>0, <1>1, <1>3 DEF LoadMap
    <2>2. taken \in Seq(1..Frames) /\ Available \in Nat /\ frames <= Available
      BY <1>3 DEF Available, MemoryInv, TypeOK, PoolTypeOK
    <2>3. Head(taken) \in 1..Frames
      BY <2>1, <2>2, SequenceFacts
    <2>4. /\ PageUses(f)' = PageUses(f) + Is(Head(taken), f)
          /\ TableUses(f)' = TableUses(f) + (IF NeedsTable(p, v) THEN Is(Top(1), f) ELSE 0)
      BY <2>1, <2>3, MapUses
    <2>5. TakenUses(f)' = TakenUses(f) - Is(Head(taken), f)
      BY <2>1, <2>2, CountTail DEF TakenUses
    <2>6. FreeUses(f)' = FreeUses(f) - (IF NeedsTable(p, v) THEN Is(Top(1), f) ELSE 0)
      <3>1. CASE NeedsTable(p, v)
        BY <2>1, <2>2, <3>1, FreePopped
      <3>2. CASE ~NeedsTable(p, v)
        <4>1. pmem_stack' = SubSeq(pmem_stack, 1, Len(pmem_stack))
          BY <2>1, <2>2, <3>2 DEF Popped, Available
        <4>2. pmem_stack' = pmem_stack
          BY <4>1 DEF MemoryInv, TypeOK, PoolTypeOK
        <4>3. FreeUses(f)' = FreeUses(f)
          BY <4>2, HoldersUntouched
        <4>4. QED
          BY <3>2, <4>3, UsesAreNumbers
      <3>3. QED
        BY <3>1, <3>2
    <2> DEFINE t == IF NeedsTable(p, v) THEN Is(Top(1), f) ELSE 0
    <2>7. t \in 0..1
      BY IsNumber
    <2> HIDE DEF t
    <2>8. TableUses(f)' = TableUses(f) + t /\ FreeUses(f)' = FreeUses(f) - t
      BY <2>4, <2>6 DEF t
    <2>9. /\ DirectoryUses(f)' = DirectoryUses(f)
          /\ StackTableUses(f)' = StackTableUses(f) /\ StackUses(f)' = StackUses(f)
      BY <2>1, HoldersUntouched
    <2>10. Is(Head(taken), f) \in Int
      BY IsNumber
    <2>11. QED
      BY <2>4, <2>5, <2>7, <2>8, <2>9, <2>10, UsesAdd, UsesAreNumbers
  <1>4. QED
    BY <1>2, <1>3

-----------------------------------------------------------------------------
(* The theorem.                                                             *)

\* A process that is loaded does not become one that is not.
LEMMA StateProgress ==
  ASSUME MemoryInv, [Next]_vars, NEW p \in Pids, pstate[p] \notin {"none", "starting"}
  PROVE  pstate'[p] \notin {"none", "starting"}
  <1>1. p \in Procs /\ pstate \in [Procs -> {"none", "starting", "loading", "running", "exited",
                                             "reaping", "gone"}]
    BY DEF Procs, MemoryInv, TypeOK, StateTypeOK
  <1>2. CASE pstate' = pstate
    BY <1>2
  <1>3. ASSUME NEW q \in Procs, NEW s \in {"loading", "running", "exited", "reaping", "gone"},
               pstate' = [pstate EXCEPT ![q] = s]
        PROVE  pstate'[p] \notin {"none", "starting"}
    BY <1>1, <1>3
  <1>4. ASSUME NEW q \in Pids, Exec(q)
        PROVE  pstate'[p] \notin {"none", "starting"}
    <2>1. q # p /\ (pstate' = pstate \/ pstate' = [pstate EXCEPT ![q] = "starting"])
      BY <1>4 DEF Exec, Panic
    <2>2. QED
      BY <1>1, <2>1
  <1>5. ASSUME NEW q \in Pids, LoadStart(q) \/ Keep(q) \/ StartReap(q)
        PROVE  pstate'[p] \notin {"none", "starting"}
    <2>1. q \in Procs
      BY DEF Procs
    <2>2. QED
      BY <1>3, <1>5, <2>1 DEF LoadStart, Keep, StartReap
  <1>6. CASE LoadDone \/ ReapDone
    <2>1. op.p \in Procs
      BY <1>6 DEF LoadDone, ReapDone, Doing, MemoryInv, OpInv, Procs
    <2>2. QED
      BY <1>3, <1>6, <2>1 DEF LoadDone, ReapDone
  <1>7. \/ pstate' = pstate
        \/ \E q \in Pids : Exec(q) \/ LoadStart(q) \/ Keep(q) \/ StartReap(q)
        \/ LoadDone \/ ReapDone
    <2>1. ASSUME NEW q \in Pids, NEW want \in 1..(UserTop + PageSize),
                 BrkSamePages(q, want) \/ BrkStart(q, want)
          PROVE  pstate' = pstate
      BY <2>1 DEF BrkSamePages, BrkStart
    <2>2. ASSUME NEW q \in Pids, NEW t \in Threads,
                 StackFault(q, t) \/ ThreadExit(q, t) \/ ThreadCollect(q, t)
          PROVE  pstate' = pstate
      BY <2>2 DEF StackFault, FaultIn, ThreadExit, ThreadCollect, Panic
    <2>12. ASSUME NEW q \in Pids, NEW t \in Threads, NEW u \in Threads, ForkStart(q, t, u)
           PROVE  pstate' = pstate
      BY <2>12 DEF ForkStart, Panic
    <2>13. ASSUME NEW t \in Threads, ForkRead(t) \/ \E u \in Threads : ForkWrite(t, u) \/ ForkDone(t, u)
           PROVE  pstate' = pstate
      BY <2>13 DEF ForkRead, ForkWrite, ForkDone, FaultIn, Panic
    <2>3. ASSUME NEW q \in Pids, NEW waited \in BOOLEAN, Exit(q, waited)
          PROVE  Keep(q) \/ StartReap(q)
      BY <2>3 DEF Exit
    <2>4. ASSUME NEW q \in Pids, NEW r \in Pids, NEW waited \in BOOLEAN, Kill(q, r, waited)
          PROVE  Keep(r) \/ StartReap(r)
      BY <2>4 DEF Kill
    <2>5. ASSUME NEW q \in Pids, NEW w \in Procs, Collect(q, w)
          PROVE  StartReap(q)
      BY <2>5 DEF Collect
    <2>6. ASSUME NEW q \in Procs, Resume(q)
          PROVE  pstate' = pstate
      BY <2>6 DEF Resume
    <2>7. CASE GrowPage \/ GrowGivesUp \/ GrowDone \/ RollbackPage \/ RollbackDone
      BY <2>7 DEF GrowPage, GrowGivesUp, GrowDone, RollbackPage, RollbackDone, Panic
    <2>8. CASE ShrinkPage \/ ShrinkDone \/ RegionPage
      BY <2>8 DEF ShrinkPage, ShrinkDone, RegionPage
    <2>9. CASE LoadTake \/ LoadTaken \/ LoadMap \/ LoadFails \/ LoadMapped
      BY <2>9 DEF LoadTake, LoadTaken, LoadMap, LoadFails, LoadMapped, Panic
    <2>10. CASE Halted \/ UNCHANGED vars
      BY <2>10 DEF Halted, vars
    <2>11. QED
      BY <2>1, <2>2, <2>3, <2>4, <2>5, <2>6, <2>7, <2>8, <2>9, <2>10, <2>12, <2>13 DEF Next
  <1>8. QED
    BY <1>2, <1>4, <1>5, <1>6, <1>7

\* Every step conserves the frames but the one by which a load fails.
LEMMA NextConserves ==
  ASSUME MemoryInv, PageInv, FreshHoldsNothing, [Next]_vars, ~LoadFails
  PROVE  Conserves
  <1>1. ASSUME NEW p \in Pids, NEW want \in 1..(UserTop + PageSize),
               BrkSamePages(p, want) \/ BrkStart(p, want)
        PROVE  Conserves
    BY <1>1, QuietFrames DEF BrkSamePages, BrkStart
  <1>2. ASSUME NEW p \in Pids, NEW t \in Threads,
               Exec(p) \/ StackFault(p, t) \/ \E u \in Threads : ForkStart(p, t, u)
        PROVE  Conserves
    BY <1>2, ExecConserves, StackFaultConserves, ForkStartConserves
  <1>3. ASSUME NEW p \in Pids, NEW t \in Threads,
               LoadStart(p) \/ ThreadExit(p, t) \/ ThreadCollect(p, t)
        PROVE  Conserves
    BY <1>3, QuietFrames DEF LoadStart, ThreadExit, ThreadCollect
  <1>4. ASSUME NEW p \in Pids, NEW waited \in BOOLEAN, Exit(p, waited)
        PROVE  Conserves
    <2>1. cur = p /\ (Keep(p) \/ StartReap(p))
      BY <1>4 DEF Exit
    <2>2. pstate[p] \in {"starting", "loading", "running", "exited"}
      BY <2>1 DEF MemoryInv, CurHeld
    <2>3. QED
      BY <2>1, <2>2, EndConserves
  <1>5. ASSUME NEW p \in Pids, NEW q \in Pids, NEW waited \in BOOLEAN, Kill(p, q, waited)
        PROVE  Conserves
    <2>1. pstate[q] \notin {"none", "reaping", "gone"} /\ (Keep(q) \/ StartReap(q))
      BY <1>5 DEF Kill
    <2>2. pstate[q] \in {"starting", "loading", "running", "exited"}
      BY <2>1 DEF MemoryInv, TypeOK, StateTypeOK, Procs
    <2>3. QED
      BY <2>1, <2>2, EndConserves
  <1>6. ASSUME NEW p \in Pids, NEW w \in Procs, Collect(p, w)
        PROVE  Conserves
    BY <1>6, EndConserves DEF Collect
  <1>7. ASSUME NEW p \in Procs, Resume(p)
        PROVE  Conserves
    BY <1>7, QuietFrames DEF Resume
  <1>8. CASE GrowPage \/ RollbackPage \/ ShrinkPage \/ RegionPage
    BY <1>8, GrowPageConserves, RollbackPageConserves, ShrinkPageConserves, RegionPageConserves
  <1>9. CASE GrowGivesUp \/ GrowDone \/ RollbackDone \/ ShrinkDone
    BY <1>9, QuietFrames DEF GrowGivesUp, GrowDone, RollbackDone, ShrinkDone
  <1>10. CASE LoadTake \/ LoadMap
    BY <1>10, LoadTakeConserves, LoadMapConserves
  <1>11. CASE LoadTaken \/ LoadMapped \/ LoadDone \/ ReapDone
    BY <1>11, QuietFrames DEF LoadTaken, LoadMapped, LoadDone, ReapDone
  <1>14. ASSUME NEW t \in Threads, ForkRead(t) \/ \E u \in Threads : ForkWrite(t, u) \/ ForkDone(t, u)
         PROVE  Conserves
    <2>1. CASE \E u \in Threads : ForkDone(t, u)
      BY <2>1, QuietFrames DEF ForkDone
    <2>2. QED
      BY <1>14, <2>1, ForkCopyConserves
  <1>15. 1 \in Threads
    BY MemoryAssumption DEF Threads
  <1>12. CASE Halted \/ UNCHANGED vars
    BY <1>12, QuietFrames DEF Halted, vars
  <1>13. QED
    BY <1>1, <1>2, <1>3, <1>4, <1>5, <1>6, <1>7, <1>8, <1>9, <1>10, <1>11, <1>12, <1>14, <1>15
    DEF Next

\* When a load fails, the frames the loader took for the segment and has not
\* mapped yet have no use any more.
LEMMA LoadFailsLoses ==
  ASSUME MemoryInv, MemoryInv', LoadFails, NEW f \in 1..Frames
  PROVE  Places(f)' \in Nat /\ Places(f)' <= Places(f)
  <1>1. taken' = <<>> /\ UNCHANGED <<pmem_stack, directory, table, page, stackVars>>
    BY DEF LoadFails
  <1>2. TakenUses(f)' = 0
    <2>1. {i \in DOMAIN taken' : taken'[i] = f} = {}
      BY <1>1
    <2>2. QED
      BY <2>1, FS_EmptySet DEF TakenUses
  <1>3. /\ DirectoryUses(f)' = DirectoryUses(f) /\ TableUses(f)' = TableUses(f)
        /\ PageUses(f)' = PageUses(f) /\ StackTableUses(f)' = StackTableUses(f)
        /\ StackUses(f)' = StackUses(f) /\ FreeUses(f)' = FreeUses(f)
    BY <1>1, HoldersUntouched
  <1>4. QED
    BY <1>2, <1>3, UsesAdd, UsesAreNumbers

\* Every step keeps every frame in its one place.
LEMMA NextPlacedOnce ==
  ASSUME MemoryInv, MemoryInv', PageInv, FreshHoldsNothing, PlacedOnce, [Next]_vars
  PROVE  PlacedOnce'
  <1>1. LoadMayFail => LoadMayFail'
    BY StateProgress DEF LoadMayFail, LoadsCleanly
  <1> SUFFICES ASSUME NEW f \in 1..Frames
               PROVE  Places(f)' = 1 \/ (Places(f)' = 0 /\ LoadMayFail')
    BY DEF PlacedOnce
  <1>2. Places(f) = 1 \/ (Places(f) = 0 /\ LoadMayFail)
    BY DEF PlacedOnce
  <1>3. CASE ~LoadFails
    <2>1. Places(f)' = Places(f)
      BY <1>3, NextConserves DEF Conserves
    <2>2. QED
      BY <1>1, <1>2, <2>1
  <1>4. CASE LoadFails
    <2>1. Places(f)' \in {0, 1}
      BY <1>2, <1>4, LoadFailsLoses
    <2>2. PICK p \in Pids : p = op.p /\ pstate[p] = "loading" /\ ~LoadsCleanly(p)
      BY <1>4, LoadFailsUnclean
    <2>3. LoadMayFail'
      BY <1>1, <2>2 DEF LoadMayFail
    <2>4. QED
      BY <2>1, <2>3
  <1>5. QED
    BY <1>3, <1>4

\* At boot the kernel's directory is in the first frame and the others are free.
LEMMA InitPlacedOnce == Init => PlacedOnce
  <1> SUFFICES ASSUME Init, NEW f \in 1..Frames
               PROVE  Places(f) = 1
    BY DEF PlacedOnce
  <1>1. Frames \in Nat \ {0} /\ KernelPid \notin Pids
    BY MemoryAssumption
  <1>2. FreeUses(f) = IF f = 1 THEN 0 ELSE 1
    <2>1. /\ DOMAIN pmem_stack = 1..(Frames - 1)
          /\ \A i \in 1..(Frames - 1) : pmem_stack[i] = i + 1
      BY DEF Init
    <2>2. {i \in DOMAIN pmem_stack : pmem_stack[i] = f} = IF f = 1 THEN {} ELSE {f - 1}
      BY <1>1, <2>1
    <2>3. QED
      BY <2>2, FS_EmptySet, FS_Singleton DEF FreeUses
  <1>3. DirectoryUses(f) = IF f = 1 THEN 1 ELSE 0
    <2>1. /\ directory[KernelPid] = 1 /\ \A p \in Pids : directory[p] = 0
          /\ Procs = Pids \cup {KernelPid}
      BY <1>1 DEF Init, Procs, NoFrame
    <2>2. {p \in Procs : directory[p] = f} = IF f = 1 THEN {KernelPid} ELSE {}
      BY <1>1, <2>1
    <2>3. QED
      BY <2>2, FS_EmptySet, FS_Singleton DEF DirectoryUses
  <1>4. /\ TakenUses(f) = 0 /\ TableUses(f) = 0 /\ PageUses(f) = 0
        /\ StackTableUses(f) = 0 /\ StackUses(f) = 0
    <2>1. /\ {i \in DOMAIN taken : taken[i] = f} = {}
          /\ {pk \in Pids \X Tables : table[pk[1]][pk[2]] = f} = {}
          /\ {pv \in Pids \X Vpages : page[pv[1]][pv[2]] = f} = {}
          /\ {pt \in Pids \X Threads : stackpt[pt[1]][pt[2]] = f} = {}
          /\ {ps \in Pids \X StackPages : stack[ps[1]][ps[2]] = f} = {}
      BY DEF Init, NoFrame
    <2>2. QED
      BY <2>1, FS_EmptySet DEF TakenUses, TableUses, PageUses, StackTableUses, StackUses
  <1>5. QED
    BY <1>2, <1>3, <1>4, UsesAdd

\* No step gives anything to a process or a thread that does not exist.
LEMMA FreshStep ==
  ASSUME FreshHoldsNothing,
         \A q \in Pids : pstate'[q] = "none" =>
           pstate[q] = "none" /\ directory'[q] = directory[q] /\ tstate'[q] = tstate[q],
         \A q \in Pids : \A t \in Threads : tstate'[q][t] = "none" =>
           tstate[q][t] = "none" /\ stackpt'[q][t] = stackpt[q][t]
  PROVE  FreshHoldsNothing'
  BY DEF FreshHoldsNothing

\* The end of a process, kept or reaped.
LEMMA EndFresh ==
  ASSUME MemoryInv, FreshHoldsNothing, NEW p \in Pids, Keep(p) \/ StartReap(p)
  PROVE  FreshHoldsNothing'
  <1>1. PICK s \in {"exited", "reaping"} : pstate' = [pstate EXCEPT ![p] = s]
    BY DEF Keep, StartReap
  <1>2. /\ tstate' = [tstate EXCEPT ![p] = Ended(p)] /\ stackpt' = stackpt
        /\ directory' = directory \/ directory' = [directory EXCEPT ![p] = NoFrame]
    BY DEF Keep, StartReap
  <1>3. /\ pstate'[p] # "none"
        /\ \A q \in Pids : q # p => /\ pstate'[q] = pstate[q] /\ directory'[q] = directory[q]
                                    /\ tstate'[q] = tstate[q]
    BY <1>1, <1>2 DEF MemoryInv, TypeOK, StateTypeOK, PoolTypeOK, Procs
  <1>4. \A t \in Threads : tstate'[p][t] = "none" => tstate[p][t] = "none"
    BY <1>2 DEF MemoryInv, TypeOK, StateTypeOK, Ended
  <1>5. QED
    BY <1>2, <1>3, <1>4, FreshStep

\* A step by which one thread, or two, of a process that exists go on.
LEMMA ThreadsFresh ==
  ASSUME MemoryInv, FreshHoldsNothing, NEW p \in Pids, pstate[p] # "none",
         NEW t \in Threads, NEW u \in Threads,
         NEW a \in {"live", "forking", "dead", "collected"}, NEW b \in {"live", "new"},
         \/ tstate' = [tstate EXCEPT ![p][t] = a]
         \/ tstate' = [tstate EXCEPT ![p][t] = a, ![p][u] = b],
         UNCHANGED <<pstate, directory>>,
         \/ UNCHANGED stackpt
         \/ tstate'[p][u] # "none" /\ \E x : stackpt' = [stackpt EXCEPT ![p][u] = x]
  PROVE  FreshHoldsNothing'
  <1>1. \A q \in Pids : q # p => tstate'[q] = tstate[q]
    BY DEF MemoryInv, TypeOK, StateTypeOK
  <1>2. \A w \in Threads : tstate'[p][w] = "none" => tstate[p][w] = "none"
    BY DEF MemoryInv, TypeOK, StateTypeOK
  <1>3. \A q \in Pids : \A w \in Threads : tstate'[q][w] = "none" => stackpt'[q][w] = stackpt[q][w]
    <2>1. CASE UNCHANGED stackpt
      BY <2>1
    <2>2. CASE tstate'[p][u] # "none" /\ \E x : stackpt' = [stackpt EXCEPT ![p][u] = x]
      BY <2>2 DEF MemoryInv, TypeOK, PoolTypeOK
    <2>3. QED
      BY <2>1, <2>2
  <1>4. QED
    BY <1>1, <1>2, <1>3, FreshStep

\* A fork, or the end of a thread.
LEMMA ForkFresh ==
  ASSUME MemoryInv, FreshHoldsNothing, NEW p \in Pids, NEW t \in Threads, NEW u \in Threads,
         \/ ForkStart(p, t, u) \/ ForkDone(t, u) \/ ThreadExit(p, t) \/ ThreadCollect(p, t)
  PROVE  FreshHoldsNothing'
  <1>1. CASE ForkStart(p, t, u)
    <2>1. pstate[p] = "running"
      BY <1>1 DEF ForkStart, InUser
    <2>2. CASE Available = 0
      <3>1. Panic("fork")
        BY <1>1, <2>2 DEF ForkStart
      <3>2. QED
        BY <3>1, FreshStep DEF Panic
    <2>3. CASE Available # 0
      <3>1. /\ tstate' = [tstate EXCEPT ![p][t] = "forking", ![p][u] = "new"]
            /\ stackpt' = [stackpt EXCEPT ![p][u] = Top(1)]
            /\ UNCHANGED <<pstate, directory>>
        BY <1>1, <2>3 DEF ForkStart
      <3>2. tstate'[p][u] = "new"
        BY <3>1 DEF MemoryInv, TypeOK, StateTypeOK
      <3>3. QED
        BY <2>1, <3>1, <3>2, ThreadsFresh
    <2>4. QED
      BY <2>2, <2>3
  <1>2. CASE ForkDone(t, u)
    <2>1. op.p \in Pids /\ pstate[op.p] = "running"
      BY <1>2 DEF ForkDone, Doing, MemoryInv, OpInv
    <2>2. /\ tstate' = [tstate EXCEPT ![op.p][t] = "live", ![op.p][u] = "live"]
          /\ UNCHANGED <<pstate, directory, stackpt>>
      BY <1>2 DEF ForkDone
    <2>3. QED
      BY <2>1, <2>2, ThreadsFresh
  <1>3. CASE ThreadExit(p, t)
    <2>1. /\ pstate[p] = "running" /\ tstate' = [tstate EXCEPT ![p][t] = "dead"]
          /\ UNCHANGED <<pstate, directory, stackpt>>
      BY <1>3 DEF ThreadExit, InUser
    <2>2. QED
      BY <2>1, ThreadsFresh
  <1>4. CASE ThreadCollect(p, t)
    <2>1. /\ tstate[p][t] = "dead" /\ tstate' = [tstate EXCEPT ![p][t] = "collected"]
          /\ UNCHANGED <<pstate, directory, stackpt>>
      BY <1>4 DEF ThreadCollect
    <2>2. pstate[p] # "none"
      BY <2>1 DEF FreshHoldsNothing
    <2>3. QED
      BY <2>1, <2>2, ThreadsFresh
  <1>5. QED
    BY <1>1, <1>2, <1>3, <1>4

\* A process is created, or goes on to its next state.
LEMMA ProgressFresh ==
  ASSUME MemoryInv, FreshHoldsNothing, NEW p \in Pids,
         Exec(p) \/ LoadStart(p) \/ LoadDone \/ ReapDone
  PROVE  FreshHoldsNothing'
  <1>1. CASE Exec(p)
    <2>1. CASE Available < 2
      <3>1. Panic("exec")
        BY <1>1, <2>1 DEF Exec
      <3>2. QED
        BY <3>1, FreshStep DEF Panic
    <2>2. CASE ~ (Available < 2)
      <3>1. /\ pstate' = [pstate EXCEPT ![p] = "starting"]
            /\ directory' = [directory EXCEPT ![p] = Top(1)]
            /\ tstate' = [tstate EXCEPT ![p][1] = "live"]
            /\ stackpt' = [stackpt EXCEPT ![p][1] = Top(2)]
        BY <1>1, <2>2 DEF Exec
      <3>2. /\ pstate'[p] = "starting" /\ 1 \in Threads
            /\ \A q \in Pids : q # p => pstate'[q] = pstate[q] /\ directory'[q] = directory[q]
        BY <3>1, MemoryAssumption DEF MemoryInv, TypeOK, StateTypeOK, PoolTypeOK, Procs, Threads
      <3>3. \A q \in Pids : q # p => tstate'[q] = tstate[q] /\ stackpt'[q] = stackpt[q]
        BY <3>1 DEF MemoryInv, TypeOK, StateTypeOK, PoolTypeOK
      <3>4. \A w \in Threads : tstate'[p][w] = "none" =>
              tstate[p][w] = "none" /\ stackpt'[p][w] = stackpt[p][w]
        BY <3>1, <3>2 DEF MemoryInv, TypeOK, StateTypeOK, PoolTypeOK
      <3>5. QED
        BY <3>2, <3>3, <3>4, FreshStep
    <2>3. QED
      BY <2>1, <2>2
  <1>2. CASE LoadStart(p) \/ LoadDone \/ ReapDone
    <2>1. /\ UNCHANGED <<directory, tstate, stackpt>>
          /\ \E q, s : s # "none" /\ pstate' = [pstate EXCEPT ![q] = s]
      BY <1>2 DEF LoadStart, LoadDone, ReapDone
    <2>2. \A q \in Pids : pstate'[q] = "none" => pstate[q] = "none"
      BY <2>1 DEF MemoryInv, TypeOK, StateTypeOK, Procs
    <2>3. QED
      BY <2>1, <2>2, FreshStep
  <1>3. QED
    BY <1>1, <1>2

\* Every step.
LEMMA NextFresh ==
  ASSUME MemoryInv, FreshHoldsNothing, [Next]_vars
  PROVE  FreshHoldsNothing'
  <1>1. CASE UNCHANGED <<pstate, directory, tstate, stackpt>>
    BY <1>1, FreshStep
  <1>2. ASSUME NEW p \in Pids, Exec(p) \/ LoadStart(p)
        PROVE  FreshHoldsNothing'
    BY <1>2, ProgressFresh
  <1>3. CASE LoadDone \/ ReapDone
    <2>1. op.p \in Pids
      BY <1>3 DEF LoadDone, ReapDone, Doing, MemoryInv, OpInv
    <2>2. QED
      BY <1>3, <2>1, ProgressFresh
  <1>4. ASSUME NEW p \in Pids, NEW t \in Threads, NEW u \in Threads,
               ForkStart(p, t, u) \/ ThreadExit(p, t) \/ ThreadCollect(p, t)
        PROVE  FreshHoldsNothing'
    BY <1>4, ForkFresh
  <1>5. ASSUME NEW t \in Threads, NEW u \in Threads, ForkDone(t, u)
        PROVE  FreshHoldsNothing'
    <2>1. op.p \in Pids
      BY <1>5 DEF ForkDone, Doing, MemoryInv, OpInv
    <2>2. QED
      BY <1>5, <2>1, ForkFresh
  <1>6. ASSUME NEW p \in Pids, NEW q \in Pids, NEW waited \in BOOLEAN, NEW w \in Procs,
               Exit(p, waited) \/ Kill(p, q, waited) \/ Collect(p, w)
        PROVE  FreshHoldsNothing'
    <2>1. \E r \in Pids : Keep(r) \/ StartReap(r)
      BY <1>6 DEF Exit, Kill, Collect
    <2>2. QED
      BY <2>1, EndFresh
  <1>7. ASSUME NEW p \in Pids, NEW want \in 1..(UserTop + PageSize),
               BrkSamePages(p, want) \/ BrkStart(p, want)
        PROVE  UNCHANGED <<pstate, directory, tstate, stackpt>>
    BY <1>7 DEF BrkSamePages, BrkStart
  <1>8. ASSUME NEW p \in Procs, NEW q \in Pids, NEW t \in Threads,
               \/ Resume(p) \/ StackFault(q, t) \/ ForkRead(t) \/ \E u \in Threads : ForkWrite(t, u)
        PROVE  UNCHANGED <<pstate, directory, tstate, stackpt>>
    BY <1>8 DEF Resume, StackFault, ForkRead, ForkWrite, FaultIn, Panic
  <1>9. CASE \/ GrowPage \/ GrowGivesUp \/ GrowDone \/ RollbackPage \/ RollbackDone
             \/ ShrinkPage \/ ShrinkDone \/ RegionPage
    <2>1. UNCHANGED <<pstate, directory, tstate, stackpt>>
      BY <1>9 DEF GrowPage, GrowGivesUp, GrowDone, RollbackPage, RollbackDone, ShrinkPage, ShrinkDone,
                  RegionPage, Panic
    <2>2. QED
      BY <1>1, <2>1
  <1>10. CASE LoadTake \/ LoadTaken \/ LoadMap \/ LoadFails \/ LoadMapped \/ Halted \/ UNCHANGED vars
    <2>1. UNCHANGED <<pstate, directory, tstate, stackpt>>
      BY <1>10 DEF LoadTake, LoadTaken, LoadMap, LoadFails, LoadMapped, Halted, Panic, vars
    <2>2. QED
      BY <1>1, <2>1
  <1>11. 1 \in Threads /\ KernelPid \in Procs
    BY MemoryAssumption DEF Threads, Procs
  <1>12. CASE \E p \in Pids, t \in Threads, u \in Threads :
                Exec(p) \/ LoadStart(p) \/ ForkStart(p, t, u) \/ ThreadExit(p, t) \/ ThreadCollect(p, t)
    BY <1>2, <1>4, <1>12
  <1>13. CASE \E p \in Pids, q \in Pids, waited \in BOOLEAN, w \in Procs :
                Exit(p, waited) \/ Kill(p, q, waited) \/ Collect(p, w)
    BY <1>6, <1>13
  <1>14. CASE \E t \in Threads : ForkRead(t) \/ \E u \in Threads : ForkWrite(t, u) \/ ForkDone(t, u)
    <2>1. CASE Pids = {}
      BY <1>14, <2>1 DEF ForkRead, ForkWrite, ForkDone, Doing, MemoryInv, OpInv
    <2>2. QED
      BY <1>1, <1>5, <1>8, <1>11, <1>14, <2>1
  <1>15. CASE \E p \in Procs : Resume(p)
    BY <1>1, <1>15 DEF Resume
  <1>16. CASE \E p \in Pids, t \in Threads, want \in 1..(UserTop + PageSize) :
                BrkSamePages(p, want) \/ BrkStart(p, want)
    BY <1>1, <1>7, <1>16
  <1>17. CASE \E p \in Pids, t \in Threads : StackFault(p, t)
    BY <1>1, <1>8, <1>11, <1>17
  <1>18. QED
    BY <1>3, <1>9, <1>10, <1>11, <1>12, <1>13, <1>14, <1>15, <1>16, <1>17 DEF Next

-----------------------------------------------------------------------------
(* What is lost.                                                            *)

\* A part of a finite set.
LEMMA CountPart ==
  ASSUME NEW G, NEW H \in SUBSET G, IsFiniteSet(G)
  PROVE  /\ Cardinality(G) \in Nat /\ Cardinality(H) \in Nat /\ Cardinality(H) <= Cardinality(G)
         /\ H # G => Cardinality(H) < Cardinality(G)
  <1>1. /\ IsFiniteSet(H) /\ Cardinality(H) <= Cardinality(G)
        /\ Cardinality(H) = Cardinality(G) => H = G
    BY FS_Subset
  <1>2. QED
    BY <1>1, FS_CardinalityType

\* A use is a place, a place left behind is no use, and if there is none of these and
\* no page left over the places are the uses.
LEMMA UsesOfPlaces ==
  ASSUME MemoryInv, NEW f
  PROVE  /\ FrameUses(f) \in Nat /\ FrameUses(f) <= Places(f)
         /\ LeftBehind(f) => FrameUses(f) < Places(f)
         /\ ~LeftBehind(f) /\ (\A p \in Pids \ Known : \A v \in Vpages : page[p][v] # f)
              => FrameUses(f) = Places(f)
  <1> DEFINE A == {pk \in Pids \X Tables : table[pk[1]][pk[2]] = f}
             a == {pk \in Known \X Tables : table[pk[1]][pk[2]] = f}
             B == {pv \in Pids \X Vpages : page[pv[1]][pv[2]] = f}
             b == {pv \in Known \X Vpages : page[pv[1]][pv[2]] = f}
             C == {pt \in Pids \X Threads : stackpt[pt[1]][pt[2]] = f}
             c == {pt \in Pids \X Threads : Exists(pt[1], pt[2]) /\ stackpt[pt[1]][pt[2]] = f}
             D == {ps \in Pids \X StackPages : stack[ps[1]][ps[2]] = f}
             d == {ps \in Pids \X StackPages : Exists(ps[1], ps[2][1]) /\ stack[ps[1]][ps[2]] = f}
             rest == FreeUses(f) + TakenUses(f) + DirectoryUses(f)
  <1>1. /\ Places(f) = rest + Cardinality(A) + Cardinality(B) + Cardinality(C) + Cardinality(D)
        /\ FrameUses(f) = rest + Cardinality(a) + Cardinality(b) + Cardinality(c) + Cardinality(d)
    BY DEF Places, FrameUses, FreeUses, TakenUses, DirectoryUses, TableUses, PageUses, StackTableUses,
           StackUses
  <1>2. rest \in Nat
    BY UsesAreNumbers
  <1>3. /\ a \in SUBSET A /\ b \in SUBSET B
        /\ c \in SUBSET C /\ d \in SUBSET D
    BY DEF Known
  <1>4. IsFiniteSet(A) /\ IsFiniteSet(B) /\ IsFiniteSet(C) /\ IsFiniteSet(D)
    BY HoldersFinite, FS_Subset
  <1>5. LeftBehind(f) => a # A \/ c # C \/ d # D
    <2> SUFFICES ASSUME LeftBehind(f)
                 PROVE  a # A \/ c # C \/ d # D
      OBVIOUS
    <2>1. PICK p \in Pids :
            \/ p \notin Known /\ \E k \in Tables : table[p][k] = f
            \/ \E t \in Threads : ~Exists(p, t) /\ stackpt[p][t] = f
            \/ \E s \in StackPages : ~Exists(p, s[1]) /\ stack[p][s] = f
      BY DEF LeftBehind
    <2>2. ASSUME p \notin Known, NEW k \in Tables, table[p][k] = f
          PROVE  <<p, k>> \in A /\ <<p, k>> \notin a
      BY <2>2
    <2>3. ASSUME NEW t \in Threads, ~Exists(p, t), stackpt[p][t] = f
          PROVE  <<p, t>> \in C /\ <<p, t>> \notin c
      BY <2>3
    <2>4. ASSUME NEW s \in StackPages, ~Exists(p, s[1]), stack[p][s] = f
          PROVE  <<p, s>> \in D /\ <<p, s>> \notin d
      BY <2>4
    <2> HIDE DEF A, a, C, c, D, d
    <2>5. QED
      BY <2>1, <2>2, <2>3, <2>4
  <1>6. ~LeftBehind(f) => a = A /\ c = C /\ d = D
    <2> SUFFICES ASSUME ~LeftBehind(f)
                 PROVE  a = A /\ c = C /\ d = D
      OBVIOUS
    <2>1. a = A
      BY DEF LeftBehind, Known
    <2>2. c = C
      BY DEF LeftBehind
    <2>3. ASSUME NEW ps \in D
          PROVE  Exists(ps[1], ps[2][1])
      BY DEF LeftBehind
    <2>4. d = D
      BY <2>3
    <2>5. QED
      BY <2>1, <2>2, <2>4
  <1>7. (\A p \in Pids \ Known : \A v \in Vpages : page[p][v] # f) => b = B
    BY DEF Known
  <1> HIDE DEF A, a, B, b, C, c, D, d, rest
  <1>8. /\ Cardinality(A) \in Nat /\ Cardinality(a) \in Nat /\ Cardinality(a) <= Cardinality(A)
        /\ a # A => Cardinality(a) < Cardinality(A)
    BY <1>3, <1>4, CountPart
  <1>9. /\ Cardinality(B) \in Nat /\ Cardinality(b) \in Nat /\ Cardinality(b) <= Cardinality(B)
    BY <1>3, <1>4, CountPart
  <1>10. /\ Cardinality(C) \in Nat /\ Cardinality(c) \in Nat /\ Cardinality(c) <= Cardinality(C)
         /\ c # C => Cardinality(c) < Cardinality(C)
    BY <1>3, <1>4, CountPart
  <1>11. /\ Cardinality(D) \in Nat /\ Cardinality(d) \in Nat /\ Cardinality(d) <= Cardinality(D)
         /\ d # D => Cardinality(d) < Cardinality(D)
    BY <1>3, <1>4, CountPart
  <1>12. FrameUses(f) \in Nat /\ FrameUses(f) <= Places(f)
    BY <1>1, <1>2, <1>8, <1>9, <1>10, <1>11
  <1>13. LeftBehind(f) => FrameUses(f) < Places(f)
    BY <1>1, <1>2, <1>5, <1>8, <1>9, <1>10, <1>11
  <1>14. ~LeftBehind(f) /\ (\A p \in Pids \ Known : \A v \in Vpages : page[p][v] # f)
           => FrameUses(f) = Places(f)
    BY <1>1, <1>6, <1>7
  <1>15. QED
    BY <1>12, <1>13, <1>14

\* The place of a frame is a use unless it is left behind, or a load may have failed.
LEMMA PlacesAreUses ==
  ASSUME MemoryInv, PageInv, PlacedOnce
  PROVE  FramesOwnedOnce
  <1> SUFFICES ASSUME NEW f \in 1..Frames
               PROVE  \/ FrameUses(f) = 1 /\ ~LeftBehind(f)
                      \/ FrameUses(f) = 0 /\ (LeftBehind(f) \/ LoadMayFail)
    BY DEF FramesOwnedOnce
  <1>1. Places(f) = 1 \/ (Places(f) = 0 /\ LoadMayFail)
    BY DEF PlacedOnce
  <1>2. FrameUses(f) \in Nat /\ FrameUses(f) <= Places(f) /\ (LeftBehind(f) => FrameUses(f) < Places(f))
    BY UsesOfPlaces
  <1>3. CASE LeftBehind(f)
    BY <1>1, <1>2, <1>3
  <1>4. CASE LoadMayFail
    BY <1>1, <1>2, <1>4
  <1>5. CASE ~LeftBehind(f) /\ ~LoadMayFail
    <2>1. \A p \in Pids \ Known : MappedPages(p) = {}
      BY <1>5 DEF Known, LoadMayFail, PageInv, PagesOK, Gone
    <2>2. \A p \in Pids \ Known : \A v \in Vpages : page[p][v] # f
      BY <2>1 DEF MappedPages, NoFrame
    <2>3. FrameUses(f) = Places(f)
      BY <1>5, <2>2, UsesOfPlaces
    <2>4. QED
      BY <1>1, <1>5, <2>3
  <1>6. QED
    BY <1>3, <1>4, <1>5

\* Every page frame is free or has one use, for any number of frames, processes, threads
\* and page tables, or is lost: what pmm_alloc_page hands out is nowhere mapped, and
\* nothing sched_free_all, sched_setbrk_true and its rollback give back was given back
\* before.  Lost are the page tables of every process that is gone, the stack of every
\* thread whose structure was freed (sched.c:672), what a load that fails has taken, and
\* nothing else.
THEOREM OwnedOnce == Spec => []FramesOwnedOnce
  <1>1. Init => FreshHoldsNothing
    BY MemoryAssumption DEF Init, FreshHoldsNothing, Procs
  <1>2. MemoryInv /\ FreshHoldsNothing /\ [Next]_vars => FreshHoldsNothing'
    BY NextFresh
  <1>3. Init => PlacedOnce
    BY InitPlacedOnce
  <1>4. MemoryInv /\ MemoryInv' /\ PageInv /\ FreshHoldsNothing /\ PlacedOnce /\ [Next]_vars => PlacedOnce'
    BY NextPlacedOnce
  <1>5. MemoryInv /\ PageInv /\ PlacedOnce => FramesOwnedOnce
    BY PlacesAreUses
  <1>6. QED
    BY <1>1, <1>2, <1>3, <1>4, <1>5, MemoryInvariant, PageInvariant, PTL DEF Spec

=============================================================================
