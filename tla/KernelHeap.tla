----------------------------- MODULE KernelHeap -----------------------------
(***************************************************************************)
(* The heap of the kernel: kmalloc, kfree and krealloc over the pages of   *)
(* kernel/kernel/mem/liballoc-vmm.c.  liballoc_lock disables interrupts    *)
(* where they are enabled, so each call is one step.  Callers free only    *)
(* what they were given; a kfree of anything else finds no magic number    *)
(* and changes nothing but a counter of errors.                            *)
(***************************************************************************)
EXTENDS Heap

CONSTANTS Requests,   \* the sizes that are asked for
          Frames,     \* pages that can be used, bound of the pool
          KernelEnd   \* 0xFFC00000, in pages

ASSUME KernelHeapAssumption ==
  /\ Requests \subseteq Nat \ {0}
  /\ Frames \in Nat /\ KernelEnd \in Nat \ {0}

VARIABLES
  majors,     \* the list of majors
  bestBet,    \* l_bestBet: the address of a major
  frames,     \* pages in the pool
  brk,        \* end_mapped_kmemory, in pages
  inuse,      \* l_inuse
  allocated,  \* l_allocated
  panicked

vars == <<majors, bestBet, frames, brk, inuse, allocated, panicked>>

FirstPage == 1   \* the kernel's image lies below

Init ==
  /\ majors = <<>>
  /\ bestBet = NoMajor
  /\ frames = Frames
  /\ brk = FirstPage
  /\ inuse = 0
  /\ allocated = 0
  /\ panicked = FALSE

\* liballoc_alloc: frames from the pool, mapped at the end of the kernel's
\* memory.  Addresses are never used again.
TakePages(n) ==
  /\ frames' = frames - n
  /\ brk' = brk + n

\* pmm_alloc_page finds the pool empty, or vmm_map_pages_k reaches the page
\* directory.
CannotTake(n) == frames < n \/ brk + n >= KernelEnd

Panic ==
  /\ panicked' = TRUE
  /\ UNCHANGED <<majors, bestBet, frames, brk, inuse, allocated>>

\* kmalloc(req).
Kmalloc(req) ==
  LET size == SizeFor(req)
      n == PagesFor(size)
  IN  IF TakenAt(majors, bestBet, size) # 0
        THEN /\ majors' = Found(majors, bestBet, req).majors
             /\ bestBet' = Found(majors, bestBet, req).best
             /\ inuse' = inuse + size
             /\ UNCHANGED <<frames, brk, allocated, panicked>>
        ELSE IF CannotTake(n) THEN Panic
        ELSE /\ TakePages(n)
             /\ majors' = Grown(majors, bestBet, req, brk * PageSize).majors
             /\ bestBet' = Grown(majors, bestBet, req, brk * PageSize).best
             /\ inuse' = inuse + size
             /\ allocated' = allocated + n * PageSize
             /\ UNCHANGED panicked

\* Faulty variant: l_bestBet keeps its value.
GiveBackKeepingBest(i) ==
  /\ majors' = RemoveAt(majors, i)
  /\ UNCHANGED bestBet
  /\ frames' = frames + majors[i].pages
  /\ allocated' = allocated - majors[i].pages * PageSize

\* liballoc_free of a major that has become empty.
GiveBack(i) ==
  /\ majors' = RemoveAt(majors, i)
  /\ bestBet' = IF bestBet = majors[i].base THEN NoMajor ELSE bestBet
  /\ frames' = frames + majors[i].pages
  /\ allocated' = allocated - majors[i].pages * PageSize

\* kfree(p) of a pointer that kmalloc returned.
Kfree(p) ==
  LET i == MajorOf(majors, p)
      k == MinorOf(majors[i], p)
      left == [majors EXCEPT ![i] = Unlinked(@, k)]
  IN  /\ inuse' = inuse - majors[i].minors[k].size
      /\ IF left[i].minors = <<>>
           THEN GiveBack(i)
           ELSE /\ majors' = left
                /\ bestBet' = BestAfterFree(left, bestBet, i)
                /\ UNCHANGED <<frames, allocated>>
      /\ UNCHANGED <<brk, panicked>>

\* krealloc(p, req), req > 0: a block that was asked for with as many bytes
\* stays; otherwise kmalloc, a copy of the bytes, and kfree.
KreallocInPlace(p, req) ==
  LET i == MajorOf(majors, p)
      k == MinorOf(majors[i], p)
  IN  /\ majors[i].minors[k].req >= req
      /\ majors' = [majors EXCEPT ![i].minors[k].req = req]
      /\ UNCHANGED <<bestBet, frames, brk, inuse, allocated, panicked>>

KreallocMoves(p, req) ==
  LET i == MajorOf(majors, p)
      k == MinorOf(majors[i], p)
      size == SizeFor(req)
      n == PagesFor(size)
      found == TakenAt(majors, bestBet, size) # 0
      new == IF found THEN Found(majors, bestBet, req) ELSE Grown(majors, bestBet, req, brk * PageSize)
      left == [new.majors EXCEPT ![i] = Unlinked(@, MinorOf(@, p))]
      empty == left[i].minors = <<>>
      grown == IF found THEN 0 ELSE n
      back == IF empty THEN left[i].pages ELSE 0
  IN  /\ majors[i].minors[k].req < req
      /\ IF ~found /\ CannotTake(n) THEN Panic
         ELSE /\ majors' = IF empty THEN RemoveAt(left, i) ELSE left
              /\ bestBet' = IF empty THEN IF new.best = left[i].base THEN NoMajor ELSE new.best
                            ELSE BestAfterFree(left, new.best, i)
              /\ frames' = (frames - grown) + back
              /\ brk' = brk + grown
              /\ inuse' = inuse + size - majors[i].minors[k].size
              /\ allocated' = allocated + (grown - back) * PageSize
              /\ UNCHANGED panicked

Next ==
  /\ ~panicked
  /\ \/ \E req \in Requests : Kmalloc(req)
     \/ \E p \in Pointers(majors) : Kfree(p)
     \/ \E p \in Pointers(majors), req \in Requests : KreallocInPlace(p, req)
     \/ \E p \in Pointers(majors), req \in Requests : KreallocMoves(p, req)

Spec == Init /\ [][Next]_vars

-----------------------------------------------------------------------------

\* Type correctness.
TypeOK ==
  /\ \A i \in DOMAIN majors :
       /\ majors[i].base \in Nat \ {0} /\ majors[i].pages \in Nat \ {0} /\ majors[i].usage \in Nat
       /\ \A k \in DOMAIN majors[i].minors :
            majors[i].minors[k] \in [at : Nat, size : Nat, req : Nat]
  /\ bestBet \in Nat
  /\ frames \in 0..Frames /\ brk \in FirstPage..KernelEnd
  /\ inuse \in Nat /\ allocated \in Nat /\ panicked \in BOOLEAN

\* The counters agree with the lists: usage of a major (malloc passes by a major
\* whose usage is too high, and overruns one whose usage is too low and that is
\* empty), l_inuse, l_allocated, and the pool together with the majors holds every
\* page.
CountersExact ==
  /\ \A i \in DOMAIN majors : UsageSound(majors[i]) /\ majors[i].minors # <<>>
  /\ inuse = Cardinality(DataUnits(majors))
  /\ allocated = Cardinality(PageUnits(majors))
  /\ frames * PageSize + allocated = Frames * PageSize

\* After any sequence of calls, blocks handed out never overlap each other or the
\* heads the allocator keeps between them, each leaves its caller one byte more
\* than was asked for (iso9660.c:66-68 writes it), l_bestBet never names a major
\* that was given back (malloc dereferences it before it looks at any other), and
\* the counters are exact.
HeapSound ==
  /\ TypeOK
  /\ \A i \in DOMAIN majors : MajorSound(majors[i])
  /\ MajorsDisjoint(majors)
  /\ bestBet # NoMajor => \E i \in DOMAIN majors : majors[i].base = bestBet
  /\ CountersExact

\* The search that starts at l_bestBet misses nothing: a call takes pages, or
\* panics for want of them, only when no gap of any major fits the request.
GrowsOnlyWhenFull ==
  [][\A req \in Requests :
       Kmalloc(req) /\ (brk' # brk \/ panicked') => ~SomeGap(majors, SizeFor(req))]_vars

=============================================================================
