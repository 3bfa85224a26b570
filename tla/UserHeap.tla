------------------------------ MODULE UserHeap ------------------------------
(***************************************************************************)
(* malloc, free and realloc of libc/malloc/liballoc.c in a process whose   *)
(* threads share one heap: the linked lists as the code keeps them, pages  *)
(* from sbrk, and liballoc_lock, whose refusal no caller looks at.  A      *)
(* thread may be preempted between its search and its writes, between the  *)
(* two system calls of sbrk and between the parts of a realloc.            *)
(***************************************************************************)
EXTENDS Heap, Functions

CONSTANTS Threads,    \* the threads of the process
          Requests,   \* the sizes that are asked for
          BrkLimit    \* where the break can go no further

\* malloc(0) is refused, realloc to 0 is a free.
ASSUME UserHeapAssumption == Requests \subseteq Nat \ {0} /\ BrkLimit \in Nat

VARIABLES
  major,     \* the majors by address: next, pages, usage, first
  minor,     \* the minors with magic by address: next, prev, block, size, req
  memRoot,   \* l_memRoot
  bestBet,   \* l_bestBet
  brk,       \* the break of the process
  lock,      \* lock of liballoc-sys.c
  job,       \* what each thread is doing in the allocator
  owned,     \* the blocks each thread got and has not freed
  refused,   \* liballoc_lock has returned -1
  faulted    \* realloc has copied to NULL

vars == <<major, minor, memRoot, bestBet, brk, lock, job, owned, refused, faulted>>

Idle == [step |-> "idle"]
FirstBreak == PageSize   \* the program's image lies below
Nowhere == 0             \* NULL

Init ==
  /\ major = <<>>
  /\ minor = <<>>
  /\ memRoot = NoMajor
  /\ bestBet = NoMajor
  /\ brk = FirstBreak
  /\ lock = FALSE
  /\ job = [t \in Threads |-> Idle]
  /\ owned = [t \in Threads |-> {}]
  /\ refused = FALSE
  /\ faulted = FALSE

-----------------------------------------------------------------------------
(* The lists as the loops of the code see them.                             *)

\* Memory with a cell written at an address.
With(cells, a, cell) == [x \in DOMAIN cells \cup {a} |-> IF x = a THEN cell ELSE cells[x]]

\* The cell behind one.  What a freed minor says is not kept: only calls that
\* overlap can come to read it.
NextOf(cells, a) == IF a \in DOMAIN cells THEN cells[a].next ELSE Nowhere

\* The cells of a list.
Walk(cells, first) ==
  LET at[i \in 1..Cardinality(DOMAIN cells)] ==
        IF i = 1 THEN first ELSE NextOf(cells, at[i - 1])
      found == {i \in DOMAIN at : at[i] \in DOMAIN cells}
  IN  [i \in 1..Cardinality(found) |-> at[i]]

MinorsOf(b) == Walk(minor, major[b].first)

Majors ==
  LET bases == Walk(major, memRoot)
      View(b) == [base |-> b, pages |-> major[b].pages, usage |-> major[b].usage,
                  minors |-> LET ats == MinorsOf(b)
                             IN  [k \in DOMAIN ats |->
                                    MinorAt(ats[k], minor[ats[k]].size, minor[ats[k]].req)]]
  IN  [i \in DOMAIN bases |-> View(bases[i])]

\* liballoc_lock takes the lock or returns -1; its callers go on either way.
Lock == /\ lock' = TRUE
        /\ refused' = (refused \/ lock)

\* A call that takes the lock and releases it in one step.
LockAndUnlock == /\ lock' = FALSE
                 /\ refused' = (refused \/ lock)

-----------------------------------------------------------------------------
(* malloc.                                                                  *)

\* The search of malloc, for a block that replaces "copy" if that is not NULL:
\* where the new minor goes, or behind which major new pages are needed.
Search(t, req, copy) ==
  LET size == SizeFor(req)
      ms == Majors
      j == TakenAt(ms, bestBet, size)
      visits == Visits(ms, bestBet, size)
  IN  /\ Lock
      /\ IF j # 0
           THEN LET m == ms[visits[j]]
                    k == GapIn(m, size)
                IN  /\ bestBet' = BestAfter(ms, bestBet, SubSeq(visits, 1, j))
                    /\ job' = [job EXCEPT ![t] =
                         [step |-> "place", req |-> req, copy |-> copy, block |-> m.base,
                          at |-> GapStart(m, k), last |-> k = Len(m.minors),
                          after |-> IF k = 0 THEN Nowhere ELSE m.minors[k].at]]
           ELSE /\ bestBet' = IF ms = <<>> THEN bestBet ELSE BestAfter(ms, bestBet, visits)
                /\ job' = [job EXCEPT ![t] =
                     [step |-> "grow", req |-> req, copy |-> copy,
                      behind |-> IF ms = <<>> THEN NoMajor ELSE Last(ms).base,
                      compare |-> ms = <<>> \/ Unused(Last(ms)) >= size + MinorSize]]
      /\ UNCHANGED <<major, minor, memRoot, brk, owned, faulted>>

\* malloc(req).
Malloc(t, req) == job[t] = Idle /\ Search(t, req, Nowhere)

\* sbrk asks the kernel where the break is ...
ReadBreak(t) ==
  /\ job[t].step = "grow"
  /\ job' = [job EXCEPT ![t] = [step |-> "setbrk", base |-> brk, req |-> @.req, copy |-> @.copy,
                                behind |-> @.behind, compare |-> @.compare]]
  /\ UNCHANGED <<major, minor, memRoot, bestBet, brk, lock, owned, refused, faulted>>

\* ... and sets it.  The kernel answers with the break it has: an answer that
\* is not the old break counts as success.
SetBreak(t) ==
  LET j == job[t]
      size == SizeFor(j.req)
      wanted == j.base + PagesFor(size) * PageSize
      answer == IF wanted <= BrkLimit THEN wanted ELSE brk
      fresh == [next |-> NoMajor, pages |-> PagesFor(size), usage |-> MajorSize, first |-> Nowhere]
      linked == IF j.behind = NoMajor THEN major
                ELSE [major EXCEPT ![j.behind].next = j.base]
      best == IF bestBet = NoMajor THEN 0
              ELSE major[bestBet].pages * PageSize - major[bestBet].usage
  IN  /\ j.step = "setbrk"
      /\ brk' = answer
      /\ IF answer # j.base
           THEN /\ major' = With(linked, j.base, fresh)
                /\ memRoot' = IF j.behind = NoMajor THEN j.base ELSE memRoot
                /\ bestBet' = IF j.compare /\ fresh.pages * PageSize - MajorSize > best
                                THEN j.base ELSE bestBet
                /\ job' = [job EXCEPT ![t] =
                     [step |-> "place", req |-> j.req, copy |-> j.copy, block |-> j.base,
                      at |-> j.base + MajorSize, last |-> TRUE, after |-> Nowhere]]
                /\ UNCHANGED <<lock, faulted>>
           ELSE \* malloc unlocks and returns NULL; realloc copies to it.
                /\ lock' = FALSE
                /\ job' = [job EXCEPT ![t] = Idle]
                /\ faulted' = (j.copy # Nowhere)
                /\ UNCHANGED <<major, memRoot, bestBet>>
      /\ UNCHANGED <<minor, owned, refused>>

\* Faulty variant: the minor that follows keeps its old prev.
LinkedForward(at, new) ==
  LET behind == IF new.prev = Nowhere THEN minor ELSE [minor EXCEPT ![new.prev].next = at]
  IN  With(behind, at, new)

\* A new minor and its two neighbours.
Linked(at, new) ==
  LET behind == IF new.prev = Nowhere THEN minor ELSE [minor EXCEPT ![new.prev].next = at]
      around == IF new.next = Nowhere THEN behind ELSE [behind EXCEPT ![new.next].prev = at]
  IN  With(around, at, new)

\* Cases 2 to 4: the minor is written where the search found room, linked to
\* the neighbours it has by now, and the lock is released.
Place(t) ==
  LET j == job[t]
      b == j.block
      size == SizeFor(j.req)
      next == IF j.last THEN Nowhere
              ELSE IF j.after = Nowhere THEN major[b].first ELSE NextOf(minor, j.after)
      new == [next |-> next, prev |-> j.after, block |-> b, size |-> size, req |-> j.req]
  IN  /\ j.step = "place"
      /\ minor' = Linked(j.at, new)
      /\ major' = [major EXCEPT ![b].usage = @ + size + MinorSize,
                                ![b].first = IF j.after = Nowhere THEN j.at ELSE @]
      /\ owned' = [owned EXCEPT ![t] = @ \cup {[p |-> PointerOf(j.at), n |-> j.req]}]
      /\ lock' = FALSE
      /\ job' = [job EXCEPT ![t] = IF j.copy = Nowhere THEN Idle
                                   ELSE [step |-> "free", p |-> j.copy]]
      /\ UNCHANGED <<memRoot, bestBet, brk, refused, faulted>>

-----------------------------------------------------------------------------
(* free and realloc.                                                        *)

\* UNALIGN; a pointer that was freed already finds no magic number.
Live(p) == \E at \in DOMAIN minor : PointerOf(at) = p
MinorFor(p) == CHOOSE at \in DOMAIN minor : PointerOf(at) = p

\* The lists without a minor.
Unlink(at) ==
  LET x == minor[at]
      behind == IF x.next = Nowhere THEN minor ELSE [minor EXCEPT ![x.next].prev = x.prev]
      around == IF x.prev = Nowhere THEN behind ELSE [behind EXCEPT ![x.prev].next = x.next]
  IN  Restrict(around, DOMAIN minor \ {at})

\* A major that becomes empty stays in the list.
Release(t, p) ==
  LET at == MinorFor(p)
      x == minor[at]
      b == x.block
      Room(m) == m.pages * PageSize - m.usage
      freed == [major EXCEPT ![b].usage = @ - (x.size + MinorSize),
                             ![b].first = IF x.prev = Nowhere THEN x.next ELSE @]
  IN  /\ LockAndUnlock
      /\ IF Live(p)
           THEN /\ minor' = Unlink(at)
                /\ major' = freed
                /\ bestBet' = IF /\ freed[b].first # Nowhere /\ bestBet # NoMajor
                                 /\ Room(freed[b]) > Room(freed[bestBet])
                                THEN b ELSE bestBet
           ELSE UNCHANGED <<minor, major, bestBet>>
      /\ owned' = [owned EXCEPT ![t] = {o \in @ : o.p # p}]
      /\ job' = [job EXCEPT ![t] = Idle]
      /\ UNCHANGED <<memRoot, brk, faulted>>

\* free(p).
Free(t, p) == job[t] = Idle /\ Release(t, p)

\* realloc(p, req): the block stays if it was asked for with as many bytes.
ReallocInPlace(t, p, req) ==
  LET at == MinorFor(p)
  IN  /\ job[t] = Idle
      /\ Live(p) /\ minor[at].req >= req
      /\ LockAndUnlock
      /\ minor' = [minor EXCEPT ![at].req = req]
      /\ owned' = [owned EXCEPT ![t] = {o \in @ : o.p # p} \cup {[p |-> p, n |-> req]}]
      /\ UNCHANGED <<major, memRoot, bestBet, brk, job, faulted>>

\* Otherwise it looks at the block under the lock, releases it, and calls
\* malloc; the copy and free(p) follow.
ReallocMoves(t, p, req) ==
  LET at == MinorFor(p)
  IN  /\ job[t] = Idle
      /\ Live(p) /\ minor[at].req < req
      /\ Search(t, req, p)

FreeOld(t) == job[t].step = "free" /\ Release(t, job[t].p)

Next ==
  /\ ~faulted
  /\ \E t \in Threads :
       \/ \E req \in Requests : Malloc(t, req)
       \/ ReadBreak(t)
       \/ SetBreak(t)
       \/ Place(t)
       \/ \E o \in owned[t] : Free(t, o.p)
       \/ \E o \in owned[t], req \in Requests : ReallocInPlace(t, o.p, req)
       \/ \E o \in owned[t], req \in Requests : ReallocMoves(t, o.p, req)
       \/ FreeOld(t)

Spec == Init /\ [][Next]_vars

-----------------------------------------------------------------------------

AllOwned == UNION {owned[t] : t \in Threads}

\* Type correctness.
TypeOK ==
  /\ \A b \in DOMAIN major :
       major[b] \in [next : Nat, pages : Nat \ {0}, usage : Nat, first : Nat]
  /\ \A a \in DOMAIN minor :
       minor[a] \in [next : Nat, prev : Nat, block : DOMAIN major, size : Nat, req : Nat]
  /\ memRoot \in Nat /\ bestBet \in Nat /\ brk \in Nat
  /\ lock \in BOOLEAN /\ refused \in BOOLEAN /\ faulted \in BOOLEAN

\* The pointers agree whenever no call is under way and none ever overlapped
\* another: prev is the inverse of next, the lists of the majors hold exactly
\* the minors that were not freed, in order and apart, each names its major, and
\* usage counts them.
ListsCoherent ==
  /\ TypeOK
  /\ ~refused /\ (\A t \in Threads : job[t] = Idle) =>
       /\ \A i \in DOMAIN Majors : MajorSound(Majors[i]) /\ UsageSound(Majors[i])
       /\ MajorsDisjoint(Majors)
       /\ DOMAIN minor = UNION {ToSet(MinorsOf(b)) : b \in DOMAIN major}
       /\ \A b \in DOMAIN major : \A k \in DOMAIN MinorsOf(b) :
            LET ats == MinorsOf(b)
            IN  /\ minor[ats[k]].block = b
                /\ minor[ats[k]].prev = IF k = 1 THEN Nowhere ELSE ats[k - 1]

\* As long as no two calls overlap, the blocks of all threads are what an
\* allocator promises: malloc, free and realloc over linked lists implement
\* Blocks.
Promise == INSTANCE Blocks WITH blocks <- AllOwned
ImplementsBlocks == Promise!Spec

\* liballoc.h says that liballoc_lock locks the memory data structures: blocks
\* that threads hold never overlap.
BlocksDisjoint ==
  \A t, u \in Threads : \A o \in owned[t], q \in owned[u] :
    <<t, o>> # <<u, q>> => Promise!Apart(o, q)

\* Bound of a run: calls overlap no longer than it takes to see it.
OneAtATime == ~refused

=============================================================================
