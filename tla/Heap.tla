-------------------------------- MODULE Heap --------------------------------
(***************************************************************************)
(* liballoc, the allocator of the kernel (kernel/kernel/mem/liballoc.c)    *)
(* and of the user library (libc/malloc/liballoc.c): the data structure    *)
(* and what one call does to it.  KernelHeap and UserHeap say how calls    *)
(* follow each other and where pages come from.                            *)
(*                                                                         *)
(* A heap is a list of majors (l_memRoot is the first), each a run of      *)
(* pages with its minors in the order of their addresses, and l_bestBet.   *)
(***************************************************************************)
EXTENDS Integers, Sequences, SequencesExt, FiniteSetsExt

CONSTANTS MajorSize,   \* sizeof(struct liballoc_major)
          MinorSize,   \* sizeof(struct liballoc_minor)
          Alignment,   \* ALIGNMENT
          AlignInfo,   \* ALIGN_INFO
          PageSize,    \* l_pageSize
          PageCount    \* l_pageCount

ASSUME SizesAssumption ==
  /\ MajorSize \in Nat \ {0} /\ MinorSize \in Nat \ {0}
  /\ Alignment \in Nat \ {0} /\ AlignInfo \in Nat \ {0}
  /\ PageSize \in Nat \ {0} /\ PageCount \in Nat \ {0}

NoMajor == 0      \* NULL; no major lies at address 0
NoPointer == 0

MinorAt(at, size, req) == [at |-> at, size |-> size, req |-> req]

\* What allocate_new_page sets up in fresh pages.
NewMajor(base, pages) == [base |-> base, pages |-> pages, usage |-> MajorSize, minors |-> <<>>]

\* What a request for req bytes takes from a major, without the minor's head.
SizeFor(req) == req + Alignment + AlignInfo

\* The pages allocate_new_page asks for.
PagesFor(size) == LET whole == (size + MajorSize + MinorSize + PageSize - 1) \div PageSize
                  IN  IF whole < PageCount THEN PageCount ELSE whole

MajorEnd(m) == m.base + m.pages * PageSize

\* "maj->size - maj->usage".
Unused(m) == m.pages * PageSize - m.usage

\* The space before the first minor (k = 0) and behind the k-th one.
GapStart(m, k) == IF k = 0 THEN m.base + MajorSize
                  ELSE m.minors[k].at + MinorSize + m.minors[k].size
GapEnd(m, k) == IF k = Len(m.minors) THEN MajorEnd(m) ELSE m.minors[k + 1].at

\* Faulty variant: what follows the gap may begin inside the new minor.
GapFitsStart(m, k, size) == GapEnd(m, k) - GapStart(m, k) >= MinorSize

GapFits(m, k, size) == GapEnd(m, k) - GapStart(m, k) >= size + MinorSize

\* The gaps of cases 2 to 4: in front, between two minors, behind the last one.
FittingGaps(m, size) == {k \in 0..Len(m.minors) : GapFits(m, k, size)}

\* Case 1 asks the counter; case 2 asks nothing else of an empty major.
Takes(m, size) ==
  /\ Unused(m) >= size + MinorSize
  /\ m.minors = <<>> \/ FittingGaps(m, size) # {}

\* The first gap that is big enough.
GapIn(m, size) == IF m.minors = <<>> THEN 0 ELSE Min(FittingGaps(m, size))

\* The place of the minor that starts at gap k of m.
Placed(m, k, size, req) ==
  [m EXCEPT !.minors = InsertAt(@, k + 1, MinorAt(GapStart(m, k), size, req)),
            !.usage = @ + size + MinorSize]

\* ALIGN: the pointer a caller gets for the minor at this address.
PointerOf(at) ==
  LET raw == at + MinorSize + AlignInfo
      diff == raw % Alignment
  IN  IF diff = 0 THEN raw ELSE raw + Alignment - diff

-----------------------------------------------------------------------------
(* malloc.                                                                  *)

IndexOf(majors, base) == SelectInSeq(majors, LAMBDA m : m.base = base)

\* Faulty variant: the majors before l_bestBet are not looked at.
VisitsNoRestart(majors, best, size) ==
  LET b == IndexOf(majors, best)
      Count(from) == [i \in 1..(Len(majors) - from + 1) |-> from + i - 1]
  IN  IF best # NoMajor /\ Unused(majors[b]) > size + MinorSize THEN Count(b) ELSE Count(1)

\* The majors the loop of malloc looks at, until one takes the request: from
\* l_bestBet to the last one, then all of them again (startedBet).
Visits(majors, best, size) ==
  LET b == IndexOf(majors, best)
      Count(from) == [i \in 1..(Len(majors) - from + 1) |-> from + i - 1]
  IN  IF best # NoMajor /\ Unused(majors[b]) > size + MinorSize THEN Count(b) \o Count(1)
      ELSE Count(1)

\* The visit at which the request is taken; 0 if it never is.
TakenAt(majors, best, size) ==
  LET visits == Visits(majors, best, size)
  IN  SelectInSeq(visits, LAMBDA i : Takes(majors[i], size))

\* l_bestBet after these visits: the first of the majors with the most unused
\* space, if that is more than the best bet had.
BestAfter(majors, best, visited) ==
  LET had == IF best = NoMajor THEN 0 ELSE Unused(majors[IndexOf(majors, best)])
      most == Max({had} \cup {Unused(majors[visited[j]]) : j \in DOMAIN visited})
  IN  IF most = had THEN best
      ELSE majors[visited[SelectInSeq(visited, LAMBDA i : Unused(majors[i]) = most)]].base

\* What malloc does with the majors when one of them takes the request ...
Found(majors, best, req) ==
  LET size == SizeFor(req)
      j == TakenAt(majors, best, size)
      visits == Visits(majors, best, size)
      i == visits[j]
      k == GapIn(majors[i], size)
  IN  [majors |-> [majors EXCEPT ![i] = Placed(@, k, size, req)],
       best |-> BestAfter(majors, best, SubSeq(visits, 1, j)),
       p |-> PointerOf(GapStart(majors[i], k))]

\* ... and when a new one has to be added at this address.  Only a loop that
\* got to case 5 compares it with l_bestBet.
Grown(majors, best, req, base) ==
  LET size == SizeFor(req)
      fresh == NewMajor(base, PagesFor(size))
      more == Append(majors, fresh)
      case5 == majors = <<>> \/ Unused(Last(majors)) >= size + MinorSize
      visits == Visits(majors, best, size) \o IF case5 THEN <<Len(more)>> ELSE <<>>
  IN  [majors |-> [more EXCEPT ![Len(more)] = Placed(@, 0, size, req)],
       best |-> BestAfter(more, best, visits),
       p |-> PointerOf(GapStart(fresh, 0))]

-----------------------------------------------------------------------------
(* free.                                                                    *)

Pointers(majors) ==
  UNION {{PointerOf(x.at) : x \in ToSet(majors[i].minors)} : i \in DOMAIN majors}

\* UNALIGN: the minor of a pointer that malloc returned.
Holds(m, p) == \E k \in DOMAIN m.minors : PointerOf(m.minors[k].at) = p
MajorOf(majors, p) == SelectInSeq(majors, LAMBDA m : Holds(m, p))
MinorOf(m, p) == SelectInSeq(m.minors, LAMBDA x : PointerOf(x.at) = p)

Unlinked(m, k) == [m EXCEPT !.minors = RemoveAt(@, k),
                            !.usage = @ - (m.minors[k].size + MinorSize)]

\* l_bestBet when the i-th major has got more room but is not empty.
BestAfterFree(majors, best, i) ==
  IF best # NoMajor /\ Unused(majors[i]) > Unused(majors[IndexOf(majors, best)])
    THEN majors[i].base ELSE best

-----------------------------------------------------------------------------
(* What a heap must be.                                                     *)

\* Minors lie in their major, behind its head, in order, without overlap, and
\* the caller's bytes lie inside the minor with at least one byte to spare.
MajorSound(m) ==
  /\ \A k \in 0..Len(m.minors) : GapStart(m, k) <= GapEnd(m, k)
  /\ \A k \in DOMAIN m.minors :
       LET x == m.minors[k]
       IN  /\ PointerOf(x.at) - AlignInfo >= x.at + MinorSize
           /\ PointerOf(x.at) + x.req < x.at + MinorSize + x.size

\* The units that the minors of a major take with their heads, and without.
UnitsOf(m) == UNION {m.minors[k].at..(GapStart(m, k) - 1) : k \in DOMAIN m.minors}
DataOf(m) == UNION {(m.minors[k].at + MinorSize)..(GapStart(m, k) - 1) : k \in DOMAIN m.minors}

\* The counter that malloc asks before it looks for a gap.
UsageSound(m) == m.usage = MajorSize + Cardinality(UnitsOf(m))

\* What all majors have handed out, and what they take from the system.
DataUnits(majors) == UNION {DataOf(majors[i]) : i \in DOMAIN majors}
PagesOf(m) == m.base..(MajorEnd(m) - 1)
PageUnits(majors) == UNION {PagesOf(majors[i]) : i \in DOMAIN majors}

\* No two majors share a page.
MajorsDisjoint(majors) ==
  \A i, j \in DOMAIN majors :
    i # j => MajorEnd(majors[i]) <= majors[j].base \/ MajorEnd(majors[j]) <= majors[i].base

\* Some major has room for the request.
SomeGap(majors, size) ==
  \E i \in DOMAIN majors : \E k \in 0..Len(majors[i].minors) : GapFits(majors[i], k, size)

=============================================================================
