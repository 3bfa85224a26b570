---------------------------- MODULE UserHeapProofs ----------------------------
(***************************************************************************)
(* Machine-checked proofs about the heap of a process, for all sizes of    *)
(* heads, pages and requests and any number of threads: as long as no two  *)
(* calls overlap, the linked lists are coherent and the allocator keeps    *)
(* what Blocks promises.                                                   *)
(***************************************************************************)
EXTENDS UserHeap, TLAPS, FiniteSetTheorems, SequenceTheorems, WellFoundedInduction

-----------------------------------------------------------------------------
(* Least and greatest elements, intervals, division.                        *)

\* A set of natural numbers has a least element.
LEMMA MinExists ==
  ASSUME NEW T, T \subseteq Nat, T # {}
  PROVE  Min(T) \in T /\ \A y \in T : Min(T) <= y
<1>1. PICK x \in T : \A y \in T : ~(<<y, x>> \in OpToRel(<, Nat))
  BY NatLessThanWellFounded, WFMin
<1>2. \A y \in T : ~(y < x)
  BY <1>1 DEF OpToRel
<1>3. \A y \in T : x <= y
  BY <1>2
<1>4. \E m \in T : \A y \in T : m <= y
  BY <1>3
<1> QED BY <1>4 DEF Min

\* A bounded set of integers has a greatest element.
LEMMA MaxExists ==
  ASSUME NEW T, T \subseteq Int, T # {}, NEW b \in Int, \A y \in T : y <= b
  PROVE  Max(T) \in T /\ \A y \in T : y <= Max(T)
<1> DEFINE D == {n \in Nat : b - n \in T}
<1>1. D # {}
  <2>1. PICK y \in T : TRUE
    OBVIOUS
  <2>2. b - y \in Nat /\ b - (b - y) = y
    BY <2>1
  <2> QED BY <2>1, <2>2
<1>2. Min(D) \in D /\ \A n \in D : Min(D) <= n
  BY <1>1, MinExists
<1>3. PICK n \in Nat : n = Min(D) /\ b - n \in T /\ \A e \in D : n <= e
  BY <1>2
<1>4. ASSUME NEW y \in T PROVE b - n >= y
  <2>1. b - y \in D
    <3>1. y \in Int /\ y <= b
      OBVIOUS
    <3>2. b - y \in Nat /\ b - (b - y) = y
      BY <3>1
    <3> QED BY <3>2
  <2> QED BY <1>3, <2>1
<1>5. \E x \in T : \A y \in T : x >= y
  BY <1>3, <1>4
<1>6. Max(T) \in T /\ \A y \in T : Max(T) >= y
  BY <1>5 DEF Max
<1> QED BY <1>6

\* The first index of a set, 0 if there is none.
LEMMA FirstOf ==
  ASSUME NEW n \in Nat, NEW I, I \subseteq 1 .. n, NEW r, r = IF I # {} THEN Min(I) ELSE 0
  PROVE  /\ r = 0 => I = {}
         /\ I # {} => r \in I /\ r # 0
         /\ r \in 0 .. n
<1>1. I \subseteq Nat
  OBVIOUS
<1>2. CASE I = {}
  BY <1>2
<1>3. CASE I # {}
  <2>1. r = Min(I)
    BY <1>3
  <2>2. r \in I
    BY <1>1, <1>3, <2>1, MinExists
  <2> QED BY <2>2
<1> QED BY <1>2, <1>3

\* The units from a up to b.
LEMMA Interval ==
  ASSUME NEW a \in Int, NEW b \in Int, a <= b
  PROVE  IsFiniteSet(a .. b - 1) /\ Cardinality(a .. b - 1) = b - a
<1>1. b - 1 \in Int
  OBVIOUS
<1>2. IsFiniteSet(a .. b - 1) /\ Cardinality(a .. b - 1) = IF a > b - 1 THEN 0 ELSE (b - 1) - a + 1
  BY <1>1, FS_Interval
<1> QED BY <1>2

\* Sets that lie apart.
LEMMA DisjointUnion ==
  ASSUME NEW S, NEW T, IsFiniteSet(S), IsFiniteSet(T), S \cap T = {}
  PROVE  /\ IsFiniteSet(S \cup T) /\ Cardinality(S \cup T) = Cardinality(S) + Cardinality(T)
         /\ Cardinality(S) \in Nat /\ Cardinality(T) \in Nat
<1>1. Cardinality(S \cap T) = 0
  BY FS_EmptySet
<1>2. Cardinality(S) \in Nat /\ Cardinality(T) \in Nat
  BY FS_CardinalityType
<1>3. IsFiniteSet(S \cup T) /\ Cardinality(S \cup T) = Cardinality(S) + Cardinality(T) - Cardinality(S \cap T)
  BY FS_Union
<1> QED BY <1>1, <1>2, <1>3

\* Division with remainder.
LEMMA Division ==
  ASSUME NEW a \in Nat, NEW s \in Nat \ {0}
  PROVE  /\ a \div s \in Nat
         /\ (a \div s) * s <= a
         /\ a < (a \div s) * s + s
         /\ a % s \in 0 .. s - 1
BY SMT

\* Products.
LEMMA Products ==
  ASSUME NEW a \in Nat, NEW s \in Nat \ {0}
  PROVE  a * s \in Nat /\ (a # 0 => a * s >= s)
BY SMT

LEMMA ProductOrder ==
  ASSUME NEW a \in Int, NEW b \in Int, NEW s \in Nat \ {0}
  PROVE  /\ a <= b <=> a * s <= b * s
         /\ (a + b) * s = a * s + b * s
         /\ (a - b) * s = a * s - b * s
BY SMT

-----------------------------------------------------------------------------
(* One major, as malloc sees it.                                            *)

Minors == [at : Nat, size : Nat, req : Nat]

MajorTypes == [base : Nat \ {0}, pages : Nat \ {0}, usage : Nat, minors : Seq(Minors)]

EndOf(x) == x.at + MinorSize + x.size

\* The caller's bytes lie inside the minor, with one to spare.
MinorSound(x) ==
  /\ PointerOf(x.at) - AlignInfo >= x.at + MinorSize
  /\ PointerOf(x.at) + x.req < EndOf(x)

\* MajorSound with the order of any two minors in place of neighbours.
MajorInv(m) ==
  /\ m \in MajorTypes
  /\ m.base + MajorSize <= MajorEnd(m)
  /\ \A k \in DOMAIN m.minors :
       /\ MinorSound(m.minors[k])
       /\ m.base + MajorSize <= m.minors[k].at /\ EndOf(m.minors[k]) <= MajorEnd(m)
  /\ \A j, k \in DOMAIN m.minors : j < k => EndOf(m.minors[j]) <= m.minors[k].at
  /\ UsageSound(m)

\* The arithmetic of a major has its types.
LEMMA MajorNumbers ==
  ASSUME NEW m \in MajorTypes
  PROVE  /\ m.base \in Nat /\ m.pages \in Nat \ {0} /\ m.usage \in Nat
         /\ m.pages * PageSize \in Nat /\ MajorEnd(m) \in Nat
         /\ m.minors \in Seq(Minors) /\ Len(m.minors) \in Nat /\ DOMAIN m.minors = 1 .. Len(m.minors)
         /\ \A k \in DOMAIN m.minors :
              /\ m.minors[k] \in Minors /\ m.minors[k].at \in Nat /\ m.minors[k].size \in Nat
              /\ m.minors[k].req \in Nat
              /\ EndOf(m.minors[k]) \in Nat /\ GapStart(m, k) = EndOf(m.minors[k])
              /\ m.minors[k].at + MinorSize <= EndOf(m.minors[k])
         /\ MajorSize \in Nat \ {0} /\ MinorSize \in Nat \ {0}
<1>1. m.base \in Nat /\ m.pages \in Nat \ {0} /\ m.usage \in Nat /\ m.minors \in Seq(Minors)
  BY DEF MajorTypes
<1>2. MajorSize \in Nat \ {0} /\ MinorSize \in Nat \ {0} /\ PageSize \in Nat \ {0}
  BY SizesAssumption
<1>3. m.pages * PageSize \in Nat
  BY <1>1, <1>2, Products
<1>4. MajorEnd(m) \in Nat
  BY <1>1, <1>3 DEF MajorEnd
<1>5. Len(m.minors) \in Nat /\ DOMAIN m.minors = 1 .. Len(m.minors)
  BY <1>1, LenProperties
<1>6. ASSUME NEW k \in DOMAIN m.minors
      PROVE  /\ m.minors[k] \in Minors /\ m.minors[k].at \in Nat /\ m.minors[k].size \in Nat
             /\ m.minors[k].req \in Nat
             /\ EndOf(m.minors[k]) \in Nat /\ GapStart(m, k) = EndOf(m.minors[k])
             /\ m.minors[k].at + MinorSize <= EndOf(m.minors[k])
  <2>1. m.minors[k] \in Minors /\ k # 0
    BY <1>1, <1>5, ElementOfSeq
  <2>2. m.minors[k].at \in Nat /\ m.minors[k].size \in Nat /\ m.minors[k].req \in Nat
    BY <2>1 DEF Minors
  <2> QED BY <1>2, <2>1, <2>2 DEF EndOf, GapStart
<1> QED BY <1>1, <1>2, <1>3, <1>4, <1>5, <1>6

\* The units of a major.
LEMMA UnitIs ==
  ASSUME NEW m \in MajorTypes, NEW u
  PROVE  /\ u \in UnitsOf(m) <=>
              \E k \in DOMAIN m.minors : u \in m.minors[k].at .. EndOf(m.minors[k]) - 1
         /\ u \in DataOf(m) <=>
              \E k \in DOMAIN m.minors : u \in m.minors[k].at + MinorSize .. EndOf(m.minors[k]) - 1
BY MajorNumbers DEF UnitsOf, DataOf

\* They lie behind the head of the major.
LEMMA UnitsInside ==
  ASSUME NEW m, MajorInv(m)
  PROVE  /\ UnitsOf(m) \subseteq m.base + MajorSize .. MajorEnd(m) - 1
         /\ DataOf(m) \subseteq UnitsOf(m)
         /\ IsFiniteSet(UnitsOf(m)) /\ Cardinality(UnitsOf(m)) \in Nat
         /\ IsFiniteSet(DataOf(m)) /\ Cardinality(DataOf(m)) \in Nat
<1>1. m \in MajorTypes
  BY DEF MajorInv
<1>2. UnitsOf(m) \subseteq m.base + MajorSize .. MajorEnd(m) - 1
  <2>1. SUFFICES ASSUME NEW u \in UnitsOf(m) PROVE u \in m.base + MajorSize .. MajorEnd(m) - 1
    OBVIOUS
  <2>2. PICK k \in DOMAIN m.minors : u \in m.minors[k].at .. EndOf(m.minors[k]) - 1
    BY <1>1, UnitIs
  <2>3. m.base + MajorSize <= m.minors[k].at /\ EndOf(m.minors[k]) <= MajorEnd(m)
    BY DEF MajorInv
  <2> QED BY <1>1, <2>2, <2>3, MajorNumbers
<1>3. DataOf(m) \subseteq UnitsOf(m)
  <2>1. SUFFICES ASSUME NEW u \in DataOf(m) PROVE u \in UnitsOf(m)
    OBVIOUS
  <2>2. PICK k \in DOMAIN m.minors : u \in m.minors[k].at + MinorSize .. EndOf(m.minors[k]) - 1
    BY <1>1, UnitIs
  <2>3. u \in m.minors[k].at .. EndOf(m.minors[k]) - 1
    BY <1>1, <2>2, MajorNumbers
  <2> QED BY <1>1, <2>3, UnitIs
<1>4. IsFiniteSet(m.base + MajorSize .. MajorEnd(m) - 1)
  <2>1. m.base + MajorSize \in Int /\ MajorEnd(m) - 1 \in Int
    BY <1>1, MajorNumbers
  <2> QED BY <2>1, FS_Interval
<1>5. IsFiniteSet(UnitsOf(m)) /\ IsFiniteSet(DataOf(m))
  BY <1>2, <1>3, <1>4, FS_Subset
<1> QED BY <1>2, <1>3, <1>5, FS_CardinalityType

\* The invariant is that of the runs.
LEMMA MajorIsSound ==
  ASSUME NEW m, MajorInv(m)
  PROVE  MajorSound(m)
<1>1. m \in MajorTypes
  BY DEF MajorInv
<1>2. ASSUME NEW k \in 0 .. Len(m.minors)
      PROVE  GapStart(m, k) <= GapEnd(m, k)
  <2>1. CASE k = 0 /\ k = Len(m.minors)
    BY <2>1 DEF MajorInv, GapStart, GapEnd
  <2>2. CASE k = 0 /\ k # Len(m.minors)
    <3>1. k + 1 \in DOMAIN m.minors
      BY <1>1, <2>2, MajorNumbers
    <3> QED BY <2>2, <3>1 DEF MajorInv, GapStart, GapEnd
  <2>3. CASE k # 0 /\ k = Len(m.minors)
    <3>1. k \in DOMAIN m.minors
      BY <1>1, <2>3, MajorNumbers
    <3> QED BY <1>1, <2>3, <3>1, MajorNumbers DEF MajorInv, GapEnd
  <2>4. CASE k # 0 /\ k # Len(m.minors)
    <3>1. k \in DOMAIN m.minors /\ k + 1 \in DOMAIN m.minors /\ k < k + 1
      BY <1>1, <2>4, MajorNumbers
    <3> QED BY <1>1, <2>4, <3>1, MajorNumbers DEF MajorInv, GapEnd
  <2> QED BY <2>1, <2>2, <2>3, <2>4
<1> QED BY <1>2 DEF MajorInv, MajorSound, MinorSound, EndOf

\* A pointer lies where ALIGN puts it.
LEMMA PointerInside ==
  ASSUME NEW a \in Nat, NEW req \in Nat
  PROVE  /\ PointerOf(a) \in Nat
         /\ MinorSound(MinorAt(a, SizeFor(req), req))
         /\ SizeFor(req) \in Nat /\ MinorAt(a, SizeFor(req), req) \in Minors
<1> DEFINE raw == a + MinorSize + AlignInfo
           diff == raw % Alignment
<1>1. raw \in Nat /\ Alignment \in Nat \ {0} /\ AlignInfo \in Nat /\ MinorSize \in Nat
  BY SizesAssumption
<1>2. diff \in 0 .. Alignment - 1
  BY <1>1, Division
<1>3. PointerOf(a) = IF diff = 0 THEN raw ELSE raw + Alignment - diff
  BY DEF PointerOf
<1> HIDE DEF diff
<1>4. PointerOf(a) \in raw .. raw + Alignment - 1
  BY <1>1, <1>2, <1>3
<1>5. SizeFor(req) = req + Alignment + AlignInfo
  BY DEF SizeFor
<1>6. PICK x : x = MinorAt(a, SizeFor(req), req)
  OBVIOUS
<1>7. x.at = a /\ x.size = req + Alignment + AlignInfo /\ x.req = req /\ x \in Minors
  BY <1>1, <1>5, <1>6 DEF MinorAt, Minors
<1>8. MinorSound(x)
  BY <1>1, <1>4, <1>7 DEF MinorSound, EndOf
<1> QED BY <1>1, <1>4, <1>5, <1>6, <1>7, <1>8

\* What a major has used never exceeds it.
LEMMA UsageBound ==
  ASSUME NEW m, MajorInv(m)
  PROVE  /\ m.usage \in Nat /\ m.pages * PageSize \in Nat /\ m.usage <= m.pages * PageSize
         /\ Unused(m) \in Nat /\ Unused(m) <= MajorEnd(m)
<1>1. m \in MajorTypes
  BY DEF MajorInv
<1>2. /\ m.base \in Nat /\ m.usage \in Nat /\ m.pages * PageSize \in Nat /\ MajorSize \in Nat
      /\ MajorEnd(m) = m.base + m.pages * PageSize
  BY <1>1, MajorNumbers DEF MajorEnd
<1>3. UnitsOf(m) \subseteq m.base + MajorSize .. MajorEnd(m) - 1 /\ Cardinality(UnitsOf(m)) \in Nat
  BY UnitsInside
<1>4. m.base + MajorSize <= MajorEnd(m)
  BY DEF MajorInv
<1>5. /\ IsFiniteSet(m.base + MajorSize .. MajorEnd(m) - 1)
      /\ Cardinality(m.base + MajorSize .. MajorEnd(m) - 1) = MajorEnd(m) - (m.base + MajorSize)
  <2>1. m.base + MajorSize \in Int /\ MajorEnd(m) \in Int
    BY <1>2
  <2> QED BY <1>4, <2>1, Interval
<1>6. Cardinality(UnitsOf(m)) <= MajorEnd(m) - (m.base + MajorSize)
  BY <1>3, <1>5, FS_Subset
<1>7. m.usage = MajorSize + Cardinality(UnitsOf(m))
  BY DEF MajorInv, UsageSound
<1>8. m.usage <= m.pages * PageSize
  BY <1>2, <1>3, <1>6, <1>7
<1> QED BY <1>2, <1>8 DEF Unused

\* The gap a request is put into fits it.
LEMMA GapIs ==
  ASSUME NEW m, MajorInv(m), NEW size \in Nat, Takes(m, size)
  PROVE  GapIn(m, size) \in 0 .. Len(m.minors) /\ GapFits(m, GapIn(m, size), size)
<1>1. m \in MajorTypes
  BY DEF MajorInv
<1>2. CASE m.minors = <<>>
  <2>1. GapIn(m, size) = 0 /\ Len(m.minors) = 0
    BY <1>2 DEF GapIn
  <2>2. UnitsOf(m) = {}
    <3>1. DOMAIN m.minors = {}
      BY <1>2
    <3> QED BY <3>1 DEF UnitsOf
  <2>3. m.usage = MajorSize
    <3>1. m.usage = MajorSize + Cardinality(UnitsOf(m))
      BY DEF MajorInv, UsageSound
    <3>2. Cardinality(UnitsOf(m)) = 0
      BY <2>2, FS_EmptySet
    <3> QED BY <1>1, <3>1, <3>2, MajorNumbers
  <2>4. GapStart(m, 0) = m.base + MajorSize /\ GapEnd(m, 0) = m.base + m.pages * PageSize
    BY <2>1 DEF GapStart, GapEnd, MajorEnd
  <2>5. m.pages * PageSize - MajorSize >= size + MinorSize
    BY <2>3 DEF Takes, Unused
  <2>6. GapEnd(m, 0) - GapStart(m, 0) >= size + MinorSize
    BY <1>1, <2>4, <2>5, MajorNumbers
  <2> QED BY <2>1, <2>6 DEF GapFits
<1>3. CASE m.minors # <<>>
  <2>1. FittingGaps(m, size) # {} /\ GapIn(m, size) = Min(FittingGaps(m, size))
    BY <1>3 DEF Takes, GapIn
  <2>2. FittingGaps(m, size) \subseteq Nat
    BY <1>1, MajorNumbers DEF FittingGaps
  <2>3. GapIn(m, size) \in FittingGaps(m, size)
    BY <2>1, <2>2, MinExists
  <2> QED BY <2>3 DEF FittingGaps
<1> QED BY <1>2, <1>3

-----------------------------------------------------------------------------
(* What the loop of malloc finds.                                           *)

\* An address is none or that of a major.
Names(ms, best) == best # NoMajor => \E i \in DOMAIN ms : ms[i].base = best

\* The major at an address.
LEMMA IndexIs ==
  ASSUME NEW ms \in Seq(MajorTypes), NEW base, NEW r, r = IndexOf(ms, base),
         \E i \in DOMAIN ms : ms[i].base = base
  PROVE  r \in DOMAIN ms /\ ms[r].base = base
<1>1. Len(ms) \in Nat /\ DOMAIN ms = 1 .. Len(ms)
  BY LenProperties
<1>2. PICK I : I = {i \in 1 .. Len(ms) : ms[i].base = base}
  OBVIOUS
<1>3. r = IF I # {} THEN Min(I) ELSE 0
  BY <1>2 DEF IndexOf, SelectInSeq
<1>4. I # {} => r \in I
  BY <1>1, <1>2, <1>3, FirstOf
<1> QED BY <1>1, <1>2, <1>4

\* The majors from one to the last.
LEMMA CountIs ==
  ASSUME NEW n \in Nat, NEW from \in 1 .. n + 1, NEW c, c = [i \in 1 .. (n - from + 1) |-> from + i - 1]
  PROVE  /\ c \in Seq(1 .. n) /\ Len(c) = n - from + 1
         /\ \A h \in from .. n : h - from + 1 \in DOMAIN c /\ c[h - from + 1] = h
<1>1. PICK l \in Nat : l = n - from + 1
  OBVIOUS
<1>2. c = [i \in 1 .. l |-> from + i - 1] /\ DOMAIN c = 1 .. l
  BY <1>1
<1>3. \A i \in 1 .. l : from + i - 1 \in 1 .. n
  BY <1>1
<1>4. c \in [1 .. l -> 1 .. n]
  BY <1>2, <1>3
<1>5. c \in Seq(1 .. n) /\ Len(c) = l
  BY <1>4
<1>6. ASSUME NEW h \in from .. n
      PROVE  h - from + 1 \in DOMAIN c /\ c[h - from + 1] = h
  <2>1. h - from + 1 \in 1 .. l
    BY <1>1
  <2>2. c[h - from + 1] = from + (h - from + 1) - 1
    BY <1>2, <2>1
  <2>3. from + (h - from + 1) - 1 = h
    OBVIOUS
  <2> QED BY <1>2, <2>1, <2>2, <2>3
<1> QED BY <1>1, <1>5, <1>6

\* The loop of malloc looks at majors of the list, and at all of them.
LEMMA VisitsAll ==
  ASSUME NEW ms \in Seq(MajorTypes), NEW best, Names(ms, best), NEW size
  PROVE  /\ Visits(ms, best, size) \in Seq(DOMAIN ms)
         /\ \A i \in DOMAIN ms : \E v \in DOMAIN Visits(ms, best, size) : Visits(ms, best, size)[v] = i
<1>1. PICK n \in Nat : n = Len(ms) /\ DOMAIN ms = 1 .. n
  BY LenProperties
<1>2. PICK c : c = [i \in 1 .. (n - 1 + 1) |-> 1 + i - 1]
  OBVIOUS
<1>3. c \in Seq(1 .. n) /\ Len(c) = n /\ \A h \in 1 .. n : h \in DOMAIN c /\ c[h] = h
  <2>1. 1 \in 1 .. n + 1
    OBVIOUS
  <2>2. /\ c \in Seq(1 .. n) /\ Len(c) = n - 1 + 1
        /\ \A h \in 1 .. n : h - 1 + 1 \in DOMAIN c /\ c[h - 1 + 1] = h
    BY <1>2, <2>1, CountIs
  <2>3. n - 1 + 1 = n /\ \A h \in 1 .. n : h - 1 + 1 = h
    OBVIOUS
  <2> QED BY <2>2, <2>3
<1>4. PICK b : b = IndexOf(ms, best)
  OBVIOUS
<1>5. PICK d : d = [i \in 1 .. (n - b + 1) |-> b + i - 1]
  OBVIOUS
<1>6. PICK vs : vs = Visits(ms, best, size)
  OBVIOUS
<1>7. vs = IF best # NoMajor /\ Unused(ms[b]) > size + MinorSize THEN d \o c ELSE c
  BY <1>1, <1>2, <1>4, <1>5, <1>6 DEF Visits
<1>8. CASE best # NoMajor /\ Unused(ms[b]) > size + MinorSize
  <2>1. b \in 1 .. n
    BY <1>1, <1>4, <1>8, IndexIs DEF Names
  <2>2. b \in 1 .. n + 1
    BY <2>1
  <2>3. d \in Seq(1 .. n) /\ Len(d) \in Nat
    BY <1>5, <2>2, CountIs, LenProperties
  <2>4. vs = d \o c
    BY <1>7, <1>8
  <2>5. /\ vs \in Seq(1 .. n) /\ Len(vs) = Len(d) + n
        /\ \A i \in 1 .. Len(d) + n : vs[i] = IF i <= Len(d) THEN d[i] ELSE c[i - Len(d)]
    BY <1>3, <2>3, <2>4, ConcatProperties
  <2>6. ASSUME NEW h \in 1 .. n PROVE \E v \in DOMAIN vs : vs[v] = h
    <3>1. Len(d) + h \in 1 .. Len(d) + n /\ ~(Len(d) + h <= Len(d)) /\ (Len(d) + h) - Len(d) = h
      BY <2>3
    <3>2. vs[Len(d) + h] = c[h]
      BY <2>5, <3>1
    <3>3. DOMAIN vs = 1 .. Len(d) + n
      BY <2>5, LenProperties
    <3> QED BY <1>3, <3>1, <3>2, <3>3
  <2> QED BY <1>1, <1>6, <2>5, <2>6
<1>9. CASE ~(best # NoMajor /\ Unused(ms[b]) > size + MinorSize)
  <2>1. vs = c
    BY <1>7, <1>9
  <2> QED BY <1>1, <1>3, <1>6, <2>1
<1> QED BY <1>8, <1>9

\* The visit at which a request is taken.
LEMMA TakenIs ==
  ASSUME NEW ms \in Seq(MajorTypes), NEW best, Names(ms, best), NEW size,
         NEW j, j = TakenAt(ms, best, size)
  PROVE  /\ j # 0 => /\ j \in DOMAIN Visits(ms, best, size) /\ Visits(ms, best, size)[j] \in DOMAIN ms
                     /\ Takes(ms[Visits(ms, best, size)[j]], size)
         /\ j = 0 => \A i \in DOMAIN ms : ~Takes(ms[i], size)
<1>1. PICK vs : vs = Visits(ms, best, size)
  OBVIOUS
<1>2. vs \in Seq(DOMAIN ms) /\ \A i \in DOMAIN ms : \E v \in DOMAIN vs : vs[v] = i
  BY <1>1, VisitsAll
<1>3. Len(vs) \in Nat /\ DOMAIN vs = 1 .. Len(vs)
  BY <1>2, LenProperties
<1>4. PICK I : I = {v \in 1 .. Len(vs) : Takes(ms[vs[v]], size)}
  OBVIOUS
<1>5. j = IF I # {} THEN Min(I) ELSE 0
  BY <1>1, <1>4 DEF TakenAt, SelectInSeq
<1>6. /\ j = 0 => I = {}
      /\ I # {} => j \in I /\ j # 0
  BY <1>3, <1>4, <1>5, FirstOf
<1>7. j # 0 => j \in DOMAIN vs /\ Takes(ms[vs[j]], size)
  BY <1>3, <1>4, <1>5, <1>6
<1>8. \A v \in DOMAIN vs : vs[v] \in DOMAIN ms
  BY <1>2, ElementOfSeq
<1>9. ASSUME j = 0, NEW i \in DOMAIN ms PROVE ~Takes(ms[i], size)
  <2>1. PICK v \in DOMAIN vs : vs[v] = i
    BY <1>2
  <2> QED BY <1>3, <1>4, <1>6, <1>9, <2>1
<1> QED BY <1>1, <1>7, <1>8, <1>9

\* l_bestBet names a major after the loop of malloc.
LEMMA BestNames ==
  ASSUME NEW ms \in Seq(MajorTypes), NEW top \in Nat,
         \A i \in DOMAIN ms : MajorInv(ms[i]) /\ MajorEnd(ms[i]) <= top,
         NEW best, Names(ms, best), NEW vs \in Seq(DOMAIN ms)
  PROVE  Names(ms, BestAfter(ms, best, vs))
<1>1. ms \in Seq(MajorTypes) /\ \A i \in DOMAIN ms : MajorInv(ms[i]) /\ MajorEnd(ms[i]) \in Nat /\ MajorEnd(ms[i]) <= top
  BY MajorNumbers DEF MajorInv
<1>2. PICK had : had = IF best = NoMajor THEN 0 ELSE Unused(ms[IndexOf(ms, best)])
  OBVIOUS
<1>3. \A i \in DOMAIN ms : Unused(ms[i]) \in Nat /\ Unused(ms[i]) <= top
  <2>1. SUFFICES ASSUME NEW i \in DOMAIN ms PROVE Unused(ms[i]) \in Nat /\ Unused(ms[i]) <= top
    OBVIOUS
  <2>2. Unused(ms[i]) \in Nat /\ Unused(ms[i]) <= MajorEnd(ms[i])
    BY <1>1, UsageBound
  <2>3. MajorEnd(ms[i]) \in Nat /\ MajorEnd(ms[i]) <= top
    BY <1>1
  <2> QED BY <2>2, <2>3
<1>4. had \in Nat /\ had <= top
  <2>1. CASE best = NoMajor
    BY <1>2, <2>1
  <2>2. CASE best # NoMajor
    <3>1. IndexOf(ms, best) \in DOMAIN ms
      BY <1>1, <2>2, IndexIs DEF Names
    <3> QED BY <1>2, <1>3, <2>2, <3>1
  <2> QED BY <2>1, <2>2
<1>5. PICK T : T = {had} \cup {Unused(ms[vs[j]]) : j \in DOMAIN vs}
  OBVIOUS
<1>6. Len(vs) \in Nat /\ DOMAIN vs = 1 .. Len(vs) /\ \A j \in DOMAIN vs : vs[j] \in DOMAIN ms
  BY LenProperties, ElementOfSeq
<1>7. PICK most : most = Max(T)
  OBVIOUS
<1>8. most \in T
  <2>1. \A y \in T : y \in Nat /\ y <= top
    BY <1>3, <1>4, <1>5, <1>6
  <2>2. T # {} /\ T \subseteq Int /\ top \in Int
    BY <1>5, <2>1
  <2> QED BY <1>7, <2>1, <2>2, MaxExists
<1>9. PICK r : r = SelectInSeq(vs, LAMBDA i : Unused(ms[i]) = most)
  OBVIOUS
<1>10. BestAfter(ms, best, vs) = IF most = had THEN best ELSE ms[vs[r]].base
  BY <1>2, <1>5, <1>7, <1>9 DEF BestAfter
<1>11. CASE most # had
  <2>1. PICK I : I = {v \in 1 .. Len(vs) : Unused(ms[vs[v]]) = most}
    OBVIOUS
  <2>2. r = IF I # {} THEN Min(I) ELSE 0
    BY <1>9, <2>1 DEF SelectInSeq
  <2>3. I # {} => r \in I
    BY <1>6, <2>1, <2>2, FirstOf
  <2>4. I # {}
    BY <1>5, <1>6, <1>8, <1>11, <2>1
  <2>5. vs[r] \in DOMAIN ms
    BY <1>6, <2>1, <2>3, <2>4
  <2> QED BY <1>10, <1>11, <2>5 DEF Names
<1> QED BY <1>10, <1>11
-----------------------------------------------------------------------------
(* Lists in the order of addresses.                                         *)

\* b is the next of the addresses S behind a.  Before the first one and behind the last
\* one there is none.
Adjacent(S, a, b) ==
  /\ a \in S \cup {Nowhere} /\ b \in S \cup {Nowhere}
  /\ b # Nowhere => a < b
  /\ \A c \in S : c <= a \/ (b # Nowhere /\ b <= c)

\* The cells that hang together by "next" from "first" on are those at the addresses S.
IsList(cells, first, S) ==
  /\ S \subseteq DOMAIN cells
  /\ Adjacent(S, Nowhere, first)
  /\ \A a \in S : Adjacent(S, a, cells[a].next)

Addresses(S) == S \subseteq Nat \ {Nowhere}

\* An address has one neighbour on each side.
LEMMA OneNeighbour ==
  ASSUME NEW S, Addresses(S), NEW a, NEW b, NEW c, Adjacent(S, a, b), Adjacent(S, a, c)
  PROVE  b = c
BY DEF Adjacent, Addresses, Nowhere

LEMMA OneBefore ==
  ASSUME NEW S, Addresses(S), NEW a, NEW b, NEW c, Adjacent(S, a, c), Adjacent(S, b, c)
  PROVE  a = b
BY DEF Adjacent, Addresses, Nowhere

\* An address that comes between two neighbours.
LEMMA PutBetween ==
  ASSUME NEW S, Addresses(S), NEW a, NEW b, Adjacent(S, a, b),
         NEW x \in Nat \ {Nowhere}, a < x, b # Nowhere => x < b
  PROVE  /\ x \notin S
         /\ Adjacent(S \cup {x}, a, x) /\ Adjacent(S \cup {x}, x, b)
         /\ \A c, d : Adjacent(S, c, d) /\ c # a => Adjacent(S \cup {x}, c, d)
<1>1. x \notin S
  BY DEF Adjacent, Addresses, Nowhere
<1>2. Adjacent(S \cup {x}, a, x) /\ Adjacent(S \cup {x}, x, b)
  BY DEF Adjacent, Addresses, Nowhere
<1>3. ASSUME NEW c, NEW d, Adjacent(S, c, d), c # a PROVE Adjacent(S \cup {x}, c, d)
  <2>1. c \in Nat /\ d \in Nat /\ a \in Nat /\ b \in Nat
    BY <1>3 DEF Adjacent, Addresses, Nowhere
  <2>2. x <= c \/ (d # Nowhere /\ d <= x)
    <3>1. CASE c < a
      <4>1. a \in S
        BY <2>1, <3>1 DEF Adjacent, Nowhere
      <4>2. d # Nowhere /\ d <= a
        BY <1>3, <2>1, <3>1, <4>1 DEF Adjacent
      <4> QED BY <2>1, <4>2
    <3>2. CASE a < c
      <4>1. c \in S
        BY <1>3, <2>1, <3>2 DEF Adjacent, Nowhere
      <4>2. b # Nowhere /\ b <= c
        BY <2>1, <3>2, <4>1 DEF Adjacent
      <4> QED BY <2>1, <4>2
    <3> QED BY <1>3, <2>1, <3>1, <3>2
  <2> QED BY <1>3, <2>2 DEF Adjacent
<1> QED BY <1>1, <1>2, <1>3

\* An address that is taken away.
LEMMA TakenAway ==
  ASSUME NEW S, Addresses(S), NEW x \in S, NEW a, NEW b, Adjacent(S, a, x), Adjacent(S, x, b)
  PROVE  /\ Adjacent(S \ {x}, a, b)
         /\ \A c, d : Adjacent(S, c, d) /\ c # x /\ d # x => Adjacent(S \ {x}, c, d)
BY DEF Adjacent, Addresses, Nowhere

\* A sequence of the addresses of a list, in its order.
Enumerates(w, S, cells, first) ==
  /\ w \in Seq(S)
  /\ \A a \in S : \E i \in 1 .. Len(w) : w[i] = a
  /\ \A i, j \in 1 .. Len(w) : i < j => w[i] < w[j]
  /\ Adjacent(S, Nowhere, IF Len(w) = 0 THEN Nowhere ELSE w[1])
  /\ \A k \in 1 .. Len(w) : Adjacent(S, w[k], IF k = Len(w) THEN Nowhere ELSE w[k + 1])

\* Induction, for a set of numbers.
LEMMA AllNumbers ==
  ASSUME NEW T, 0 \in T, \A n \in Nat : n \in T => n + 1 \in T
  PROVE  Nat \subseteq T
<1> SUFFICES ASSUME Nat \ T # {} PROVE FALSE
  OBVIOUS
<1>1. Nat \ T \subseteq Nat
  OBVIOUS
<1>2. PICK x \in Nat \ T : \A y \in Nat \ T : ~(<<y, x>> \in OpToRel(<, Nat))
  BY <1>1, NatLessThanWellFounded, WFMin, Zenon
<1>3. \A y \in Nat \ T : ~(y < x)
  BY <1>2 DEF OpToRel
<1>4. x # 0 /\ x - 1 \in Nat /\ x - 1 < x /\ x = (x - 1) + 1
  OBVIOUS
<1>5. x - 1 \in T
  BY <1>3, <1>4
<1> QED BY <1>4, <1>5

\* The steps of a walk from "first" on.
StepOf(f, cells, first, i) == IF i = 1 THEN first ELSE NextOf(cells, f[i - 1])
IsWalk(f, cells, first, n) == f = [i \in 1 .. n |-> StepOf(f, cells, first, i)]

LEMMA WalkExists ==
  ASSUME NEW cells, NEW first, NEW n \in Nat
  PROVE  \E f : IsWalk(f, cells, first, n)
<1> DEFINE T == {m \in Nat : \E f : IsWalk(f, cells, first, m)}
<1>1. 0 \in T
  <2>1. PICK f : f = [i \in 1 .. 0 |-> first]
    OBVIOUS
  <2>2. \A i : i \notin 1 .. 0
    OBVIOUS
  <2>3. IsWalk(f, cells, first, 0)
    BY <2>1, <2>2 DEF IsWalk
  <2> QED BY <2>3
<1>2. ASSUME NEW m \in Nat, m \in T PROVE m + 1 \in T
  <2>1. PICK f : f = [i \in 1 .. m |-> StepOf(f, cells, first, i)]
    BY <1>2 DEF IsWalk
  <2>2. PICK x : x = StepOf(f, cells, first, m + 1)
    OBVIOUS
  <2>3. PICK g : g = [i \in 1 .. m + 1 |-> IF i = m + 1 THEN x ELSE f[i]]
    OBVIOUS
  <2>4. \A i \in 1 .. m : i \in 1 .. m + 1 /\ i # m + 1 /\ g[i] = f[i]
    BY <2>3
  <2>5. ASSUME NEW i \in 1 .. m + 1 PROVE StepOf(g, cells, first, i) = StepOf(f, cells, first, i)
    <3>1. CASE i = 1
      BY <3>1 DEF StepOf
    <3>2. CASE i # 1
      <4>1. i - 1 \in 1 .. m
        BY <3>2
      <4>2. g[i - 1] = f[i - 1]
        BY <2>4, <4>1
      <4> QED BY <4>2 DEF StepOf
    <3> QED BY <3>1, <3>2
  <2>6. ASSUME NEW i \in 1 .. m + 1 PROVE g[i] = StepOf(g, cells, first, i)
    <3>1. CASE i = m + 1
      BY <2>2, <2>3, <2>5, <3>1
    <3>2. CASE i # m + 1
      <4>1. i \in 1 .. m
        BY <3>2
      <4>2. f[i] = StepOf(f, cells, first, i)
        BY <2>1, <4>1
      <4> QED BY <2>4, <2>5, <4>1, <4>2
    <3> QED BY <3>1, <3>2
  <2>7. IsWalk(g, cells, first, m + 1)
    BY <2>3, <2>6 DEF IsWalk
  <2> QED BY <2>7
<1> HIDE DEF T
<1>3. n \in T
  BY <1>1, <1>2, AllNumbers
<1> QED BY <1>3 DEF T

\* Walk is what such a walk visits of the cells that are there.
IsRun(w, f, cells, n) ==
  w = [i \in 1 .. Cardinality({j \in 1 .. n : f[j] \in DOMAIN cells}) |-> f[i]]

LEMMA WalkRun ==
  ASSUME NEW cells, NEW first, NEW n \in Nat, n = Cardinality(DOMAIN cells)
  PROVE  \E f : IsWalk(f, cells, first, n) /\ IsRun(Walk(cells, first), f, cells, n)
<1> DEFINE f == CHOOSE f : f = [i \in 1 .. Cardinality(DOMAIN cells) |->
                                  IF i = 1 THEN first ELSE NextOf(cells, f[i - 1])]
<1>1. \E g : g = [i \in 1 .. Cardinality(DOMAIN cells) |->
                    IF i = 1 THEN first ELSE NextOf(cells, g[i - 1])]
  <2>1. PICK g : IsWalk(g, cells, first, n)
    BY WalkExists
  <2> QED BY <2>1, Zenon DEF IsWalk, StepOf
<1>2. f = [i \in 1 .. Cardinality(DOMAIN cells) |->
             IF i = 1 THEN first ELSE NextOf(cells, f[i - 1])]
  BY <1>1
<1>3. IsWalk(f, cells, first, n)
  BY <1>2, Zenon DEF IsWalk, StepOf
<1>4. Walk(cells, first) = [i \in 1 .. Cardinality({j \in DOMAIN f : f[j] \in DOMAIN cells}) |-> f[i]]
  BY DEF Walk
<1>5. DOMAIN f = 1 .. n
  BY <1>2
<1> HIDE DEF f
<1>6. IsRun(Walk(cells, first), f, cells, n)
  BY <1>4, <1>5 DEF IsRun
<1> QED BY <1>3, <1>6


\* The cells a walk comes to, up to the end of the list.
LEMMA WalkSteps ==
  ASSUME NEW cells, Nowhere \notin DOMAIN cells, NEW S, Addresses(S), NEW first, IsList(cells, first, S),
         NEW n \in Nat, NEW f, IsWalk(f, cells, first, n)
  PROVE  /\ n # 0 => f[1] = first
         /\ \A i \in 1 .. n : f[i] \in S \cup {Nowhere}
         /\ \A i \in 1 .. n : i + 1 \in 1 .. n =>
              /\ f[i] \in S => Adjacent(S, f[i], f[i + 1])
              /\ f[i] = Nowhere => f[i + 1] = Nowhere
<1>1. \A i \in 1 .. n : f[i] = StepOf(f, cells, first, i)
  BY DEF IsWalk
<1>2. n # 0 => f[1] = first
  BY <1>1 DEF StepOf
<1>3. \A i \in 1 .. n : i + 1 \in 1 .. n => f[i + 1] = NextOf(cells, f[i])
  <2>1. SUFFICES ASSUME NEW i \in 1 .. n, i + 1 \in 1 .. n PROVE f[i + 1] = NextOf(cells, f[i])
    OBVIOUS
  <2>2. f[i + 1] = StepOf(f, cells, first, i + 1) /\ i + 1 # 1 /\ (i + 1) - 1 = i
    BY <1>1, <2>1
  <2> QED BY <2>2 DEF StepOf
<1>4. \A a \in S : NextOf(cells, a) \in S \cup {Nowhere} /\ Adjacent(S, a, NextOf(cells, a))
  BY DEF IsList, NextOf, Adjacent
<1>5. NextOf(cells, Nowhere) = Nowhere
  BY DEF NextOf
<1> DEFINE T == {m \in Nat : m \in 1 .. n => f[m] \in S \cup {Nowhere}}
<1>6. 0 \in T
  OBVIOUS
<1>7. \A m \in Nat : m \in T => m + 1 \in T
  <2>1. SUFFICES ASSUME NEW m \in Nat, m \in T, m + 1 \in 1 .. n PROVE f[m + 1] \in S \cup {Nowhere}
    OBVIOUS
  <2>2. CASE m = 0
    <3>1. f[m + 1] = first
      BY <1>2, <2>1, <2>2
    <3> QED BY <3>1 DEF IsList, Adjacent
  <2>3. CASE m # 0
    <3>1. m \in 1 .. n
      BY <2>1, <2>3
    <3> QED BY <1>3, <1>4, <1>5, <2>1, <3>1
  <2> QED BY <2>2, <2>3
<1> HIDE DEF T
<1>8. Nat \subseteq T
  BY <1>6, <1>7, AllNumbers
<1>9. \A i \in 1 .. n : f[i] \in S \cup {Nowhere}
  BY <1>8 DEF T
<1> QED BY <1>2, <1>3, <1>4, <1>5, <1>9

\* A walk stays where it has ended.
LEMMA WalkEnds ==
  ASSUME NEW n \in Nat, NEW f,
         \A i \in 1 .. n : i + 1 \in 1 .. n => (f[i] = Nowhere => f[i + 1] = Nowhere)
  PROVE  \E l \in 0 .. n : /\ \A i \in 1 .. n : f[i] # Nowhere <=> i <= l
<1> DEFINE E == {i \in 1 .. n : f[i] = Nowhere}
<1>1. CASE E = {}
  BY <1>1
<1>2. CASE E # {}
  <2>1. PICK e \in E : \A i \in E : e <= i
    <3>1. E \subseteq Nat
      OBVIOUS
    <3> QED BY <1>2, <3>1, MinExists
  <2> DEFINE T == {m \in Nat : m \in 1 .. n /\ e <= m => f[m] = Nowhere}
  <2>2. 0 \in T
    OBVIOUS
  <2>3. \A m \in Nat : m \in T => m + 1 \in T
    <3>1. SUFFICES ASSUME NEW m \in Nat, m \in T, m + 1 \in 1 .. n, e <= m + 1 PROVE f[m + 1] = Nowhere
      OBVIOUS
    <3>2. CASE e = m + 1
      BY <3>2
    <3>3. CASE e # m + 1
      <4>1. m \in 1 .. n /\ e <= m
        BY <3>1, <3>3
      <4> QED BY <3>1, <4>1
    <3> QED BY <3>2, <3>3
  <2> HIDE DEF T
  <2>4. Nat \subseteq T
    BY <2>2, <2>3, AllNumbers
  <2>5. \A m \in 1 .. n : e <= m => f[m] = Nowhere
    BY <2>4 DEF T
  <2>6. e - 1 \in 0 .. n /\ \A i \in 1 .. n : f[i] # Nowhere <=> i <= e - 1
    BY <2>1, <2>5
  <2> QED BY <2>6
<1> QED BY <1>1, <1>2

\* Neighbours in order are in order.
LEMMA Ascending ==
  ASSUME NEW l \in Nat, NEW f, \A i \in 1 .. l : f[i] \in Nat,
         \A i \in 1 .. l : i + 1 \in 1 .. l => f[i] < f[i + 1]
  PROVE  \A i, j \in 1 .. l : i < j => f[i] < f[j]
<1> DEFINE T == {m \in Nat : m \in 1 .. l => \A i \in 1 .. l : i < m => f[i] < f[m]}
<1>1. 0 \in T
  OBVIOUS
<1>2. \A m \in Nat : m \in T => m + 1 \in T
  <2>1. SUFFICES ASSUME NEW m \in Nat, m \in T, m + 1 \in 1 .. l, NEW i \in 1 .. l, i < m + 1
                 PROVE  f[i] < f[m + 1]
    OBVIOUS
  <2>2. m \in 1 .. l /\ f[m] < f[m + 1]
    BY <2>1
  <2>3. i = m \/ i < m
    BY <2>1
  <2>4. i < m => f[i] < f[m]
    BY <2>1, <2>2
  <2>5. f[i] \in Nat /\ f[m] \in Nat /\ f[m + 1] \in Nat
    BY <2>1, <2>2
  <2> QED BY <2>2, <2>3, <2>4, <2>5
<1> HIDE DEF T
<1>3. Nat \subseteq T
  BY <1>1, <1>2, AllNumbers
<1> QED BY <1>3 DEF T

\* Walk lists the addresses of a list in their order.
LEMMA WalkIs ==
  ASSUME NEW cells, IsFiniteSet(DOMAIN cells), Nowhere \notin DOMAIN cells,
         NEW S, Addresses(S), NEW first, IsList(cells, first, S)
  PROVE  Enumerates(Walk(cells, first), S, cells, first)
<1>1. PICK n \in Nat : n = Cardinality(DOMAIN cells)
  BY FS_CardinalityType
<1>2. PICK f : IsWalk(f, cells, first, n) /\ IsRun(Walk(cells, first), f, cells, n)
  BY <1>1, WalkRun
<1>3. /\ n # 0 => f[1] = first
      /\ \A i \in 1 .. n : f[i] \in S \cup {Nowhere}
      /\ \A i \in 1 .. n : i + 1 \in 1 .. n =>
           /\ f[i] \in S => Adjacent(S, f[i], f[i + 1])
           /\ f[i] = Nowhere => f[i + 1] = Nowhere
  <2>1. IsWalk(f, cells, first, n)
    BY <1>2, Zenon
  <2> QED BY <2>1, WalkSteps
<1>4. PICK l \in 0 .. n : \A i \in 1 .. n : f[i] # Nowhere <=> i <= l
  BY <1>3, WalkEnds
<1>5. S \subseteq Nat /\ Nowhere \notin S /\ S \subseteq DOMAIN cells
  BY DEF Addresses, IsList
<1>6. \A i \in 1 .. n : f[i] \in S <=> i <= l
  BY <1>3, <1>4, <1>5
<1>7. {j \in 1 .. n : f[j] \in DOMAIN cells} = 1 .. l
  <2>1. \A j \in 1 .. n : f[j] \in DOMAIN cells <=> j <= l
    BY <1>3, <1>4, <1>5
  <2>2. \A j : j \in 1 .. l <=> j \in 1 .. n /\ j <= l
    OBVIOUS
  <2> QED BY <2>1, <2>2
<1>8. Cardinality(1 .. l) = l
  BY FS_Interval
<1>9. PICK w : w = Walk(cells, first) /\ w = [i \in 1 .. l |-> f[i]]
  BY <1>2, <1>7, <1>8 DEF IsRun
<1>10. w \in Seq(S) /\ Len(w) = l /\ \A i \in 1 .. l : w[i] = f[i] /\ w[i] \in S /\ w[i] \in Nat
  <2>1. w \in [1 .. l -> S]
    BY <1>6, <1>9
  <2>2. w \in Seq(S) /\ Len(w) = l
    BY <2>1
  <2>3. \A i \in 1 .. l : w[i] = f[i]
    BY <1>9
  <2>4. \A i \in 1 .. l : w[i] \in S
    BY <2>1
  <2> QED BY <1>5, <2>2, <2>3, <2>4
<1>11. \A i \in 1 .. l : i + 1 \in 1 .. l => Adjacent(S, w[i], w[i + 1]) /\ w[i] < w[i + 1]
  <2>1. SUFFICES ASSUME NEW i \in 1 .. l, i + 1 \in 1 .. l
                 PROVE  Adjacent(S, w[i], w[i + 1]) /\ w[i] < w[i + 1]
    OBVIOUS
  <2>2. i \in 1 .. n /\ i + 1 \in 1 .. n
    BY <2>1
  <2>3. w[i] = f[i] /\ w[i + 1] = f[i + 1] /\ f[i] \in S /\ f[i + 1] \in S
    BY <1>10, <2>1
  <2>4. Adjacent(S, w[i], w[i + 1])
    BY <1>3, <2>2, <2>3
  <2> QED BY <1>5, <2>3, <2>4 DEF Adjacent
<1>12. \A i, j \in 1 .. l : i < j => w[i] < w[j]
  <2>1. \A i \in 1 .. l : w[i] \in Nat
    BY <1>10
  <2>2. \A i \in 1 .. l : i + 1 \in 1 .. l => w[i] < w[i + 1]
    BY <1>11
  <2>3. l \in Nat
    OBVIOUS
  <2> QED BY <2>1, <2>2, <2>3, Ascending
<1>13. Adjacent(S, Nowhere, IF l = 0 THEN Nowhere ELSE w[1])
  <2>1. CASE n = 0
    <3>1. S = {}
      BY <1>1, <1>5, <2>1, FS_EmptySet
    <3> QED BY <2>1, <3>1 DEF Adjacent
  <2>2. CASE n # 0 /\ l = 0
    BY <1>3, <1>4, <2>2 DEF IsList
  <2>3. CASE l # 0
    <3>1. 1 \in 1 .. l /\ n # 0
      BY <2>3
    <3> QED BY <1>3, <1>10, <2>3, <3>1 DEF IsList
  <2> QED BY <2>1, <2>2, <2>3
<1>14. l # 0 => Adjacent(S, w[l], Nowhere)
  <2>1. SUFFICES ASSUME l # 0 PROVE Adjacent(S, w[l], Nowhere)
    OBVIOUS
  <2>2. l \in 1 .. n /\ w[l] = f[l] /\ w[l] \in S
    BY <1>10, <2>1
  <2>3. CASE l < n
    <3>1. l + 1 \in 1 .. n /\ f[l + 1] = Nowhere
      BY <1>4, <2>3
    <3> QED BY <1>3, <2>2, <3>1
  <2>4. CASE l = n
    <3>1. w \in Injection(1 .. n, DOMAIN cells)
      <4>1. w \in [1 .. n -> DOMAIN cells]
        BY <1>5, <1>9, <1>10, <2>4
      <4>2. \A i, j \in 1 .. n : w[i] = w[j] => i = j
        BY <1>10, <1>12, <2>4
      <4> QED BY <4>1, <4>2 DEF Injection, IsInjective
    <3>2. Cardinality(1 .. n) = Cardinality(DOMAIN cells)
      BY <1>1, <1>8, <2>4
    <3>3. w \in Surjection(1 .. n, DOMAIN cells)
      BY <3>1, <3>2, FS_Injection
    <3>4. \A a \in DOMAIN cells : \E i \in 1 .. n : w[i] = a
      BY <3>3 DEF Surjection
    <3>5. \A a \in S : a <= w[l]
      <4>1. SUFFICES ASSUME NEW a \in S PROVE a <= w[l]
        OBVIOUS
      <4>2. PICK i \in 1 .. n : w[i] = a
        BY <1>5, <3>4
      <4>3. i = l \/ i < l
        BY <2>4
      <4> QED BY <1>5, <1>10, <1>12, <2>2, <2>4, <4>2, <4>3
    <3> QED BY <2>2, <3>5 DEF Adjacent
  <2> QED BY <2>3, <2>4
<1>15. \A a \in S : \E i \in 1 .. l : w[i] = a
  <2>1. SUFFICES ASSUME NEW a \in S PROVE \E i \in 1 .. l : w[i] = a
    OBVIOUS
  <2>2. a \in Nat /\ a # Nowhere
    BY <1>5
  <2>3. l # 0 /\ w[1] <= a
    BY <1>13, <2>2 DEF Adjacent, Nowhere
  <2> DEFINE D == {i \in 1 .. l : w[i] <= a}
  <2>4. PICK i \in D : \A j \in D : j <= i
    <3>1. 1 \in D
      BY <2>3
    <3>2. D \subseteq Int /\ D # {} /\ l \in Int /\ \A j \in D : j <= l
      BY <3>1
    <3> QED BY <3>2, MaxExists
  <2>5. i \in 1 .. l /\ w[i] <= a /\ w[i] \in Nat
    BY <1>10, <2>4
  <2>6. CASE i = l
    BY <1>14, <2>2, <2>3, <2>5, <2>6 DEF Adjacent
  <2>7. CASE i # l
    <3>1. i + 1 \in 1 .. l
      BY <2>5, <2>7
    <3>2. ~(w[i + 1] <= a)
      BY <2>4, <3>1
    <3>3. Adjacent(S, w[i], w[i + 1])
      BY <1>11, <2>5, <3>1
    <3>4. a <= w[i]
      BY <3>2, <3>3 DEF Adjacent
    <3> QED BY <2>2, <2>5, <3>4
  <2> QED BY <2>6, <2>7
<1>16. \A k \in 1 .. l : Adjacent(S, w[k], IF k = l THEN Nowhere ELSE w[k + 1])
  <2>1. SUFFICES ASSUME NEW k \in 1 .. l PROVE Adjacent(S, w[k], IF k = l THEN Nowhere ELSE w[k + 1])
    OBVIOUS
  <2>2. k # l => k + 1 \in 1 .. l
    OBVIOUS
  <2>3. k = l => l # 0
    OBVIOUS
  <2> QED BY <1>11, <1>14, <2>2, <2>3
<1>17. Enumerates(w, S, cells, first)
  BY <1>10, <1>12, <1>13, <1>15, <1>16 DEF Enumerates
<1> QED BY <1>9, <1>17

-----------------------------------------------------------------------------
(* The lists of a heap.                                                     *)

MajorCells == [next : Nat, pages : Nat \ {0}, usage : Nat, first : Nat]
MinorCells == [next : Nat, prev : Nat, block : Nat, size : Nat, req : Nat]

MinorsIn(mn, b) == {a \in DOMAIN mn : mn[a].block = b}
EndAt(mn, a) == a + MinorSize + mn[a].size
RegionEnd(mj, b) == b + mj[b].pages * PageSize
UnitsIn(mn, b) == UNION {a .. EndAt(mn, a) - 1 : a \in MinorsIn(mn, b)}

\* A major ends before the next one and below the break, its list is that of its
\* minors, and usage counts them.
MajorOK(mj, mn, b, top) ==
  /\ mj[b] \in MajorCells
  /\ b + MajorSize <= RegionEnd(mj, b) /\ RegionEnd(mj, b) <= top
  /\ \A c \in DOMAIN mj : b < c => RegionEnd(mj, b) <= c
  /\ IsList(mn, mj[b].first, MinorsIn(mn, b))
  /\ mj[b].usage = MajorSize + Cardinality(UnitsIn(mn, b))

\* A minor lies in its major, ends before the next one, and has the one before
\* it as its prev.
MinorOK(mj, mn, a) ==
  /\ mn[a] \in MinorCells
  /\ mn[a].block \in DOMAIN mj
  /\ SizeFor(mn[a].req) <= mn[a].size
  /\ mn[a].block + MajorSize <= a /\ EndAt(mn, a) <= RegionEnd(mj, mn[a].block)
  /\ \A c \in MinorsIn(mn, mn[a].block) : a < c => EndAt(mn, a) <= c
  /\ Adjacent(MinorsIn(mn, mn[a].block), mn[a].prev, a)

MajorsOK(mj, mn, root, best, top) ==
  /\ IsFiniteSet(DOMAIN mj) /\ Addresses(DOMAIN mj)
  /\ \A b \in DOMAIN mj : MajorOK(mj, mn, b, top)
  /\ IsList(mj, root, DOMAIN mj)
  /\ best \in DOMAIN mj \cup {NoMajor}
  /\ top \in Nat \ {0}

MinorsOK(mj, mn) ==
  /\ IsFiniteSet(DOMAIN mn) /\ Addresses(DOMAIN mn)
  /\ \A a \in DOMAIN mn : MinorOK(mj, mn, a)

\* The heap with the majors mj, the minors mn, l_memRoot, l_bestBet and the break.
ListsOK(mj, mn, root, best, top) == MajorsOK(mj, mn, root, best, top) /\ MinorsOK(mj, mn)

\* What is known of one major ...
LEMMA MajorFacts ==
  ASSUME NEW mj, NEW mn, NEW root, NEW best, NEW top, ListsOK(mj, mn, root, best, top), NEW b \in DOMAIN mj
  PROVE  /\ b \in Nat \ {0} /\ mj[b] \in MajorCells
         /\ mj[b].next \in Nat /\ mj[b].pages \in Nat \ {0} /\ mj[b].usage \in Nat /\ mj[b].first \in Nat
         /\ mj[b].pages * PageSize \in Nat /\ RegionEnd(mj, b) \in Nat
         /\ b + MajorSize <= RegionEnd(mj, b) /\ RegionEnd(mj, b) <= top
         /\ IsList(mn, mj[b].first, MinorsIn(mn, b))
         /\ Addresses(MinorsIn(mn, b)) /\ MinorsIn(mn, b) \subseteq DOMAIN mn
         /\ mj[b].usage = MajorSize + Cardinality(UnitsIn(mn, b))
         /\ MajorSize \in Nat \ {0} /\ MinorSize \in Nat \ {0} /\ PageSize \in Nat \ {0} /\ top \in Nat \ {0}
<1>1. MajorOK(mj, mn, b, top) /\ b \in Nat \ {0}
  BY DEF ListsOK, MajorsOK, Addresses, Nowhere
<1>2. mj[b] \in MajorCells
  BY <1>1 DEF MajorOK
<1>3. mj[b].next \in Nat /\ mj[b].pages \in Nat \ {0} /\ mj[b].usage \in Nat /\ mj[b].first \in Nat
  BY <1>2 DEF MajorCells
<1>4. MajorSize \in Nat \ {0} /\ MinorSize \in Nat \ {0} /\ PageSize \in Nat \ {0}
  BY SizesAssumption
<1>5. mj[b].pages * PageSize \in Nat
  BY <1>3, <1>4, Products
<1>6. RegionEnd(mj, b) \in Nat
  BY <1>1, <1>5 DEF RegionEnd
<1>7. Addresses(MinorsIn(mn, b)) /\ MinorsIn(mn, b) \subseteq DOMAIN mn
  BY DEF ListsOK, MinorsOK, Addresses, MinorsIn
<1>8. /\ b + MajorSize <= RegionEnd(mj, b) /\ RegionEnd(mj, b) <= top
      /\ IsList(mn, mj[b].first, MinorsIn(mn, b))
      /\ mj[b].usage = MajorSize + Cardinality(UnitsIn(mn, b))
  BY <1>1 DEF MajorOK
<1>9. top \in Nat \ {0}
  BY DEF ListsOK, MajorsOK
<1> QED BY <1>1, <1>2, <1>3, <1>4, <1>5, <1>6, <1>7, <1>8, <1>9

\* ... and of one minor.
LEMMA MinorFacts ==
  ASSUME NEW mj, NEW mn, NEW root, NEW best, NEW top, ListsOK(mj, mn, root, best, top), NEW a \in DOMAIN mn
  PROVE  /\ a \in Nat \ {0} /\ mn[a] \in MinorCells
         /\ mn[a].next \in Nat /\ mn[a].prev \in Nat /\ mn[a].size \in Nat /\ mn[a].req \in Nat
         /\ mn[a].block \in DOMAIN mj /\ a \in MinorsIn(mn, mn[a].block)
         /\ SizeFor(mn[a].req) <= mn[a].size
         /\ EndAt(mn, a) \in Nat /\ a + MinorSize <= EndAt(mn, a)
         /\ mn[a].block + MajorSize <= a /\ EndAt(mn, a) <= RegionEnd(mj, mn[a].block)
         /\ \A c \in MinorsIn(mn, mn[a].block) : a < c => EndAt(mn, a) <= c
         /\ Adjacent(MinorsIn(mn, mn[a].block), mn[a].prev, a)
         /\ Adjacent(MinorsIn(mn, mn[a].block), a, mn[a].next)
<1>1. MinorOK(mj, mn, a) /\ a \in Nat \ {0}
  BY DEF ListsOK, MinorsOK, Addresses, Nowhere
<1>2. mn[a] \in MinorCells
  BY <1>1 DEF MinorOK
<1>3. mn[a].next \in Nat /\ mn[a].prev \in Nat /\ mn[a].size \in Nat /\ mn[a].req \in Nat
  BY <1>2 DEF MinorCells
<1>4. mn[a].block \in DOMAIN mj /\ a \in MinorsIn(mn, mn[a].block)
  BY <1>1 DEF MinorOK, MinorsIn
<1>5. EndAt(mn, a) \in Nat /\ a + MinorSize <= EndAt(mn, a)
  BY <1>1, <1>3, SizesAssumption DEF EndAt
<1>6. IsList(mn, mj[mn[a].block].first, MinorsIn(mn, mn[a].block))
  BY <1>4, MajorFacts
<1>7. Adjacent(MinorsIn(mn, mn[a].block), a, mn[a].next)
  BY <1>4, <1>6 DEF IsList
<1>8. /\ SizeFor(mn[a].req) <= mn[a].size
      /\ mn[a].block + MajorSize <= a /\ EndAt(mn, a) <= RegionEnd(mj, mn[a].block)
      /\ \A c \in MinorsIn(mn, mn[a].block) : a < c => EndAt(mn, a) <= c
      /\ Adjacent(MinorsIn(mn, mn[a].block), mn[a].prev, a)
  BY <1>1 DEF MinorOK
<1> QED BY <1>1, <1>2, <1>3, <1>4, <1>5, <1>7, <1>8

\* Units of different majors.
LEMMA MajorsApart ==
  ASSUME NEW mj, NEW mn, NEW root, NEW best, NEW top, ListsOK(mj, mn, root, best, top),
         NEW b \in DOMAIN mj, NEW c \in DOMAIN mj, b < c
  PROVE  RegionEnd(mj, b) <= c
BY DEF ListsOK, MajorsOK, MajorOK

\* Two minors lie apart.
LEMMA MinorsApart ==
  ASSUME NEW mj, NEW mn, NEW root, NEW best, NEW top, ListsOK(mj, mn, root, best, top),
         NEW a \in DOMAIN mn, NEW c \in DOMAIN mn, a < c
  PROVE  EndAt(mn, a) <= c
<1>1. CASE mn[a].block = mn[c].block
  <2>1. c \in MinorsIn(mn, mn[a].block)
    BY <1>1 DEF MinorsIn
  <2> QED BY <2>1, MinorFacts
<1>2. PICK b \in DOMAIN mj, d \in DOMAIN mj : b = mn[a].block /\ d = mn[c].block
  BY MinorFacts
<1>3. /\ a \in Nat /\ c \in Nat /\ b \in Nat /\ d \in Nat
      /\ EndAt(mn, a) \in Nat /\ a + MinorSize <= EndAt(mn, a) /\ b + MajorSize <= a /\ EndAt(mn, a) <= RegionEnd(mj, b)
      /\ EndAt(mn, c) \in Nat /\ c + MinorSize <= EndAt(mn, c) /\ d + MajorSize <= c /\ EndAt(mn, c) <= RegionEnd(mj, d)
  BY <1>2, MinorFacts, MajorFacts
<1>4. /\ MajorSize \in Nat \ {0} /\ MinorSize \in Nat \ {0} /\ RegionEnd(mj, b) \in Nat /\ RegionEnd(mj, d) \in Nat
  BY <1>2, MajorFacts
<1>5. CASE b < d
  <2>1. RegionEnd(mj, b) <= d
    BY <1>2, <1>5, MajorsApart
  <2> QED BY <1>3, <1>4, <2>1
<1>6. CASE d < b
  <2>1. RegionEnd(mj, d) <= b
    BY <1>2, <1>6, MajorsApart
  <2> QED BY <1>3, <1>4, <2>1
<1> QED BY <1>1, <1>2, <1>3, <1>5, <1>6

\* A major as malloc sees it.
ViewOf(mj, mn, b) ==
  [base |-> b, pages |-> mj[b].pages, usage |-> mj[b].usage,
   minors |-> LET ats == Walk(mn, mj[b].first)
              IN  [k \in DOMAIN ats |-> MinorAt(ats[k], mn[ats[k]].size, mn[ats[k]].req)]]

ViewAll(mj, mn, root) ==
  LET bases == Walk(mj, root) IN [i \in DOMAIN bases |-> ViewOf(mj, mn, bases[i])]

LEMMA MajorsAre == Majors = ViewAll(major, minor, memRoot)
BY DEF Majors, ViewAll, ViewOf, MinorsOf

\* The minors of a major are the cells of its list.
LEMMA MinorsWalk ==
  ASSUME NEW mj, NEW mn, NEW root, NEW best, NEW top, ListsOK(mj, mn, root, best, top), NEW b \in DOMAIN mj
  PROVE  Enumerates(Walk(mn, mj[b].first), MinorsIn(mn, b), mn, mj[b].first)
<1>1. IsList(mn, mj[b].first, MinorsIn(mn, b)) /\ Addresses(MinorsIn(mn, b))
  BY MajorFacts
<1>2. IsFiniteSet(DOMAIN mn) /\ Nowhere \notin DOMAIN mn
  BY DEF ListsOK, MinorsOK, Addresses
<1> QED BY <1>1, <1>2, WalkIs

LEMMA ViewMinors ==
  ASSUME NEW mj, NEW mn, NEW root, NEW best, NEW top, ListsOK(mj, mn, root, best, top), NEW b \in DOMAIN mj,
         NEW m, m = ViewOf(mj, mn, b), NEW w, w = Walk(mn, mj[b].first)
  PROVE  /\ m \in MajorTypes /\ m.base = b /\ m.pages = mj[b].pages /\ m.usage = mj[b].usage
         /\ Len(m.minors) = Len(w) /\ Len(w) \in Nat /\ DOMAIN w = 1 .. Len(w)
         /\ \A k \in 1 .. Len(w) :
              /\ w[k] \in MinorsIn(mn, b) /\ w[k] \in DOMAIN mn
              /\ m.minors[k].at = w[k] /\ m.minors[k].size = mn[w[k]].size /\ m.minors[k].req = mn[w[k]].req
              /\ EndOf(m.minors[k]) = EndAt(mn, w[k])
<1>1. w \in Seq(MinorsIn(mn, b))
  BY MinorsWalk DEF Enumerates
<1>2. Len(w) \in Nat /\ DOMAIN w = 1 .. Len(w)
  BY <1>1, LenProperties
<1>3. \A k \in 1 .. Len(w) : w[k] \in MinorsIn(mn, b) /\ w[k] \in DOMAIN mn
  BY <1>1, <1>2, ElementOfSeq, MajorFacts
<1>4. PICK xs : xs = [k \in 1 .. Len(w) |-> MinorAt(w[k], mn[w[k]].size, mn[w[k]].req)]
  OBVIOUS
<1>5. m = [base |-> b, pages |-> mj[b].pages, usage |-> mj[b].usage, minors |-> xs]
  BY <1>2, <1>4 DEF ViewOf
<1>6. m.base = b /\ m.pages = mj[b].pages /\ m.usage = mj[b].usage /\ m.minors = xs
  BY <1>5
<1>7. \A k \in 1 .. Len(w) : /\ xs[k] = MinorAt(w[k], mn[w[k]].size, mn[w[k]].req)
                             /\ w[k] \in Nat /\ mn[w[k]].size \in Nat /\ mn[w[k]].req \in Nat
  <2>1. \A k \in 1 .. Len(w) : xs[k] = MinorAt(w[k], mn[w[k]].size, mn[w[k]].req)
    BY <1>4
  <2>2. \A a \in DOMAIN mn : a \in Nat /\ mn[a].size \in Nat /\ mn[a].req \in Nat
    BY MinorFacts
  <2> QED BY <1>3, <2>1, <2>2
<1>8. \A k \in 1 .. Len(w) : xs[k] \in Minors
  <2>1. SUFFICES ASSUME NEW k \in 1 .. Len(w) PROVE xs[k] \in Minors
    OBVIOUS
  <2>2. xs[k] = [at |-> w[k], size |-> mn[w[k]].size, req |-> mn[w[k]].req]
    BY <1>7 DEF MinorAt
  <2> QED BY <1>7, <2>2 DEF Minors
<1>9. xs \in [1 .. Len(w) -> Minors]
  BY <1>4, <1>8
<1>10. xs \in Seq(Minors) /\ Len(xs) = Len(w)
  BY <1>2, <1>9
<1>11. m \in MajorTypes
  BY <1>5, <1>10, MajorFacts DEF MajorTypes
<1>12. ASSUME NEW k \in 1 .. Len(w)
       PROVE  /\ xs[k].at = w[k] /\ xs[k].size = mn[w[k]].size /\ xs[k].req = mn[w[k]].req
              /\ EndOf(xs[k]) = EndAt(mn, w[k])
  <2>1. xs[k] = [at |-> w[k], size |-> mn[w[k]].size, req |-> mn[w[k]].req]
    BY <1>7 DEF MinorAt
  <2>2. xs[k].at = w[k] /\ xs[k].size = mn[w[k]].size /\ xs[k].req = mn[w[k]].req
    BY <2>1
  <2> QED BY <2>2 DEF EndOf, EndAt
<1> QED BY <1>2, <1>3, <1>6, <1>10, <1>11, <1>12

LEMMA ViewIs ==
  ASSUME NEW mj, NEW mn, NEW root, NEW best, NEW top, ListsOK(mj, mn, root, best, top), NEW b \in DOMAIN mj,
         NEW m, m = ViewOf(mj, mn, b)
  PROVE  MajorInv(m) /\ MajorEnd(m) = RegionEnd(mj, b)
<1>1. PICK w : w = Walk(mn, mj[b].first)
  OBVIOUS
<1>2. /\ m \in MajorTypes /\ m.base = b /\ m.pages = mj[b].pages /\ m.usage = mj[b].usage
      /\ Len(m.minors) = Len(w) /\ Len(w) \in Nat
      /\ \A k \in 1 .. Len(w) :
           /\ w[k] \in MinorsIn(mn, b) /\ w[k] \in DOMAIN mn
           /\ m.minors[k].at = w[k] /\ m.minors[k].size = mn[w[k]].size /\ m.minors[k].req = mn[w[k]].req
           /\ EndOf(m.minors[k]) = EndAt(mn, w[k])
  BY <1>1, ViewMinors
<1>3. DOMAIN m.minors = 1 .. Len(w)
  BY <1>2, MajorNumbers
<1>4. MajorEnd(m) = RegionEnd(mj, b)
  BY <1>2 DEF MajorEnd, RegionEnd
<1>5. /\ \A a \in MinorsIn(mn, b) : \E i \in 1 .. Len(w) : w[i] = a
      /\ \A i, j \in 1 .. Len(w) : i < j => w[i] < w[j]
  BY <1>1, MinorsWalk DEF Enumerates
<1>6. ASSUME NEW k \in 1 .. Len(w)
      PROVE  /\ MinorSound(m.minors[k])
             /\ b + MajorSize <= m.minors[k].at /\ EndOf(m.minors[k]) <= MajorEnd(m)
  <2>1. PICK a \in DOMAIN mn : a = w[k] /\ mn[a].block = b
    BY <1>2 DEF MinorsIn
  <2>2. PICK x : x = m.minors[k]
    OBVIOUS
  <2>3. x.at = a /\ x.req = mn[a].req /\ x.size = mn[a].size /\ EndOf(x) = EndAt(mn, a)
    BY <1>2, <2>1, <2>2
  <2>4. /\ a \in Nat /\ mn[a].req \in Nat /\ mn[a].size \in Nat /\ SizeFor(mn[a].req) <= mn[a].size
        /\ b + MajorSize <= a /\ EndAt(mn, a) <= RegionEnd(mj, b)
    BY <2>1, MinorFacts
  <2>5. PICK y : y = MinorAt(a, SizeFor(mn[a].req), mn[a].req)
    OBVIOUS
  <2>6. y.at = a /\ y.size = SizeFor(mn[a].req) /\ y.req = mn[a].req
    BY <2>5 DEF MinorAt
  <2>7. MinorSound(y) /\ PointerOf(a) \in Nat /\ SizeFor(mn[a].req) \in Nat
    BY <2>4, <2>5, PointerInside
  <2>8. MinorSound(x)
    BY <2>3, <2>4, <2>6, <2>7, SizesAssumption DEF MinorSound, EndOf
  <2> QED BY <1>4, <2>2, <2>3, <2>4, <2>8
<1>7. ASSUME NEW j \in 1 .. Len(w), NEW k \in 1 .. Len(w), j < k
      PROVE  EndOf(m.minors[j]) <= m.minors[k].at
  <2>1. w[j] < w[k] /\ w[j] \in DOMAIN mn /\ w[k] \in DOMAIN mn
    BY <1>2, <1>5, <1>7
  <2>2. EndAt(mn, w[j]) <= w[k]
    BY <2>1, MinorsApart
  <2> QED BY <1>2, <2>2
<1>8. UnitsOf(m) = UnitsIn(mn, b)
  <2>1. ASSUME NEW u PROVE u \in UnitsOf(m) <=> u \in UnitsIn(mn, b)
    <3>1. u \in UnitsOf(m) <=> \E k \in DOMAIN m.minors : u \in m.minors[k].at .. EndOf(m.minors[k]) - 1
      BY <1>2, UnitIs
    <3>2. u \in UnitsOf(m) <=> \E k \in 1 .. Len(w) : u \in w[k] .. EndAt(mn, w[k]) - 1
      BY <1>2, <1>3, <3>1
    <3>3. u \in UnitsIn(mn, b) <=> \E a \in MinorsIn(mn, b) : u \in a .. EndAt(mn, a) - 1
      BY DEF UnitsIn
    <3> QED BY <1>2, <1>5, <3>2, <3>3
  <2> QED BY <2>1
<1>9. UsageSound(m)
  BY <1>2, <1>8, MajorFacts DEF UsageSound
<1>10. m.base + MajorSize <= MajorEnd(m)
  BY <1>2, <1>4, MajorFacts
<1>11. \A j, k \in DOMAIN m.minors : j < k => EndOf(m.minors[j]) <= m.minors[k].at
  BY <1>3, <1>7
<1>12. \A k \in DOMAIN m.minors :
       /\ MinorSound(m.minors[k])
       /\ m.base + MajorSize <= m.minors[k].at /\ EndOf(m.minors[k]) <= MajorEnd(m)
  BY <1>2, <1>3, <1>6
<1>13. MajorInv(m)
  BY <1>2, <1>9, <1>10, <1>11, <1>12 DEF MajorInv
<1> QED BY <1>4, <1>13

\* The list of the majors.
LEMMA ViewAllIs ==
  ASSUME NEW mj, NEW mn, NEW root, NEW best, NEW top, ListsOK(mj, mn, root, best, top),
         NEW ms, ms = ViewAll(mj, mn, root)
  PROVE  /\ ms \in Seq(MajorTypes)
         /\ \A i \in DOMAIN ms : /\ MajorInv(ms[i]) /\ MajorEnd(ms[i]) = RegionEnd(mj, ms[i].base)
                                 /\ MajorEnd(ms[i]) <= top
                                 /\ ms[i].base \in DOMAIN mj /\ ms[i] = ViewOf(mj, mn, ms[i].base)
         /\ \A b \in DOMAIN mj : \E i \in DOMAIN ms : ms[i].base = b
         /\ \A i, j \in DOMAIN ms : i < j => MajorEnd(ms[i]) <= ms[j].base
         /\ Adjacent(DOMAIN mj, IF ms = <<>> THEN Nowhere ELSE Last(ms).base, Nowhere)
         /\ Names(ms, best)
<1>1. PICK w : w = Walk(mj, root)
  OBVIOUS
<1>2. Enumerates(w, DOMAIN mj, mj, root)
  <2>1. IsFiniteSet(DOMAIN mj) /\ Nowhere \notin DOMAIN mj /\ Addresses(DOMAIN mj) /\ IsList(mj, root, DOMAIN mj)
    BY DEF ListsOK, MajorsOK, Addresses
  <2> QED BY <1>1, <2>1, WalkIs
<1>3. w \in Seq(DOMAIN mj)
  BY <1>2 DEF Enumerates
<1>4. Len(w) \in Nat /\ DOMAIN w = 1 .. Len(w)
  BY <1>3, LenProperties
<1>5. \A i \in 1 .. Len(w) : w[i] \in DOMAIN mj
  BY <1>3, <1>4, ElementOfSeq
<1>6. ms = [i \in 1 .. Len(w) |-> ViewOf(mj, mn, w[i])]
  BY <1>1, <1>4 DEF ViewAll
<1>7. ASSUME NEW i \in 1 .. Len(w)
      PROVE  /\ ms[i] \in MajorTypes /\ ms[i].base = w[i] /\ ms[i] = ViewOf(mj, mn, w[i])
             /\ MajorInv(ms[i]) /\ MajorEnd(ms[i]) = RegionEnd(mj, w[i]) /\ MajorEnd(ms[i]) <= top
             /\ w[i] \in DOMAIN mj
  <2>1. PICK b \in DOMAIN mj : b = w[i]
    BY <1>5
  <2>2. ms[i] = ViewOf(mj, mn, b)
    BY <1>6, <2>1
  <2>3. ms[i] \in MajorTypes /\ ms[i].base = b
    BY <2>2, ViewMinors
  <2>4. MajorInv(ms[i]) /\ MajorEnd(ms[i]) = RegionEnd(mj, b)
    BY <2>2, ViewIs
  <2>5. RegionEnd(mj, b) <= top
    BY MajorFacts
  <2> QED BY <2>1, <2>2, <2>3, <2>4, <2>5
<1>8. ms \in [1 .. Len(w) -> MajorTypes]
  BY <1>6, <1>7
<1>9. ms \in Seq(MajorTypes) /\ Len(ms) = Len(w) /\ DOMAIN ms = 1 .. Len(w)
  BY <1>4, <1>8
<1>10. \A b \in DOMAIN mj : \E i \in 1 .. Len(w) : w[i] = b
  BY <1>2 DEF Enumerates
<1>11. ASSUME NEW i \in 1 .. Len(w), NEW j \in 1 .. Len(w), i < j
       PROVE  MajorEnd(ms[i]) <= ms[j].base
  <2>1. w[i] < w[j]
    BY <1>2, <1>11 DEF Enumerates
  <2>2. PICK b \in DOMAIN mj, c \in DOMAIN mj : b = w[i] /\ c = w[j]
    BY <1>5
  <2>3. RegionEnd(mj, b) <= c
    BY <2>1, <2>2, MajorsApart
  <2> QED BY <1>7, <2>2, <2>3
<1>12. Adjacent(DOMAIN mj, IF ms = <<>> THEN Nowhere ELSE Last(ms).base, Nowhere)
  <2>1. CASE Len(w) = 0
    <3>1. ms = <<>>
      BY <1>9, <2>1, EmptySeq
    <3> QED BY <1>2, <2>1, <3>1 DEF Enumerates
  <2>2. CASE Len(w) # 0
    <3>1. ms # <<>>
      BY <1>9, <2>2, EmptySeq
    <3>2. Last(ms) = ms[Len(w)]
      BY <1>9 DEF Last
    <3>3. Len(w) \in 1 .. Len(w)
      BY <1>4, <2>2
    <3>4. Last(ms).base = w[Len(w)]
      BY <1>7, <3>2, <3>3
    <3>5. Adjacent(DOMAIN mj, w[Len(w)], Nowhere)
      BY <1>2, <3>3 DEF Enumerates
    <3> QED BY <3>1, <3>4, <3>5
  <2> QED BY <2>1, <2>2
<1>13. Names(ms, best)
  <2>1. best # NoMajor => best \in DOMAIN mj
    BY DEF ListsOK, MajorsOK
  <2> QED BY <1>7, <1>9, <1>10, <2>1 DEF Names
<1>14. \A b \in DOMAIN mj : \E i \in DOMAIN ms : ms[i].base = b
  BY <1>7, <1>9, <1>10
<1>15. \A i, j \in DOMAIN ms : i < j => MajorEnd(ms[i]) <= ms[j].base
  BY <1>9, <1>11
<1>16. \A i \in DOMAIN ms : /\ MajorInv(ms[i]) /\ MajorEnd(ms[i]) = RegionEnd(mj, ms[i].base)
                            /\ MajorEnd(ms[i]) <= top
                            /\ ms[i].base \in DOMAIN mj /\ ms[i] = ViewOf(mj, mn, ms[i].base)
  BY <1>7, <1>9
<1> QED BY <1>9, <1>12, <1>13, <1>14, <1>15, <1>16

AllSound(ms) == (\A i \in DOMAIN ms : MajorSound(ms[i]) /\ UsageSound(ms[i])) /\ MajorsDisjoint(ms)

LinkedBack(mj, mn) ==
  \A b \in DOMAIN mj : \A k \in DOMAIN Walk(mn, mj[b].first) :
    LET ats == Walk(mn, mj[b].first)
    IN  /\ mn[ats[k]].block = b
        /\ mn[ats[k]].prev = IF k = 1 THEN Nowhere ELSE ats[k - 1]

\* The lists say what the runs ask of them.
LEMMA ListsAreCoherent ==
  ASSUME NEW mj, NEW mn, NEW root, NEW best, NEW top, ListsOK(mj, mn, root, best, top),
         NEW ms, ms = ViewAll(mj, mn, root)
  PROVE  /\ AllSound(ms) /\ LinkedBack(mj, mn)
         /\ DOMAIN mn = UNION {ToSet(Walk(mn, mj[b].first)) : b \in DOMAIN mj}
<1>1. /\ ms \in Seq(MajorTypes)
      /\ \A i \in DOMAIN ms : MajorInv(ms[i])
      /\ \A i, j \in DOMAIN ms : i < j => MajorEnd(ms[i]) <= ms[j].base
  BY ViewAllIs
<1>2. \A i \in DOMAIN ms : MajorSound(ms[i]) /\ UsageSound(ms[i])
  BY <1>1, MajorIsSound DEF MajorInv
<1>3. MajorsDisjoint(ms)
  <2>1. DOMAIN ms = 1 .. Len(ms) /\ Len(ms) \in Nat
    BY <1>1, LenProperties
  <2>2. \A i, j \in DOMAIN ms : i # j => i < j \/ j < i
    BY <2>1
  <2> QED BY <1>1, <2>2 DEF MajorsDisjoint
<1>4. ASSUME NEW b \in DOMAIN mj, NEW w, w = Walk(mn, mj[b].first)
      PROVE  /\ ToSet(w) = MinorsIn(mn, b)
             /\ \A k \in DOMAIN w : mn[w[k]].block = b /\ mn[w[k]].prev = IF k = 1 THEN Nowhere ELSE w[k - 1]
  <2>1. Len(w) \in Nat /\ DOMAIN w = 1 .. Len(w) /\ \A k \in 1 .. Len(w) : w[k] \in MinorsIn(mn, b)
    BY <1>4, ViewMinors
  <2>2. Enumerates(w, MinorsIn(mn, b), mn, mj[b].first)
    BY <1>4, MinorsWalk
  <2>3. ToSet(w) = MinorsIn(mn, b)
    <3>1. \A a \in MinorsIn(mn, b) : \E i \in 1 .. Len(w) : w[i] = a
      BY <2>2 DEF Enumerates
    <3>2. \A a : a \in ToSet(w) <=> \E i \in 1 .. Len(w) : w[i] = a
      BY <2>1 DEF ToSet
    <3> QED BY <2>1, <3>1, <3>2
  <2>4. ASSUME NEW k \in 1 .. Len(w)
        PROVE  mn[w[k]].block = b /\ mn[w[k]].prev = IF k = 1 THEN Nowhere ELSE w[k - 1]
    <3>1. w[k] \in DOMAIN mn /\ mn[w[k]].block = b
      BY <2>1 DEF MinorsIn
    <3>2. PICK S, p : S = MinorsIn(mn, b) /\ p = mn[w[k]].prev /\ Addresses(S) /\ Adjacent(S, p, w[k])
      BY <3>1, MajorFacts, MinorFacts
    <3>3. CASE k = 1
      <4>1. Len(w) # 0
        BY <2>1, <3>3
      <4>2. Adjacent(S, Nowhere, w[1])
        BY <2>2, <3>2, <4>1 DEF Enumerates
      <4>3. p = Nowhere
        BY <3>2, <3>3, <4>2, OneBefore
      <4> QED BY <3>1, <3>2, <3>3, <4>3
    <3>4. CASE k # 1
      <4>1. k - 1 \in 1 .. Len(w) /\ k - 1 # Len(w) /\ (k - 1) + 1 = k
        BY <2>1, <3>4
      <4>2. Adjacent(S, w[k - 1], w[k])
        BY <2>2, <3>2, <4>1 DEF Enumerates
      <4>3. p = w[k - 1]
        BY <3>2, <4>2, OneBefore
      <4> QED BY <3>1, <3>2, <3>4, <4>3
    <3> QED BY <3>1, <3>3, <3>4
  <2> QED BY <2>1, <2>3, <2>4
<1>5. DOMAIN mn = UNION {ToSet(Walk(mn, mj[b].first)) : b \in DOMAIN mj}
  <2>1. \A b \in DOMAIN mj : ToSet(Walk(mn, mj[b].first)) = MinorsIn(mn, b)
    BY <1>4
  <2>2. \A a \in DOMAIN mn : mn[a].block \in DOMAIN mj /\ a \in MinorsIn(mn, mn[a].block)
    BY MinorFacts
  <2>3. \A b : MinorsIn(mn, b) \subseteq DOMAIN mn
    BY DEF MinorsIn
  <2> QED BY <2>1, <2>2, <2>3
<1>6. LinkedBack(mj, mn)
  BY <1>4 DEF LinkedBack
<1> QED BY <1>2, <1>3, <1>5, <1>6 DEF AllSound

-----------------------------------------------------------------------------
(* Where a new minor goes.                                                  *)

\* The minor that follows the place of a job.
NextFor(mj, mn, j) == IF j.last THEN Nowhere
                      ELSE IF j.after = Nowhere THEN mj[j.block].first ELSE NextOf(mn, j.after)

\* The place is the gap between two neighbours of one major, and fits it.
PlaceOK(mj, mn, j) ==
  /\ j.block \in DOMAIN mj
  /\ Adjacent(MinorsIn(mn, j.block), j.after, NextFor(mj, mn, j))
  /\ j.at = IF j.after = Nowhere THEN j.block + MajorSize ELSE EndAt(mn, j.after)
  /\ j.at + MinorSize + SizeFor(j.req) <=
       IF NextFor(mj, mn, j) = Nowhere THEN RegionEnd(mj, j.block) ELSE NextFor(mj, mn, j)

\* The job names a gap that fits.
GapJob(m, k, j) ==
  /\ j.block = m.base /\ j.at = GapStart(m, k) /\ j.last = (k = Len(m.minors))
  /\ j.after = IF k = 0 THEN Nowhere ELSE m.minors[k].at

LEMMA GapPlaces ==
  ASSUME NEW mj, NEW mn, NEW root, NEW best, NEW top, ListsOK(mj, mn, root, best, top), NEW b \in DOMAIN mj,
         NEW m, m = ViewOf(mj, mn, b), NEW j, j.req \in Nat,
         NEW k \in 0 .. Len(m.minors), GapFits(m, k, SizeFor(j.req)), GapJob(m, k, j)
  PROVE  PlaceOK(mj, mn, j)
<1>1. PICK w : w = Walk(mn, mj[b].first)
  OBVIOUS
<1>2. /\ m \in MajorTypes /\ m.base = b /\ m.pages = mj[b].pages /\ m.usage = mj[b].usage
      /\ Len(m.minors) = Len(w) /\ Len(w) \in Nat
      /\ \A i \in 1 .. Len(w) :
           /\ w[i] \in MinorsIn(mn, b) /\ w[i] \in DOMAIN mn /\ m.minors[i].at = w[i]
           /\ EndOf(m.minors[i]) = EndAt(mn, w[i])
  BY <1>1, ViewMinors
<1>3. MajorEnd(m) = RegionEnd(mj, b)
  BY ViewIs
<1>4. PICK S : S = MinorsIn(mn, b) /\ Addresses(S)
  BY MajorFacts
<1>5. /\ Adjacent(S, Nowhere, IF Len(w) = 0 THEN Nowhere ELSE w[1])
      /\ \A i \in 1 .. Len(w) : Adjacent(S, w[i], IF i = Len(w) THEN Nowhere ELSE w[i + 1])
  BY <1>1, <1>4, MinorsWalk DEF Enumerates
<1>6. PICK next : next = IF k = Len(w) THEN Nowhere ELSE w[k + 1]
  OBVIOUS
<1>7. j.block = b /\ j.after = IF k = 0 THEN Nowhere ELSE w[k]
  BY <1>2 DEF GapJob
<1>8. Adjacent(S, j.after, next)
  BY <1>2, <1>5, <1>6, <1>7
<1>9. k # 0 => j.after # Nowhere /\ j.after \in DOMAIN mn
  <2>1. SUFFICES ASSUME k # 0 PROVE w[k] # Nowhere /\ w[k] \in DOMAIN mn
    BY <1>7
  <2>2. k \in 1 .. Len(w)
    BY <1>2, <2>1
  <2> QED BY <1>2, <1>4, <2>2 DEF Addresses
<1>10. NextFor(mj, mn, j) = next
  <2>1. CASE k = Len(w)
    BY <1>2, <1>6, <2>1 DEF NextFor, GapJob
  <2>2. CASE k # Len(w) /\ k = 0
    <3>1. NextFor(mj, mn, j) = mj[b].first
      BY <1>2, <1>7, <2>2 DEF NextFor, GapJob
    <3>2. Adjacent(S, Nowhere, mj[b].first)
      BY <1>4, MajorFacts DEF IsList
    <3> QED BY <1>4, <1>7, <1>8, <2>2, <3>1, <3>2, OneNeighbour
  <2>3. CASE k # Len(w) /\ k # 0
    <3>1. PICK a \in DOMAIN mn : a = j.after /\ mn[a].block = b
      <4>1. k \in 1 .. Len(w)
        BY <1>2, <2>3
      <4> QED BY <1>2, <1>7, <2>3, <4>1 DEF MinorsIn
    <3>2. NextFor(mj, mn, j) = mn[a].next
      BY <1>2, <1>9, <2>3, <3>1 DEF NextFor, GapJob, NextOf
    <3>3. Adjacent(S, a, mn[a].next)
      BY <1>4, <3>1, MinorFacts
    <3> QED BY <1>4, <1>8, <3>1, <3>2, <3>3, OneNeighbour
  <2> QED BY <2>1, <2>2, <2>3
<1>11. j.at = IF j.after = Nowhere THEN b + MajorSize ELSE EndAt(mn, j.after)
  <2>1. CASE k = 0
    BY <1>2, <1>7, <2>1 DEF GapJob, GapStart
  <2>2. CASE k # 0
    <3>1. k \in 1 .. Len(w)
      BY <1>2, <2>2
    <3>2. j.at = EndOf(m.minors[k])
      BY <2>2 DEF GapJob, GapStart, EndOf
    <3> QED BY <1>2, <1>7, <1>9, <2>2, <3>1, <3>2
  <2> QED BY <2>1, <2>2
<1>12. GapEnd(m, k) = IF next = Nowhere THEN RegionEnd(mj, b) ELSE next
  <2>1. CASE k = Len(w)
    BY <1>2, <1>3, <1>6, <2>1 DEF GapEnd
  <2>2. CASE k # Len(w)
    <3>1. k + 1 \in 1 .. Len(w)
      BY <1>2, <2>2
    <3>2. next = w[k + 1] /\ next \in S
      BY <1>2, <1>4, <1>6, <2>2, <3>1
    <3> QED BY <1>2, <1>4, <2>2, <3>1, <3>2 DEF GapEnd, Addresses
  <2> QED BY <2>1, <2>2
<1>13. /\ GapEnd(m, k) \in Int /\ GapStart(m, k) \in Int /\ SizeFor(j.req) \in Int /\ MinorSize \in Int
       /\ GapEnd(m, k) - GapStart(m, k) >= SizeFor(j.req) + MinorSize
  <2>1. RegionEnd(mj, b) \in Nat /\ b \in Nat /\ MajorSize \in Nat /\ MinorSize \in Nat
    BY MajorFacts
  <2>2. GapEnd(m, k) \in Int
    BY <1>4, <1>8, <1>12, <2>1 DEF Adjacent, Addresses, Nowhere
  <2>3. GapStart(m, k) \in Int
    <3>1. \A a \in DOMAIN mn : EndAt(mn, a) \in Nat
      BY MinorFacts
    <3> QED BY <1>7, <1>9, <1>11, <2>1, <3>1 DEF GapJob
  <2>4. SizeFor(j.req) \in Int
    BY SizesAssumption DEF SizeFor
  <2> QED BY <2>1, <2>2, <2>3, <2>4 DEF GapFits
<1>14. j.at + MinorSize + SizeFor(j.req) <= GapEnd(m, k)
  <2>1. j.at = GapStart(m, k)
    BY DEF GapJob
  <2> QED BY <1>13, <2>1
<1> QED BY <1>4, <1>7, <1>8, <1>10, <1>11, <1>12, <1>14 DEF PlaceOK

\* l_bestBet names a major after the loop of malloc.
LEMMA BestIn ==
  ASSUME NEW mj, NEW mn, NEW root, NEW best, NEW top, ListsOK(mj, mn, root, best, top),
         NEW ms, ms = ViewAll(mj, mn, root), NEW vs \in Seq(DOMAIN ms)
  PROVE  BestAfter(ms, best, vs) \in DOMAIN mj \cup {NoMajor}
<1>1. /\ ms \in Seq(MajorTypes)
      /\ \A i \in DOMAIN ms : MajorInv(ms[i]) /\ MajorEnd(ms[i]) <= top /\ ms[i].base \in DOMAIN mj
      /\ Names(ms, best)
  BY ViewAllIs
<1>2. top \in Nat
  BY DEF ListsOK, MajorsOK
<1>3. \A i \in DOMAIN ms : MajorInv(ms[i]) /\ MajorEnd(ms[i]) <= top
  BY <1>1
<1>4. Names(ms, BestAfter(ms, best, vs))
  BY <1>1, <1>2, <1>3, BestNames
<1> QED BY <1>1, <1>4 DEF Names

\* Another l_bestBet.
LEMMA BestChanges ==
  ASSUME NEW mj, NEW mn, NEW root, NEW best, NEW top, ListsOK(mj, mn, root, best, top),
         NEW other \in DOMAIN mj \cup {NoMajor}
  PROVE  ListsOK(mj, mn, root, other, top)
BY DEF ListsOK, MajorsOK

\* A search that succeeds leaves a place for the new minor ...
LEMMA SearchPlaces ==
  ASSUME NEW mj, NEW mn, NEW root, NEW best, NEW top, ListsOK(mj, mn, root, best, top),
         NEW ms, ms = ViewAll(mj, mn, root), NEW j, j.req \in Nat,
         NEW size, size = SizeFor(j.req), NEW vs, vs = Visits(ms, best, size),
         NEW v, v = TakenAt(ms, best, size), v # 0,
         GapJob(ms[vs[v]], GapIn(ms[vs[v]], size), j)
  PROVE  /\ PlaceOK(mj, mn, j)
         /\ BestAfter(ms, best, SubSeq(vs, 1, v)) \in DOMAIN mj \cup {NoMajor}
<1>1. /\ ms \in Seq(MajorTypes) /\ Names(ms, best)
      /\ \A i \in DOMAIN ms : MajorInv(ms[i]) /\ ms[i].base \in DOMAIN mj /\ ms[i] = ViewOf(mj, mn, ms[i].base)
  BY ViewAllIs
<1>2. v \in DOMAIN vs /\ vs[v] \in DOMAIN ms /\ Takes(ms[vs[v]], size)
  BY <1>1, TakenIs
<1>3. vs \in Seq(DOMAIN ms)
  BY <1>1, VisitsAll
<1>4. PICK m : m = ms[vs[v]]
  OBVIOUS
<1>5. size \in Nat
  BY SizesAssumption DEF SizeFor
<1>6. MajorInv(m) /\ Takes(m, size) /\ m.base \in DOMAIN mj /\ m = ViewOf(mj, mn, m.base)
  BY <1>1, <1>2, <1>4
<1>7. GapIn(m, size) \in 0 .. Len(m.minors) /\ GapFits(m, GapIn(m, size), size)
  BY <1>5, <1>6, GapIs
<1>8. GapJob(m, GapIn(m, size), j)
  BY <1>4
<1>9. PlaceOK(mj, mn, j)
  BY <1>6, <1>7, <1>8, GapPlaces
<1>10. SubSeq(vs, 1, v) \in Seq(DOMAIN ms)
  <2>1. DOMAIN vs = 1 .. Len(vs) /\ Len(vs) \in Nat
    BY <1>3, LenProperties
  <2>2. \A i \in 1 .. v : vs[i] \in DOMAIN ms
    BY <1>2, <1>3, <2>1, ElementOfSeq
  <2>3. 1 \in Int /\ v \in Int
    BY <1>2, <2>1
  <2> QED BY <2>2, <2>3, SubSeqProperties
<1> QED BY <1>9, <1>10, BestIn

\* ... and one that fails has come to the last major.
GrowBehind(mj, behind) == Adjacent(DOMAIN mj, behind, Nowhere)

LEMMA SearchFails ==
  ASSUME NEW mj, NEW mn, NEW root, NEW best, NEW top, ListsOK(mj, mn, root, best, top),
         NEW ms, ms = ViewAll(mj, mn, root), NEW size
  PROVE  /\ GrowBehind(mj, IF ms = <<>> THEN NoMajor ELSE Last(ms).base)
         /\ (IF ms = <<>> THEN best ELSE BestAfter(ms, best, Visits(ms, best, size)))
              \in DOMAIN mj \cup {NoMajor}
<1>1. /\ ms \in Seq(MajorTypes) /\ Names(ms, best)
      /\ Adjacent(DOMAIN mj, IF ms = <<>> THEN Nowhere ELSE Last(ms).base, Nowhere)
  BY ViewAllIs
<1>2. GrowBehind(mj, IF ms = <<>> THEN NoMajor ELSE Last(ms).base)
  BY <1>1 DEF GrowBehind, NoMajor, Nowhere
<1>3. Visits(ms, best, size) \in Seq(DOMAIN ms)
  BY <1>1, VisitsAll
<1>4. BestAfter(ms, best, Visits(ms, best, size)) \in DOMAIN mj \cup {NoMajor}
  BY <1>3, BestIn
<1>5. best \in DOMAIN mj \cup {NoMajor}
  BY DEF ListsOK, MajorsOK
<1> QED BY <1>2, <1>4, <1>5

-----------------------------------------------------------------------------
(* A new major.                                                             *)

\* The pages that are asked for hold the request.
LEMMA PagesSuffice ==
  ASSUME NEW size \in Nat
  PROVE  /\ PagesFor(size) \in Nat \ {0} /\ PagesFor(size) * PageSize \in Nat
         /\ size + MajorSize + MinorSize <= PagesFor(size) * PageSize
<1>1. MajorSize \in Nat \ {0} /\ MinorSize \in Nat \ {0} /\ PageSize \in Nat \ {0} /\ PageCount \in Nat \ {0}
  BY SizesAssumption
<1>2. PICK x \in Nat \ {0} : x = size + MajorSize + MinorSize
  BY <1>1
<1>3. PICK a \in Nat : a = size + MajorSize + MinorSize + PageSize - 1 /\ a = x + PageSize - 1
  BY <1>1, <1>2
<1>4. PICK whole : whole = a \div PageSize
  OBVIOUS
<1>5. PagesFor(size) = IF whole < PageCount THEN PageCount ELSE whole
  BY <1>3, <1>4 DEF PagesFor
<1>6. whole \in Nat /\ whole * PageSize \in Nat /\ a < whole * PageSize + PageSize
  BY <1>1, <1>4, Division, Products
<1>7. x <= whole * PageSize
  BY <1>1, <1>3, <1>6
<1>8. PICK p : p = PagesFor(size)
  OBVIOUS
<1>9. p \in Nat \ {0} /\ whole <= p
  BY <1>1, <1>5, <1>6, <1>8
<1>10. p * PageSize \in Nat /\ whole * PageSize <= p * PageSize
  BY <1>1, <1>6, <1>9, ProductOrder, Products
<1>11. size + MajorSize + MinorSize <= p * PageSize
  BY <1>2, <1>6, <1>7, <1>10
<1> QED BY <1>8, <1>9, <1>10, <1>11

\* What allocate_new_page and malloc leave: a major at the old break, behind the last one.
GrownFrom(mj, mj1, behind, base, pages) ==
  /\ DOMAIN mj1 = DOMAIN mj \cup {base}
  /\ mj1[base] = [next |-> NoMajor, pages |-> pages, usage |-> MajorSize, first |-> Nowhere]
  /\ \A b \in DOMAIN mj : b # base =>
       mj1[b] = [next |-> IF b = behind THEN base ELSE mj[b].next, pages |-> mj[b].pages,
                 usage |-> mj[b].usage, first |-> mj[b].first]

LEMMA GrownIs ==
  ASSUME NEW mj, \A b \in DOMAIN mj : mj[b] \in MajorCells, NoMajor \notin DOMAIN mj,
         NEW behind, NEW base, NEW fresh, NEW pages,
         fresh = [next |-> NoMajor, pages |-> pages, usage |-> MajorSize, first |-> Nowhere],
         NEW linked, linked = IF behind = NoMajor THEN mj ELSE [mj EXCEPT ![behind].next = base]
  PROVE  GrownFrom(mj, With(linked, base, fresh), behind, base, pages)
<1>1. DOMAIN linked = DOMAIN mj
  OBVIOUS
<1>2. PICK mj1 : mj1 = With(linked, base, fresh)
  OBVIOUS
<1>3. /\ DOMAIN mj1 = DOMAIN mj \cup {base} /\ mj1[base] = fresh
      /\ \A b \in DOMAIN mj : b # base => mj1[b] = linked[b]
  BY <1>1, <1>2 DEF With
<1>4. ASSUME NEW b \in DOMAIN mj
      PROVE  linked[b] = [next |-> IF b = behind THEN base ELSE mj[b].next, pages |-> mj[b].pages,
                          usage |-> mj[b].usage, first |-> mj[b].first]
  <2>1. PICK x : x = mj[b]
    OBVIOUS
  <2>2. x = [next |-> x.next, pages |-> x.pages, usage |-> x.usage, first |-> x.first]
    BY <2>1 DEF MajorCells
  <2>3. linked[b] = IF b = behind THEN [x EXCEPT !.next = base] ELSE x
    BY <2>1
  <2>4. [x EXCEPT !.next = base] = [next |-> base, pages |-> x.pages, usage |-> x.usage, first |-> x.first]
    BY <2>2
  <2> QED BY <2>1, <2>2, <2>3, <2>4
<1> QED BY <1>2, <1>3, <1>4 DEF GrownFrom

\* New pages from the old break on, behind the last major, and a place at their start.
NewPages(mj, root, best, top, behind, j, mj1, root1, best1, top1) ==
  LET pages == PagesFor(SizeFor(j.req))
  IN  /\ GrownFrom(mj, mj1, behind, top, pages)
      /\ root1 = (IF behind = NoMajor THEN top ELSE root)
      /\ best1 \in {best, top} /\ top1 = top + pages * PageSize
      /\ j.block = top /\ j.at = top + MajorSize /\ j.last = TRUE /\ j.after = Nowhere

LEMMA GrowKeeps ==
  ASSUME NEW mj, NEW mn, NEW root, NEW best, NEW top, ListsOK(mj, mn, root, best, top),
         NEW behind, GrowBehind(mj, behind), NEW j, j.req \in Nat, NEW mj1, NEW root1, NEW best1, NEW top1,
         NewPages(mj, root, best, top, behind, j, mj1, root1, best1, top1)
  PROVE  ListsOK(mj1, mn, root1, best1, top1) /\ PlaceOK(mj1, mn, j)
<1> SUFFICES ASSUME NEW size, size = SizeFor(j.req), NEW pages, pages = PagesFor(size),
                    GrownFrom(mj, mj1, behind, top, pages),
                    root1 = IF behind = NoMajor THEN top ELSE root, best1 \in {best, top},
                    top1 = top + pages * PageSize,
                    j.block = top, j.at = top + MajorSize, j.last = TRUE, j.after = Nowhere
             PROVE  ListsOK(mj1, mn, root1, best1, top1) /\ PlaceOK(mj1, mn, j)
  BY DEF NewPages
<1>1. size \in Nat /\ top \in Nat \ {0} /\ MajorSize \in Nat \ {0} /\ MinorSize \in Nat \ {0}
  BY SizesAssumption DEF SizeFor, ListsOK, MajorsOK
<1>2. PICK more \in Nat : more = pages * PageSize /\ size + MajorSize + MinorSize <= more /\ pages \in Nat \ {0}
  BY <1>1, PagesSuffice
<1>3. top1 \in Nat \ {0} /\ top1 = top + more
  BY <1>1, <1>2
<1>4. \A b \in DOMAIN mj : b \in Nat \ {0} /\ b < top /\ RegionEnd(mj, b) \in Nat /\ RegionEnd(mj, b) <= top
  <2>1. SUFFICES ASSUME NEW b \in DOMAIN mj
                 PROVE  b \in Nat \ {0} /\ b < top /\ RegionEnd(mj, b) \in Nat /\ RegionEnd(mj, b) <= top
    OBVIOUS
  <2>2. /\ b \in Nat \ {0} /\ RegionEnd(mj, b) \in Nat /\ RegionEnd(mj, b) <= top
        /\ b + MajorSize <= RegionEnd(mj, b)
    BY MajorFacts
  <2> QED BY <1>1, <2>2
<1>5. top \notin DOMAIN mj /\ DOMAIN mj1 = DOMAIN mj \cup {top}
  BY <1>1, <1>4 DEF GrownFrom
<1>6. /\ mj1[top] \in MajorCells /\ mj1[top].next = NoMajor /\ mj1[top].pages = pages
      /\ mj1[top].usage = MajorSize /\ mj1[top].first = Nowhere
  <2>1. mj1[top] = [next |-> NoMajor, pages |-> pages, usage |-> MajorSize, first |-> Nowhere]
    BY DEF GrownFrom
  <2> QED BY <1>1, <1>2, <2>1 DEF MajorCells, NoMajor, Nowhere
<1>7. ASSUME NEW b \in DOMAIN mj
      PROVE  /\ mj1[b] \in MajorCells /\ mj1[b].pages = mj[b].pages /\ mj1[b].usage = mj[b].usage
             /\ mj1[b].first = mj[b].first /\ mj1[b].next = IF b = behind THEN top ELSE mj[b].next
             /\ RegionEnd(mj1, b) = RegionEnd(mj, b)
  <2>1. mj1[b] = [next |-> IF b = behind THEN top ELSE mj[b].next, pages |-> mj[b].pages,
                  usage |-> mj[b].usage, first |-> mj[b].first]
    BY <1>5 DEF GrownFrom
  <2>2. mj[b].next \in Nat /\ mj[b].pages \in Nat \ {0} /\ mj[b].usage \in Nat /\ mj[b].first \in Nat
    BY MajorFacts
  <2>3. PICK next \in Nat : next = IF b = behind THEN top ELSE mj[b].next
    BY <1>1, <2>2
  <2>4. mj1[b] = [next |-> next, pages |-> mj[b].pages, usage |-> mj[b].usage, first |-> mj[b].first]
    BY <2>1, <2>3
  <2>5. mj1[b] \in MajorCells
    BY <2>2, <2>3, <2>4 DEF MajorCells
  <2>6. /\ mj1[b].pages = mj[b].pages /\ mj1[b].usage = mj[b].usage
        /\ mj1[b].first = mj[b].first /\ mj1[b].next = next
    BY <2>4
  <2> QED BY <2>3, <2>5, <2>6 DEF RegionEnd
<1>8. RegionEnd(mj1, top) = top1
  BY <1>2, <1>3, <1>6 DEF RegionEnd
<1>9. Addresses(DOMAIN mj) /\ Addresses(DOMAIN mj1) /\ IsFiniteSet(DOMAIN mj1)
  <2>1. IsFiniteSet(DOMAIN mj) /\ Addresses(DOMAIN mj)
    BY DEF ListsOK, MajorsOK
  <2> QED BY <1>1, <1>5, <2>1, FS_AddElement DEF Addresses, Nowhere
<1>10. MinorsIn(mn, top) = {} /\ UnitsIn(mn, top) = {}
  <2>1. \A a \in DOMAIN mn : mn[a].block \in DOMAIN mj
    BY MinorFacts
  <2>2. MinorsIn(mn, top) = {}
    BY <1>5, <2>1 DEF MinorsIn
  <2> QED BY <2>2 DEF UnitsIn
<1>11. ASSUME NEW b \in DOMAIN mj PROVE MajorOK(mj1, mn, b, top1)
  <2>1. /\ b + MajorSize <= RegionEnd(mj, b) /\ IsList(mn, mj[b].first, MinorsIn(mn, b))
        /\ mj[b].usage = MajorSize + Cardinality(UnitsIn(mn, b))
    BY MajorFacts
  <2>2. RegionEnd(mj1, b) <= top1
    BY <1>1, <1>2, <1>3, <1>4, <1>7
  <2>3. \A c \in DOMAIN mj1 : b < c => RegionEnd(mj1, b) <= c
    BY <1>4, <1>5, <1>7, MajorsApart
  <2> QED BY <1>7, <2>1, <2>2, <2>3 DEF MajorOK
<1>12. MajorOK(mj1, mn, top, top1)
  <2>1. top + MajorSize <= RegionEnd(mj1, top) /\ RegionEnd(mj1, top) <= top1
    BY <1>1, <1>2, <1>3, <1>8
  <2>2. \A c \in DOMAIN mj1 : top < c => RegionEnd(mj1, top) <= c
    BY <1>1, <1>4, <1>5
  <2>3. IsList(mn, mj1[top].first, MinorsIn(mn, top))
    BY <1>6, <1>10 DEF IsList, Adjacent
  <2>4. mj1[top].usage = MajorSize + Cardinality(UnitsIn(mn, top))
    BY <1>1, <1>6, <1>10, FS_EmptySet
  <2> QED BY <1>6, <2>1, <2>2, <2>3, <2>4 DEF MajorOK
<1>13. IsList(mj1, root1, DOMAIN mj1)
  <2>1. PICK S, S1 : S = DOMAIN mj /\ S1 = DOMAIN mj1 /\ S1 = S \cup {top} /\ Addresses(S)
    BY <1>5, <1>9
  <2>2. Adjacent(S, behind, Nowhere) /\ behind \in S \cup {Nowhere}
    BY <2>1 DEF GrowBehind, Adjacent
  <2>3. behind < top /\ top \in Nat \ {Nowhere}
    BY <1>1, <1>4, <2>1, <2>2 DEF Nowhere
  <2>4. /\ Adjacent(S1, behind, top) /\ Adjacent(S1, top, Nowhere)
        /\ \A c, d : Adjacent(S, c, d) /\ c # behind => Adjacent(S1, c, d)
    <3>1. Addresses(S)
      BY <2>1
    <3>2. /\ Adjacent(S \cup {top}, behind, top) /\ Adjacent(S \cup {top}, top, Nowhere)
          /\ \A c, d : Adjacent(S, c, d) /\ c # behind => Adjacent(S \cup {top}, c, d)
      BY <2>2, <2>3, <3>1, PutBetween
    <3> QED BY <2>1, <3>2
  <2>5. IsList(mj, root, S)
    BY <2>1 DEF ListsOK, MajorsOK
  <2>6. Adjacent(S1, Nowhere, root1)
    BY <2>4, <2>5 DEF IsList, NoMajor, Nowhere
  <2>7. ASSUME NEW b \in S1 PROVE Adjacent(S1, b, mj1[b].next)
    <3>1. CASE b = top
      BY <1>6, <2>4, <3>1 DEF NoMajor, Nowhere
    <3>2. CASE b # top
      <4>1. b \in S /\ Adjacent(S, b, mj[b].next)
        BY <2>1, <2>5, <3>2 DEF IsList
      <4>2. mj1[b].next = IF b = behind THEN top ELSE mj[b].next
        BY <1>7, <2>1, <4>1
      <4> QED BY <2>4, <4>1, <4>2
    <3> QED BY <3>1, <3>2
  <2> QED BY <2>1, <2>6, <2>7 DEF IsList
<1>14. best1 \in DOMAIN mj1 \cup {NoMajor}
  BY <1>5 DEF ListsOK, MajorsOK
<1>15. MajorsOK(mj1, mn, root1, best1, top1)
  BY <1>3, <1>5, <1>9, <1>11, <1>12, <1>13, <1>14 DEF MajorsOK
<1>16. MinorsOK(mj1, mn)
  <2>1. ASSUME NEW a \in DOMAIN mn PROVE MinorOK(mj1, mn, a)
    <3>1. MinorOK(mj, mn, a) /\ mn[a].block \in DOMAIN mj
      BY DEF ListsOK, MinorsOK, MinorOK
    <3>2. mn[a].block \in DOMAIN mj1 /\ RegionEnd(mj1, mn[a].block) = RegionEnd(mj, mn[a].block)
      BY <1>5, <1>7, <3>1
    <3> QED BY <3>1, <3>2 DEF MinorOK
  <2> QED BY <2>1 DEF ListsOK, MinorsOK
<1>17. PlaceOK(mj1, mn, j)
  <2>1. NextFor(mj1, mn, j) = Nowhere
    BY DEF NextFor
  <2>2. Adjacent(MinorsIn(mn, j.block), j.after, Nowhere)
    BY <1>10 DEF Adjacent
  <2>3. j.at + MinorSize + SizeFor(j.req) <= RegionEnd(mj1, j.block)
    BY <1>1, <1>2, <1>3, <1>8
  <2> QED BY <1>5, <2>1, <2>2, <2>3 DEF PlaceOK
<1> QED BY <1>15, <1>16, <1>17 DEF ListsOK

-----------------------------------------------------------------------------
(* A new minor.                                                             *)

\* The units of a major lie in it.
LEMMA UnitsFinite ==
  ASSUME NEW mj, NEW mn, NEW root, NEW best, NEW top, ListsOK(mj, mn, root, best, top), NEW b \in DOMAIN mj
  PROVE  IsFiniteSet(UnitsIn(mn, b)) /\ Cardinality(UnitsIn(mn, b)) \in Nat
<1>1. b \in Nat /\ RegionEnd(mj, b) \in Nat /\ MajorSize \in Nat
  BY MajorFacts
<1>2. UnitsIn(mn, b) \subseteq b .. RegionEnd(mj, b)
  <2>1. SUFFICES ASSUME NEW u \in UnitsIn(mn, b) PROVE u \in b .. RegionEnd(mj, b)
    OBVIOUS
  <2>2. PICK a \in MinorsIn(mn, b) : u \in a .. EndAt(mn, a) - 1
    BY DEF UnitsIn
  <2>3. a \in DOMAIN mn /\ mn[a].block = b
    BY DEF MinorsIn
  <2>4. a \in Nat /\ EndAt(mn, a) \in Nat /\ b + MajorSize <= a /\ EndAt(mn, a) <= RegionEnd(mj, b)
    BY <2>3, MinorFacts
  <2> QED BY <1>1, <2>2, <2>4
<1>3. IsFiniteSet(b .. RegionEnd(mj, b))
  BY <1>1, FS_Interval
<1>4. IsFiniteSet(UnitsIn(mn, b))
  BY <1>2, <1>3, FS_Subset
<1> QED BY <1>4, FS_CardinalityType

\* The minors with one more, at the place of a job.
LinkedFrom(mn, mn1, j, next, size) ==
  /\ DOMAIN mn1 = DOMAIN mn \cup {j.at}
  /\ mn1[j.at] = [next |-> next, prev |-> j.after, block |-> j.block, size |-> size, req |-> j.req]
  /\ \A a \in DOMAIN mn : a # j.at =>
       mn1[a] = [next |-> IF a = j.after THEN j.at ELSE mn[a].next,
                 prev |-> IF a = next THEN j.at ELSE mn[a].prev,
                 block |-> mn[a].block, size |-> mn[a].size, req |-> mn[a].req]

LEMMA LinkedIs ==
  ASSUME NEW mn, \A a \in DOMAIN mn : mn[a] \in MinorCells, Nowhere \notin DOMAIN mn,
         NEW j, NEW next, NEW size, NEW new,
         new = [next |-> next, prev |-> j.after, block |-> j.block, size |-> size, req |-> j.req],
         NEW behind, behind = IF j.after = Nowhere THEN mn ELSE [mn EXCEPT ![j.after].next = j.at],
         NEW around, around = IF next = Nowhere THEN behind ELSE [behind EXCEPT ![next].prev = j.at]
  PROVE  LinkedFrom(mn, With(around, j.at, new), j, next, size)
<1>1. DOMAIN behind = DOMAIN mn /\ DOMAIN around = DOMAIN mn
  OBVIOUS
<1>2. PICK mn1 : mn1 = With(around, j.at, new)
  OBVIOUS
<1>3. /\ DOMAIN mn1 = DOMAIN mn \cup {j.at} /\ mn1[j.at] = new
      /\ \A a \in DOMAIN mn : a # j.at => mn1[a] = around[a]
  BY <1>1, <1>2 DEF With
<1>4. ASSUME NEW a \in DOMAIN mn
      PROVE  around[a] = [next |-> IF a = j.after THEN j.at ELSE mn[a].next,
                          prev |-> IF a = next THEN j.at ELSE mn[a].prev,
                          block |-> mn[a].block, size |-> mn[a].size, req |-> mn[a].req]
  <2>1. PICK x : x = mn[a]
    OBVIOUS
  <2>2. x = [next |-> x.next, prev |-> x.prev, block |-> x.block, size |-> x.size, req |-> x.req]
    BY <2>1 DEF MinorCells
  <2>3. PICK y : y = IF a = j.after THEN [x EXCEPT !.next = j.at] ELSE x
    OBVIOUS
  <2>4. behind[a] = y
    BY <2>1, <2>3
  <2>5. y = [next |-> IF a = j.after THEN j.at ELSE x.next, prev |-> x.prev, block |-> x.block,
             size |-> x.size, req |-> x.req]
    BY <2>2, <2>3
  <2>6. around[a] = IF a = next THEN [y EXCEPT !.prev = j.at] ELSE y
    BY <1>1, <2>4
  <2>7. around[a] = [next |-> IF a = j.after THEN j.at ELSE x.next,
                     prev |-> IF a = next THEN j.at ELSE x.prev,
                     block |-> x.block, size |-> x.size, req |-> x.req]
    <3>1. PICK n : n = IF a = j.after THEN j.at ELSE x.next
      OBVIOUS
    <3>2. y = [next |-> n, prev |-> x.prev, block |-> x.block, size |-> x.size, req |-> x.req]
      BY <2>5, <3>1
    <3>3. [y EXCEPT !.prev = j.at] = [next |-> n, prev |-> j.at, block |-> x.block, size |-> x.size, req |-> x.req]
      BY <3>2
    <3>4. CASE a = next
      BY <2>6, <3>1, <3>3, <3>4
    <3>5. CASE a # next
      BY <2>6, <3>1, <3>2, <3>5
    <3> QED BY <3>4, <3>5
  <2> QED BY <2>1, <2>7
<1>5. ASSUME NEW a \in DOMAIN mn, a # j.at
      PROVE  mn1[a] = [next |-> IF a = j.after THEN j.at ELSE mn[a].next,
                       prev |-> IF a = next THEN j.at ELSE mn[a].prev,
                       block |-> mn[a].block, size |-> mn[a].size, req |-> mn[a].req]
  <2>1. mn1[a] = around[a]
    BY <1>3, <1>5
  <2> QED BY <1>4, <2>1, Zenon
<1>6. DOMAIN mn1 = DOMAIN mn \cup {j.at} /\ mn1[j.at] = new
  BY <1>3
<1>7. LinkedFrom(mn, mn1, j, next, size)
  BY <1>5, <1>6, Zenon DEF LinkedFrom
<1> QED BY <1>2, <1>7

\* The majors when one of them has got more to count, and perhaps another first minor.
CountedFrom(mj, mj1, block, more, first) ==
  /\ DOMAIN mj1 = DOMAIN mj
  /\ \A b \in DOMAIN mj :
       mj1[b] = [next |-> mj[b].next, pages |-> mj[b].pages,
                 usage |-> IF b = block THEN mj[b].usage + more ELSE mj[b].usage,
                 first |-> IF b = block THEN first ELSE mj[b].first]

\* What such a change keeps.
LEMMA CountedFacts ==
  ASSUME NEW mj, NEW mn, NEW root, NEW best, NEW top, ListsOK(mj, mn, root, best, top),
         NEW mj1, NEW block \in DOMAIN mj, NEW more \in Int, NEW first \in Nat,
         mj[block].usage + more \in Nat, CountedFrom(mj, mj1, block, more, first)
  PROVE  /\ DOMAIN mj1 = DOMAIN mj
         /\ \A b \in DOMAIN mj :
              /\ mj1[b] \in MajorCells /\ mj1[b].next = mj[b].next /\ mj1[b].pages = mj[b].pages
              /\ RegionEnd(mj1, b) = RegionEnd(mj, b)
              /\ mj1[b].usage = IF b = block THEN mj[b].usage + more ELSE mj[b].usage
              /\ mj1[b].first = IF b = block THEN first ELSE mj[b].first
         /\ IsList(mj1, root, DOMAIN mj1)
<1>1. DOMAIN mj1 = DOMAIN mj
  BY DEF CountedFrom
<1>2. ASSUME NEW b \in DOMAIN mj
      PROVE  /\ mj1[b] \in MajorCells /\ mj1[b].next = mj[b].next /\ mj1[b].pages = mj[b].pages
             /\ RegionEnd(mj1, b) = RegionEnd(mj, b)
             /\ mj1[b].usage = IF b = block THEN mj[b].usage + more ELSE mj[b].usage
             /\ mj1[b].first = IF b = block THEN first ELSE mj[b].first
  <2>1. mj[b].next \in Nat /\ mj[b].pages \in Nat \ {0} /\ mj[b].usage \in Nat /\ mj[b].first \in Nat
    BY MajorFacts
  <2>2. PICK u \in Nat, f \in Nat : /\ u = IF b = block THEN mj[b].usage + more ELSE mj[b].usage
                                    /\ f = IF b = block THEN first ELSE mj[b].first
    BY <2>1
  <2>3. mj1[b] = [next |-> mj[b].next, pages |-> mj[b].pages, usage |-> u, first |-> f]
    BY <2>2 DEF CountedFrom
  <2>4. mj1[b] \in MajorCells
    BY <2>1, <2>2, <2>3 DEF MajorCells
  <2>5. mj1[b].next = mj[b].next /\ mj1[b].pages = mj[b].pages /\ mj1[b].usage = u /\ mj1[b].first = f
    BY <2>3
  <2> QED BY <2>2, <2>4, <2>5 DEF RegionEnd
<1>3. IsList(mj, root, DOMAIN mj)
  BY DEF ListsOK, MajorsOK
<1>4. IsList(mj1, root, DOMAIN mj1)
  BY <1>1, <1>2, <1>3 DEF IsList
<1> QED BY <1>1, <1>2, <1>4

LEMMA CountedIs ==
  ASSUME NEW mj, \A b \in DOMAIN mj : mj[b] \in MajorCells, NEW block, NEW u, NEW first, NEW more,
         block \in DOMAIN mj => u = mj[block].usage + more,
         NEW mj1, mj1 = [mj EXCEPT ![block].usage = u, ![block].first = first]
  PROVE  CountedFrom(mj, mj1, block, more, first)
<1>1. DOMAIN mj1 = DOMAIN mj
  OBVIOUS
<1>2. ASSUME NEW b \in DOMAIN mj
      PROVE  mj1[b] = [next |-> mj[b].next, pages |-> mj[b].pages,
                       usage |-> IF b = block THEN mj[b].usage + more ELSE mj[b].usage,
                       first |-> IF b = block THEN first ELSE mj[b].first]
  <2>1. PICK x : x = mj[b]
    OBVIOUS
  <2>2. x = [next |-> x.next, pages |-> x.pages, usage |-> x.usage, first |-> x.first]
    BY <2>1 DEF MajorCells
  <2>3. CASE b = block
    <3>1. mj1[b] = [[x EXCEPT !.usage = u] EXCEPT !.first = first]
      BY <2>1, <2>3
    <3>2. mj1[b] = [next |-> x.next, pages |-> x.pages, usage |-> u, first |-> first]
      BY <2>2, <3>1
    <3> QED BY <2>1, <2>3, <3>2
  <2>4. CASE b # block
    <3>1. mj1[b] = x
      BY <2>1, <2>4
    <3> QED BY <2>1, <2>2, <2>4, <3>1
  <2> QED BY <2>3, <2>4
<1> QED BY <1>1, <1>2 DEF CountedFrom

\* The place of a job lies apart from the minors.
LEMMA PlaceFacts ==
  ASSUME NEW mj, NEW mn, NEW root, NEW best, NEW top, ListsOK(mj, mn, root, best, top),
         NEW j, j.req \in Nat, PlaceOK(mj, mn, j), NEW next, next = NextFor(mj, mn, j),
         NEW size, size = SizeFor(j.req), NEW x, x = j.at, NEW end, end = x + MinorSize + size
  PROVE  /\ x \in Nat \ {Nowhere} /\ size \in Nat /\ end \in Nat /\ x < end
         /\ j.block + MajorSize <= x /\ end <= RegionEnd(mj, j.block)
         /\ j.after < x /\ (next # Nowhere => x < next)
         /\ \A a \in MinorsIn(mn, j.block) : EndAt(mn, a) <= x \/ end <= a
         /\ x \notin DOMAIN mn
<1>1. PICK b \in DOMAIN mj : b = j.block
  BY DEF PlaceOK
<1>2. PICK after, S : /\ after = j.after /\ S = MinorsIn(mn, b) /\ Adjacent(S, after, next) /\ Addresses(S)
                      /\ S \subseteq DOMAIN mn
  BY <1>1, MajorFacts DEF PlaceOK
<1>3. /\ x = IF after = Nowhere THEN b + MajorSize ELSE EndAt(mn, after)
      /\ end <= IF next = Nowhere THEN RegionEnd(mj, b) ELSE next
  BY <1>1, <1>2 DEF PlaceOK
<1>4. /\ b \in Nat \ {0} /\ RegionEnd(mj, b) \in Nat /\ MajorSize \in Nat \ {0} /\ MinorSize \in Nat \ {0}
  BY MajorFacts
<1>5. size \in Nat
  BY SizesAssumption DEF SizeFor
<1>6. \A a \in S : /\ a \in Nat \ {0} /\ a \in DOMAIN mn /\ EndAt(mn, a) \in Nat /\ a + MinorSize <= EndAt(mn, a)
                   /\ b + MajorSize <= a /\ EndAt(mn, a) <= RegionEnd(mj, b)
  <2>1. SUFFICES ASSUME NEW a \in S
                 PROVE  /\ a \in Nat \ {0} /\ a \in DOMAIN mn /\ EndAt(mn, a) \in Nat /\ a + MinorSize <= EndAt(mn, a)
                        /\ b + MajorSize <= a /\ EndAt(mn, a) <= RegionEnd(mj, b)
    OBVIOUS
  <2>2. a \in DOMAIN mn /\ mn[a].block = b
    BY <1>2 DEF MinorsIn
  <2> QED BY <2>2, MinorFacts
<1>7. after \in Nat /\ (after # Nowhere => after \in S) /\ next \in Nat /\ (next # Nowhere => next \in S)
  BY <1>2, <1>6 DEF Adjacent, Nowhere
<1>8. /\ x \in Nat \ {Nowhere} /\ end \in Nat /\ x < end /\ after < x /\ b + MajorSize <= x
      /\ (after # Nowhere => x = EndAt(mn, after))
  BY <1>3, <1>4, <1>5, <1>6, <1>7 DEF Nowhere
<1>9. end <= RegionEnd(mj, b) /\ (next # Nowhere => x < next /\ end <= next)
  BY <1>3, <1>4, <1>6, <1>7, <1>8
<1>10. ASSUME NEW a \in S PROVE EndAt(mn, a) <= x \/ end <= a
  <2>1. a <= after \/ (next # Nowhere /\ next <= a)
    BY <1>2 DEF Adjacent
  <2>2. CASE a <= after
    <3>1. after # Nowhere /\ after \in S
      BY <1>6, <1>7, <2>2 DEF Nowhere
    <3>2. a < after => EndAt(mn, a) <= after
      BY <1>6, <3>1, MinorsApart
    <3> QED BY <1>6, <1>7, <1>8, <2>2, <3>1, <3>2
  <2>3. CASE next # Nowhere /\ next <= a
    BY <1>6, <1>7, <1>8, <1>9, <2>3
  <2> QED BY <2>1, <2>2, <2>3
<1>11. x \notin DOMAIN mn
  <2>1. SUFFICES ASSUME x \in DOMAIN mn PROVE FALSE
    OBVIOUS
  <2>2. PICK d \in DOMAIN mj : d = mn[x].block
    BY <2>1, MinorFacts
  <2>3. /\ EndAt(mn, x) \in Nat /\ x + MinorSize <= EndAt(mn, x) /\ d + MajorSize <= x
        /\ EndAt(mn, x) <= RegionEnd(mj, d)
    BY <2>1, <2>2, MinorFacts
  <2>4. d \in Nat /\ RegionEnd(mj, d) \in Nat
    BY MajorFacts
  <2>5. CASE d = b
    <3>1. x \in S
      BY <1>2, <2>1, <2>2, <2>5 DEF MinorsIn
    <3> QED BY <1>4, <1>8, <1>10, <2>3, <3>1
  <2>6. CASE d < b
    <3>1. RegionEnd(mj, d) <= b
      BY <2>6, MajorsApart
    <3> QED BY <1>4, <1>8, <2>3, <2>4, <3>1
  <2>7. CASE b < d
    <3>1. RegionEnd(mj, b) <= d
      BY <2>7, MajorsApart
    <3> QED BY <1>4, <1>8, <1>9, <2>3, <2>4, <3>1
  <2> QED BY <1>4, <2>4, <2>5, <2>6, <2>7
<1> QED BY <1>1, <1>2, <1>5, <1>8, <1>9, <1>10, <1>11

\* The cells after a new minor was linked.
PlacedCells(mn, mn1, x, end, b, after, next, size, req) ==
  /\ DOMAIN mn1 = DOMAIN mn \cup {x}
  /\ mn1[x] \in MinorCells /\ mn1[x].next = next /\ mn1[x].prev = after /\ mn1[x].block = b
  /\ mn1[x].size = size /\ mn1[x].req = req /\ EndAt(mn1, x) = end
  /\ \A a \in DOMAIN mn :
       /\ mn1[a] \in MinorCells /\ mn1[a].block = mn[a].block /\ mn1[a].size = mn[a].size
       /\ mn1[a].req = mn[a].req /\ EndAt(mn1, a) = EndAt(mn, a)
       /\ mn1[a].next = IF a = after THEN x ELSE mn[a].next
       /\ mn1[a].prev = IF a = next THEN x ELSE mn[a].prev
  /\ MinorsIn(mn1, b) = MinorsIn(mn, b) \cup {x}
  /\ \A d : d # b => MinorsIn(mn1, d) = MinorsIn(mn, d)

LEMMA LinkedFacts ==
  ASSUME NEW mj, NEW mn, NEW root, NEW best, NEW top, ListsOK(mj, mn, root, best, top),
         NEW j, j.req \in Nat, PlaceOK(mj, mn, j), NEW next, next = NextFor(mj, mn, j),
         NEW size, size = SizeFor(j.req), NEW mn1, LinkedFrom(mn, mn1, j, next, size),
         NEW x, x = j.at, NEW end, end = x + MinorSize + size, NEW b, b = j.block, NEW after, after = j.after
  PROVE  PlacedCells(mn, mn1, x, end, b, after, next, size, j.req)
<1>1. x \in Nat \ {Nowhere} /\ size \in Nat /\ x \notin DOMAIN mn
  BY PlaceFacts
<1>2. b \in DOMAIN mj /\ b \in Nat
  BY MajorFacts DEF PlaceOK
<1>3. next \in Nat /\ after \in Nat
  <2>1. Adjacent(MinorsIn(mn, b), after, next) /\ Addresses(MinorsIn(mn, b))
    BY <1>2, MajorFacts DEF PlaceOK
  <2> QED BY <2>1 DEF Adjacent, Addresses, Nowhere
<1>4. DOMAIN mn1 = DOMAIN mn \cup {x}
  BY DEF LinkedFrom
<1>5. /\ mn1[x] \in MinorCells /\ mn1[x].next = next /\ mn1[x].prev = after /\ mn1[x].block = b
      /\ mn1[x].size = size /\ mn1[x].req = j.req
  <2>1. mn1[x] = [next |-> next, prev |-> after, block |-> b, size |-> size, req |-> j.req]
    BY DEF LinkedFrom
  <2>2. mn1[x] \in MinorCells
    BY <1>1, <1>2, <1>3, <2>1 DEF MinorCells
  <2> QED BY <2>1, <2>2
<1>6. ASSUME NEW a \in DOMAIN mn
      PROVE  /\ mn1[a] \in MinorCells /\ mn1[a].block = mn[a].block /\ mn1[a].size = mn[a].size
             /\ mn1[a].req = mn[a].req /\ EndAt(mn1, a) = EndAt(mn, a)
             /\ mn1[a].next = IF a = after THEN x ELSE mn[a].next
             /\ mn1[a].prev = IF a = next THEN x ELSE mn[a].prev
  <2>1. /\ mn[a].next \in Nat /\ mn[a].prev \in Nat /\ mn[a].size \in Nat /\ mn[a].req \in Nat
        /\ mn[a].block \in Nat
    BY MinorFacts, MajorFacts
  <2>2. PICK n \in Nat, p \in Nat : /\ n = IF a = after THEN x ELSE mn[a].next
                                    /\ p = IF a = next THEN x ELSE mn[a].prev
    BY <1>1, <2>1
  <2>3. mn1[a] = [next |-> n, prev |-> p, block |-> mn[a].block, size |-> mn[a].size, req |-> mn[a].req]
    BY <1>1, <2>2 DEF LinkedFrom
  <2>4. mn1[a] \in MinorCells
    BY <2>1, <2>2, <2>3 DEF MinorCells
  <2>5. /\ mn1[a].next = n /\ mn1[a].prev = p /\ mn1[a].block = mn[a].block /\ mn1[a].size = mn[a].size
        /\ mn1[a].req = mn[a].req
    BY <2>3
  <2> QED BY <2>2, <2>4, <2>5 DEF EndAt
<1>7. EndAt(mn1, x) = end
  BY <1>5 DEF EndAt
<1>8. MinorsIn(mn1, b) = MinorsIn(mn, b) \cup {x}
  BY <1>4, <1>5, <1>6 DEF MinorsIn
<1>9. \A d : d # b => MinorsIn(mn1, d) = MinorsIn(mn, d)
  BY <1>1, <1>4, <1>5, <1>6 DEF MinorsIn
<1> QED BY <1>4, <1>5, <1>6, <1>7, <1>8, <1>9 DEF PlacedCells

\* The units of the minor that comes are new.
LEMMA UnitsGrow ==
  ASSUME NEW mn, NEW mn1, NEW b, NEW S, S = MinorsIn(mn, b), NEW x \in Nat, MinorsIn(mn1, b) = S \cup {x},
         NEW size \in Nat, EndAt(mn1, x) = x + MinorSize + size,
         \A a \in S : a \in Nat /\ EndAt(mn, a) \in Nat /\ EndAt(mn1, a) = EndAt(mn, a),
         \A a \in S : EndAt(mn, a) <= x \/ EndAt(mn1, x) <= a,
         IsFiniteSet(UnitsIn(mn, b))
  PROVE  Cardinality(UnitsIn(mn1, b)) = Cardinality(UnitsIn(mn, b)) + (size + MinorSize)
<1>1. MinorSize \in Nat \ {0}
  BY SizesAssumption
<1>2. PICK end \in Nat : end = EndAt(mn1, x) /\ x <= end /\ end - x = size + MinorSize
  BY <1>1
<1>3. UnitsIn(mn1, b) = UnitsIn(mn, b) \cup (x .. end - 1)
  <2>1. ASSUME NEW u PROVE u \in UnitsIn(mn1, b) <=> u \in UnitsIn(mn, b) \/ u \in x .. end - 1
    <3>1. u \in UnitsIn(mn1, b) <=> \E a \in S \cup {x} : u \in a .. EndAt(mn1, a) - 1
      BY DEF UnitsIn
    <3>2. u \in UnitsIn(mn, b) <=> \E a \in S : u \in a .. EndAt(mn, a) - 1
      BY DEF UnitsIn
    <3> QED BY <1>2, <3>1, <3>2
  <2> QED BY <2>1
<1>4. UnitsIn(mn, b) \cap (x .. end - 1) = {}
  <2>1. SUFFICES ASSUME NEW u \in UnitsIn(mn, b), u \in x .. end - 1 PROVE FALSE
    OBVIOUS
  <2>2. PICK a \in S : u \in a .. EndAt(mn, a) - 1
    BY DEF UnitsIn
  <2>3. a \in Nat /\ EndAt(mn, a) \in Nat /\ (EndAt(mn, a) <= x \/ end <= a)
    BY <1>2
  <2> QED BY <1>2, <2>1, <2>2, <2>3
<1>5. IsFiniteSet(x .. end - 1) /\ Cardinality(x .. end - 1) = end - x
  BY <1>2, Interval
<1> QED BY <1>2, <1>3, <1>4, <1>5, DisjointUnion

LEMMA PlaceKeeps ==
  ASSUME NEW mj, NEW mn, NEW root, NEW best, NEW top, ListsOK(mj, mn, root, best, top),
         NEW j, j.req \in Nat, PlaceOK(mj, mn, j), NEW next, next = NextFor(mj, mn, j),
         NEW size, size = SizeFor(j.req), NEW mn1, LinkedFrom(mn, mn1, j, next, size),
         NEW mj1, CountedFrom(mj, mj1, j.block, size + MinorSize,
                              IF j.after = Nowhere THEN j.at ELSE mj[j.block].first)
  PROVE  ListsOK(mj1, mn1, root, best, top)
<1>1. PICK b \in DOMAIN mj : b = j.block
  BY DEF PlaceOK
<1>2. PICK x, end : x = j.at /\ end = x + MinorSize + size
  OBVIOUS
<1>3. PICK after, S, S1 : after = j.after /\ S = MinorsIn(mn, b) /\ S1 = S \cup {x}
  OBVIOUS
<1>4. /\ x \in Nat \ {Nowhere} /\ size \in Nat /\ end \in Nat /\ x < end
      /\ b + MajorSize <= x /\ end <= RegionEnd(mj, b)
      /\ after < x /\ (next # Nowhere => x < next)
      /\ \A a \in S : EndAt(mn, a) <= x \/ end <= a
      /\ x \notin DOMAIN mn
  BY <1>1, <1>2, <1>3, PlaceFacts
<1>5. Addresses(S) /\ S \subseteq DOMAIN mn /\ Adjacent(S, after, next) /\ IsList(mn, mj[b].first, S)
  BY <1>1, <1>3, MajorFacts DEF PlaceOK
<1>6. x \notin S /\ Adjacent(S1, after, x) /\ Adjacent(S1, x, next)
  BY <1>3, <1>4, <1>5, PutBetween
<1>7. \A c, d : Adjacent(S, c, d) /\ c # after => Adjacent(S1, c, d)
  BY <1>3, <1>4, <1>5, PutBetween
<1>8. PlacedCells(mn, mn1, x, end, b, after, next, size, j.req)
  BY <1>1, <1>2, <1>3, LinkedFacts
<1>9. /\ DOMAIN mn1 = DOMAIN mn \cup {x}
      /\ mn1[x] \in MinorCells /\ mn1[x].next = next /\ mn1[x].prev = after /\ mn1[x].block = b
      /\ mn1[x].size = size /\ mn1[x].req = j.req /\ EndAt(mn1, x) = end
  BY <1>8 DEF PlacedCells
<1>10. \A a \in DOMAIN mn :
        /\ mn1[a] \in MinorCells /\ mn1[a].block = mn[a].block /\ mn1[a].size = mn[a].size
        /\ mn1[a].req = mn[a].req /\ EndAt(mn1, a) = EndAt(mn, a)
        /\ mn1[a].next = IF a = after THEN x ELSE mn[a].next
        /\ mn1[a].prev = IF a = next THEN x ELSE mn[a].prev
  BY <1>8 DEF PlacedCells
<1>11. MinorsIn(mn1, b) = S1 /\ \A d : d # b => MinorsIn(mn1, d) = MinorsIn(mn, d)
  BY <1>3, <1>8 DEF PlacedCells
<1>12. PICK first : first = IF after = Nowhere THEN x ELSE mj[b].first
  OBVIOUS
<1>13. /\ b \in Nat /\ mj[b].usage \in Nat /\ mj[b].first \in Nat /\ MinorSize \in Nat \ {0}
       /\ mj[b].usage = MajorSize + Cardinality(UnitsIn(mn, b)) /\ MajorSize \in Nat
  BY MajorFacts
<1>14. /\ DOMAIN mj1 = DOMAIN mj /\ IsList(mj1, root, DOMAIN mj1)
       /\ \A d \in DOMAIN mj :
            /\ mj1[d] \in MajorCells /\ mj1[d].next = mj[d].next /\ mj1[d].pages = mj[d].pages
            /\ RegionEnd(mj1, d) = RegionEnd(mj, d)
            /\ mj1[d].usage = IF d = b THEN mj[d].usage + (size + MinorSize) ELSE mj[d].usage
            /\ mj1[d].first = IF d = b THEN first ELSE mj[d].first
  <2>1. first \in Nat /\ size + MinorSize \in Int /\ mj[b].usage + (size + MinorSize) \in Nat
    BY <1>4, <1>12, <1>13
  <2>2. CountedFrom(mj, mj1, b, size + MinorSize, first)
    BY <1>1, <1>2, <1>3, <1>12
  <2> QED BY <2>1, <2>2, CountedFacts
<1>15. ASSUME NEW d \in DOMAIN mj, d # b PROVE MajorOK(mj1, mn1, d, top)
  <2>1. MajorOK(mj, mn, d, top)
    BY DEF ListsOK, MajorsOK
  <2>2. MinorsIn(mn1, d) = MinorsIn(mn, d) /\ MinorsIn(mn, d) \subseteq DOMAIN mn
    BY <1>11, <1>15 DEF MinorsIn
  <2>3. UnitsIn(mn1, d) = UnitsIn(mn, d)
    BY <1>10, <2>2 DEF UnitsIn
  <2>4. \A a \in MinorsIn(mn, d) : a # after
    <3>1. \A a \in MinorsIn(mn, d) : a \notin S /\ a # Nowhere
      BY <1>3, <1>15 DEF MinorsIn, ListsOK, MinorsOK, Addresses
    <3> QED BY <1>5, <3>1 DEF Adjacent
  <2>5. IsList(mn1, mj1[d].first, MinorsIn(mn1, d))
    <3>1. IsList(mn, mj[d].first, MinorsIn(mn, d))
      BY <2>1 DEF MajorOK
    <3>2. mj1[d].first = mj[d].first
      BY <1>14, <1>15
    <3>3. \A a \in MinorsIn(mn, d) : mn1[a].next = mn[a].next
      BY <1>10, <2>2, <2>4
    <3> QED BY <1>9, <2>2, <3>1, <3>2, <3>3 DEF IsList
  <2>6. /\ mj1[d] \in MajorCells /\ RegionEnd(mj1, d) = RegionEnd(mj, d) /\ mj1[d].usage = mj[d].usage
    BY <1>14, <1>15
  <2> QED BY <1>14, <2>1, <2>3, <2>5, <2>6 DEF MajorOK
<1>16. MajorOK(mj1, mn1, b, top)
  <2>1. IsList(mn1, mj1[b].first, S1)
    <3>1. mj1[b].first = first
      BY <1>14
    <3>2. Adjacent(S1, Nowhere, first)
      BY <1>5, <1>6, <1>7, <1>12 DEF IsList
    <3>3. ASSUME NEW a \in S1 PROVE Adjacent(S1, a, mn1[a].next)
      <4>1. CASE a = x
        BY <1>6, <1>9, <4>1
      <4>2. CASE a # x /\ a = after
        <5>1. a \in DOMAIN mn
          BY <1>3, <1>5, <4>2
        <5> QED BY <1>6, <1>10, <4>2, <5>1
      <4>3. CASE a # x /\ a # after
        <5>1. a \in S /\ a \in DOMAIN mn
          BY <1>3, <1>5, <4>3
        <5>2. mn1[a].next = mn[a].next /\ Adjacent(S, a, mn[a].next)
          BY <1>5, <1>10, <4>3, <5>1 DEF IsList
        <5> QED BY <1>7, <4>3, <5>2
      <4> QED BY <4>1, <4>2, <4>3
    <3>4. S1 \subseteq DOMAIN mn1
      BY <1>3, <1>5, <1>9
    <3> QED BY <3>1, <3>2, <3>3, <3>4 DEF IsList
  <2>2. Cardinality(UnitsIn(mn1, b)) = Cardinality(UnitsIn(mn, b)) + (size + MinorSize)
    <3>1. \A a \in S : a \in Nat /\ EndAt(mn, a) \in Nat /\ EndAt(mn1, a) = EndAt(mn, a)
      BY <1>5, <1>10, MinorFacts
    <3>2. IsFiniteSet(UnitsIn(mn, b)) /\ x \in Nat /\ EndAt(mn1, x) = x + MinorSize + size
      BY <1>2, <1>4, <1>9, UnitsFinite
    <3>3. \A a \in S : EndAt(mn, a) <= x \/ EndAt(mn1, x) <= a
      BY <1>4, <1>9
    <3>4. MinorsIn(mn1, b) = S \cup {x}
      BY <1>3, <1>11
    <3> QED BY <1>3, <1>4, <3>1, <3>2, <3>3, <3>4, UnitsGrow
  <2>3. mj1[b].usage = MajorSize + Cardinality(UnitsIn(mn1, b))
    <3>1. Cardinality(UnitsIn(mn, b)) \in Nat
      BY UnitsFinite
    <3> QED BY <1>4, <1>13, <1>14, <2>2, <3>1
  <2>4. MajorOK(mj, mn, b, top)
    BY DEF ListsOK, MajorsOK
  <2>5. mj1[b] \in MajorCells /\ RegionEnd(mj1, b) = RegionEnd(mj, b)
    BY <1>14
  <2> QED BY <1>11, <1>14, <2>1, <2>3, <2>4, <2>5 DEF MajorOK
<1>17. MajorsOK(mj1, mn1, root, best, top)
  BY <1>14, <1>15, <1>16 DEF ListsOK, MajorsOK
<1>18. ASSUME NEW a \in DOMAIN mn PROVE MinorOK(mj1, mn1, a)
  <2>1. /\ mn[a].block \in DOMAIN mj /\ a \in MinorsIn(mn, mn[a].block)
        /\ SizeFor(mn[a].req) <= mn[a].size /\ a \in Nat \ {0}
        /\ mn[a].block + MajorSize <= a /\ EndAt(mn, a) <= RegionEnd(mj, mn[a].block)
        /\ \A c \in MinorsIn(mn, mn[a].block) : a < c => EndAt(mn, a) <= c
        /\ Adjacent(MinorsIn(mn, mn[a].block), mn[a].prev, a)
    BY MinorFacts
  <2>2. /\ mn1[a] \in MinorCells /\ mn1[a].block = mn[a].block /\ mn1[a].size = mn[a].size
        /\ mn1[a].req = mn[a].req /\ EndAt(mn1, a) = EndAt(mn, a)
        /\ mn1[a].prev = IF a = next THEN x ELSE mn[a].prev
    BY <1>10
  <2>3. RegionEnd(mj1, mn[a].block) = RegionEnd(mj, mn[a].block) /\ mn[a].block \in DOMAIN mj1
    BY <1>14, <2>1
  <2>4. \A c \in MinorsIn(mn1, mn[a].block) : a < c => EndAt(mn, a) <= c
    <3>1. CASE mn[a].block # b
      BY <1>11, <2>1, <3>1
    <3>2. CASE mn[a].block = b
      <4>1. a \in S
        BY <1>3, <2>1, <3>2
      <4>2. a < x => EndAt(mn, a) <= x
        BY <1>4, <2>1, <4>1
      <4> QED BY <1>3, <1>11, <2>1, <3>2, <4>2
    <3> QED BY <3>1, <3>2
  <2>5. Adjacent(MinorsIn(mn1, mn[a].block), mn1[a].prev, a)
    <3>1. CASE mn[a].block # b
      <4>1. a # next
        <5>1. a \notin S /\ a # Nowhere
          BY <1>3, <2>1, <3>1 DEF MinorsIn, Nowhere
        <5> QED BY <1>5, <5>1 DEF Adjacent
      <4> QED BY <1>11, <2>1, <2>2, <3>1, <4>1
    <3>2. CASE mn[a].block = b /\ a = next
      BY <1>6, <1>11, <2>2, <3>2
    <3>3. CASE mn[a].block = b /\ a # next
      <4>1. PICK p : p = mn[a].prev /\ Adjacent(S, p, a)
        BY <1>3, <2>1, <3>3
      <4>2. p # after
        BY <1>5, <3>3, <4>1, OneNeighbour
      <4>3. Adjacent(S1, p, a)
        BY <1>7, <4>1, <4>2
      <4> QED BY <1>11, <2>2, <3>3, <4>1, <4>3
    <3> QED BY <3>1, <3>2, <3>3
  <2> QED BY <2>1, <2>2, <2>3, <2>4, <2>5 DEF MinorOK
<1>19. MinorOK(mj1, mn1, x)
  <2>1. SizeFor(mn1[x].req) <= mn1[x].size
    BY <1>4, <1>9
  <2>2. \A c \in S1 : x < c => end <= c
    <3>1. SUFFICES ASSUME NEW c \in S, x < c PROVE end <= c
      BY <1>3, <1>4
    <3>2. c \in Nat /\ EndAt(mn, c) \in Nat /\ c + MinorSize <= EndAt(mn, c)
      BY <1>5, MinorFacts
    <3> QED BY <1>4, <1>13, <3>1, <3>2
  <2>3. mn1[x].block \in DOMAIN mj1 /\ RegionEnd(mj1, b) = RegionEnd(mj, b)
    BY <1>9, <1>14
  <2> QED BY <1>4, <1>6, <1>9, <1>11, <2>1, <2>2, <2>3 DEF MinorOK
<1>20. MinorsOK(mj1, mn1)
  <2>1. IsFiniteSet(DOMAIN mn1) /\ Addresses(DOMAIN mn1)
    BY <1>4, <1>9, FS_AddElement DEF ListsOK, MinorsOK, Addresses
  <2> QED BY <1>9, <1>18, <1>19, <2>1 DEF MinorsOK
<1> QED BY <1>17, <1>20 DEF ListsOK

-----------------------------------------------------------------------------
(* A minor that is freed.                                                   *)

UnlinkedFrom(mn, mn1, x, before, behind) ==
  /\ DOMAIN mn1 = DOMAIN mn \ {x}
  /\ \A a \in DOMAIN mn \ {x} :
       mn1[a] = [next |-> IF a = before THEN behind ELSE mn[a].next,
                 prev |-> IF a = behind THEN before ELSE mn[a].prev,
                 block |-> mn[a].block, size |-> mn[a].size, req |-> mn[a].req]

LEMMA UnlinkedIs ==
  ASSUME NEW mn, mn = minor, \A a \in DOMAIN mn : mn[a] \in MinorCells, Nowhere \notin DOMAIN mn, NEW x
  PROVE  UnlinkedFrom(mn, Unlink(x), x, mn[x].prev, mn[x].next)
<1> SUFFICES ASSUME NEW p, NEW n, p = mn[x].prev, n = mn[x].next,
                    NEW behind, behind = IF n = Nowhere THEN mn ELSE [mn EXCEPT ![n].prev = p],
                    NEW around, around = IF p = Nowhere THEN behind ELSE [behind EXCEPT ![p].next = n],
                    NEW mn1, mn1 = Restrict(around, DOMAIN mn \ {x})
             PROVE  UnlinkedFrom(mn, mn1, x, p, n)
  BY DEF Unlink
<1>1. DOMAIN behind = DOMAIN mn /\ DOMAIN around = DOMAIN mn
  OBVIOUS
<1>2. DOMAIN mn1 = DOMAIN mn \ {x} /\ \A a \in DOMAIN mn \ {x} : mn1[a] = around[a]
  BY DEF Restrict
<1>3. ASSUME NEW a \in DOMAIN mn
      PROVE  around[a] = [next |-> IF a = p THEN n ELSE mn[a].next,
                          prev |-> IF a = n THEN p ELSE mn[a].prev,
                          block |-> mn[a].block, size |-> mn[a].size, req |-> mn[a].req]
  <2>1. PICK c : c = mn[a]
    OBVIOUS
  <2>2. c = [next |-> c.next, prev |-> c.prev, block |-> c.block, size |-> c.size, req |-> c.req]
    BY <2>1 DEF MinorCells
  <2>3. PICK y : y = IF a = n THEN [c EXCEPT !.prev = p] ELSE c
    OBVIOUS
  <2>4. behind[a] = y
    BY <2>1, <2>3
  <2>5. PICK q : q = IF a = n THEN p ELSE c.prev
    OBVIOUS
  <2>6. y = [next |-> c.next, prev |-> q, block |-> c.block, size |-> c.size, req |-> c.req]
    BY <2>2, <2>3, <2>5
  <2>7. around[a] = IF a = p THEN [y EXCEPT !.next = n] ELSE y
    BY <1>1, <2>4
  <2>8. [y EXCEPT !.next = n] = [next |-> n, prev |-> q, block |-> c.block, size |-> c.size, req |-> c.req]
    BY <2>6
  <2>9. around[a] = [next |-> IF a = p THEN n ELSE c.next, prev |-> q,
                     block |-> c.block, size |-> c.size, req |-> c.req]
    <3>1. CASE a = p
      BY <2>7, <2>8, <3>1
    <3>2. CASE a # p
      BY <2>6, <2>7, <3>2
    <3> QED BY <3>1, <3>2
  <2> QED BY <2>1, <2>5, <2>9
<1>4. ASSUME NEW a \in DOMAIN mn \ {x}
      PROVE  mn1[a] = [next |-> IF a = p THEN n ELSE mn[a].next,
                       prev |-> IF a = n THEN p ELSE mn[a].prev,
                       block |-> mn[a].block, size |-> mn[a].size, req |-> mn[a].req]
  <2>1. mn1[a] = around[a] /\ a \in DOMAIN mn
    BY <1>2
  <2> QED BY <1>3, <2>1, Zenon
<1>5. DOMAIN mn1 = DOMAIN mn \ {x}
  BY <1>2
<1>6. UnlinkedFrom(mn, mn1, x, p, n)
  BY <1>4, <1>5, Zenon DEF UnlinkedFrom
<1> QED BY <1>6

\* The cells after a minor was taken away.
RemovedCells(mn, mn1, x, b, p, n) ==
  /\ DOMAIN mn1 = DOMAIN mn \ {x}
  /\ \A a \in DOMAIN mn1 :
       /\ mn1[a] \in MinorCells /\ mn1[a].block = mn[a].block /\ mn1[a].size = mn[a].size
       /\ mn1[a].req = mn[a].req /\ EndAt(mn1, a) = EndAt(mn, a)
       /\ mn1[a].next = IF a = p THEN n ELSE mn[a].next
       /\ mn1[a].prev = IF a = n THEN p ELSE mn[a].prev
  /\ MinorsIn(mn1, b) = MinorsIn(mn, b) \ {x}
  /\ \A d : d # b => MinorsIn(mn1, d) = MinorsIn(mn, d)

LEMMA UnlinkedFacts ==
  ASSUME NEW mj, NEW mn, NEW root, NEW best, NEW top, ListsOK(mj, mn, root, best, top),
         NEW x \in DOMAIN mn, NEW p, NEW n, p = mn[x].prev, n = mn[x].next, NEW b, b = mn[x].block,
         NEW mn1, UnlinkedFrom(mn, mn1, x, p, n)
  PROVE  RemovedCells(mn, mn1, x, b, p, n)
<1>1. p \in Nat /\ n \in Nat
  BY MinorFacts
<1>2. DOMAIN mn1 = DOMAIN mn \ {x}
  BY DEF UnlinkedFrom
<1>3. ASSUME NEW a \in DOMAIN mn1
      PROVE  /\ mn1[a] \in MinorCells /\ mn1[a].block = mn[a].block /\ mn1[a].size = mn[a].size
             /\ mn1[a].req = mn[a].req /\ EndAt(mn1, a) = EndAt(mn, a)
             /\ mn1[a].next = IF a = p THEN n ELSE mn[a].next
             /\ mn1[a].prev = IF a = n THEN p ELSE mn[a].prev
  <2>1. /\ mn[a].next \in Nat /\ mn[a].prev \in Nat /\ mn[a].size \in Nat /\ mn[a].req \in Nat
        /\ mn[a].block \in Nat
    BY <1>2, MinorFacts, MajorFacts
  <2>2. PICK m \in Nat, q \in Nat : /\ m = IF a = p THEN n ELSE mn[a].next
                                    /\ q = IF a = n THEN p ELSE mn[a].prev
    BY <1>1, <2>1
  <2>3. mn1[a] = [next |-> m, prev |-> q, block |-> mn[a].block, size |-> mn[a].size, req |-> mn[a].req]
    BY <1>2, <2>2 DEF UnlinkedFrom
  <2>4. mn1[a] \in MinorCells
    BY <2>1, <2>2, <2>3 DEF MinorCells
  <2>5. /\ mn1[a].next = m /\ mn1[a].prev = q /\ mn1[a].block = mn[a].block /\ mn1[a].size = mn[a].size
        /\ mn1[a].req = mn[a].req
    BY <2>3
  <2> QED BY <2>2, <2>4, <2>5 DEF EndAt
<1>4. MinorsIn(mn1, b) = MinorsIn(mn, b) \ {x}
  BY <1>2, <1>3 DEF MinorsIn
<1>5. \A d : d # b => MinorsIn(mn1, d) = MinorsIn(mn, d)
  BY <1>2, <1>3 DEF MinorsIn
<1> QED BY <1>2, <1>3, <1>4, <1>5 DEF RemovedCells

LEMMA ReleaseKeeps ==
  ASSUME NEW mj, NEW mn, NEW root, NEW best, NEW top, ListsOK(mj, mn, root, best, top),
         NEW x \in DOMAIN mn, NEW p, NEW n, p = mn[x].prev, n = mn[x].next, NEW b, b = mn[x].block,
         NEW less, less = mn[x].size + MinorSize, NEW mn1, UnlinkedFrom(mn, mn1, x, p, n),
         NEW first, first = IF p = Nowhere THEN n ELSE mj[b].first,
         NEW mj1, CountedFrom(mj, mj1, b, -less, first)
  PROVE  ListsOK(mj1, mn1, root, best, top)
<1>1. /\ b \in DOMAIN mj /\ p \in Nat /\ n \in Nat /\ less \in Nat /\ mn[x].size \in Nat /\ x \in Nat \ {0}
      /\ EndAt(mn, x) \in Nat /\ EndAt(mn, x) = x + MinorSize + mn[x].size
  BY MinorFacts, SizesAssumption DEF EndAt
<1>2. PICK S, S1 : S = MinorsIn(mn, b) /\ S1 = S \ {x}
  OBVIOUS
<1>3. Addresses(S) /\ S \subseteq DOMAIN mn /\ IsList(mn, mj[b].first, S) /\ x \in S
  BY <1>1, <1>2, MajorFacts, MinorFacts
<1>4. Adjacent(S, p, x) /\ Adjacent(S, x, n)
  BY <1>2, MinorFacts
<1>5. Adjacent(S1, p, n)
  BY <1>2, <1>3, <1>4, TakenAway
<1>6. \A c, d : Adjacent(S, c, d) /\ c # x /\ d # x => Adjacent(S1, c, d)
  BY <1>2, <1>3, <1>4, TakenAway
<1>7. RemovedCells(mn, mn1, x, b, p, n)
  BY UnlinkedFacts
<1>8. DOMAIN mn1 = DOMAIN mn \ {x}
  BY <1>7 DEF RemovedCells
<1>9. \A a \in DOMAIN mn1 :
        /\ mn1[a] \in MinorCells /\ mn1[a].block = mn[a].block /\ mn1[a].size = mn[a].size
        /\ mn1[a].req = mn[a].req /\ EndAt(mn1, a) = EndAt(mn, a)
        /\ mn1[a].next = IF a = p THEN n ELSE mn[a].next
        /\ mn1[a].prev = IF a = n THEN p ELSE mn[a].prev
  BY <1>7 DEF RemovedCells
<1>10. MinorsIn(mn1, b) = S1 /\ \A d : d # b => MinorsIn(mn1, d) = MinorsIn(mn, d)
  BY <1>2, <1>7 DEF RemovedCells
<1>11. /\ b \in Nat /\ mj[b].usage \in Nat /\ mj[b].first \in Nat /\ MinorSize \in Nat \ {0}
       /\ mj[b].usage = MajorSize + Cardinality(UnitsIn(mn, b)) /\ MajorSize \in Nat
  BY <1>1, MajorFacts
<1>12. Cardinality(UnitsIn(mn1, b)) \in Nat /\ Cardinality(UnitsIn(mn, b)) = Cardinality(UnitsIn(mn1, b)) + less
  <2>1. \A a \in S1 : a \in DOMAIN mn /\ a # x /\ a \in DOMAIN mn1 /\ a \in Nat
    BY <1>2, <1>3, <1>8 DEF Addresses
  <2>2. \A a \in S1 : a \in Nat /\ EndAt(mn1, a) \in Nat /\ EndAt(mn, a) = EndAt(mn1, a)
    BY <1>9, <2>1, MinorFacts
  <2>3. \A a \in S1 : EndAt(mn1, a) <= x \/ EndAt(mn, x) <= a
    <3>1. SUFFICES ASSUME NEW a \in S1 PROVE EndAt(mn1, a) <= x \/ EndAt(mn, x) <= a
      OBVIOUS
    <3>2. a < x \/ x < a
      BY <1>1, <2>1
    <3>3. a < x => EndAt(mn, a) <= x
      BY <2>1, MinorsApart
    <3>4. x < a => EndAt(mn, x) <= a
      BY <2>1, MinorsApart
    <3> QED BY <2>2, <3>2, <3>3, <3>4
  <2>4. IsFiniteSet(UnitsIn(mn1, b))
    <3>1. UnitsIn(mn1, b) \subseteq UnitsIn(mn, b)
      BY <1>2, <1>10, <2>2 DEF UnitsIn
    <3>2. IsFiniteSet(UnitsIn(mn, b))
      BY <1>1, UnitsFinite
    <3> QED BY <3>1, <3>2, FS_Subset
  <2>5. S1 = MinorsIn(mn1, b) /\ MinorsIn(mn, b) = S1 \cup {x} /\ x \in Nat
    BY <1>1, <1>2, <1>3, <1>10
  <2>6. Cardinality(UnitsIn(mn, b)) = Cardinality(UnitsIn(mn1, b)) + (mn[x].size + MinorSize)
    BY <1>1, <2>2, <2>3, <2>4, <2>5, UnitsGrow
  <2> QED BY <2>4, <2>6, FS_CardinalityType
<1>13. mj[b].usage + -less = MajorSize + Cardinality(UnitsIn(mn1, b))
  BY <1>1, <1>11, <1>12
<1>14. /\ DOMAIN mj1 = DOMAIN mj /\ IsList(mj1, root, DOMAIN mj1)
       /\ \A d \in DOMAIN mj :
            /\ mj1[d] \in MajorCells /\ mj1[d].next = mj[d].next /\ mj1[d].pages = mj[d].pages
            /\ RegionEnd(mj1, d) = RegionEnd(mj, d)
            /\ mj1[d].usage = IF d = b THEN mj[d].usage + -less ELSE mj[d].usage
            /\ mj1[d].first = IF d = b THEN first ELSE mj[d].first
  <2>1. first \in Nat /\ -less \in Int /\ mj[b].usage + -less \in Nat
    BY <1>1, <1>11, <1>12, <1>13
  <2> QED BY <1>1, <2>1, CountedFacts
<1>15. ASSUME NEW d \in DOMAIN mj, d # b PROVE MajorOK(mj1, mn1, d, top)
  <2>1. MajorOK(mj, mn, d, top)
    BY DEF ListsOK, MajorsOK
  <2>2. MinorsIn(mn1, d) = MinorsIn(mn, d) /\ MinorsIn(mn, d) \subseteq DOMAIN mn1
    BY <1>10, <1>15 DEF MinorsIn
  <2>3. UnitsIn(mn1, d) = UnitsIn(mn, d)
    BY <1>9, <2>2 DEF UnitsIn
  <2>4. \A a \in MinorsIn(mn, d) : a # p
    <3>1. \A a \in MinorsIn(mn, d) : a \notin S /\ a # Nowhere
      BY <1>2, <1>15 DEF MinorsIn, ListsOK, MinorsOK, Addresses
    <3> QED BY <1>4, <3>1 DEF Adjacent
  <2>5. IsList(mn1, mj1[d].first, MinorsIn(mn1, d))
    <3>1. IsList(mn, mj[d].first, MinorsIn(mn, d))
      BY <2>1 DEF MajorOK
    <3>2. mj1[d].first = mj[d].first
      BY <1>14, <1>15
    <3>3. \A a \in MinorsIn(mn, d) : mn1[a].next = mn[a].next
      BY <1>9, <2>2, <2>4
    <3> QED BY <2>2, <3>1, <3>2, <3>3 DEF IsList
  <2>6. /\ mj1[d] \in MajorCells /\ RegionEnd(mj1, d) = RegionEnd(mj, d) /\ mj1[d].usage = mj[d].usage
    BY <1>14, <1>15
  <2> QED BY <1>14, <2>1, <2>3, <2>5, <2>6 DEF MajorOK
<1>16. MajorOK(mj1, mn1, b, top)
  <2>1. IsList(mn1, mj1[b].first, S1)
    <3>1. mj1[b].first = first
      BY <1>1, <1>14
    <3>2. Adjacent(S1, Nowhere, first)
      <4>1. CASE p = Nowhere
        BY <1>5, <4>1
      <4>2. CASE p # Nowhere
        <5>1. PICK f : f = mj[b].first /\ Adjacent(S, Nowhere, f)
          BY <1>3 DEF IsList
        <5>2. f # x
          BY <1>3, <1>4, <4>2, <5>1, OneBefore
        <5> QED BY <1>1, <1>6, <4>2, <5>1, <5>2 DEF Nowhere
      <4> QED BY <4>1, <4>2
    <3>3. ASSUME NEW a \in S1 PROVE Adjacent(S1, a, mn1[a].next)
      <4>1. a \in S /\ a # x /\ a \in DOMAIN mn1
        BY <1>2, <1>3, <1>8
      <4>2. CASE a = p
        BY <1>5, <1>9, <4>1, <4>2
      <4>3. CASE a # p
        <5>1. PICK m : m = mn[a].next /\ mn1[a].next = m /\ Adjacent(S, a, m)
          BY <1>3, <1>9, <4>1, <4>3 DEF IsList
        <5>2. m # x
          BY <1>3, <1>4, <4>3, <5>1, OneBefore
        <5> QED BY <1>6, <4>1, <5>1, <5>2
      <4> QED BY <4>2, <4>3
    <3>4. S1 \subseteq DOMAIN mn1
      BY <1>2, <1>3, <1>8
    <3> QED BY <3>1, <3>2, <3>3, <3>4 DEF IsList
  <2>2. mj1[b].usage = MajorSize + Cardinality(UnitsIn(mn1, b))
    BY <1>1, <1>13, <1>14
  <2>3. MajorOK(mj, mn, b, top)
    BY <1>1 DEF ListsOK, MajorsOK
  <2>4. mj1[b] \in MajorCells /\ RegionEnd(mj1, b) = RegionEnd(mj, b)
    BY <1>1, <1>14
  <2> QED BY <1>10, <1>14, <2>1, <2>2, <2>3, <2>4 DEF MajorOK
<1>17. MajorsOK(mj1, mn1, root, best, top)
  BY <1>14, <1>15, <1>16 DEF ListsOK, MajorsOK
<1>18. ASSUME NEW a \in DOMAIN mn1 PROVE MinorOK(mj1, mn1, a)
  <2>1. a \in DOMAIN mn /\ a # x
    BY <1>8
  <2>2. /\ mn[a].block \in DOMAIN mj /\ a \in MinorsIn(mn, mn[a].block)
        /\ SizeFor(mn[a].req) <= mn[a].size
        /\ mn[a].block + MajorSize <= a /\ EndAt(mn, a) <= RegionEnd(mj, mn[a].block)
        /\ \A c \in MinorsIn(mn, mn[a].block) : a < c => EndAt(mn, a) <= c
        /\ Adjacent(MinorsIn(mn, mn[a].block), mn[a].prev, a)
    BY <2>1, MinorFacts
  <2>3. /\ mn1[a] \in MinorCells /\ mn1[a].block = mn[a].block /\ mn1[a].size = mn[a].size
        /\ mn1[a].req = mn[a].req /\ EndAt(mn1, a) = EndAt(mn, a)
        /\ mn1[a].prev = IF a = n THEN p ELSE mn[a].prev
    BY <1>9
  <2>4. RegionEnd(mj1, mn[a].block) = RegionEnd(mj, mn[a].block) /\ mn[a].block \in DOMAIN mj1
    BY <1>14, <2>2
  <2>5. \A c \in MinorsIn(mn1, mn[a].block) : a < c => EndAt(mn, a) <= c
    BY <1>2, <1>10, <2>2
  <2>6. Adjacent(MinorsIn(mn1, mn[a].block), mn1[a].prev, a)
    <3>1. CASE mn[a].block # b
      <4>1. a # n
        <5>1. a \notin S /\ a # Nowhere
          BY <1>2, <2>1, <3>1 DEF MinorsIn, ListsOK, MinorsOK, Addresses
        <5> QED BY <1>4, <5>1 DEF Adjacent
      <4> QED BY <1>10, <2>2, <2>3, <3>1, <4>1
    <3>2. CASE mn[a].block = b /\ a = n
      BY <1>5, <1>10, <2>3, <3>2
    <3>3. CASE mn[a].block = b /\ a # n
      <4>1. PICK q : q = mn[a].prev /\ Adjacent(S, q, a)
        BY <1>2, <2>2, <3>3
      <4>2. q # x
        BY <1>3, <1>4, <3>3, <4>1, OneNeighbour
      <4>3. Adjacent(S1, q, a)
        BY <1>6, <2>1, <4>1, <4>2
      <4> QED BY <1>10, <2>3, <3>3, <4>1, <4>3
    <3> QED BY <3>1, <3>2, <3>3
  <2> QED BY <2>2, <2>3, <2>4, <2>5, <2>6 DEF MinorOK
<1>19. MinorsOK(mj1, mn1)
  <2>1. IsFiniteSet(DOMAIN mn1) /\ Addresses(DOMAIN mn1)
    BY <1>8, FS_RemoveElement DEF ListsOK, MinorsOK, Addresses
  <2> QED BY <1>18, <2>1 DEF MinorsOK
<1> QED BY <1>17, <1>19 DEF ListsOK

\* A block that was asked for with fewer bytes stays.
\* The minors when one of them is asked to hold less.
Shrunk(mn, mn1, x, req) == mn1 = [mn EXCEPT ![x].req = req]

LEMMA ShrinkKeeps ==
  ASSUME NEW mj, NEW mn, NEW root, NEW best, NEW top, ListsOK(mj, mn, root, best, top),
         NEW x \in DOMAIN mn, NEW req \in Nat, req <= mn[x].req,
         NEW mn1, Shrunk(mn, mn1, x, req)
  PROVE  /\ ListsOK(mj, mn1, root, best, top)
         /\ DOMAIN mn1 = DOMAIN mn /\ mn1[x].req = req
         /\ \A a \in DOMAIN mn : a # x => mn1[a].req = mn[a].req
<1> SUFFICES ASSUME mn1 = [mn EXCEPT ![x].req = req]
             PROVE  /\ ListsOK(mj, mn1, root, best, top)
                    /\ DOMAIN mn1 = DOMAIN mn /\ mn1[x].req = req
                    /\ \A a \in DOMAIN mn : a # x => mn1[a].req = mn[a].req
  BY DEF Shrunk
<1>1. DOMAIN mn1 = DOMAIN mn
  OBVIOUS
<1>2. ASSUME NEW a \in DOMAIN mn
      PROVE  /\ mn1[a] \in MinorCells /\ mn1[a].block = mn[a].block /\ mn1[a].size = mn[a].size
             /\ mn1[a].next = mn[a].next /\ mn1[a].prev = mn[a].prev
             /\ mn1[a].req = IF a = x THEN req ELSE mn[a].req
             /\ EndAt(mn1, a) = EndAt(mn, a)
  <2>1. PICK c : c = mn[a]
    OBVIOUS
  <2>2. c \in MinorCells /\ c.next \in Nat /\ c.prev \in Nat /\ c.block \in Nat /\ c.size \in Nat
    BY <2>1, MinorFacts, MajorFacts
  <2>3. c = [next |-> c.next, prev |-> c.prev, block |-> c.block, size |-> c.size, req |-> c.req]
    BY <2>2 DEF MinorCells
  <2>4. CASE a = x
    <3>1. mn1[a] = [c EXCEPT !.req = req]
      BY <2>1, <2>4
    <3>2. mn1[a] = [next |-> c.next, prev |-> c.prev, block |-> c.block, size |-> c.size, req |-> req]
      BY <2>3, <3>1
    <3>3. mn1[a] \in MinorCells
      BY <2>2, <3>2 DEF MinorCells
    <3>4. /\ mn1[a].block = c.block /\ mn1[a].size = c.size /\ mn1[a].next = c.next /\ mn1[a].prev = c.prev
          /\ mn1[a].req = req
      BY <3>2
    <3> QED BY <2>1, <2>4, <3>3, <3>4 DEF EndAt
  <2>5. CASE a # x
    <3>1. mn1[a] = c
      BY <2>1, <2>5
    <3> QED BY <2>1, <2>2, <2>5, <3>1 DEF EndAt
  <2> QED BY <2>4, <2>5
<1>3. \A b : MinorsIn(mn1, b) = MinorsIn(mn, b)
  BY <1>1, <1>2 DEF MinorsIn
<1>4. \A b : UnitsIn(mn1, b) = UnitsIn(mn, b)
  <2>1. SUFFICES ASSUME NEW b PROVE UnitsIn(mn1, b) = UnitsIn(mn, b)
    OBVIOUS
  <2>2. \A a \in MinorsIn(mn, b) : EndAt(mn1, a) = EndAt(mn, a)
    BY <1>2 DEF MinorsIn
  <2> QED BY <1>3, <2>2 DEF UnitsIn
<1>5. ASSUME NEW b \in DOMAIN mj PROVE MajorOK(mj, mn1, b, top)
  <2>1. MajorOK(mj, mn, b, top)
    BY DEF ListsOK, MajorsOK
  <2>2. IsList(mn1, mj[b].first, MinorsIn(mn, b))
    BY <1>1, <1>2, <2>1 DEF MajorOK, IsList
  <2> QED BY <1>3, <1>4, <2>1, <2>2 DEF MajorOK
<1>6. ASSUME NEW a \in DOMAIN mn PROVE MinorOK(mj, mn1, a)
  <2>1. MinorOK(mj, mn, a)
    BY DEF ListsOK, MinorsOK
  <2>2. SizeFor(mn1[a].req) <= mn1[a].size
    <3>1. CASE a = x
      <4>1. mn[x].req \in Nat /\ SizeFor(mn[x].req) <= mn[x].size /\ mn[x].size \in Nat
        BY MinorFacts
      <4>2. SizeFor(req) <= SizeFor(mn[x].req) /\ SizeFor(req) \in Nat /\ SizeFor(mn[x].req) \in Nat
        BY <4>1, SizesAssumption DEF SizeFor
      <4>3. mn1[a].req = req /\ mn1[a].size = mn[x].size
        BY <1>2, <3>1
      <4> QED BY <4>1, <4>2, <4>3
    <3>2. CASE a # x
      BY <1>2, <2>1, <3>2 DEF MinorOK
    <3> QED BY <3>1, <3>2
  <2> QED BY <1>2, <1>3, <2>1, <2>2 DEF MinorOK
<1>7. ListsOK(mj, mn1, root, best, top)
  BY <1>1, <1>5, <1>6 DEF ListsOK, MajorsOK, MinorsOK
<1> QED BY <1>1, <1>2, <1>7

-----------------------------------------------------------------------------
(* The blocks of the callers.                                               *)

BlockOf(mn, a) == [p |-> PointerOf(a), n |-> mn[a].req]

\* What a caller holds ends before the next minor begins.
LEMMA PointersApart ==
  ASSUME NEW mj, NEW mn, NEW root, NEW best, NEW top, ListsOK(mj, mn, root, best, top),
         NEW a \in DOMAIN mn, NEW c \in DOMAIN mn, a < c
  PROVE  /\ PointerOf(a) \in Nat /\ PointerOf(c) \in Nat
         /\ PointerOf(a) + mn[a].req < PointerOf(c) /\ PointerOf(a) < PointerOf(c)
<1>1. /\ a \in Nat /\ c \in Nat /\ mn[a].req \in Nat /\ mn[a].size \in Nat /\ mn[c].req \in Nat
      /\ SizeFor(mn[a].req) <= mn[a].size /\ EndAt(mn, a) = a + MinorSize + mn[a].size
  BY MinorFacts DEF EndAt
<1>2. EndAt(mn, a) <= c
  BY MinorsApart
<1>3. PICK x : x = MinorAt(a, SizeFor(mn[a].req), mn[a].req)
  OBVIOUS
<1>4. x.at = a /\ x.size = SizeFor(mn[a].req) /\ x.req = mn[a].req
  BY <1>3 DEF MinorAt
<1>5. PointerOf(a) \in Nat /\ SizeFor(mn[a].req) \in Nat /\ MinorSound(x)
  BY <1>1, <1>3, PointerInside
<1>6. PICK y : y = MinorAt(c, SizeFor(mn[c].req), mn[c].req)
  OBVIOUS
<1>7. y.at = c
  BY <1>6 DEF MinorAt
<1>8. PointerOf(c) \in Nat /\ MinorSound(y)
  BY <1>1, <1>6, PointerInside
<1>9. PointerOf(a) + mn[a].req < a + MinorSize + SizeFor(mn[a].req)
  BY <1>4, <1>5 DEF MinorSound, EndOf
<1>10. PointerOf(c) - AlignInfo >= c + MinorSize
  BY <1>7, <1>8 DEF MinorSound
<1> QED BY <1>1, <1>2, <1>5, <1>8, <1>9, <1>10, SizesAssumption

LEMMA OnePointer ==
  ASSUME NEW mj, NEW mn, NEW root, NEW best, NEW top, ListsOK(mj, mn, root, best, top),
         NEW a \in DOMAIN mn, NEW c \in DOMAIN mn, PointerOf(a) = PointerOf(c)
  PROVE  a = c
<1>1. a \in Nat /\ c \in Nat
  BY MinorFacts
<1>2. ~(a < c) /\ ~(c < a)
  <2>1. a < c => PointerOf(a) \in Nat /\ PointerOf(a) < PointerOf(c)
    BY PointersApart
  <2>2. c < a => PointerOf(c) \in Nat /\ PointerOf(c) < PointerOf(a)
    BY PointersApart
  <2> QED BY <2>1, <2>2
<1> QED BY <1>1, <1>2

\* The blocks of the threads are those of the minors, and no pointer has two owners.
OwnedOK(ow, mn) ==
  /\ DOMAIN ow = Threads
  /\ \A t \in Threads : \A o \in ow[t] : \E a \in DOMAIN mn : o = BlockOf(mn, a)
  /\ \A a \in DOMAIN mn : \E t \in Threads : BlockOf(mn, a) \in ow[t]
  /\ \A t, u \in Threads : \A o \in ow[t], q \in ow[u] : o.p = q.p => t = u /\ o = q

BlocksOf(ow) == UNION {ow[t] : t \in Threads}

\* A block that is handed out.
LEMMA OwnedPlace ==
  ASSUME NEW mj, NEW mn, NEW root, NEW best, NEW top, ListsOK(mj, mn, root, best, top),
         NEW ow, NEW mo, OwnedOK(ow, mo), NEW x, x \notin DOMAIN mo, DOMAIN mn = DOMAIN mo \cup {x},
         \A a \in DOMAIN mo : mn[a].req = mo[a].req,
         NEW t \in Threads, NEW new, new = BlockOf(mn, x),
         NEW ow1, ow1 = [ow EXCEPT ![t] = @ \cup {new}]
  PROVE  /\ OwnedOK(ow1, mn)
         /\ new \notin BlocksOf(ow) /\ BlocksOf(ow1) = BlocksOf(ow) \cup {new}
         /\ \A o \in BlocksOf(ow) : new.p + new.n <= o.p \/ o.p + o.n <= new.p
<1>1. DOMAIN ow1 = Threads /\ \A u \in Threads : ow1[u] = IF u = t THEN ow[t] \cup {new} ELSE ow[u]
  BY DEF OwnedOK
<1>2. new.p = PointerOf(x) /\ new.n = mn[x].req
  BY DEF BlockOf
<1>3. \A a \in DOMAIN mo : a \in DOMAIN mn /\ a # x /\ BlockOf(mn, a) = BlockOf(mo, a)
  BY DEF BlockOf
<1>4. \A u \in Threads : \A o \in ow[u] :
        \E a \in DOMAIN mo : a \in DOMAIN mn /\ a # x /\ o = BlockOf(mn, a) /\ o.p = PointerOf(a) /\ o.n = mn[a].req
  <2>1. SUFFICES ASSUME NEW u \in Threads, NEW o \in ow[u]
                 PROVE  \E a \in DOMAIN mo : a \in DOMAIN mn /\ a # x /\ o = BlockOf(mn, a)
                                             /\ o.p = PointerOf(a) /\ o.n = mn[a].req
    OBVIOUS
  <2>2. PICK a \in DOMAIN mo : o = BlockOf(mo, a)
    BY DEF OwnedOK
  <2>3. a \in DOMAIN mn /\ a # x /\ o = BlockOf(mn, a)
    BY <1>3, <2>2
  <2>4. o.p = PointerOf(a) /\ o.n = mn[a].req
    BY <2>3 DEF BlockOf
  <2> QED BY <2>3, <2>4
<1>5. x \in DOMAIN mn
  OBVIOUS
<1>6. \A u \in Threads : \A o \in ow[u] : o.p # new.p
  BY <1>2, <1>4, <1>5, OnePointer
<1>7. \A u \in Threads : \A o \in ow1[u] : \E a \in DOMAIN mn : o = BlockOf(mn, a)
  BY <1>1, <1>4, <1>5
<1>8. \A a \in DOMAIN mn : \E u \in Threads : BlockOf(mn, a) \in ow1[u]
  <2>1. SUFFICES ASSUME NEW a \in DOMAIN mn PROVE \E u \in Threads : BlockOf(mn, a) \in ow1[u]
    OBVIOUS
  <2>2. CASE a = x
    BY <1>1, <2>2
  <2>3. CASE a # x
    <3>1. PICK u \in Threads : BlockOf(mo, a) \in ow[u]
      BY <2>3 DEF OwnedOK
    <3> QED BY <1>1, <1>3, <2>3, <3>1
  <2> QED BY <2>2, <2>3
<1>9. \A u, v \in Threads : \A o \in ow1[u], q \in ow1[v] : o.p = q.p => u = v /\ o = q
  <2>1. SUFFICES ASSUME NEW u \in Threads, NEW v \in Threads, NEW o \in ow1[u], NEW q \in ow1[v], o.p = q.p
                 PROVE  u = v /\ o = q
    OBVIOUS
  <2>2. (o \in ow[u] \/ (u = t /\ o = new)) /\ (q \in ow[v] \/ (v = t /\ q = new))
    BY <1>1
  <2>3. CASE o \in ow[u] /\ q \in ow[v]
    BY <2>1, <2>3 DEF OwnedOK
  <2>4. CASE u = t /\ o = new /\ v = t /\ q = new
    BY <2>4
  <2>5. ~(o \in ow[u] /\ q = new) /\ ~(q \in ow[v] /\ o = new)
    BY <1>6, <2>1
  <2> QED BY <2>2, <2>3, <2>4, <2>5
<1>10. OwnedOK(ow1, mn)
  BY <1>1, <1>7, <1>8, <1>9 DEF OwnedOK
<1>11. BlocksOf(ow1) = BlocksOf(ow) \cup {new}
  BY <1>1 DEF BlocksOf
<1>12. new \notin BlocksOf(ow)
  BY <1>6 DEF BlocksOf
<1>13. ASSUME NEW o \in BlocksOf(ow) PROVE new.p + new.n <= o.p \/ o.p + o.n <= new.p
  <2>1. PICK u \in Threads : o \in ow[u]
    BY DEF BlocksOf
  <2>2. PICK a \in DOMAIN mn : a # x /\ o.p = PointerOf(a) /\ o.n = mn[a].req
    BY <1>4, <2>1
  <2>3. a \in Nat /\ x \in Nat /\ mn[a].req \in Nat /\ mn[x].req \in Nat
    BY <1>5, MinorFacts
  <2>4. CASE a < x
    BY <1>2, <1>5, <2>2, <2>3, <2>4, PointersApart
  <2>5. CASE x < a
    BY <1>2, <1>5, <2>2, <2>3, <2>5, PointersApart
  <2> QED BY <2>2, <2>3, <2>4, <2>5
<1> QED BY <1>10, <1>11, <1>12, <1>13

\* A thread's blocks without the one it gives back, and the lists without its minor.
GivenBack(ow, ow1, t, old) ==
  /\ old \in ow[t] /\ DOMAIN ow1 = Threads /\ \A u \in Threads : u # t => ow1[u] = ow[u]
  /\ \A o : o \in ow1[t] <=> o \in ow[t] /\ o.p # old.p
Without(mo, mn, x) ==
  /\ x \in DOMAIN mo /\ DOMAIN mn = DOMAIN mo \ {x}
  /\ \A a \in DOMAIN mn : mn[a].req = mo[a].req

\* A block that is given back.
LEMMA OwnedRelease ==
  ASSUME NEW mj, NEW mo, NEW root, NEW best, NEW top, ListsOK(mj, mo, root, best, top),
         NEW ow, OwnedOK(ow, mo), NEW x, NEW mn, Without(mo, mn, x),
         NEW t \in Threads, NEW old, NEW ow1, GivenBack(ow, ow1, t, old), old.p = PointerOf(x)
  PROVE  /\ OwnedOK(ow1, mn) /\ \A u \in Threads : ow1[u] = ow[u] \ {old}
         /\ old \in BlocksOf(ow) /\ BlocksOf(ow1) = BlocksOf(ow) \ {old}
<1> SUFFICES ASSUME x \in DOMAIN mo, DOMAIN mn = DOMAIN mo \ {x}, \A a \in DOMAIN mn : mn[a].req = mo[a].req,
                    old \in ow[t], DOMAIN ow1 = Threads, \A u \in Threads : u # t => ow1[u] = ow[u],
                    \A o : o \in ow1[t] <=> o \in ow[t] /\ o.p # old.p
             PROVE  /\ OwnedOK(ow1, mn) /\ \A u \in Threads : ow1[u] = ow[u] \ {old}
                    /\ old \in BlocksOf(ow) /\ BlocksOf(ow1) = BlocksOf(ow) \ {old}
  BY DEF GivenBack, Without
<1>1. DOMAIN ow1 = Threads /\ \A u \in Threads : ow1[u] = IF u = t THEN {o \in ow[t] : o.p # old.p} ELSE ow[u]
  BY DEF OwnedOK
<1>2. \A u \in Threads : \A o \in ow[u] : o.p = old.p => u = t /\ o = old
  BY DEF OwnedOK
<1>3. \A u \in Threads : ow1[u] = ow[u] \ {old}
  BY <1>1, <1>2
<1>4. \A a \in DOMAIN mn : a \in DOMAIN mo /\ a # x /\ BlockOf(mn, a) = BlockOf(mo, a) /\ BlockOf(mo, a).p = PointerOf(a)
  BY DEF BlockOf
<1>5. \A u \in Threads : \A o \in ow1[u] : \E a \in DOMAIN mn : o = BlockOf(mn, a)
  <2>1. SUFFICES ASSUME NEW u \in Threads, NEW o \in ow1[u]
                 PROVE  \E a \in DOMAIN mn : o = BlockOf(mn, a)
    OBVIOUS
  <2>2. o \in ow[u] /\ o.p # PointerOf(x)
    BY <1>1, <1>2
  <2>3. PICK a \in DOMAIN mo : o = BlockOf(mo, a)
    BY <2>2 DEF OwnedOK
  <2>4. o.p = PointerOf(a)
    BY <2>3 DEF BlockOf
  <2>5. a \in DOMAIN mn
    BY <2>2, <2>4
  <2> QED BY <1>4, <2>3, <2>5
<1>6. \A a \in DOMAIN mn : \E u \in Threads : BlockOf(mn, a) \in ow1[u]
  <2>1. SUFFICES ASSUME NEW a \in DOMAIN mn PROVE \E u \in Threads : BlockOf(mn, a) \in ow1[u]
    OBVIOUS
  <2>2. PICK u \in Threads : BlockOf(mo, a) \in ow[u]
    BY <1>4 DEF OwnedOK
  <2>3. PointerOf(a) # old.p
    BY <1>4, OnePointer
  <2>4. BlockOf(mo, a) # old
    BY <1>4, <2>3
  <2> QED BY <1>3, <1>4, <2>2, <2>4
<1>7. \A u, v \in Threads : \A o \in ow1[u], q \in ow1[v] : o.p = q.p => u = v /\ o = q
  BY <1>3 DEF OwnedOK
<1>8. OwnedOK(ow1, mn)
  BY <1>1, <1>5, <1>6, <1>7 DEF OwnedOK
<1>9. BlocksOf(ow1) = BlocksOf(ow) \ {old} /\ old \in BlocksOf(ow)
  BY <1>3 DEF BlocksOf
<1> QED BY <1>3, <1>8, <1>9

\* A thread's blocks with a smaller one for one of them, and the lists that say so.
Resized(ow, ow1, t, old, new) ==
  /\ old \in ow[t] /\ DOMAIN ow1 = Threads /\ \A u \in Threads : u # t => ow1[u] = ow[u]
  /\ \A o : o \in ow1[t] <=> (o \in ow[t] /\ o.p # old.p) \/ o = new
Relabeled(mo, mn, x) ==
  /\ x \in DOMAIN mo /\ DOMAIN mn = DOMAIN mo
  /\ \A a \in DOMAIN mo : a # x => mn[a].req = mo[a].req

LEMMA OwnedShrink ==
  ASSUME NEW mj, NEW mo, NEW root, NEW best, NEW top, ListsOK(mj, mo, root, best, top),
         NEW ow, OwnedOK(ow, mo), NEW x, NEW mn, Relabeled(mo, mn, x),
         NEW t \in Threads, NEW old, NEW ow1, NEW new, Resized(ow, ow1, t, old, new),
         old.p = PointerOf(x), new = BlockOf(mn, x)
  PROVE  /\ OwnedOK(ow1, mn)
         /\ old \in BlocksOf(ow) /\ BlocksOf(ow1) = (BlocksOf(ow) \ {old}) \cup {new}
         /\ new.p = old.p /\ old.n = mo[x].req /\ new.n = mn[x].req
<1> SUFFICES ASSUME x \in DOMAIN mo, DOMAIN mn = DOMAIN mo, \A a \in DOMAIN mo : a # x => mn[a].req = mo[a].req,
                    old \in ow[t], DOMAIN ow1 = Threads, \A u \in Threads : u # t => ow1[u] = ow[u],
                    \A o : o \in ow1[t] <=> (o \in ow[t] /\ o.p # old.p) \/ o = new
             PROVE  /\ OwnedOK(ow1, mn)
                    /\ old \in BlocksOf(ow) /\ BlocksOf(ow1) = (BlocksOf(ow) \ {old}) \cup {new}
                    /\ new.p = old.p /\ old.n = mo[x].req /\ new.n = mn[x].req
  BY DEF Resized, Relabeled
<1>1. DOMAIN ow1 = Threads /\ \A u \in Threads : ow1[u] = IF u = t THEN {o \in ow[t] : o.p # old.p} \cup {new} ELSE ow[u]
  BY DEF OwnedOK
<1>2. \A u \in Threads : \A o \in ow[u] : o.p = old.p => u = t /\ o = old
  BY DEF OwnedOK
<1>3. \A u \in Threads : ow1[u] = IF u = t THEN (ow[t] \ {old}) \cup {new} ELSE ow[u] \ {old}
  BY <1>1, <1>2
<1>4. /\ \A u \in Threads : \A o \in ow[u] : o # old => o \in ow1[u]
      /\ new \in ow1[t]
      /\ \A u \in Threads : \A o \in ow1[u] : (o \in ow[u] /\ o # old /\ o.p # old.p) \/ (u = t /\ o = new)
  BY <1>1, <1>2, <1>3
<1>5. new.p = old.p /\ new.n = mn[x].req
  BY DEF BlockOf
<1>6. old.n = mo[x].req
  <2>1. PICK a \in DOMAIN mo : old = BlockOf(mo, a)
    BY DEF OwnedOK
  <2>2. old.p = PointerOf(a) /\ old.n = mo[a].req
    BY <2>1 DEF BlockOf
  <2>3. a = x
    BY <2>2, OnePointer
  <2> QED BY <2>2, <2>3
<1>7. \A a \in DOMAIN mo : a # x => BlockOf(mn, a) = BlockOf(mo, a) /\ BlockOf(mo, a).p = PointerOf(a)
  BY DEF BlockOf
<1>8. \A u \in Threads : \A o \in ow1[u] : \E a \in DOMAIN mn : o = BlockOf(mn, a)
  <2>1. SUFFICES ASSUME NEW u \in Threads, NEW o \in ow1[u]
                 PROVE  \E a \in DOMAIN mn : o = BlockOf(mn, a)
    OBVIOUS
  <2>2. CASE o = new
    BY <2>2
  <2>3. CASE o # new
    <3>1. o \in ow[u] /\ o.p # PointerOf(x)
      BY <1>1, <1>2, <2>3
    <3>2. PICK a \in DOMAIN mo : o = BlockOf(mo, a)
      BY <3>1 DEF OwnedOK
    <3>3. o.p = PointerOf(a)
      BY <3>2 DEF BlockOf
    <3>4. a # x
      BY <3>1, <3>3
    <3> QED BY <1>7, <3>2, <3>4
  <2> QED BY <2>2, <2>3
<1>9. \A a \in DOMAIN mn : \E u \in Threads : BlockOf(mn, a) \in ow1[u]
  <2>1. SUFFICES ASSUME NEW a \in DOMAIN mn PROVE \E u \in Threads : BlockOf(mn, a) \in ow1[u]
    OBVIOUS
  <2>2. CASE a = x
    BY <1>4, <2>2
  <2>3. CASE a # x
    <3>1. PICK u \in Threads : BlockOf(mo, a) \in ow[u]
      BY DEF OwnedOK
    <3>2. PointerOf(a) # old.p
      BY <2>3, OnePointer
    <3>3. BlockOf(mo, a) # old
      BY <1>7, <2>3, <3>2
    <3> QED BY <1>7, <1>4, <2>3, <3>1, <3>3
  <2> QED BY <2>2, <2>3
<1>10. \A u, v \in Threads : \A o \in ow1[u], q \in ow1[v] : o.p = q.p => u = v /\ o = q
  <2>1. SUFFICES ASSUME NEW u \in Threads, NEW v \in Threads, NEW o \in ow1[u], NEW q \in ow1[v], o.p = q.p
                 PROVE  u = v /\ o = q
    OBVIOUS
  <2>2. \/ o \in ow[u] /\ o.p # old.p
        \/ u = t /\ o = new
    BY <1>4
  <2>3. \/ q \in ow[v] /\ q.p # old.p
        \/ v = t /\ q = new
    BY <1>4
  <2>4. CASE o \in ow[u] /\ q \in ow[v]
    BY <2>1, <2>4 DEF OwnedOK
  <2>5. CASE u = t /\ o = new /\ v = t /\ q = new
    BY <2>5
  <2>6. ~(o \in ow[u] /\ o.p # old.p /\ q = new) /\ ~(q \in ow[v] /\ q.p # old.p /\ o = new)
    BY <1>5, <2>1
  <2> QED BY <2>2, <2>3, <2>4, <2>5, <2>6
<1>11. OwnedOK(ow1, mn)
  BY <1>1, <1>8, <1>9, <1>10 DEF OwnedOK
<1>12. BlocksOf(ow1) = (BlocksOf(ow) \ {old}) \cup {new} /\ old \in BlocksOf(ow)
  <2>1. \A o : o \in BlocksOf(ow) <=> \E u \in Threads : o \in ow[u]
    BY DEF BlocksOf
  <2>2. \A o : o \in BlocksOf(ow1) <=> \E u \in Threads : o \in ow1[u]
    BY DEF BlocksOf
  <2>3. \A o : o \in BlocksOf(ow1) <=> o = new \/ (o \in BlocksOf(ow) /\ o # old)
    BY <1>4, <2>1, <2>2
  <2> QED BY <2>1, <2>3
<1> QED BY <1>5, <1>6, <1>11, <1>12

-----------------------------------------------------------------------------
(* The inductive invariant.                                                 *)

Has(bs, p) == \E o \in bs : o.p = p

\* Between its search and its last write.
Calling(j) == j.step \in {"grow", "setbrk", "place"}

\* What a thread remembers is still so.
JobOK(j, mj, mn, top, bs) ==
  \/ j = Idle
  \/ /\ Calling(j) /\ j.req \in Requests
     /\ j.copy # Nowhere => Has(bs, j.copy)
     /\ j.step # "place" => GrowBehind(mj, j.behind)
     /\ j.step = "setbrk" => j.base = top
     /\ j.step = "place" => PlaceOK(mj, mn, j)
  \/ j.step = "free" /\ Has(bs, j.p)

\* The lock keeps calls apart.
OneCall(jobs, lk) ==
  /\ \A t \in Threads : Calling(jobs[t]) => lk
  /\ \A t, u \in Threads : Calling(jobs[t]) /\ Calling(jobs[u]) => t = u

Coherent ==
  /\ ListsOK(major, minor, memRoot, bestBet, brk)
  /\ OwnedOK(owned, minor)
  /\ OneCall(job, lock)
  /\ \A t \in Threads : JobOK(job[t], major, minor, brk, owned[t])

\* As long as liballoc_lock has refused nobody, the lists are coherent, the
\* threads own the blocks in them, and what a thread found is still there.
HeapListsOK ==
  /\ DOMAIN job = Threads /\ lock \in BOOLEAN /\ refused \in BOOLEAN /\ faulted \in BOOLEAN
  /\ ~refused => Coherent

\* The others are not in a call when one is, and nobody is when the lock is free.
LEMMA Alone ==
  ASSUME NEW jobs, NEW lk, OneCall(jobs, lk), NEW t \in Threads, Calling(jobs[t]) \/ ~lk
  PROVE  \A u \in Threads : u # t => ~Calling(jobs[u])
BY DEF OneCall

\* A thread that is in no call loses nothing to another one's step.
LEMMA JobStays ==
  ASSUME NEW j, NEW mj, NEW mn, NEW top, NEW bs, JobOK(j, mj, mn, top, bs), ~Calling(j),
         NEW mj1, NEW mn1, NEW top1
  PROVE  JobOK(j, mj1, mn1, top1, bs)
BY DEF JobOK

\* A step of one thread, when no other one is in a call.
LEMMA ChangeKeeps ==
  ASSUME Coherent, DOMAIN job = Threads,
         NEW t \in Threads, \A u \in Threads : u # t => ~Calling(job[u]), NEW j,
         ListsOK(major, minor, memRoot, bestBet, brk)', OwnedOK(owned, minor)',
         \A u \in Threads : u # t => owned'[u] = owned[u],
         JobOK(j, major', minor', brk', owned'[t]), Calling(j) => lock',
         DOMAIN job' = Threads, job'[t] = j, \A u \in Threads : u # t => job'[u] = job[u]
  PROVE  Coherent'
<1>1. ASSUME NEW u \in Threads PROVE JobOK(job'[u], major', minor', brk', owned'[u])
  <2>1. CASE u = t
    BY <2>1
  <2>2. CASE u # t
    <3>1. JobOK(job[u], major, minor, brk, owned[u]) /\ ~Calling(job[u])
      BY <2>2 DEF Coherent
    <3>2. JobOK(job[u], major', minor', brk', owned[u])
      BY <3>1, JobStays
    <3>3. job'[u] = job[u] /\ owned'[u] = owned[u]
      BY <2>2
    <3> QED BY <3>2, <3>3
  <2> QED BY <2>1, <2>2
<1>2. \A u \in Threads : u # t => ~Calling(job'[u])
  OBVIOUS
<1>3. OneCall(job, lock)'
  BY <1>2 DEF OneCall
<1> QED BY <1>1, <1>3 DEF Coherent

LEMMA StepKeeps ==
  ASSUME Coherent, DOMAIN job = Threads,
         NEW t \in Threads, \A u \in Threads : u # t => ~Calling(job[u]), NEW j,
         ListsOK(major, minor, memRoot, bestBet, brk)', OwnedOK(owned, minor)',
         \A u \in Threads : u # t => owned'[u] = owned[u],
         JobOK(j, major', minor', brk', owned'[t]), Calling(j) => lock',
         job' = [job EXCEPT ![t] = j]
  PROVE  Coherent' /\ DOMAIN job' = Threads
<1>1. DOMAIN job' = Threads /\ job'[t] = j /\ \A u \in Threads : u # t => job'[u] = job[u]
  OBVIOUS
<1> QED BY <1>1, ChangeKeeps

LEMMA RequestIs ==
  ASSUME NEW req \in Requests
  PROVE  req \in Nat
BY UserHeapAssumption

\* What the invariant says about pointers of the callers.
LEMMA OwnedMinor ==
  ASSUME NEW mj, NEW mn, NEW root, NEW best, NEW top, ListsOK(mj, mn, root, best, top),
         NEW ow, OwnedOK(ow, mn), NEW t \in Threads, NEW o \in ow[t]
  PROVE  \E a \in DOMAIN mn : /\ PointerOf(a) = o.p /\ o.n = mn[a].req
                              /\ \A c \in DOMAIN mn : PointerOf(c) = o.p => c = a
<1>1. PICK a \in DOMAIN mn : o = BlockOf(mn, a)
  BY DEF OwnedOK
<1>2. o.p = PointerOf(a) /\ o.n = mn[a].req
  BY <1>1 DEF BlockOf
<1>3. \A c \in DOMAIN mn : PointerOf(c) = o.p => c = a
  BY <1>2, OnePointer
<1> QED BY <1>2, <1>3

\* malloc's search.
LEMMA SearchKeeps ==
  ASSUME Coherent, DOMAIN job = Threads, lock \in BOOLEAN, NEW t \in Threads, NEW req \in Requests, NEW copy,
         copy # Nowhere => Has(owned[t], copy), Search(t, req, copy), ~refused'
  PROVE  Coherent' /\ owned' = owned /\ DOMAIN job' = Threads /\ lock' \in BOOLEAN /\ refused' \in BOOLEAN
<1>1. /\ ListsOK(major, minor, memRoot, bestBet, brk) /\ OwnedOK(owned, minor) /\ OneCall(job, lock)
      /\ \A u \in Threads : JobOK(job[u], major, minor, brk, owned[u])
  BY DEF Coherent
<1>2. lock' = TRUE /\ refused' = (refused \/ lock) /\ UNCHANGED <<major, minor, memRoot, brk, owned, faulted>>
  BY DEF Search, Lock
<1>3. ~lock /\ \A u \in Threads : u # t => ~Calling(job[u])
  BY <1>1, <1>2, Alone
<1>4. PICK ms : ms = Majors /\ ms = ViewAll(major, minor, memRoot)
  BY MajorsAre
<1>5. PICK size, v, vs : /\ size = SizeFor(req) /\ v = TakenAt(ms, bestBet, size)
                         /\ vs = Visits(ms, bestBet, size)
  OBVIOUS
<1>6. req \in Nat
  BY RequestIs
<1>7. CASE v # 0
  <2>1. PICK m, k : m = ms[vs[v]] /\ k = GapIn(m, size)
    OBVIOUS
  <2>2. PICK j : j = [step |-> "place", req |-> req, copy |-> copy, block |-> m.base,
                      at |-> GapStart(m, k), last |-> k = Len(m.minors),
                      after |-> IF k = 0 THEN Nowhere ELSE m.minors[k].at]
    OBVIOUS
  <2>3. bestBet' = BestAfter(ms, bestBet, SubSeq(vs, 1, v)) /\ job' = [job EXCEPT ![t] = j]
    BY <1>4, <1>5, <1>7, <2>1, <2>2 DEF Search
  <2>4. j.step = "place" /\ j.req = req /\ j.copy = copy /\ GapJob(m, k, j)
    BY <2>2 DEF GapJob
  <2>5. PlaceOK(major, minor, j) /\ bestBet' \in DOMAIN major \cup {NoMajor}
    BY <1>1, <1>4, <1>5, <1>6, <1>7, <2>1, <2>3, <2>4, SearchPlaces
  <2>6. JobOK(j, major, minor, brk, owned[t])
    BY <2>4, <2>5 DEF JobOK, Calling
  <2>7. ListsOK(major, minor, memRoot, bestBet, brk)'
    BY <1>1, <1>2, <2>5, BestChanges
  <2>8. OwnedOK(owned, minor)' /\ owned' = owned
    BY <1>1, <1>2
  <2>9. JobOK(j, major', minor', brk', owned'[t])
    BY <1>2, <2>6
  <2>10. Coherent' /\ DOMAIN job' = Threads
    BY <1>2, <1>3, <2>3, <2>7, <2>8, <2>9, StepKeeps
  <2> QED BY <1>2, <2>8, <2>10
<1>8. CASE v = 0
  <2>1. PICK behind, compare : /\ behind = (IF ms = <<>> THEN NoMajor ELSE Last(ms).base)
                               /\ compare = (ms = <<>> \/ Unused(Last(ms)) >= size + MinorSize)
    OBVIOUS
  <2>2. PICK j : j = [step |-> "grow", req |-> req, copy |-> copy, behind |-> behind, compare |-> compare]
    OBVIOUS
  <2>3. /\ bestBet' = (IF ms = <<>> THEN bestBet ELSE BestAfter(ms, bestBet, vs))
        /\ job' = [job EXCEPT ![t] = j]
    BY <1>4, <1>5, <1>8, <2>1, <2>2 DEF Search
  <2>4. j.step = "grow" /\ j.req = req /\ j.copy = copy /\ j.behind = behind
    BY <2>2
  <2>5. GrowBehind(major, behind) /\ bestBet' \in DOMAIN major \cup {NoMajor}
    BY <1>1, <1>4, <1>5, <2>1, <2>3, SearchFails
  <2>6. JobOK(j, major, minor, brk, owned[t])
    BY <2>4, <2>5 DEF JobOK, Calling
  <2>7. ListsOK(major, minor, memRoot, bestBet, brk)'
    BY <1>1, <1>2, <2>5, BestChanges
  <2>8. OwnedOK(owned, minor)' /\ owned' = owned
    BY <1>1, <1>2
  <2>9. JobOK(j, major', minor', brk', owned'[t])
    BY <1>2, <2>6
  <2>10. Coherent' /\ DOMAIN job' = Threads
    BY <1>2, <1>3, <2>3, <2>7, <2>8, <2>9, StepKeeps
  <2> QED BY <1>2, <2>8, <2>10
<1> QED BY <1>7, <1>8

-----------------------------------------------------------------------------
(* sbrk.                                                                    *)

LEMMA ReadBreakKeeps ==
  ASSUME Coherent, DOMAIN job = Threads, NEW t \in Threads, ReadBreak(t)
  PROVE  Coherent' /\ owned' = owned /\ DOMAIN job' = Threads
<1>1. /\ ListsOK(major, minor, memRoot, bestBet, brk) /\ OwnedOK(owned, minor) /\ OneCall(job, lock)
      /\ JobOK(job[t], major, minor, brk, owned[t])
  BY DEF Coherent
<1>2. UNCHANGED <<major, minor, memRoot, bestBet, brk, lock, owned>> /\ job[t].step = "grow"
  BY DEF ReadBreak
<1>3. PICK was : was = job[t]
  OBVIOUS
<1>4. PICK j : j = [step |-> "setbrk", base |-> brk, req |-> was.req, copy |-> was.copy,
                    behind |-> was.behind, compare |-> was.compare]
  OBVIOUS
<1>5. job' = [job EXCEPT ![t] = j]
  BY <1>3, <1>4 DEF ReadBreak
<1>6. Calling(was)
  BY <1>2, <1>3 DEF Calling
<1>7. lock /\ \A u \in Threads : u # t => ~Calling(job[u])
  BY <1>1, <1>3, <1>6, Alone DEF OneCall
<1>8. /\ was.req \in Requests /\ (was.copy # Nowhere => Has(owned[t], was.copy))
      /\ GrowBehind(major, was.behind)
  BY <1>1, <1>2, <1>3 DEF JobOK, Idle
<1>9. /\ j.step = "setbrk" /\ j.base = brk /\ j.req = was.req /\ j.copy = was.copy
      /\ j.behind = was.behind
  BY <1>4
<1>10. JobOK(j, major, minor, brk, owned[t])
  BY <1>8, <1>9 DEF JobOK, Calling
<1>11. ListsOK(major, minor, memRoot, bestBet, brk)' /\ OwnedOK(owned, minor)' /\ owned' = owned /\ lock'
  BY <1>1, <1>2, <1>7
<1>12. JobOK(j, major', minor', brk', owned'[t])
  BY <1>2, <1>10
<1>13. Coherent' /\ DOMAIN job' = Threads
  BY <1>5, <1>7, <1>11, <1>12, StepKeeps
<1> QED BY <1>11, <1>13

LEMMA SetBreakKeeps ==
  ASSUME Coherent, DOMAIN job = Threads, NEW t \in Threads, SetBreak(t)
  PROVE  Coherent' /\ owned' = owned /\ DOMAIN job' = Threads
<1>1. /\ ListsOK(major, minor, memRoot, bestBet, brk) /\ OwnedOK(owned, minor) /\ OneCall(job, lock)
      /\ JobOK(job[t], major, minor, brk, owned[t])
  BY DEF Coherent
<1>2. PICK was : was = job[t]
  OBVIOUS
<1>3. UNCHANGED <<minor, owned, refused>> /\ was.step = "setbrk"
  BY <1>2 DEF SetBreak
<1>4. Calling(was)
  BY <1>3 DEF Calling
<1>5. lock /\ \A u \in Threads : u # t => ~Calling(job[u])
  BY <1>1, <1>2, <1>4, Alone DEF OneCall
<1>6. /\ was.req \in Requests /\ (was.copy # Nowhere => Has(owned[t], was.copy))
      /\ GrowBehind(major, was.behind) /\ was.base = brk
  BY <1>1, <1>2, <1>3 DEF JobOK, Idle
<1>7. PICK size, pages, wanted :
        size = SizeFor(was.req) /\ pages = PagesFor(size) /\ wanted = brk + pages * PageSize
  OBVIOUS
<1>8. was.req \in Nat /\ size \in Nat /\ brk \in Nat
  BY <1>1, <1>6, <1>7, RequestIs, SizesAssumption DEF ListsOK, MajorsOK, SizeFor
<1>9. pages \in Nat \ {0} /\ pages * PageSize \in Nat /\ size + MajorSize + MinorSize <= pages * PageSize
  BY <1>7, <1>8, PagesSuffice
<1>10. wanted # brk
  BY <1>7, <1>8, <1>9, SizesAssumption
<1>11. CASE wanted <= BrkLimit
  <2>1. PICK fresh : fresh = [next |-> NoMajor, pages |-> pages, usage |-> MajorSize, first |-> Nowhere]
    OBVIOUS
  <2>2. PICK linked : linked = IF was.behind = NoMajor THEN major ELSE [major EXCEPT ![was.behind].next = brk]
    OBVIOUS
  <2>3. PICK j : j = [step |-> "place", req |-> was.req, copy |-> was.copy, block |-> brk,
                      at |-> brk + MajorSize, last |-> TRUE, after |-> Nowhere]
    OBVIOUS
  <2>4. /\ brk' = wanted /\ major' = With(linked, brk, fresh)
        /\ memRoot' = (IF was.behind = NoMajor THEN brk ELSE memRoot)
        /\ bestBet' \in {bestBet, brk}
        /\ job' = [job EXCEPT ![t] = j] /\ UNCHANGED <<lock, faulted>>
    BY <1>2, <1>6, <1>7, <1>10, <1>11, <2>1, <2>2, <2>3 DEF SetBreak
  <2>5. (\A b \in DOMAIN major : major[b] \in MajorCells) /\ NoMajor \notin DOMAIN major
    <3>1. \A b \in DOMAIN major : b \in Nat \ {0} /\ major[b] \in MajorCells
      BY <1>1, MajorFacts
    <3> QED BY <3>1 DEF NoMajor
  <2>6. GrownFrom(major, major', was.behind, brk, pages)
    BY <2>1, <2>2, <2>4, <2>5, GrownIs
  <2>7. j.step = "place" /\ j.req = was.req /\ j.copy = was.copy
    BY <2>3
  <2>8. j.block = brk /\ j.at = brk + MajorSize /\ j.last = TRUE /\ j.after = Nowhere
    BY <2>3
  <2>9. /\ brk' = brk + pages * PageSize /\ bestBet' \in {bestBet, brk}
        /\ memRoot' = (IF was.behind = NoMajor THEN brk ELSE memRoot)
    BY <1>7, <2>4
  <2>10. j.req \in Nat /\ size = SizeFor(j.req)
    BY <1>7, <1>8, <2>7
  <2>11. ListsOK(major', minor, memRoot', bestBet', brk') /\ PlaceOK(major', minor, j)
    <3>1. NewPages(major, memRoot, bestBet, brk, was.behind, j, major', memRoot', bestBet', brk')
      BY <1>7, <2>6, <2>7, <2>8, <2>9 DEF NewPages
    <3> QED BY <1>1, <1>6, <2>10, <3>1, GrowKeeps
  <2>12. ListsOK(major, minor, memRoot, bestBet, brk)' /\ PlaceOK(major', minor', j)
    BY <1>3, <2>11
  <2>13. OwnedOK(owned, minor)' /\ owned' = owned /\ lock' = lock
    BY <1>1, <1>3, <2>4
  <2>14. JobOK(j, major', minor', brk', owned[t])
    BY <1>6, <2>7, <2>12 DEF JobOK, Calling
  <2>15. JobOK(j, major', minor', brk', owned'[t])
    BY <2>13, <2>14
  <2>16. job' = [job EXCEPT ![t] = j] /\ lock'
    BY <1>5, <2>4
  <2>17. Coherent' /\ DOMAIN job' = Threads
    BY <1>5, <2>12, <2>13, <2>15, <2>16, StepKeeps
  <2> QED BY <2>13, <2>17
<1>12. CASE ~(wanted <= BrkLimit)
  <2>1. /\ brk' = brk /\ lock' = FALSE /\ job' = [job EXCEPT ![t] = Idle]
        /\ UNCHANGED <<major, memRoot, bestBet>> /\ faulted' \in BOOLEAN
    BY <1>2, <1>6, <1>7, <1>12 DEF SetBreak
  <2>2. ListsOK(major, minor, memRoot, bestBet, brk)' /\ OwnedOK(owned, minor)' /\ owned' = owned
    BY <1>1, <1>3, <2>1
  <2>3. JobOK(Idle, major', minor', brk', owned'[t]) /\ ~Calling(Idle)
    BY DEF JobOK, Calling, Idle
  <2>4. Coherent' /\ DOMAIN job' = Threads
    BY <1>5, <2>1, <2>2, <2>3, StepKeeps
  <2> QED BY <2>1, <2>2, <2>4
<1> QED BY <1>11, <1>12

-----------------------------------------------------------------------------
(* The steps that change who owns what, and the promise they keep.          *)

\* What Blocks lets happen.
Promised == Promise!Next \/ UNCHANGED AllOwned

LEMMA NothingOwned ==
  ASSUME owned' = owned
  PROVE  Promised
BY DEF Promised, AllOwned

\* The last part of malloc.
LEMMA PlaceStep ==
  ASSUME Coherent, DOMAIN job = Threads, NEW t \in Threads, Place(t)
  PROVE  Coherent' /\ DOMAIN job' = Threads /\ Promised
<1>1. /\ ListsOK(major, minor, memRoot, bestBet, brk) /\ OwnedOK(owned, minor) /\ OneCall(job, lock)
      /\ JobOK(job[t], major, minor, brk, owned[t])
  BY DEF Coherent
<1>2. PICK was : was = job[t]
  OBVIOUS
<1>3. UNCHANGED <<memRoot, bestBet, brk>> /\ was.step = "place" /\ lock' = FALSE
  BY <1>2 DEF Place
<1>4. Calling(was)
  BY <1>3 DEF Calling
<1>5. \A u \in Threads : u # t => ~Calling(job[u])
  BY <1>1, <1>2, <1>4, Alone
<1>6. /\ was.req \in Requests /\ (was.copy # Nowhere => Has(owned[t], was.copy))
      /\ PlaceOK(major, minor, was)
  BY <1>1, <1>2, <1>3 DEF JobOK, Idle
<1>7. was.req \in Nat /\ was.block \in DOMAIN major
  BY <1>6, RequestIs DEF PlaceOK
<1>8. PICK b, size, next, x, after :
        /\ b = was.block /\ size = SizeFor(was.req) /\ next = NextFor(major, minor, was)
        /\ x = was.at /\ after = was.after
  OBVIOUS
<1>9. /\ \A a \in DOMAIN minor : a \in Nat \ {0} /\ minor[a] \in MinorCells
      /\ \A c \in DOMAIN major : major[c] \in MajorCells
      /\ Nowhere \notin DOMAIN minor
  BY <1>1, MinorFacts, MajorFacts DEF Nowhere
<1>10. LinkedFrom(minor, minor', was, next, size)
  <2>1. PICK new : new = [next |-> next, prev |-> after, block |-> b, size |-> size, req |-> was.req]
    OBVIOUS
  <2>2. PICK behind : behind = IF after = Nowhere THEN minor ELSE [minor EXCEPT ![after].next = x]
    OBVIOUS
  <2>3. PICK around : around = IF next = Nowhere THEN behind ELSE [behind EXCEPT ![next].prev = x]
    OBVIOUS
  <2>4. minor' = Linked(x, new)
    BY <1>2, <1>8, <2>1 DEF Place, NextFor
  <2>5. new.prev = after /\ new.next = next
    BY <2>1
  <2>6. minor' = With(around, x, new)
    BY <2>2, <2>3, <2>4, <2>5 DEF Linked
  <2>7. LinkedFrom(minor, With(around, x, new), was, next, size)
    <3>1. new = [next |-> next, prev |-> was.after, block |-> was.block, size |-> size, req |-> was.req]
      BY <1>8, <2>1
    <3>2. behind = IF was.after = Nowhere THEN minor ELSE [minor EXCEPT ![was.after].next = was.at]
      BY <1>8, <2>2
    <3>3. around = IF next = Nowhere THEN behind ELSE [behind EXCEPT ![next].prev = was.at]
      BY <1>8, <2>3
    <3>4. LinkedFrom(minor, With(around, was.at, new), was, next, size)
      BY <1>9, <3>1, <3>2, <3>3, LinkedIs
    <3> QED BY <1>8, <3>4
  <2> QED BY <2>6, <2>7
<1>11. PICK first : first = IF after = Nowhere THEN x ELSE major[b].first
  OBVIOUS
<1>12. CountedFrom(major, major', b, size + MinorSize, first)
  <2>1. PICK more, u : more = size + MinorSize /\ u = major[b].usage + size + MinorSize
    OBVIOUS
  <2>2. size \in Nat /\ major[b].usage \in Nat /\ MinorSize \in Nat
    BY <1>1, <1>7, <1>8, MajorFacts, SizesAssumption DEF SizeFor
  <2>3. u = major[b].usage + more
    BY <2>1, <2>2
  <2>4. major' = [major EXCEPT ![b].usage = u, ![b].first = first]
    BY <1>2, <1>7, <1>8, <1>9, <1>11, <2>1 DEF Place, MajorCells
  <2>5. CountedFrom(major, major', b, more, first)
    BY <1>9, <2>3, <2>4, CountedIs
  <2> QED BY <2>1, <2>5
<1>13. ListsOK(major, minor, memRoot, bestBet, brk)'
  <2>1. CountedFrom(major, major', was.block, size + MinorSize,
                    IF was.after = Nowhere THEN was.at ELSE major[was.block].first)
    BY <1>8, <1>11, <1>12
  <2>2. next = NextFor(major, minor, was) /\ size = SizeFor(was.req)
    BY <1>8
  <2>3. ListsOK(major', minor', memRoot, bestBet, brk)
    BY <1>1, <1>6, <1>7, <1>10, <2>1, <2>2, PlaceKeeps
  <2> QED BY <1>3, <2>3
<1>14. PlacedCells(minor, minor', x, x + MinorSize + size, b, after, next, size, was.req)
  <2>1. next = NextFor(major, minor, was) /\ size = SizeFor(was.req)
    BY <1>8
  <2>2. PICK end : end = x + MinorSize + size
    OBVIOUS
  <2>3. x = was.at /\ b = was.block /\ after = was.after
    BY <1>8
  <2>4. PlacedCells(minor, minor', x, end, b, after, next, size, was.req)
    BY <1>1, <1>6, <1>7, <1>10, <2>1, <2>2, <2>3, LinkedFacts
  <2> QED BY <2>2, <2>4
<1>15. /\ DOMAIN minor' = DOMAIN minor \cup {x} /\ minor'[x].req = was.req
       /\ \A a \in DOMAIN minor : minor'[a].req = minor[a].req
  BY <1>14 DEF PlacedCells
<1>16. x \notin DOMAIN minor
  BY <1>1, <1>6, <1>7, <1>8, PlaceFacts
<1>17. PICK new : new = BlockOf(minor', x)
  OBVIOUS
<1>18. owned' = [owned EXCEPT ![t] = @ \cup {new}]
  BY <1>2, <1>8, <1>15, <1>17 DEF Place, BlockOf
<1>19. /\ OwnedOK(owned, minor)'
       /\ new \notin BlocksOf(owned) /\ BlocksOf(owned') = BlocksOf(owned) \cup {new}
       /\ \A o \in BlocksOf(owned) : new.p + new.n <= o.p \/ o.p + o.n <= new.p
  <2>1. PICK mj1, mn1, root1, best1, top1 :
          mj1 = major' /\ mn1 = minor' /\ root1 = memRoot' /\ best1 = bestBet' /\ top1 = brk'
    OBVIOUS
  <2>2. ListsOK(mj1, mn1, root1, best1, top1) /\ OwnedOK(owned, minor) /\ new = BlockOf(mn1, x)
    BY <1>1, <1>13, <1>17, <2>1
  <2>3. DOMAIN mn1 = DOMAIN minor \cup {x} /\ \A a \in DOMAIN minor : mn1[a].req = minor[a].req
    BY <1>15, <2>1
  <2>4. PICK ow1 : ow1 = [owned EXCEPT ![t] = @ \cup {new}]
    OBVIOUS
  <2>5. OwnedOK(ow1, mn1)
    BY <1>16, <2>2, <2>3, <2>4, OwnedPlace
  <2>6. BlocksOf(ow1) = BlocksOf(owned) \cup {new}
    BY <2>2, <2>4 DEF OwnedOK, BlocksOf
  <2>7. new \notin BlocksOf(owned)
    BY <1>16, <2>2, <2>3, <2>4, OwnedPlace
  <2>8. \A o \in BlocksOf(owned) : new.p + new.n <= o.p \/ o.p + o.n <= new.p
    BY <1>16, <2>2, <2>3, <2>4, OwnedPlace
  <2> QED BY <1>18, <2>1, <2>4, <2>5, <2>6, <2>7, <2>8
<1>20. DOMAIN owned = Threads
  BY <1>1 DEF OwnedOK
<1>21. (\A u \in Threads : u # t => owned'[u] = owned[u]) /\ owned[t] \subseteq owned'[t]
  BY <1>18, <1>20
<1>22. PICK j : j = IF was.copy = Nowhere THEN Idle ELSE [step |-> "free", p |-> was.copy]
  OBVIOUS
<1>23. job' = [job EXCEPT ![t] = j]
  BY <1>2, <1>22 DEF Place
<1>24. ~Calling(j) /\ JobOK(j, major', minor', brk', owned'[t])
  <2>1. CASE was.copy = Nowhere
    BY <1>22, <2>1 DEF Calling, JobOK, Idle
  <2>2. CASE was.copy # Nowhere
    <3>1. j.step = "free" /\ j.p = was.copy
      BY <1>22, <2>2
    <3>2. Has(owned'[t], j.p)
      BY <1>6, <1>21, <2>2, <3>1 DEF Has
    <3> QED BY <3>1, <3>2 DEF Calling, JobOK
  <2> QED BY <2>1, <2>2
<1>25. Coherent' /\ DOMAIN job' = Threads
  BY <1>5, <1>13, <1>19, <1>21, <1>23, <1>24, StepKeeps
<1>26. Promised
  <2>1. AllOwned = BlocksOf(owned) /\ AllOwned' = BlocksOf(owned')
    BY DEF AllOwned, BlocksOf
  <2>2. \A o \in AllOwned : Promise!Apart(new, o)
    BY <1>19, <2>1 DEF Promise!Apart
  <2>3. new \in AllOwned' \ AllOwned /\ AllOwned' = AllOwned \cup {new}
    BY <1>19, <2>1
  <2>4. Promise!Malloc
    BY <2>2, <2>3 DEF Promise!Malloc
  <2> QED BY <2>4 DEF Promised, Promise!Next
<1> QED BY <1>25, <1>26

\* Where a pointer that a thread owns points to.
LEMMA MinorForIs ==
  ASSUME Coherent, NEW t \in Threads, NEW o \in owned[t]
  PROVE  /\ Live(o.p) /\ MinorFor(o.p) \in DOMAIN minor
         /\ PointerOf(MinorFor(o.p)) = o.p /\ o.n = minor[MinorFor(o.p)].req
<1>1. ListsOK(major, minor, memRoot, bestBet, brk) /\ OwnedOK(owned, minor)
  BY DEF Coherent
<1>2. PICK a \in DOMAIN minor : /\ PointerOf(a) = o.p /\ o.n = minor[a].req
                                /\ \A c \in DOMAIN minor : PointerOf(c) = o.p => c = a
  BY <1>1, OwnedMinor
<1>3. MinorFor(o.p) \in DOMAIN minor /\ PointerOf(MinorFor(o.p)) = o.p
  BY <1>2 DEF MinorFor
<1>4. MinorFor(o.p) = a
  BY <1>2, <1>3
<1> QED BY <1>2, <1>3, <1>4 DEF Live

\* free, and the last part of realloc.
LEMMA ReleaseStep ==
  ASSUME Coherent, DOMAIN job = Threads, lock \in BOOLEAN, NEW t \in Threads, NEW p, Has(owned[t], p),
         Release(t, p), ~refused'
  PROVE  Coherent' /\ DOMAIN job' = Threads /\ Promised
<1>1. ListsOK(major, minor, memRoot, bestBet, brk) /\ OwnedOK(owned, minor) /\ OneCall(job, lock)
  BY DEF Coherent
<1>2. /\ lock' = FALSE /\ ~lock /\ job' = [job EXCEPT ![t] = Idle] /\ UNCHANGED <<memRoot, brk>>
      /\ owned' = [owned EXCEPT ![t] = {o \in @ : o.p # p}]
  BY DEF Release, LockAndUnlock
<1>3. \A u \in Threads : u # t => ~Calling(job[u])
  BY <1>1, <1>2, Alone
<1>4. PICK old \in owned[t] : old.p = p
  BY DEF Has
<1>5. PICK a : a = MinorFor(p)
  OBVIOUS
<1>6. Live(p) /\ a \in DOMAIN minor /\ PointerOf(a) = p
  BY <1>4, <1>5, MinorForIs
<1>7. PICK b, before, behind, less :
        b = minor[a].block /\ before = minor[a].prev /\ behind = minor[a].next /\ less = minor[a].size + MinorSize
  OBVIOUS
<1>8. /\ \A c \in DOMAIN minor : c \in Nat \ {0} /\ minor[c] \in MinorCells
      /\ \A c \in DOMAIN major : major[c] \in MajorCells
      /\ Nowhere \notin DOMAIN minor
  BY <1>1, MinorFacts, MajorFacts DEF Nowhere
<1>9. b \in DOMAIN major /\ less \in Nat /\ major[b].usage \in Nat
  <2>1. b \in DOMAIN major /\ minor[a].size \in Nat
    BY <1>1, <1>6, <1>7, MinorFacts
  <2> QED BY <1>1, <1>7, <2>1, MajorFacts, SizesAssumption
<1>10. UnlinkedFrom(minor, minor', a, before, behind)
  <2>1. minor' = Unlink(a)
    BY <1>5, <1>6 DEF Release
  <2>2. UnlinkedFrom(minor, Unlink(a), a, minor[a].prev, minor[a].next)
    BY <1>8, UnlinkedIs
  <2> QED BY <1>7, <2>1, <2>2
<1>11. PICK first : first = IF before = Nowhere THEN behind ELSE major[b].first
  OBVIOUS
<1>12. /\ CountedFrom(major, major', b, -less, first)
       /\ bestBet' \in {b, bestBet}
  <2>1. PICK u : u = major[b].usage - less
    OBVIOUS
  <2>2. u = major[b].usage + (-less)
    BY <1>9, <2>1
  <2>3. /\ major' = [major EXCEPT ![b].usage = @ - (minor[a].size + MinorSize),
                                  ![b].first = IF minor[a].prev = Nowhere THEN minor[a].next ELSE @]
        /\ bestBet' \in {b, bestBet}
    BY <1>5, <1>6, <1>7 DEF Release
  <2>4. major' = [major EXCEPT ![b].usage = u, ![b].first = first]
    BY <1>7, <1>8, <1>9, <1>11, <2>1, <2>3 DEF MajorCells
  <2>5. CountedFrom(major, major', b, -less, first)
    BY <1>8, <2>2, <2>4, CountedIs
  <2> QED BY <2>3, <2>5
<1>13. ListsOK(major', minor', memRoot, bestBet, brk)
  BY <1>1, <1>6, <1>7, <1>10, <1>11, <1>12, ReleaseKeeps
<1>14. bestBet' \in DOMAIN major' \cup {NoMajor}
  <2>1. bestBet \in DOMAIN major' \cup {NoMajor}
    BY <1>13 DEF ListsOK, MajorsOK
  <2>2. b \in DOMAIN major'
    BY <1>9, <1>12 DEF CountedFrom
  <2> QED BY <1>12, <2>1, <2>2
<1>15. ListsOK(major, minor, memRoot, bestBet, brk)'
  <2>1. ListsOK(major', minor', memRoot, bestBet', brk)
    BY <1>13, <1>14, BestChanges
  <2> QED BY <1>2, <2>1
<1>16. DOMAIN minor' = DOMAIN minor \ {a} /\ \A c \in DOMAIN minor' : minor'[c].req = minor[c].req
  BY <1>10 DEF UnlinkedFrom
<1>17. /\ OwnedOK(owned, minor)' /\ \A u \in Threads : owned'[u] = owned[u] \ {old}
       /\ old \in BlocksOf(owned) /\ BlocksOf(owned') = BlocksOf(owned) \ {old}
  <2>1. PICK mn1, ow1 : mn1 = minor' /\ ow1 = owned'
    OBVIOUS
  <2>2. Without(minor, mn1, a)
    BY <1>6, <1>16, <2>1 DEF Without
  <2>3. GivenBack(owned, ow1, t, old)
    BY <1>1, <1>2, <1>4, <2>1 DEF OwnedOK, GivenBack
  <2>4. old.p = PointerOf(a) /\ ListsOK(major, minor, memRoot, bestBet, brk) /\ OwnedOK(owned, minor)
    BY <1>1, <1>4, <1>6
  <2>5. OwnedOK(ow1, mn1) /\ \A u \in Threads : ow1[u] = owned[u] \ {old}
    BY <2>2, <2>3, <2>4, OwnedRelease
  <2>6. BlocksOf(ow1) = BlocksOf(owned) \ {old} /\ old \in BlocksOf(owned)
    BY <1>4, <2>5 DEF BlocksOf
  <2> QED BY <2>1, <2>5, <2>6
<1>18. \A u \in Threads : u # t => owned'[u] = owned[u]
  BY <1>2
<1>19. JobOK(Idle, major', minor', brk', owned'[t]) /\ ~Calling(Idle)
  BY DEF JobOK, Calling, Idle
<1>20. Coherent' /\ DOMAIN job' = Threads
  BY <1>2, <1>3, <1>15, <1>17, <1>18, <1>19, StepKeeps
<1>21. Promised
  <2>1. AllOwned = BlocksOf(owned) /\ AllOwned' = BlocksOf(owned')
    BY DEF AllOwned, BlocksOf
  <2>2. Promise!Free
    BY <1>17, <2>1 DEF Promise!Free
  <2> QED BY <2>2 DEF Promised, Promise!Next
<1> QED BY <1>20, <1>21

\* realloc to a smaller block.
LEMMA ShrinkStep ==
  ASSUME Coherent, DOMAIN job = Threads, lock \in BOOLEAN, NEW t \in Threads, NEW old \in owned[t],
         NEW req \in Requests, ReallocInPlace(t, old.p, req), ~refused'
  PROVE  Coherent' /\ DOMAIN job' = Threads /\ Promised
<1>1. ListsOK(major, minor, memRoot, bestBet, brk) /\ OwnedOK(owned, minor) /\ OneCall(job, lock)
  BY DEF Coherent
<1>2. PICK a : a = MinorFor(old.p)
  OBVIOUS
<1>3. a \in DOMAIN minor /\ PointerOf(a) = old.p /\ old.n = minor[a].req
  BY <1>2, MinorForIs
<1>4. /\ job[t] = Idle /\ minor[a].req >= req /\ lock' = FALSE /\ ~lock
      /\ UNCHANGED <<major, memRoot, bestBet, brk, job>>
      /\ minor' = [minor EXCEPT ![a].req = req]
      /\ owned' = [owned EXCEPT ![t] = {o \in @ : o.p # old.p} \cup {[p |-> old.p, n |-> req]}]
  BY <1>2 DEF ReallocInPlace, LockAndUnlock
<1>5. \A u \in Threads : u # t => ~Calling(job[u])
  BY <1>1, <1>4, Alone
<1>6. req \in Nat /\ minor[a].req \in Nat /\ req <= minor[a].req
  BY <1>1, <1>3, <1>4, RequestIs, MinorFacts
<1>7. PICK mn1 : mn1 = minor' /\ Shrunk(minor, mn1, a, req)
  BY <1>4 DEF Shrunk
<1>8. /\ ListsOK(major, mn1, memRoot, bestBet, brk)
      /\ DOMAIN mn1 = DOMAIN minor /\ mn1[a].req = req
      /\ \A c \in DOMAIN minor : c # a => mn1[c].req = minor[c].req
  BY <1>1, <1>3, <1>6, <1>7, ShrinkKeeps
<1>9. ListsOK(major, minor, memRoot, bestBet, brk)'
  BY <1>4, <1>7, <1>8
<1>10. PICK new : new = BlockOf(mn1, a)
  OBVIOUS
<1>11. new = [p |-> old.p, n |-> req]
  BY <1>3, <1>8, <1>10 DEF BlockOf
<1>12. PICK ow1 : ow1 = owned'
  OBVIOUS
<1>13. Resized(owned, ow1, t, old, new)
  BY <1>1, <1>4, <1>11, <1>12 DEF OwnedOK, Resized
<1>14. Relabeled(minor, mn1, a)
  BY <1>3, <1>8 DEF Relabeled
<1>15. /\ OwnedOK(ow1, mn1)
       /\ old \in BlocksOf(owned) /\ BlocksOf(ow1) = (BlocksOf(owned) \ {old}) \cup {new}
  <2>1. old.p = PointerOf(a) /\ ListsOK(major, minor, memRoot, bestBet, brk) /\ OwnedOK(owned, minor)
    BY <1>1, <1>3
  <2> QED BY <1>10, <1>13, <1>14, <2>1, OwnedShrink
<1>16. OwnedOK(owned, minor)' /\ \A u \in Threads : u # t => owned'[u] = owned[u]
  BY <1>7, <1>12, <1>13, <1>15 DEF Resized
<1>17. JobOK(Idle, major', minor', brk', owned'[t]) /\ ~Calling(Idle)
  BY DEF JobOK, Calling, Idle
<1>18. DOMAIN job' = Threads /\ job'[t] = Idle /\ \A u \in Threads : u # t => job'[u] = job[u]
  BY <1>4
<1>19. Coherent' /\ DOMAIN job' = Threads
  BY <1>5, <1>9, <1>16, <1>17, <1>18, ChangeKeeps
<1>20. Promised
  <2>1. AllOwned = BlocksOf(owned) /\ AllOwned' = BlocksOf(owned')
    BY DEF AllOwned, BlocksOf
  <2>2. new.p = old.p /\ new.n <= old.n
    BY <1>3, <1>4, <1>6, <1>11
  <2>3. old \in AllOwned /\ new \in AllOwned' /\ AllOwned' = (AllOwned \ {old}) \cup {new}
    BY <1>12, <1>15, <2>1
  <2>4. Promise!Shrink
    BY <2>2, <2>3 DEF Promise!Shrink
  <2> QED BY <2>4 DEF Promised, Promise!Next
<1> QED BY <1>19, <1>20

-----------------------------------------------------------------------------
(* The theorems.                                                            *)

\* What holds whether calls overlap or not.
LEMMA TypesKept ==
  ASSUME DOMAIN job = Threads, lock \in BOOLEAN, refused \in BOOLEAN, faulted \in BOOLEAN, Next
  PROVE  /\ DOMAIN job' = Threads /\ lock' \in BOOLEAN /\ refused' \in BOOLEAN /\ faulted' \in BOOLEAN
         /\ refused => refused'
<1>1. ASSUME NEW t \in Threads, NEW req, NEW copy, Search(t, req, copy)
      PROVE  /\ DOMAIN job' = Threads /\ lock' \in BOOLEAN /\ refused' \in BOOLEAN /\ faulted' \in BOOLEAN
             /\ refused => refused'
  <2>1. lock' = TRUE /\ refused' = (refused \/ lock) /\ faulted' = faulted
    BY <1>1 DEF Search, Lock
  <2>2. \E j : job' = [job EXCEPT ![t] = j]
    BY <1>1, Zenon DEF Search
  <2> QED BY <2>1, <2>2
<1>2. ASSUME NEW t \in Threads, NEW p, Release(t, p)
      PROVE  /\ DOMAIN job' = Threads /\ lock' \in BOOLEAN /\ refused' \in BOOLEAN /\ faulted' \in BOOLEAN
             /\ refused => refused'
  BY <1>2 DEF Release, LockAndUnlock
<1>3. PICK t \in Threads :
        \/ \E req \in Requests : Malloc(t, req)
        \/ ReadBreak(t)
        \/ SetBreak(t)
        \/ Place(t)
        \/ \E o \in owned[t] : Free(t, o.p)
        \/ \E o \in owned[t], req \in Requests : ReallocInPlace(t, o.p, req)
        \/ \E o \in owned[t], req \in Requests : ReallocMoves(t, o.p, req)
        \/ FreeOld(t)
  BY DEF Next
<1>4. CASE \E req \in Requests : Malloc(t, req)
  BY <1>1, <1>4 DEF Malloc
<1>5. CASE ReadBreak(t)
  BY <1>5 DEF ReadBreak
<1>6. CASE SetBreak(t)
  <2>1. /\ lock' \in BOOLEAN /\ refused' = refused /\ faulted' \in BOOLEAN
        /\ \E j : job' = [job EXCEPT ![t] = j]
    BY <1>6 DEF SetBreak
  <2> QED BY <2>1
<1>7. CASE Place(t)
  BY <1>7 DEF Place
<1>8. CASE \E o \in owned[t] : Free(t, o.p)
  BY <1>2, <1>8 DEF Free
<1>9. CASE \E o \in owned[t], req \in Requests : ReallocInPlace(t, o.p, req)
  BY <1>9 DEF ReallocInPlace, LockAndUnlock
<1>10. CASE \E o \in owned[t], req \in Requests : ReallocMoves(t, o.p, req)
  BY <1>1, <1>10 DEF ReallocMoves
<1>11. CASE FreeOld(t)
  BY <1>2, <1>11 DEF FreeOld
<1> QED BY <1>3, <1>4, <1>5, <1>6, <1>7, <1>8, <1>9, <1>10, <1>11

LEMMA NothingLinked ==
  ASSUME Init
  PROVE  HeapListsOK /\ Promise!Init
<1>1. /\ major = <<>> /\ minor = <<>> /\ memRoot = NoMajor /\ bestBet = NoMajor /\ brk = FirstBreak
      /\ lock = FALSE /\ job = [t \in Threads |-> Idle] /\ owned = [t \in Threads |-> {}]
      /\ refused = FALSE /\ faulted = FALSE
  BY DEF Init
<1>2. DOMAIN major = {} /\ DOMAIN minor = {}
  BY <1>1
<1>3. MajorsOK(major, minor, memRoot, bestBet, brk)
  BY <1>1, <1>2, FS_EmptySet, SizesAssumption
     DEF MajorsOK, Addresses, IsList, Adjacent, NoMajor, Nowhere, FirstBreak
<1>4. MinorsOK(major, minor)
  BY <1>2, FS_EmptySet DEF MinorsOK, Addresses
<1>5. OwnedOK(owned, minor)
  BY <1>1, <1>2 DEF OwnedOK
<1>6. \A t \in Threads : ~Calling(job[t]) /\ JobOK(job[t], major, minor, brk, owned[t])
  BY <1>1 DEF Calling, JobOK, Idle
<1>7. OneCall(job, lock)
  BY <1>6 DEF OneCall
<1>8. Coherent
  BY <1>3, <1>4, <1>5, <1>6, <1>7 DEF Coherent, ListsOK
<1>9. AllOwned = {}
  BY <1>1 DEF AllOwned
<1> QED BY <1>1, <1>8, <1>9 DEF HeapListsOK, Promise!Init

LEMMA NextKeeps ==
  ASSUME HeapListsOK, Next
  PROVE  HeapListsOK' /\ (~refused' => Promised)
<1>1. /\ DOMAIN job' = Threads /\ lock' \in BOOLEAN /\ refused' \in BOOLEAN /\ faulted' \in BOOLEAN
      /\ refused => refused'
  BY TypesKept DEF HeapListsOK
<1>2. ASSUME ~refused' PROVE Coherent' /\ Promised
  <2>1. ~refused' /\ Coherent /\ DOMAIN job = Threads /\ lock \in BOOLEAN
    BY <1>1, <1>2 DEF HeapListsOK
  <2>2. PICK t \in Threads :
          \/ \E req \in Requests : Malloc(t, req)
          \/ ReadBreak(t)
          \/ SetBreak(t)
          \/ Place(t)
          \/ \E o \in owned[t] : Free(t, o.p)
          \/ \E o \in owned[t], req \in Requests : ReallocInPlace(t, o.p, req)
          \/ \E o \in owned[t], req \in Requests : ReallocMoves(t, o.p, req)
          \/ FreeOld(t)
    BY DEF Next
  <2>3. CASE \E req \in Requests : Malloc(t, req)
    <3>1. PICK req \in Requests : Search(t, req, Nowhere)
      BY <2>3 DEF Malloc
    <3> QED BY <2>1, <3>1, SearchKeeps, NothingOwned
  <2>4. CASE ReadBreak(t)
    BY <2>1, <2>4, ReadBreakKeeps, NothingOwned
  <2>5. CASE SetBreak(t)
    BY <2>1, <2>5, SetBreakKeeps, NothingOwned
  <2>6. CASE Place(t)
    BY <2>1, <2>6, PlaceStep
  <2>7. CASE \E o \in owned[t] : Free(t, o.p)
    <3>1. PICK o \in owned[t] : Release(t, o.p)
      BY <2>7 DEF Free
    <3>2. Has(owned[t], o.p)
      BY DEF Has
    <3> QED BY <2>1, <3>1, <3>2, ReleaseStep
  <2>8. CASE \E o \in owned[t], req \in Requests : ReallocInPlace(t, o.p, req)
    BY <2>1, <2>8, ShrinkStep
  <2>9. CASE \E o \in owned[t], req \in Requests : ReallocMoves(t, o.p, req)
    <3>1. PICK o \in owned[t], req \in Requests : Search(t, req, o.p)
      BY <2>9 DEF ReallocMoves
    <3>2. Has(owned[t], o.p)
      BY DEF Has
    <3> QED BY <2>1, <3>1, <3>2, SearchKeeps, NothingOwned
  <2>10. CASE FreeOld(t)
    <3>1. job[t].step = "free" /\ Release(t, job[t].p)
      BY <2>10 DEF FreeOld
    <3>2. JobOK(job[t], major, minor, brk, owned[t])
      BY <2>1 DEF Coherent
    <3>3. Has(owned[t], job[t].p)
      BY <3>1, <3>2 DEF JobOK, Calling, Idle
    <3> QED BY <2>1, <3>1, <3>3, ReleaseStep
  <2> QED BY <2>2, <2>3, <2>4, <2>5, <2>6, <2>7, <2>8, <2>9, <2>10
<1> QED BY <1>1, <1>2 DEF HeapListsOK

LEMMA NothingKeeps ==
  ASSUME HeapListsOK, UNCHANGED vars
  PROVE  HeapListsOK'
<1>1. /\ major' = major /\ minor' = minor /\ memRoot' = memRoot /\ bestBet' = bestBet /\ brk' = brk
      /\ lock' = lock /\ job' = job /\ owned' = owned /\ refused' = refused /\ faulted' = faulted
  BY DEF vars
<1> QED BY <1>1 DEF HeapListsOK, Coherent

\* For all sizes, requests and threads: as long as liballoc_lock has refused
\* nobody, the lists are linked, sorted and counted, the threads own exactly the
\* blocks in them, and what the thread inside malloc found is still so.
THEOREM HeapListsInvariant == Spec => []HeapListsOK
<1>1. Init => HeapListsOK
  BY NothingLinked
<1>2. HeapListsOK /\ [Next]_vars => HeapListsOK'
  BY NextKeeps, NothingKeeps
<1> QED BY <1>1, <1>2, PTL DEF Spec

\* The invariant says what the runs check.
LEMMA CoherentLists ==
  ASSUME HeapListsOK, OneAtATime
  PROVE  ListsCoherent
<1>1. /\ refused \in BOOLEAN /\ faulted \in BOOLEAN /\ lock \in BOOLEAN
      /\ ListsOK(major, minor, memRoot, bestBet, brk)
  BY DEF HeapListsOK, OneAtATime, Coherent
<1>2. TypeOK
  <2>1. \A b \in DOMAIN major : b \in Nat /\ major[b] \in [next : Nat, pages : Nat \ {0}, usage : Nat, first : Nat]
    BY <1>1, MajorFacts DEF MajorCells
  <2>2. ASSUME NEW a \in DOMAIN minor
        PROVE  minor[a] \in [next : Nat, prev : Nat, block : DOMAIN major, size : Nat, req : Nat]
    <3>1. minor[a] \in MinorCells /\ minor[a].block \in DOMAIN major
      BY <1>1, MinorFacts
    <3> QED BY <3>1 DEF MinorCells
  <2>3. bestBet \in Nat /\ brk \in Nat
    BY <1>1, <2>1 DEF ListsOK, MajorsOK, NoMajor
  <2>4. memRoot \in Nat
    BY <1>1, <2>1 DEF ListsOK, MajorsOK, IsList, Adjacent, Nowhere
  <2> QED BY <1>1, <2>1, <2>2, <2>3, <2>4 DEF TypeOK
<1>3. PICK ms : ms = Majors /\ ms = ViewAll(major, minor, memRoot)
  BY MajorsAre
<1>4. AllSound(ms) /\ LinkedBack(major, minor)
  BY <1>1, <1>3, ListsAreCoherent
<1>5. DOMAIN minor = UNION {ToSet(MinorsOf(b)) : b \in DOMAIN major}
  <2>1. DOMAIN minor = UNION {ToSet(Walk(minor, major[b].first)) : b \in DOMAIN major}
    BY <1>1, <1>3, ListsAreCoherent
  <2> QED BY <2>1 DEF MinorsOf
<1>6. \A b \in DOMAIN major : \A k \in DOMAIN MinorsOf(b) :
        LET ats == MinorsOf(b)
        IN  /\ minor[ats[k]].block = b
            /\ minor[ats[k]].prev = IF k = 1 THEN Nowhere ELSE ats[k - 1]
  BY <1>4 DEF LinkedBack, MinorsOf
<1> QED BY <1>2, <1>3, <1>4, <1>5, <1>6 DEF ListsCoherent, AllSound

\* The pointers of the lists agree whenever no call is under way, as long as no
\* call overlapped another.
THEOREM ListsStayCoherent == Spec => [](OneAtATime => ListsCoherent)
<1>1. HeapListsOK => (OneAtATime => ListsCoherent)
  BY CoherentLists
<1> QED BY <1>1, HeapListsInvariant, PTL

\* As long as no two calls overlap, malloc, free and realloc over the linked
\* lists do what Blocks promises: new blocks overlap none, and no block moves.
THEOREM BlocksImplemented == Spec /\ []OneAtATime => ImplementsBlocks
<1>1. Init => Promise!Init
  BY NothingLinked
<1>2. HeapListsOK /\ [Next]_vars /\ OneAtATime' => [Promise!Next]_AllOwned
  <2>1. SUFFICES ASSUME HeapListsOK, [Next]_vars, OneAtATime'
                 PROVE  Promised
    BY DEF Promised
  <2>2. CASE Next
    BY <2>1, <2>2, NextKeeps DEF OneAtATime
  <2>3. CASE UNCHANGED vars
    BY <2>3, NothingOwned DEF vars
  <2> QED BY <2>1, <2>2, <2>3
<1> QED BY <1>1, <1>2, HeapListsInvariant, PTL DEF Spec, ImplementsBlocks, Promise!Spec
=============================================================================
