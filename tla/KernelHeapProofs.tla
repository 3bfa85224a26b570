--------------------------- MODULE KernelHeapProofs ---------------------------
(***************************************************************************)
(* Machine-checked proofs about the kernel's heap, for all sizes of heads, *)
(* pages and requests: blocks never overlap, every counter is exact, and   *)
(* pages are taken only when no gap fits.                                  *)
(***************************************************************************)
EXTENDS KernelHeap, TLAPS, FiniteSetTheorems, SequenceTheorems, WellFoundedInduction

-----------------------------------------------------------------------------
(* Sequences.                                                               *)

\* A sequence over a set is one over a larger set.
LEMMA SequenceWidens ==
  ASSUME NEW S, NEW T, NEW l \in Seq(S), S \subseteq T
  PROVE  l \in Seq(T)
BY SMT

\* A sequence in which one place changes.
LEMMA PlaceChanged ==
  ASSUME NEW S, NEW s \in Seq(S), NEW i \in DOMAIN s, NEW v \in S
  PROVE  /\ [s EXCEPT ![i] = v] \in Seq(S) /\ DOMAIN [s EXCEPT ![i] = v] = DOMAIN s
         /\ Len([s EXCEPT ![i] = v]) = Len(s)
         /\ \A n \in DOMAIN s : [s EXCEPT ![i] = v][n] = IF n = i THEN v ELSE s[n]
BY SMT

\* A beginning and an end of a sequence.
LEMMA PartOf ==
  ASSUME NEW S, NEW s \in Seq(S), NEW a \in 1 .. Len(s) + 1, NEW b \in 0 .. Len(s), a <= b + 1
  PROVE  /\ SubSeq(s, a, b) \in Seq(S)
         /\ Len(SubSeq(s, a, b)) = b + 1 - a
         /\ \A i \in 1 .. b + 1 - a : SubSeq(s, a, b)[i] = s[a + i - 1]
<1>1. \A i \in a .. b : s[i] \in S
  BY LenProperties, ElementOfSeq
<1>2. a \in Int /\ b \in Int
  OBVIOUS
<1> QED BY <1>1, <1>2, SubSeqProperties

\* InsertAt moves what lies behind.
LEMMA Inserted ==
  ASSUME NEW S, NEW s \in Seq(S), NEW k \in 0 .. Len(s), NEW e \in S
  PROVE  /\ InsertAt(s, k + 1, e) \in Seq(S)
         /\ Len(InsertAt(s, k + 1, e)) = Len(s) + 1
         /\ InsertAt(s, k + 1, e)[k + 1] = e
         /\ \A i \in 1 .. k : InsertAt(s, k + 1, e)[i] = s[i]
         /\ \A i \in k + 1 .. Len(s) : InsertAt(s, k + 1, e)[i + 1] = s[i]
<1>0. Len(s) \in Nat
  BY LenProperties
<1>1. PICK a : a = SubSeq(s, 1, k)
  OBVIOUS
<1>2. a \in Seq(S) /\ Len(a) = k /\ \A i \in 1 .. k : a[i] = s[i]
  BY <1>0, <1>1, PartOf
<1>3. PICK b : b = SubSeq(s, k + 1, Len(s))
  OBVIOUS
<1>4. b \in Seq(S) /\ Len(b) = Len(s) - k /\ \A i \in 1 .. Len(s) - k : b[i] = s[k + i]
  <2>1. k + 1 \in 1 .. Len(s) + 1 /\ Len(s) \in 0 .. Len(s) /\ k + 1 <= Len(s) + 1
    BY <1>0
  <2>2. /\ b \in Seq(S) /\ Len(b) = Len(s) + 1 - (k + 1)
        /\ \A i \in 1 .. Len(s) + 1 - (k + 1) : b[i] = s[(k + 1) + i - 1]
    BY <1>3, <2>1, PartOf
  <2>3. Len(s) + 1 - (k + 1) = Len(s) - k /\ \A i \in 1 .. Len(s) - k : (k + 1) + i - 1 = k + i
    BY <1>0
  <2> QED BY <2>2, <2>3
<1>5. InsertAt(s, k + 1, e) = (a \o <<e>>) \o b
  <2>1. (k + 1) - 1 = k
    BY <1>0
  <2> QED BY <1>1, <1>3, <2>1, Zenon DEF InsertAt
<1>6. <<e>> \in Seq(S) /\ Len(<<e>>) = 1 /\ <<e>>[1] = e
  OBVIOUS
<1>7. PICK c : c = a \o <<e>>
  OBVIOUS
<1>8. c \in Seq(S) /\ Len(c) = k + 1 /\ c[k + 1] = e /\ \A i \in 1 .. k : c[i] = s[i]
  <2>1. c \in Seq(S) /\ Len(c) = k + 1 /\ \A i \in 1 .. k + 1 : c[i] = IF i <= k THEN a[i] ELSE <<e>>[i - k]
    BY <1>2, <1>6, <1>7, ConcatProperties
  <2> QED BY <1>2, <1>6, <2>1
<1>9. /\ c \o b \in Seq(S) /\ Len(c \o b) = Len(s) + 1
      /\ \A i \in 1 .. Len(s) + 1 : (c \o b)[i] = IF i <= k + 1 THEN c[i] ELSE b[i - (k + 1)]
  BY <1>0, <1>4, <1>8, ConcatProperties
<1>10. ASSUME NEW i \in k + 1 .. Len(s) PROVE (c \o b)[i + 1] = s[i]
  <2>1. i + 1 \in 1 .. Len(s) + 1 /\ ~(i + 1 <= k + 1) /\ (i + 1) - (k + 1) = i - k /\ i - k \in 1 .. Len(s) - k
    BY <1>0
  <2>2. b[i - k] = s[k + (i - k)] /\ k + (i - k) = i
    BY <1>0, <1>4, <2>1
  <2> QED BY <1>9, <2>1, <2>2
<1>11. (c \o b)[k + 1] = e /\ \A i \in 1 .. k : (c \o b)[i] = s[i]
  <2>1. \A i \in 1 .. k + 1 : i \in 1 .. Len(s) + 1 /\ i <= k + 1
    BY <1>0
  <2>2. \A i \in 1 .. k + 1 : (c \o b)[i] = c[i]
    BY <1>9, <2>1
  <2> QED BY <1>8, <2>2
<1> QED BY <1>5, <1>7, <1>9, <1>10, <1>11

\* RemoveAt moves what lies behind.
LEMMA Removed ==
  ASSUME NEW S, NEW s \in Seq(S), NEW k \in 1 .. Len(s)
  PROVE  /\ RemoveAt(s, k) \in Seq(S)
         /\ Len(RemoveAt(s, k)) = Len(s) - 1
         /\ \A i \in 1 .. k - 1 : RemoveAt(s, k)[i] = s[i]
         /\ \A i \in k .. Len(s) - 1 : RemoveAt(s, k)[i] = s[i + 1]
<1>0. Len(s) \in Nat
  BY LenProperties
<1>1. PICK a : a = SubSeq(s, 1, k - 1)
  OBVIOUS
<1>2. a \in Seq(S) /\ Len(a) = k - 1 /\ \A i \in 1 .. k - 1 : a[i] = s[i]
  BY <1>0, <1>1, PartOf
<1>3. PICK b : b = SubSeq(s, k + 1, Len(s))
  OBVIOUS
<1>4. b \in Seq(S) /\ Len(b) = Len(s) - k /\ \A i \in 1 .. Len(s) - k : b[i] = s[k + i]
  <2>1. k + 1 \in 1 .. Len(s) + 1 /\ Len(s) \in 0 .. Len(s) /\ k + 1 <= Len(s) + 1
    BY <1>0
  <2>2. /\ b \in Seq(S) /\ Len(b) = Len(s) + 1 - (k + 1)
        /\ \A i \in 1 .. Len(s) + 1 - (k + 1) : b[i] = s[(k + 1) + i - 1]
    BY <1>3, <2>1, PartOf
  <2>3. Len(s) + 1 - (k + 1) = Len(s) - k /\ \A i \in 1 .. Len(s) - k : (k + 1) + i - 1 = k + i
    BY <1>0
  <2> QED BY <2>2, <2>3
<1>5. /\ a \o b \in Seq(S) /\ Len(a \o b) = Len(s) - 1
      /\ \A i \in 1 .. Len(s) - 1 : (a \o b)[i] = IF i <= k - 1 THEN a[i] ELSE b[i - (k - 1)]
  BY <1>0, <1>2, <1>4, ConcatProperties
<1>6. ASSUME NEW i \in k .. Len(s) - 1 PROVE (a \o b)[i] = s[i + 1]
  <2>1. i \in 1 .. Len(s) - 1 /\ ~(i <= k - 1) /\ i - (k - 1) \in 1 .. Len(s) - k
    BY <1>0
  <2>2. b[i - (k - 1)] = s[k + (i - (k - 1))] /\ k + (i - (k - 1)) = i + 1
    BY <1>0, <1>4, <2>1
  <2> QED BY <1>5, <2>1, <2>2
<1>7. RemoveAt(s, k) = a \o b
  BY <1>1, <1>3 DEF RemoveAt
<1> QED BY <1>0, <1>2, <1>5, <1>6, <1>7

\* What RemoveAt leaves, by where it was.
LEMMA RemovedElements ==
  ASSUME NEW S, NEW s \in Seq(S), NEW k \in 1 .. Len(s)
  PROVE  /\ \A j \in DOMAIN RemoveAt(s, k) :
              \E i \in DOMAIN s : /\ i # k /\ RemoveAt(s, k)[j] = s[i]
                                  /\ i = IF j < k THEN j ELSE j + 1
         /\ \A i \in DOMAIN s : i # k => \E j \in DOMAIN RemoveAt(s, k) : RemoveAt(s, k)[j] = s[i]
<1>1. PICK t : t = RemoveAt(s, k)
  OBVIOUS
<1>2. Len(s) \in Nat /\ DOMAIN s = 1 .. Len(s)
  BY LenProperties
<1>3. t \in Seq(S) /\ Len(t) = Len(s) - 1
  BY <1>1, Removed
<1>4. DOMAIN t = 1 .. Len(s) - 1
  BY <1>3, LenProperties
<1>5. \A i \in 1 .. k - 1 : t[i] = s[i]
  BY <1>1, Removed
<1>6. \A i \in k .. Len(s) - 1 : t[i] = s[i + 1]
  BY <1>1, Removed
<1>7. ASSUME NEW j \in DOMAIN t
      PROVE  \E i \in DOMAIN s : i # k /\ t[j] = s[i] /\ i = IF j < k THEN j ELSE j + 1
  <2>1. CASE j < k
    <3>1. j \in 1 .. k - 1 /\ j \in DOMAIN s /\ j # k
      BY <1>2, <1>4, <2>1
    <3> QED BY <1>5, <2>1, <3>1
  <2>2. CASE ~(j < k)
    <3>1. j \in k .. Len(s) - 1 /\ j + 1 \in DOMAIN s /\ j + 1 # k
      BY <1>2, <1>4, <2>2
    <3> QED BY <1>6, <2>2, <3>1
  <2> QED BY <2>1, <2>2
<1>8. ASSUME NEW i \in DOMAIN s, i # k
      PROVE  \E j \in DOMAIN t : t[j] = s[i]
  <2>1. CASE i < k
    <3>1. i \in 1 .. k - 1 /\ i \in DOMAIN t
      BY <1>2, <1>4, <2>1
    <3> QED BY <1>5, <3>1
  <2>2. CASE ~(i < k)
    <3>1. i - 1 \in k .. Len(s) - 1 /\ i - 1 \in DOMAIN t /\ (i - 1) + 1 = i
      BY <1>2, <1>4, <1>8, <2>2
    <3> QED BY <1>6, <3>1
  <2> QED BY <2>1, <2>2
<1> QED BY <1>1, <1>7, <1>8

\* What InsertAt makes, by where it was.
LEMMA InsertedElements ==
  ASSUME NEW S, NEW s \in Seq(S), NEW k \in 0 .. Len(s), NEW e \in S
  PROVE  /\ \A j \in DOMAIN InsertAt(s, k + 1, e) :
              \/ j = k + 1 /\ InsertAt(s, k + 1, e)[j] = e
              \/ /\ j # k + 1
                 /\ \E i \in DOMAIN s : /\ InsertAt(s, k + 1, e)[j] = s[i]
                                        /\ i = IF j <= k THEN j ELSE j - 1
         /\ \A i \in DOMAIN s : \E j \in DOMAIN InsertAt(s, k + 1, e) : InsertAt(s, k + 1, e)[j] = s[i]
         /\ \E j \in DOMAIN InsertAt(s, k + 1, e) : InsertAt(s, k + 1, e)[j] = e
<1>1. PICK t : t = InsertAt(s, k + 1, e)
  OBVIOUS
<1>2. Len(s) \in Nat /\ DOMAIN s = 1 .. Len(s)
  BY LenProperties
<1>3. t \in Seq(S) /\ Len(t) = Len(s) + 1 /\ t[k + 1] = e
  BY <1>1, Inserted
<1>4. DOMAIN t = 1 .. Len(s) + 1
  BY <1>3, LenProperties
<1>5. \A i \in 1 .. k : t[i] = s[i]
  BY <1>1, Inserted
<1>6. ASSUME NEW i \in k + 1 .. Len(s) PROVE t[i + 1] = s[i]
  <2>1. InsertAt(s, k + 1, e)[i + 1] = s[i]
    BY Inserted
  <2> QED BY <1>1, <2>1
<1>7. ASSUME NEW j \in DOMAIN t, j # k + 1
      PROVE  \E i \in DOMAIN s : t[j] = s[i] /\ i = IF j <= k THEN j ELSE j - 1
  <2>1. CASE j <= k
    <3>1. j \in 1 .. k /\ j \in DOMAIN s
      BY <1>2, <1>4, <2>1
    <3> QED BY <1>5, <2>1, <3>1
  <2>2. CASE ~(j <= k)
    <3>1. j - 1 \in k + 1 .. Len(s) /\ j - 1 \in DOMAIN s /\ (j - 1) + 1 = j
      BY <1>2, <1>4, <1>7, <2>2
    <3> QED BY <1>6, <2>2, <3>1
  <2> QED BY <2>1, <2>2
<1>8. ASSUME NEW i \in DOMAIN s
      PROVE  \E j \in DOMAIN t : t[j] = s[i]
  <2>1. CASE i <= k
    <3>1. i \in 1 .. k /\ i \in DOMAIN t
      BY <1>2, <1>4, <2>1
    <3> QED BY <1>5, <3>1
  <2>2. CASE ~(i <= k)
    <3>1. i \in k + 1 .. Len(s) /\ i + 1 \in DOMAIN t
      BY <1>2, <1>4, <2>2
    <3> QED BY <1>6, <3>1
  <2> QED BY <2>1, <2>2
<1>9. k + 1 \in DOMAIN t
  BY <1>2, <1>4
<1> QED BY <1>1, <1>3, <1>7, <1>8, <1>9

-----------------------------------------------------------------------------
(* Least and greatest elements, intervals, division.                        *)

\* A set of natural numbers has a least element.
LEMMA MinExists ==
  ASSUME NEW T, T \subseteq Nat, T # {}
  PROVE  Min(T) \in T /\ \A y \in T : Min(T) <= y
<1>1. PICK x \in T : \A y \in T : ~(<<y, x>> \in OpToRel(<, Nat))
  BY NatLessThanWellFounded, WFMin
<1>2. \A y \in T : ~(y < x)
  BY <1>1 DEF OpToRel
<1>3. \A y \in T : x <= y
  BY <1>2
<1>4. \E m \in T : \A y \in T : m <= y
  BY <1>3
<1> QED BY <1>4 DEF Min

\* A bounded set of integers has a greatest element.
LEMMA MaxExists ==
  ASSUME NEW T, T \subseteq Int, T # {}, NEW b \in Int, \A y \in T : y <= b
  PROVE  Max(T) \in T /\ \A y \in T : y <= Max(T)
<1> DEFINE D == {n \in Nat : b - n \in T}
<1>1. D # {}
  <2>1. PICK y \in T : TRUE
    OBVIOUS
  <2>2. b - y \in Nat /\ b - (b - y) = y
    BY <2>1
  <2> QED BY <2>1, <2>2
<1>2. Min(D) \in D /\ \A n \in D : Min(D) <= n
  BY <1>1, MinExists
<1>3. PICK n \in Nat : n = Min(D) /\ b - n \in T /\ \A e \in D : n <= e
  BY <1>2
<1>4. ASSUME NEW y \in T PROVE b - n >= y
  <2>1. b - y \in D
    <3>1. y \in Int /\ y <= b
      OBVIOUS
    <3>2. b - y \in Nat /\ b - (b - y) = y
      BY <3>1
    <3> QED BY <3>2
  <2> QED BY <1>3, <2>1
<1>5. \E x \in T : \A y \in T : x >= y
  BY <1>3, <1>4
<1>6. Max(T) \in T /\ \A y \in T : Max(T) >= y
  BY <1>5 DEF Max
<1> QED BY <1>6

\* The first index of a set, 0 if there is none.
LEMMA FirstOf ==
  ASSUME NEW n \in Nat, NEW I, I \subseteq 1 .. n, NEW r, r = IF I # {} THEN Min(I) ELSE 0
  PROVE  /\ r = 0 => I = {}
         /\ I # {} => r \in I /\ r # 0
         /\ r \in 0 .. n
<1>1. I \subseteq Nat
  OBVIOUS
<1>2. CASE I = {}
  BY <1>2
<1>3. CASE I # {}
  <2>1. r = Min(I)
    BY <1>3
  <2>2. r \in I
    BY <1>1, <1>3, <2>1, MinExists
  <2> QED BY <2>2
<1> QED BY <1>2, <1>3

\* The units from a up to b.
LEMMA Interval ==
  ASSUME NEW a \in Int, NEW b \in Int, a <= b
  PROVE  IsFiniteSet(a .. b - 1) /\ Cardinality(a .. b - 1) = b - a
<1>1. b - 1 \in Int
  OBVIOUS
<1>2. IsFiniteSet(a .. b - 1) /\ Cardinality(a .. b - 1) = IF a > b - 1 THEN 0 ELSE (b - 1) - a + 1
  BY <1>1, FS_Interval
<1> QED BY <1>2

\* Sets that lie apart.
LEMMA DisjointUnion ==
  ASSUME NEW S, NEW T, IsFiniteSet(S), IsFiniteSet(T), S \cap T = {}
  PROVE  /\ IsFiniteSet(S \cup T) /\ Cardinality(S \cup T) = Cardinality(S) + Cardinality(T)
         /\ Cardinality(S) \in Nat /\ Cardinality(T) \in Nat
<1>1. Cardinality(S \cap T) = 0
  BY FS_EmptySet
<1>2. Cardinality(S) \in Nat /\ Cardinality(T) \in Nat
  BY FS_CardinalityType
<1>3. IsFiniteSet(S \cup T) /\ Cardinality(S \cup T) = Cardinality(S) + Cardinality(T) - Cardinality(S \cap T)
  BY FS_Union
<1> QED BY <1>1, <1>2, <1>3

\* Division with remainder.
LEMMA Division ==
  ASSUME NEW a \in Nat, NEW s \in Nat \ {0}
  PROVE  /\ a \div s \in Nat
         /\ (a \div s) * s <= a
         /\ a < (a \div s) * s + s
         /\ a % s \in 0 .. s - 1
BY SMT

\* Products.
LEMMA Products ==
  ASSUME NEW a \in Nat, NEW s \in Nat \ {0}
  PROVE  a * s \in Nat /\ (a # 0 => a * s >= s)
BY SMT

LEMMA ProductOrder ==
  ASSUME NEW a \in Int, NEW b \in Int, NEW s \in Nat \ {0}
  PROVE  /\ a <= b <=> a * s <= b * s
         /\ (a + b) * s = a * s + b * s
         /\ (a - b) * s = a * s - b * s
BY SMT

-----------------------------------------------------------------------------
(* One major.                                                               *)

Minors == [at : Nat, size : Nat, req : Nat]
MajorTypes == [base : Nat \ {0}, pages : Nat \ {0}, usage : Nat, minors : Seq(Minors)]

EndOf(x) == x.at + MinorSize + x.size

\* The caller's bytes lie inside the minor, with one to spare.
MinorSound(x) ==
  /\ PointerOf(x.at) - AlignInfo >= x.at + MinorSize
  /\ PointerOf(x.at) + x.req < EndOf(x)

\* MajorSound with the order of any two minors in place of neighbours.
MajorInv(m) ==
  /\ m \in MajorTypes
  /\ m.base + MajorSize <= MajorEnd(m)
  /\ \A k \in DOMAIN m.minors :
       /\ MinorSound(m.minors[k])
       /\ m.base + MajorSize <= m.minors[k].at /\ EndOf(m.minors[k]) <= MajorEnd(m)
  /\ \A j, k \in DOMAIN m.minors : j < k => EndOf(m.minors[j]) <= m.minors[k].at
  /\ UsageSound(m)

\* The arithmetic of a major has its types.
LEMMA MajorNumbers ==
  ASSUME NEW m \in MajorTypes
  PROVE  /\ m.base \in Nat /\ m.pages \in Nat \ {0} /\ m.usage \in Nat
         /\ m.pages * PageSize \in Nat /\ MajorEnd(m) \in Nat
         /\ m.minors \in Seq(Minors) /\ Len(m.minors) \in Nat /\ DOMAIN m.minors = 1 .. Len(m.minors)
         /\ \A k \in DOMAIN m.minors :
              /\ m.minors[k] \in Minors /\ m.minors[k].at \in Nat /\ m.minors[k].size \in Nat
              /\ m.minors[k].req \in Nat
              /\ EndOf(m.minors[k]) \in Nat /\ GapStart(m, k) = EndOf(m.minors[k])
              /\ m.minors[k].at + MinorSize <= EndOf(m.minors[k])
         /\ MajorSize \in Nat \ {0} /\ MinorSize \in Nat \ {0}
<1>1. m.base \in Nat /\ m.pages \in Nat \ {0} /\ m.usage \in Nat /\ m.minors \in Seq(Minors)
  BY DEF MajorTypes
<1>2. MajorSize \in Nat \ {0} /\ MinorSize \in Nat \ {0} /\ PageSize \in Nat \ {0}
  BY SizesAssumption
<1>3. m.pages * PageSize \in Nat
  BY <1>1, <1>2, Products
<1>4. MajorEnd(m) \in Nat
  BY <1>1, <1>3 DEF MajorEnd
<1>5. Len(m.minors) \in Nat /\ DOMAIN m.minors = 1 .. Len(m.minors)
  BY <1>1, LenProperties
<1>6. ASSUME NEW k \in DOMAIN m.minors
      PROVE  /\ m.minors[k] \in Minors /\ m.minors[k].at \in Nat /\ m.minors[k].size \in Nat
             /\ m.minors[k].req \in Nat
             /\ EndOf(m.minors[k]) \in Nat /\ GapStart(m, k) = EndOf(m.minors[k])
             /\ m.minors[k].at + MinorSize <= EndOf(m.minors[k])
  <2>1. m.minors[k] \in Minors /\ k # 0
    BY <1>1, <1>5, ElementOfSeq
  <2>2. m.minors[k].at \in Nat /\ m.minors[k].size \in Nat /\ m.minors[k].req \in Nat
    BY <2>1 DEF Minors
  <2> QED BY <1>2, <2>1, <2>2 DEF EndOf, GapStart
<1> QED BY <1>1, <1>2, <1>3, <1>4, <1>5, <1>6

\* The units of a major.
LEMMA UnitIs ==
  ASSUME NEW m \in MajorTypes, NEW u
  PROVE  /\ u \in UnitsOf(m) <=>
              \E k \in DOMAIN m.minors : u \in m.minors[k].at .. EndOf(m.minors[k]) - 1
         /\ u \in DataOf(m) <=>
              \E k \in DOMAIN m.minors : u \in m.minors[k].at + MinorSize .. EndOf(m.minors[k]) - 1
BY MajorNumbers DEF UnitsOf, DataOf

\* They lie behind the head of the major.
LEMMA UnitsInside ==
  ASSUME NEW m, MajorInv(m)
  PROVE  /\ UnitsOf(m) \subseteq m.base + MajorSize .. MajorEnd(m) - 1
         /\ DataOf(m) \subseteq UnitsOf(m)
         /\ IsFiniteSet(UnitsOf(m)) /\ Cardinality(UnitsOf(m)) \in Nat
         /\ IsFiniteSet(DataOf(m)) /\ Cardinality(DataOf(m)) \in Nat
<1>1. m \in MajorTypes
  BY DEF MajorInv
<1>2. UnitsOf(m) \subseteq m.base + MajorSize .. MajorEnd(m) - 1
  <2>1. SUFFICES ASSUME NEW u \in UnitsOf(m) PROVE u \in m.base + MajorSize .. MajorEnd(m) - 1
    OBVIOUS
  <2>2. PICK k \in DOMAIN m.minors : u \in m.minors[k].at .. EndOf(m.minors[k]) - 1
    BY <1>1, UnitIs
  <2>3. m.base + MajorSize <= m.minors[k].at /\ EndOf(m.minors[k]) <= MajorEnd(m)
    BY DEF MajorInv
  <2> QED BY <1>1, <2>2, <2>3, MajorNumbers
<1>3. DataOf(m) \subseteq UnitsOf(m)
  <2>1. SUFFICES ASSUME NEW u \in DataOf(m) PROVE u \in UnitsOf(m)
    OBVIOUS
  <2>2. PICK k \in DOMAIN m.minors : u \in m.minors[k].at + MinorSize .. EndOf(m.minors[k]) - 1
    BY <1>1, UnitIs
  <2>3. u \in m.minors[k].at .. EndOf(m.minors[k]) - 1
    BY <1>1, <2>2, MajorNumbers
  <2> QED BY <1>1, <2>3, UnitIs
<1>4. IsFiniteSet(m.base + MajorSize .. MajorEnd(m) - 1)
  <2>1. m.base + MajorSize \in Int /\ MajorEnd(m) - 1 \in Int
    BY <1>1, MajorNumbers
  <2> QED BY <2>1, FS_Interval
<1>5. IsFiniteSet(UnitsOf(m)) /\ IsFiniteSet(DataOf(m))
  BY <1>2, <1>3, <1>4, FS_Subset
<1> QED BY <1>2, <1>3, <1>5, FS_CardinalityType

\* The invariant is that of the runs.
LEMMA MajorIsSound ==
  ASSUME NEW m, MajorInv(m)
  PROVE  MajorSound(m)
<1>1. m \in MajorTypes
  BY DEF MajorInv
<1>2. ASSUME NEW k \in 0 .. Len(m.minors)
      PROVE  GapStart(m, k) <= GapEnd(m, k)
  <2>1. CASE k = 0 /\ k = Len(m.minors)
    BY <2>1 DEF MajorInv, GapStart, GapEnd
  <2>2. CASE k = 0 /\ k # Len(m.minors)
    <3>1. k + 1 \in DOMAIN m.minors
      BY <1>1, <2>2, MajorNumbers
    <3> QED BY <2>2, <3>1 DEF MajorInv, GapStart, GapEnd
  <2>3. CASE k # 0 /\ k = Len(m.minors)
    <3>1. k \in DOMAIN m.minors
      BY <1>1, <2>3, MajorNumbers
    <3> QED BY <1>1, <2>3, <3>1, MajorNumbers DEF MajorInv, GapEnd
  <2>4. CASE k # 0 /\ k # Len(m.minors)
    <3>1. k \in DOMAIN m.minors /\ k + 1 \in DOMAIN m.minors /\ k < k + 1
      BY <1>1, <2>4, MajorNumbers
    <3> QED BY <1>1, <2>4, <3>1, MajorNumbers DEF MajorInv, GapEnd
  <2> QED BY <2>1, <2>2, <2>3, <2>4
<1> QED BY <1>2 DEF MajorInv, MajorSound, MinorSound, EndOf

\* A pointer lies where ALIGN puts it.
LEMMA PointerInside ==
  ASSUME NEW a \in Nat, NEW req \in Nat
  PROVE  /\ PointerOf(a) \in Nat
         /\ MinorSound(MinorAt(a, SizeFor(req), req))
         /\ SizeFor(req) \in Nat /\ MinorAt(a, SizeFor(req), req) \in Minors
<1> DEFINE raw == a + MinorSize + AlignInfo
           diff == raw % Alignment
<1>1. raw \in Nat /\ Alignment \in Nat \ {0} /\ AlignInfo \in Nat /\ MinorSize \in Nat
  BY SizesAssumption
<1>2. diff \in 0 .. Alignment - 1
  BY <1>1, Division
<1>3. PointerOf(a) = IF diff = 0 THEN raw ELSE raw + Alignment - diff
  BY DEF PointerOf
<1> HIDE DEF diff
<1>4. PointerOf(a) \in raw .. raw + Alignment - 1
  BY <1>1, <1>2, <1>3
<1>5. SizeFor(req) = req + Alignment + AlignInfo
  BY DEF SizeFor
<1>6. PICK x : x = MinorAt(a, SizeFor(req), req)
  OBVIOUS
<1>7. x.at = a /\ x.size = req + Alignment + AlignInfo /\ x.req = req /\ x \in Minors
  BY <1>1, <1>5, <1>6 DEF MinorAt, Minors
<1>8. MinorSound(x)
  BY <1>1, <1>4, <1>7 DEF MinorSound, EndOf
<1> QED BY <1>1, <1>4, <1>5, <1>6, <1>7, <1>8

\* A gap that fits lies apart from all minors and inside the major.
LEMMA GapApart ==
  ASSUME NEW m, MajorInv(m), NEW size \in Nat, NEW k \in 0 .. Len(m.minors), GapFits(m, k, size)
  PROVE  /\ GapStart(m, k) \in Nat /\ m.base + MajorSize <= GapStart(m, k)
         /\ GapStart(m, k) + MinorSize + size <= MajorEnd(m)
         /\ \A i \in DOMAIN m.minors :
              /\ i <= k => EndOf(m.minors[i]) <= GapStart(m, k)
              /\ ~(i <= k) => GapStart(m, k) + MinorSize + size <= m.minors[i].at
<1>1. m \in MajorTypes
  BY DEF MajorInv
<1>2. PICK a : a = GapStart(m, k)
  OBVIOUS
<1>3. PICK e : e = GapEnd(m, k)
  OBVIOUS
<1>4. /\ a \in Nat /\ m.base + MajorSize <= a
      /\ \A i \in DOMAIN m.minors : i <= k => EndOf(m.minors[i]) <= a
  <2>1. CASE k = 0
    <3>1. a = m.base + MajorSize
      BY <1>2, <2>1 DEF GapStart
    <3> QED BY <1>1, <2>1, <3>1, MajorNumbers
  <2>2. CASE k # 0
    <3>1. k \in DOMAIN m.minors
      BY <1>1, <2>2, MajorNumbers
    <3>2. a = EndOf(m.minors[k]) /\ a \in Nat /\ m.minors[k].at <= a
      BY <1>1, <1>2, <3>1, MajorNumbers
    <3>3. m.base + MajorSize <= m.minors[k].at
      BY <3>1 DEF MajorInv
    <3>4. m.base + MajorSize <= a
      BY <1>1, <3>1, <3>2, <3>3, MajorNumbers
    <3>5. ASSUME NEW i \in DOMAIN m.minors, i <= k PROVE EndOf(m.minors[i]) <= a
      <4>1. CASE i = k
        BY <3>2, <4>1
      <4>2. CASE i # k
        <5>1. i < k
          BY <1>1, <3>5, <4>2, MajorNumbers
        <5>2. EndOf(m.minors[i]) <= m.minors[k].at
          BY <3>1, <5>1 DEF MajorInv
        <5> QED BY <1>1, <3>1, <3>2, <5>2, MajorNumbers
      <4> QED BY <4>1, <4>2
    <3> QED BY <3>2, <3>4, <3>5
  <2> QED BY <2>1, <2>2
<1>5. /\ e \in Nat /\ e <= MajorEnd(m)
      /\ \A i \in DOMAIN m.minors : ~(i <= k) => e <= m.minors[i].at
  <2>1. CASE k = Len(m.minors)
    <3>1. e = MajorEnd(m)
      BY <1>3, <2>1 DEF GapEnd
    <3> QED BY <1>1, <2>1, <3>1, MajorNumbers
  <2>2. CASE k # Len(m.minors)
    <3>1. k + 1 \in DOMAIN m.minors
      BY <1>1, <2>2, MajorNumbers
    <3>2. e = m.minors[k + 1].at /\ e \in Nat /\ e <= EndOf(m.minors[k + 1])
      BY <1>1, <1>3, <2>2, <3>1, MajorNumbers DEF GapEnd
    <3>3. EndOf(m.minors[k + 1]) <= MajorEnd(m)
      BY <3>1 DEF MajorInv
    <3>4. e <= MajorEnd(m)
      BY <1>1, <3>1, <3>2, <3>3, MajorNumbers
    <3>5. ASSUME NEW i \in DOMAIN m.minors, ~(i <= k) PROVE e <= m.minors[i].at
      <4>1. CASE i = k + 1
        BY <3>2, <4>1
      <4>2. CASE i # k + 1
        <5>1. k + 1 < i
          BY <1>1, <3>5, <4>2, MajorNumbers
        <5>2. EndOf(m.minors[k + 1]) <= m.minors[i].at
          BY <3>1, <5>1 DEF MajorInv
        <5> QED BY <1>1, <3>1, <3>2, <5>2, MajorNumbers
      <4> QED BY <4>1, <4>2
    <3> QED BY <3>2, <3>4, <3>5
  <2> QED BY <2>1, <2>2
<1>6. e - a >= size + MinorSize
  BY <1>2, <1>3 DEF GapFits
<1>7. a + MinorSize + size <= e /\ a + MinorSize + size \in Nat
  BY <1>4, <1>5, <1>6, SizesAssumption
<1>8. ASSUME NEW i \in DOMAIN m.minors, ~(i <= k) PROVE a + MinorSize + size <= m.minors[i].at
  BY <1>1, <1>5, <1>7, <1>8, MajorNumbers
<1>9. a + MinorSize + size <= MajorEnd(m)
  BY <1>1, <1>5, <1>7, MajorNumbers
<1> QED BY <1>2, <1>4, <1>8, <1>9

\* Placing a minor in a gap that fits keeps a major sound.
LEMMA PlacedSound ==
  ASSUME NEW m, MajorInv(m), NEW req \in Nat, NEW size, size = SizeFor(req),
         NEW k \in 0 .. Len(m.minors), GapFits(m, k, size),
         NEW n, n = Placed(m, k, size, req)
  PROVE  /\ MajorInv(n) /\ n.base = m.base /\ n.pages = m.pages /\ n.minors # <<>>
         /\ Cardinality(DataOf(n)) = Cardinality(DataOf(m)) + size
         /\ \A i \in DOMAIN m.minors : \E j \in DOMAIN n.minors : n.minors[j] = m.minors[i]
<1>1. m \in MajorTypes
  BY DEF MajorInv
<1>2. PICK a : a = GapStart(m, k)
  OBVIOUS
<1>3. PICK x : x = MinorAt(a, size, req)
  OBVIOUS
<1>4. PICK t : t = InsertAt(m.minors, k + 1, x)
  OBVIOUS
<1>5. size \in Nat
  BY PointerInside, SizesAssumption DEF SizeFor
<1>6. /\ a \in Nat /\ m.base + MajorSize <= a
      /\ a + MinorSize + size <= MajorEnd(m)
      /\ \A i \in DOMAIN m.minors :
           /\ i <= k => EndOf(m.minors[i]) <= a
           /\ ~(i <= k) => a + MinorSize + size <= m.minors[i].at
  BY <1>2, <1>5, GapApart
<1>7. x \in Minors /\ MinorSound(x) /\ x.at = a /\ x.size = size /\ EndOf(x) = a + MinorSize + size
  BY <1>3, <1>6, PointerInside DEF MinorAt, EndOf
<1>8. t \in Seq(Minors) /\ Len(t) = Len(m.minors) + 1
  BY <1>1, <1>4, <1>7, MajorNumbers, Inserted
<1>9. /\ \A j \in DOMAIN t :
           \/ j = k + 1 /\ t[j] = x
           \/ j # k + 1 /\ \E i \in DOMAIN m.minors : t[j] = m.minors[i] /\ i = IF j <= k THEN j ELSE j - 1
      /\ \A i \in DOMAIN m.minors : \E j \in DOMAIN t : t[j] = m.minors[i]
      /\ \E j \in DOMAIN t : t[j] = x
  BY <1>1, <1>4, <1>7, MajorNumbers, InsertedElements
<1>10. /\ n.base = m.base /\ n.pages = m.pages /\ n.minors = t /\ n.usage = m.usage + size + MinorSize
       /\ n = [base |-> m.base, pages |-> m.pages, usage |-> m.usage + size + MinorSize, minors |-> t]
  BY <1>1, <1>2, <1>3, <1>4 DEF Placed, MajorTypes
<1>11. n \in MajorTypes
  <2>1. m.usage + size + MinorSize \in Nat
    BY <1>1, <1>5, MajorNumbers
  <2> QED BY <1>1, <1>8, <1>10, <2>1 DEF MajorTypes
<1>12. MajorEnd(n) = MajorEnd(m)
  BY <1>10 DEF MajorEnd
<1>13. ASSUME NEW j \in DOMAIN n.minors
       PROVE  /\ MinorSound(n.minors[j])
              /\ n.base + MajorSize <= n.minors[j].at /\ EndOf(n.minors[j]) <= MajorEnd(n)
  <2>1. CASE t[j] = x
    BY <1>6, <1>7, <1>10, <1>12, <2>1
  <2>2. CASE \E i \in DOMAIN m.minors : t[j] = m.minors[i]
    BY <1>10, <1>12, <2>2 DEF MajorInv
  <2> QED BY <1>9, <1>10, <2>1, <2>2
<1>14. ASSUME NEW j \in DOMAIN n.minors, NEW l \in DOMAIN n.minors, j < l
       PROVE  EndOf(n.minors[j]) <= n.minors[l].at
  <2>1. j \in Nat /\ l \in Nat /\ k \in Nat
    BY <1>1, <1>11, MajorNumbers
  <2>2. CASE j = k + 1
    <3>1. t[j] = x /\ l # k + 1 /\ ~(l <= k)
      BY <1>9, <1>10, <1>14, <2>1, <2>2
    <3>2. l - 1 \in DOMAIN m.minors /\ t[l] = m.minors[l - 1] /\ ~(l - 1 <= k)
      BY <1>9, <1>10, <1>14, <2>1, <2>2, <3>1
    <3> QED BY <1>6, <1>7, <1>10, <3>1, <3>2
  <2>3. CASE l = k + 1
    <3>1. t[l] = x /\ j # k + 1 /\ j <= k
      BY <1>9, <1>10, <1>14, <2>1, <2>3
    <3>2. j \in DOMAIN m.minors /\ t[j] = m.minors[j]
      BY <1>9, <1>10, <3>1
    <3> QED BY <1>6, <1>7, <1>10, <3>1, <3>2
  <2>4. CASE j # k + 1 /\ l # k + 1
    <3>1. PICK i \in DOMAIN m.minors : t[j] = m.minors[i] /\ i = IF j <= k THEN j ELSE j - 1
      BY <1>9, <1>10, <2>4
    <3>2. PICK h \in DOMAIN m.minors : t[l] = m.minors[h] /\ h = IF l <= k THEN l ELSE l - 1
      BY <1>9, <1>10, <2>4
    <3>3. i < h
      BY <1>14, <2>1, <2>4, <3>1, <3>2
    <3> QED BY <1>10, <3>1, <3>2, <3>3 DEF MajorInv
  <2> QED BY <2>2, <2>3, <2>4
<1>15. PICK b \in Nat, g \in Nat : b = a + MinorSize /\ g = b + size /\ g = a + MinorSize + size
  BY <1>5, <1>6, SizesAssumption
<1>16. /\ a <= b /\ b <= g /\ g - a = MinorSize + size /\ g - b = size /\ EndOf(x) = g
       /\ b .. g - 1 \subseteq a .. g - 1
  <2>1. MinorSize \in Nat
    BY SizesAssumption
  <2>0. a \in Nat
    BY <1>6
  <2>2. a <= b /\ b <= g /\ g - a = MinorSize + size /\ g - b = size
    BY <1>5, <1>15, <2>0, <2>1
  <2>3. EndOf(x) = g
    BY <1>5, <1>6, <1>7, <1>15, <2>1
  <2>4. \A u \in b .. g - 1 : u \in a .. g - 1
    BY <1>6, <1>15, <2>2
  <2> QED BY <2>2, <2>3, <2>4
<1>17. /\ UnitsOf(n) = UnitsOf(m) \cup (a .. g - 1)
       /\ DataOf(n) = DataOf(m) \cup (b .. g - 1)
  <2>1. ASSUME NEW u
        PROVE  /\ u \in UnitsOf(n) <=> u \in UnitsOf(m) \/ u \in a .. g - 1
               /\ u \in DataOf(n) <=> u \in DataOf(m) \/ u \in b .. g - 1
    <3>1. /\ u \in UnitsOf(n) <=> \E j \in DOMAIN t : u \in t[j].at .. EndOf(t[j]) - 1
          /\ u \in DataOf(n) <=> \E j \in DOMAIN t : u \in t[j].at + MinorSize .. EndOf(t[j]) - 1
      BY <1>10, <1>11, UnitIs
    <3>2. /\ u \in UnitsOf(m) <=> \E i \in DOMAIN m.minors : u \in m.minors[i].at .. EndOf(m.minors[i]) - 1
          /\ u \in DataOf(m) <=> \E i \in DOMAIN m.minors :
                                   u \in m.minors[i].at + MinorSize .. EndOf(m.minors[i]) - 1
      BY <1>1, UnitIs
    <3>3. \A j \in DOMAIN t : t[j] = x \/ \E i \in DOMAIN m.minors : t[j] = m.minors[i]
      BY <1>9
    <3>4. (\A i \in DOMAIN m.minors : \E j \in DOMAIN t : t[j] = m.minors[i]) /\ \E j \in DOMAIN t : t[j] = x
      BY <1>9
    <3>5. /\ u \in x.at .. EndOf(x) - 1 <=> u \in a .. g - 1
          /\ u \in x.at + MinorSize .. EndOf(x) - 1 <=> u \in b .. g - 1
      BY <1>7, <1>15, <1>16
    <3>6. (\E j \in DOMAIN t : u \in t[j].at .. EndOf(t[j]) - 1)
            <=> u \in x.at .. EndOf(x) - 1 \/ \E i \in DOMAIN m.minors : u \in m.minors[i].at .. EndOf(m.minors[i]) - 1
      <4>1. ASSUME NEW j \in DOMAIN t, u \in t[j].at .. EndOf(t[j]) - 1
            PROVE  u \in x.at .. EndOf(x) - 1 \/ \E i \in DOMAIN m.minors : u \in m.minors[i].at .. EndOf(m.minors[i]) - 1
        BY <3>3, <4>1
      <4> QED BY <3>4, <4>1
    <3>7. (\E j \in DOMAIN t : u \in t[j].at + MinorSize .. EndOf(t[j]) - 1)
            <=> \/ u \in x.at + MinorSize .. EndOf(x) - 1
                \/ \E i \in DOMAIN m.minors : u \in m.minors[i].at + MinorSize .. EndOf(m.minors[i]) - 1
      <4>1. ASSUME NEW j \in DOMAIN t, u \in t[j].at + MinorSize .. EndOf(t[j]) - 1
            PROVE  \/ u \in x.at + MinorSize .. EndOf(x) - 1
                   \/ \E i \in DOMAIN m.minors : u \in m.minors[i].at + MinorSize .. EndOf(m.minors[i]) - 1
        BY <3>3, <4>1
      <4> QED BY <3>4, <4>1
    <3> QED BY <3>1, <3>2, <3>5, <3>6, <3>7
  <2> QED BY <2>1
<1>18. UnitsOf(m) \cap (a .. g - 1) = {}
  <2>1. SUFFICES ASSUME NEW u \in UnitsOf(m), u \in a .. g - 1 PROVE FALSE
    OBVIOUS
  <2>2. PICK i \in DOMAIN m.minors : u \in m.minors[i].at .. EndOf(m.minors[i]) - 1
    BY <1>1, UnitIs
  <2>3. m.minors[i].at \in Nat /\ EndOf(m.minors[i]) \in Nat
    BY <1>1, MajorNumbers
  <2>4. i <= k => EndOf(m.minors[i]) <= a
    BY <1>6
  <2>5. ~(i <= k) => g <= m.minors[i].at
    <3>1. ASSUME ~(i <= k) PROVE a + MinorSize + size <= m.minors[i].at
      BY <1>6, <3>1
    <3> QED BY <1>15, <3>1
  <2> QED BY <2>5, <1>6, <1>15, <2>1, <2>2, <2>3, <2>4
<1>19. /\ IsFiniteSet(UnitsOf(m)) /\ Cardinality(UnitsOf(m)) \in Nat
       /\ IsFiniteSet(DataOf(m)) /\ Cardinality(DataOf(m)) \in Nat /\ DataOf(m) \subseteq UnitsOf(m)
  BY UnitsInside
<1>24. Cardinality(UnitsOf(n)) = Cardinality(UnitsOf(m)) + (MinorSize + size)
  <2>0. a \in Int /\ g \in Int /\ a <= g /\ g - a = MinorSize + size
    BY <1>6, <1>15, <1>16
  <2>1. IsFiniteSet(a .. g - 1) /\ Cardinality(a .. g - 1) = MinorSize + size
    BY <2>0, Interval
  <2> QED BY <1>17, <1>18, <1>19, <2>1, DisjointUnion
<1>25. Cardinality(DataOf(n)) = Cardinality(DataOf(m)) + size
  <2>1. IsFiniteSet(b .. g - 1) /\ Cardinality(b .. g - 1) = size
    BY <1>15, <1>16, Interval
  <2>2. DataOf(m) \cap (b .. g - 1) = {}
    BY <1>16, <1>18, <1>19
  <2> QED BY <1>17, <1>19, <2>1, <2>2, DisjointUnion
<1>20. UsageSound(n)
  <2>1. m.usage = MajorSize + Cardinality(UnitsOf(m))
    BY DEF MajorInv, UsageSound
  <2>2. m.usage + size + MinorSize = MajorSize + (Cardinality(UnitsOf(m)) + (MinorSize + size))
    BY <1>5, <1>19, <2>1, SizesAssumption
  <2> QED BY <1>10, <1>24, <2>2 DEF UsageSound
<1>21. n.minors # <<>>
  BY <1>8, <1>10, <1>1, MajorNumbers
<1>22. n.base + MajorSize <= MajorEnd(n)
  BY <1>10, <1>12 DEF MajorInv
<1>23. MajorInv(n)
  BY <1>11, <1>13, <1>14, <1>20, <1>22 DEF MajorInv
<1> QED BY <1>9, <1>10, <1>21, <1>23, <1>25

\* Unlinking a minor keeps a major sound.
LEMMA UnlinkedSound ==
  ASSUME NEW m, MajorInv(m), NEW k \in DOMAIN m.minors, NEW n, n = Unlinked(m, k)
  PROVE  /\ MajorInv(n) /\ n.base = m.base /\ n.pages = m.pages
         /\ n.usage + (m.minors[k].size + MinorSize) = m.usage
         /\ Cardinality(DataOf(m)) = Cardinality(DataOf(n)) + m.minors[k].size
<1>1. m \in MajorTypes
  BY DEF MajorInv
<1>2. PICK t : t = RemoveAt(m.minors, k)
  OBVIOUS
<1>3. PICK a : a = m.minors[k].at
  OBVIOUS
<1>4. PICK size : size = m.minors[k].size
  OBVIOUS
<1>5. PICK g : g = EndOf(m.minors[k])
  OBVIOUS
<1>6. /\ a \in Nat /\ size \in Nat /\ MinorSize \in Nat /\ g \in Nat /\ m.usage \in Nat
      /\ k \in 1 .. Len(m.minors) /\ m.minors \in Seq(Minors)
  BY <1>1, <1>3, <1>4, <1>5, MajorNumbers
<1>7. PICK b \in Nat : b = a + MinorSize
  BY <1>6
<1>8. /\ a <= b /\ b <= g /\ g - a = size + MinorSize /\ g - b = size
      /\ \A u \in b .. g - 1 : u \in a .. g - 1
  <2>1. g = a + MinorSize + size
    BY <1>3, <1>4, <1>5 DEF EndOf
  <2> QED BY <1>6, <1>7, <2>1
<1>9. t \in Seq(Minors)
  BY <1>2, <1>6, Removed
<1>10. /\ \A j \in DOMAIN t : \E i \in DOMAIN m.minors : i # k /\ t[j] = m.minors[i] /\ i = IF j < k THEN j ELSE j + 1
       /\ \A i \in DOMAIN m.minors : i # k => \E j \in DOMAIN t : t[j] = m.minors[i]
  <2>1. PICK s : s = m.minors
    OBVIOUS
  <2>2. s \in Seq(Minors) /\ k \in 1 .. Len(s) /\ t = RemoveAt(s, k)
    BY <1>2, <1>6, <2>1
  <2>3. /\ \A j \in DOMAIN RemoveAt(s, k) :
              \E i \in DOMAIN s : /\ i # k /\ RemoveAt(s, k)[j] = s[i]
                                  /\ i = IF j < k THEN j ELSE j + 1
        /\ \A i \in DOMAIN s : i # k => \E j \in DOMAIN RemoveAt(s, k) : RemoveAt(s, k)[j] = s[i]
    BY <2>2, RemovedElements
  <2>4. /\ \A j \in DOMAIN t :
              \E i \in DOMAIN s : /\ i # k /\ t[j] = s[i]
                                  /\ i = IF j < k THEN j ELSE j + 1
        /\ \A i \in DOMAIN s : i # k => \E j \in DOMAIN t : t[j] = s[i]
    BY <2>2, <2>3, Zenon
  <2> QED BY <2>1, <2>4
<1>11. /\ n.base = m.base /\ n.pages = m.pages /\ n.minors = t /\ n.usage = m.usage - (size + MinorSize)
       /\ n = [base |-> m.base, pages |-> m.pages, usage |-> m.usage - (size + MinorSize), minors |-> t]
  BY <1>1, <1>2, <1>4 DEF Unlinked, MajorTypes
<1>12. /\ IsFiniteSet(UnitsOf(m)) /\ Cardinality(UnitsOf(m)) \in Nat
       /\ IsFiniteSet(DataOf(m)) /\ Cardinality(DataOf(m)) \in Nat
  BY UnitsInside
<1>13. IsFiniteSet(a .. g - 1) /\ Cardinality(a .. g - 1) = size + MinorSize
  <2>1. a \in Int /\ g \in Int /\ a <= g /\ g - a = size + MinorSize
    BY <1>6, <1>7, <1>8
  <2> QED BY <2>1, Interval
<1>14. IsFiniteSet(b .. g - 1) /\ Cardinality(b .. g - 1) = size
  <2>1. b \in Int /\ g \in Int /\ b <= g /\ g - b = size
    BY <1>6, <1>7, <1>8
  <2> QED BY <2>1, Interval
<1>15. a .. g - 1 \subseteq UnitsOf(m)
  BY <1>1, <1>3, <1>5, UnitIs
<1>16. m.usage = MajorSize + Cardinality(UnitsOf(m))
  BY DEF MajorInv, UsageSound
<1>17. m.usage - (size + MinorSize) \in Nat
  <2>1. Cardinality(a .. g - 1) <= Cardinality(UnitsOf(m))
    BY <1>12, <1>15, FS_Subset
  <2>2. MajorSize \in Nat
    BY SizesAssumption
  <2> QED BY <1>6, <1>12, <1>13, <1>16, <2>1, <2>2
<1>18. n \in MajorTypes
  BY <1>1, <1>9, <1>11, <1>17 DEF MajorTypes
<1>19. ASSUME NEW i \in DOMAIN m.minors, i # k PROVE EndOf(m.minors[i]) <= a \/ g <= m.minors[i].at
  <2>1. CASE i < k
    BY <1>3, <2>1 DEF MajorInv
  <2>2. CASE k < i
    BY <1>5, <2>2 DEF MajorInv
  <2>3. i \in Nat /\ k \in Nat
    BY <1>1, MajorNumbers
  <2> QED BY <1>19, <2>1, <2>2, <2>3
<1>20. ASSUME NEW u
       PROVE  /\ u \in UnitsOf(n) <=> u \in UnitsOf(m) /\ u \notin a .. g - 1
              /\ u \in DataOf(n) <=> u \in DataOf(m) /\ u \notin b .. g - 1
  <2>1. /\ u \in UnitsOf(n) <=> \E j \in DOMAIN t : u \in t[j].at .. EndOf(t[j]) - 1
        /\ u \in DataOf(n) <=> \E j \in DOMAIN t : u \in t[j].at + MinorSize .. EndOf(t[j]) - 1
    BY <1>11, <1>18, UnitIs
  <2>2. /\ u \in UnitsOf(m) <=> \E i \in DOMAIN m.minors : u \in m.minors[i].at .. EndOf(m.minors[i]) - 1
        /\ u \in DataOf(m) <=> \E i \in DOMAIN m.minors :
                                 u \in m.minors[i].at + MinorSize .. EndOf(m.minors[i]) - 1
    BY <1>1, UnitIs
  <2>3. \A j \in DOMAIN t : \E i \in DOMAIN m.minors : i # k /\ t[j] = m.minors[i]
    BY <1>10
  <2>4. \A i \in DOMAIN m.minors : i # k => \E j \in DOMAIN t : t[j] = m.minors[i]
    BY <1>10
  <2>5. ASSUME NEW i \in DOMAIN m.minors, i # k
        PROVE  /\ u \in m.minors[i].at .. EndOf(m.minors[i]) - 1 => u \notin a .. g - 1
               /\ u \in m.minors[i].at + MinorSize .. EndOf(m.minors[i]) - 1 => u \notin b .. g - 1
    <3>1. m.minors[i].at \in Nat /\ EndOf(m.minors[i]) \in Nat
      BY <1>1, MajorNumbers
    <3>2. EndOf(m.minors[i]) <= a \/ g <= m.minors[i].at
      BY <1>19, <2>5
    <3>3. a \in Nat /\ b \in Nat /\ g \in Nat /\ MinorSize \in Nat /\ a <= b
      BY <1>6, <1>7, <1>8
    <3>4. PICK c : c = m.minors[i].at
      OBVIOUS
    <3>5. PICK d : d = EndOf(m.minors[i])
      OBVIOUS
    <3>6. c \in Nat /\ d \in Nat /\ (d <= a \/ g <= c)
      BY <3>1, <3>2, <3>4, <3>5
    <3>7. u \in c .. d - 1 => u \notin a .. g - 1
      BY <3>3, <3>6
    <3>8. u \in c + MinorSize .. d - 1 => u \notin b .. g - 1
      BY <3>3, <3>6
    <3> QED BY <3>4, <3>5, <3>7, <3>8
  <2>6. /\ u \in m.minors[k].at .. EndOf(m.minors[k]) - 1 <=> u \in a .. g - 1
        /\ u \in m.minors[k].at + MinorSize .. EndOf(m.minors[k]) - 1 <=> u \in b .. g - 1
    BY <1>3, <1>5, <1>7
  <2>7. (\E j \in DOMAIN t : u \in t[j].at .. EndOf(t[j]) - 1)
          <=> \E i \in DOMAIN m.minors : i # k /\ u \in m.minors[i].at .. EndOf(m.minors[i]) - 1
    <3>1. ASSUME NEW j \in DOMAIN t, u \in t[j].at .. EndOf(t[j]) - 1
          PROVE  \E i \in DOMAIN m.minors : i # k /\ u \in m.minors[i].at .. EndOf(m.minors[i]) - 1
      BY <2>3, <3>1
    <3>2. ASSUME NEW i \in DOMAIN m.minors, i # k, u \in m.minors[i].at .. EndOf(m.minors[i]) - 1
          PROVE  \E j \in DOMAIN t : u \in t[j].at .. EndOf(t[j]) - 1
      BY <2>4, <3>2
    <3> QED BY <3>1, <3>2
  <2>8. (\E j \in DOMAIN t : u \in t[j].at + MinorSize .. EndOf(t[j]) - 1)
          <=> \E i \in DOMAIN m.minors : i # k /\ u \in m.minors[i].at + MinorSize .. EndOf(m.minors[i]) - 1
    <3>1. ASSUME NEW j \in DOMAIN t, u \in t[j].at + MinorSize .. EndOf(t[j]) - 1
          PROVE  \E i \in DOMAIN m.minors : i # k /\ u \in m.minors[i].at + MinorSize .. EndOf(m.minors[i]) - 1
      BY <2>3, <3>1
    <3>2. ASSUME NEW i \in DOMAIN m.minors, i # k, u \in m.minors[i].at + MinorSize .. EndOf(m.minors[i]) - 1
          PROVE  \E j \in DOMAIN t : u \in t[j].at + MinorSize .. EndOf(t[j]) - 1
      BY <2>4, <3>2
    <3> QED BY <3>1, <3>2
  <2>9. u \in UnitsOf(n) <=> u \in UnitsOf(m) /\ u \notin a .. g - 1
    BY <2>1, <2>2, <2>5, <2>6, <2>7
  <2>10. u \in DataOf(n) <=> u \in DataOf(m) /\ u \notin b .. g - 1
    BY <2>1, <2>2, <2>5, <2>6, <2>8
  <2> QED BY <2>9, <2>10
<1>21. Cardinality(UnitsOf(m)) = Cardinality(UnitsOf(n)) + (size + MinorSize)
  <2>1. UnitsOf(m) = UnitsOf(n) \cup (a .. g - 1) /\ UnitsOf(n) \cap (a .. g - 1) = {}
    BY <1>15, <1>20
  <2>2. IsFiniteSet(UnitsOf(n))
    BY <1>12, <2>1, FS_Subset
  <2> QED BY <1>13, <2>1, <2>2, DisjointUnion
<1>22. Cardinality(DataOf(m)) = Cardinality(DataOf(n)) + size
  <2>1. b .. g - 1 \subseteq DataOf(m)
    BY <1>1, <1>3, <1>5, <1>7, UnitIs
  <2>2. DataOf(m) = DataOf(n) \cup (b .. g - 1) /\ DataOf(n) \cap (b .. g - 1) = {}
    BY <1>20, <2>1
  <2>3. IsFiniteSet(DataOf(n))
    BY <1>12, <2>2, FS_Subset
  <2> QED BY <1>14, <2>2, <2>3, DisjointUnion
<1>23. UsageSound(n)
  <2>1. Cardinality(UnitsOf(n)) \in Nat
    <3>1. UnitsOf(n) \subseteq UnitsOf(m)
      BY <1>20
    <3> QED BY <1>12, <3>1, FS_Subset, FS_CardinalityType
  <2>2. m.usage - (size + MinorSize) = MajorSize + Cardinality(UnitsOf(n))
    BY <1>6, <1>16, <1>21, <2>1, SizesAssumption
  <2> QED BY <1>11, <2>2 DEF UsageSound
<1>24. MajorEnd(n) = MajorEnd(m) /\ n.base + MajorSize <= MajorEnd(n)
  BY <1>11 DEF MajorEnd, MajorInv
<1>25. ASSUME NEW j \in DOMAIN n.minors
       PROVE  /\ MinorSound(n.minors[j])
              /\ n.base + MajorSize <= n.minors[j].at /\ EndOf(n.minors[j]) <= MajorEnd(n)
  <2>1. PICK i \in DOMAIN m.minors : t[j] = m.minors[i]
    BY <1>10, <1>11
  <2> QED BY <1>11, <1>24, <2>1 DEF MajorInv
<1>26. ASSUME NEW j \in DOMAIN n.minors, NEW l \in DOMAIN n.minors, j < l
       PROVE  EndOf(n.minors[j]) <= n.minors[l].at
  <2>1. j \in Nat /\ l \in Nat
    BY <1>18, MajorNumbers
  <2>2. PICK i \in DOMAIN m.minors : t[j] = m.minors[i] /\ i = IF j < k THEN j ELSE j + 1
    BY <1>10, <1>11
  <2>3. PICK h \in DOMAIN m.minors : t[l] = m.minors[h] /\ h = IF l < k THEN l ELSE l + 1
    BY <1>10, <1>11
  <2>4. i < h
    BY <1>6, <1>26, <2>1, <2>2, <2>3
  <2> QED BY <1>11, <2>2, <2>3, <2>4 DEF MajorInv
<1>27. MajorInv(n)
  BY <1>18, <1>23, <1>24, <1>25, <1>26 DEF MajorInv
<1>28. n.usage + (size + MinorSize) = m.usage
  BY <1>6, <1>11
<1> QED BY <1>4, <1>11, <1>22, <1>27, <1>28

-----------------------------------------------------------------------------
(* All majors.                                                              *)

\* Sound majors that do not overlap, all below an address.
HeapInv(ms, top) ==
  /\ ms \in Seq(MajorTypes)
  /\ \A i \in DOMAIN ms : MajorInv(ms[i]) /\ MajorEnd(ms[i]) <= top
  /\ MajorsDisjoint(ms)

\* What the majors but one have handed out, and what they take.
DataRest(ms, i) == UNION {DataOf(ms[j]) : j \in DOMAIN ms \ {i}}
PageRest(ms, i) == UNION {PagesOf(ms[j]) : j \in DOMAIN ms \ {i}}

\* The numbers of a list of majors have their types.
LEMMA HeapNumbers ==
  ASSUME NEW ms, NEW top \in Nat, HeapInv(ms, top)
  PROVE  /\ Len(ms) \in Nat /\ DOMAIN ms = 1 .. Len(ms)
         /\ \A i \in DOMAIN ms :
              /\ ms[i] \in MajorTypes /\ MajorInv(ms[i])
              /\ ms[i].base \in Nat \ {0} /\ MajorEnd(ms[i]) \in Nat /\ MajorEnd(ms[i]) <= top
              /\ ms[i].base <= MajorEnd(ms[i])
              /\ DataOf(ms[i]) \subseteq PagesOf(ms[i])
<1>1. ms \in Seq(MajorTypes)
  BY DEF HeapInv
<1>2. Len(ms) \in Nat /\ DOMAIN ms = 1 .. Len(ms)
  BY <1>1, LenProperties
<1>3. ASSUME NEW i \in DOMAIN ms
      PROVE  /\ ms[i] \in MajorTypes /\ MajorInv(ms[i])
             /\ ms[i].base \in Nat \ {0} /\ MajorEnd(ms[i]) \in Nat /\ MajorEnd(ms[i]) <= top
             /\ ms[i].base <= MajorEnd(ms[i])
             /\ DataOf(ms[i]) \subseteq PagesOf(ms[i])
  <2>1. MajorInv(ms[i]) /\ MajorEnd(ms[i]) <= top
    BY DEF HeapInv
  <2>2. ms[i] \in MajorTypes
    BY <2>1 DEF MajorInv
  <2>3. ms[i].base \in Nat \ {0} /\ MajorEnd(ms[i]) \in Nat /\ MajorSize \in Nat
    BY <2>2, MajorNumbers DEF MajorTypes
  <2>4. ms[i].base + MajorSize <= MajorEnd(ms[i])
    BY <2>1 DEF MajorInv
  <2>5. ms[i].base <= MajorEnd(ms[i])
    BY <2>3, <2>4
  <2>6. DataOf(ms[i]) \subseteq ms[i].base + MajorSize .. MajorEnd(ms[i]) - 1
    BY <2>1, UnitsInside
  <2>7. DataOf(ms[i]) \subseteq PagesOf(ms[i])
    <3>1. \A u \in ms[i].base + MajorSize .. MajorEnd(ms[i]) - 1 : u \in PagesOf(ms[i])
      BY <2>3 DEF PagesOf
    <3> QED BY <2>6, <3>1
  <2> QED BY <2>1, <2>2, <2>3, <2>5, <2>7
<1> QED BY <1>2, <1>3

\* One major lies apart from the rest.
LEMMA OneApart ==
  ASSUME NEW ms, NEW top \in Nat, HeapInv(ms, top), NEW i \in DOMAIN ms
  PROVE  /\ DataUnits(ms) = DataRest(ms, i) \cup DataOf(ms[i])
         /\ DataRest(ms, i) \cap DataOf(ms[i]) = {}
         /\ PageUnits(ms) = PageRest(ms, i) \cup PagesOf(ms[i])
         /\ PageRest(ms, i) \cap PagesOf(ms[i]) = {}
         /\ IsFiniteSet(DataUnits(ms)) /\ IsFiniteSet(DataRest(ms, i)) /\ IsFiniteSet(DataOf(ms[i]))
         /\ IsFiniteSet(PageUnits(ms)) /\ IsFiniteSet(PageRest(ms, i))
<1>1. \A j \in DOMAIN ms :
        /\ ms[j].base \in Nat /\ MajorEnd(ms[j]) \in Nat /\ MajorEnd(ms[j]) <= top
        /\ DataOf(ms[j]) \subseteq PagesOf(ms[j])
  BY HeapNumbers
<1>2. DataUnits(ms) = DataRest(ms, i) \cup DataOf(ms[i])
  BY DEF DataUnits, DataRest
<1>3. PageUnits(ms) = PageRest(ms, i) \cup PagesOf(ms[i])
  BY DEF PageUnits, PageRest
<1>4. PageRest(ms, i) \cap PagesOf(ms[i]) = {}
  <2>1. SUFFICES ASSUME NEW u \in PageRest(ms, i), u \in PagesOf(ms[i]) PROVE FALSE
    OBVIOUS
  <2>2. PICK j \in DOMAIN ms \ {i} : u \in PagesOf(ms[j])
    BY DEF PageRest
  <2>3. MajorEnd(ms[i]) <= ms[j].base \/ MajorEnd(ms[j]) <= ms[i].base
    BY DEF HeapInv, MajorsDisjoint
  <2>4. /\ ms[i].base \in Nat /\ MajorEnd(ms[i]) \in Nat
        /\ ms[j].base \in Nat /\ MajorEnd(ms[j]) \in Nat
    BY <1>1
  <2> QED BY <2>1, <2>2, <2>3, <2>4 DEF PagesOf
<1>5. DataRest(ms, i) \subseteq PageRest(ms, i) /\ DataOf(ms[i]) \subseteq PagesOf(ms[i])
  BY <1>1 DEF DataRest, PageRest
<1>6. PageUnits(ms) \subseteq 0 .. top
  <2>1. SUFFICES ASSUME NEW u \in PageUnits(ms) PROVE u \in 0 .. top
    OBVIOUS
  <2>2. PICK j \in DOMAIN ms : u \in PagesOf(ms[j])
    BY DEF PageUnits
  <2>3. ms[j].base \in Nat /\ MajorEnd(ms[j]) \in Nat /\ MajorEnd(ms[j]) <= top
    BY <1>1
  <2> QED BY <2>2, <2>3 DEF PagesOf
<1>7. IsFiniteSet(PageUnits(ms))
  <2>1. IsFiniteSet(0 .. top)
    BY FS_Interval
  <2> QED BY <1>6, <2>1, FS_Subset
<1>8. IsFiniteSet(PageRest(ms, i)) /\ IsFiniteSet(DataUnits(ms)) /\ IsFiniteSet(DataRest(ms, i)) /\ IsFiniteSet(DataOf(ms[i]))
  <2>1. /\ PageRest(ms, i) \subseteq PageUnits(ms) /\ DataUnits(ms) \subseteq PageUnits(ms)
        /\ DataRest(ms, i) \subseteq PageUnits(ms) /\ DataOf(ms[i]) \subseteq PageUnits(ms)
    BY <1>2, <1>3, <1>5
  <2> QED BY <1>7, <2>1, FS_Subset
<1>9. DataRest(ms, i) \cap DataOf(ms[i]) = {}
  BY <1>4, <1>5
<1> QED BY <1>2, <1>3, <1>4, <1>7, <1>8, <1>9

\* What all majors have handed out and take is finite.
LEMMA HeapFinite ==
  ASSUME NEW ms, NEW top \in Nat, HeapInv(ms, top)
  PROVE  /\ IsFiniteSet(DataUnits(ms)) /\ Cardinality(DataUnits(ms)) \in Nat
         /\ IsFiniteSet(PageUnits(ms)) /\ Cardinality(PageUnits(ms)) \in Nat
<1>1. CASE DOMAIN ms = {}
  <2>1. DataUnits(ms) = {} /\ PageUnits(ms) = {}
    BY <1>1 DEF DataUnits, PageUnits
  <2> QED BY <2>1, FS_EmptySet
<1>2. CASE DOMAIN ms # {}
  <2>1. PICK i \in DOMAIN ms : TRUE
    BY <1>2
  <2>2. IsFiniteSet(DataUnits(ms)) /\ IsFiniteSet(PageUnits(ms))
    BY <2>1, OneApart
  <2> QED BY <2>2, FS_CardinalityType
<1> QED BY <1>1, <1>2

\* A list in which one major changes.
WithMajor(ms, i, n) == [ms EXCEPT ![i] = n]

\* A major that changes inside.
LEMMA Replaced ==
  ASSUME NEW ms, NEW top \in Nat, HeapInv(ms, top), NEW i \in DOMAIN ms,
         NEW n, MajorInv(n), n.base = ms[i].base, n.pages = ms[i].pages,
         NEW new, new = WithMajor(ms, i, n)
  PROVE  /\ HeapInv(new, top) /\ DOMAIN new = DOMAIN ms /\ new[i] = n
         /\ \A j \in DOMAIN ms : j # i => new[j] = ms[j]
         /\ \A j \in DOMAIN ms : new[j].base = ms[j].base
         /\ PageUnits(new) = PageUnits(ms)
         /\ Cardinality(DataUnits(new)) + Cardinality(DataOf(ms[i]))
              = Cardinality(DataUnits(ms)) + Cardinality(DataOf(n))
<1>1. n \in MajorTypes /\ ms \in Seq(MajorTypes)
  BY DEF MajorInv, HeapInv
<1>2. /\ new \in Seq(MajorTypes) /\ DOMAIN new = DOMAIN ms
      /\ \A j \in DOMAIN ms : new[j] = IF j = i THEN n ELSE ms[j]
  BY <1>1, PlaceChanged DEF WithMajor
<1>3. new[i] = n /\ \A j \in DOMAIN ms : j # i => new[j] = ms[j]
  BY <1>2
<1>4. \A j \in DOMAIN ms : new[j].base = ms[j].base /\ new[j].pages = ms[j].pages
  BY <1>3
<1>5. \A j \in DOMAIN ms : MajorEnd(new[j]) = MajorEnd(ms[j])
  BY <1>4 DEF MajorEnd
<1>6. HeapInv(new, top)
  <2>1. ASSUME NEW j \in DOMAIN new PROVE MajorInv(new[j]) /\ MajorEnd(new[j]) <= top
    BY <1>2, <1>3, <1>5 DEF HeapInv
  <2>2. MajorsDisjoint(new)
    BY <1>2, <1>4, <1>5 DEF HeapInv, MajorsDisjoint
  <2> QED BY <1>2, <2>1, <2>2 DEF HeapInv
<1>7. PageUnits(new) = PageUnits(ms)
  <2>1. \A j \in DOMAIN ms : PagesOf(new[j]) = PagesOf(ms[j])
    BY <1>4, <1>5 DEF PagesOf
  <2> QED BY <1>2, <2>1 DEF PageUnits
<1>8. DataRest(new, i) = DataRest(ms, i)
  BY <1>2, <1>3 DEF DataRest
<1>9. /\ DataUnits(ms) = DataRest(ms, i) \cup DataOf(ms[i]) /\ DataRest(ms, i) \cap DataOf(ms[i]) = {}
      /\ IsFiniteSet(DataRest(ms, i)) /\ IsFiniteSet(DataOf(ms[i]))
  BY OneApart
<1>10. /\ DataUnits(new) = DataRest(ms, i) \cup DataOf(n) /\ DataRest(ms, i) \cap DataOf(n) = {}
       /\ IsFiniteSet(DataOf(n))
  <2>1. i \in DOMAIN new
    BY <1>2
  <2>2. /\ DataUnits(new) = DataRest(new, i) \cup DataOf(new[i]) /\ DataRest(new, i) \cap DataOf(new[i]) = {}
        /\ IsFiniteSet(DataOf(new[i]))
    BY <1>6, <2>1, OneApart
  <2> QED BY <1>3, <1>8, <2>2
<1>11. /\ Cardinality(DataUnits(ms)) = Cardinality(DataRest(ms, i)) + Cardinality(DataOf(ms[i]))
       /\ Cardinality(DataRest(ms, i)) \in Nat /\ Cardinality(DataOf(ms[i])) \in Nat
  BY <1>9, DisjointUnion
<1>12. /\ Cardinality(DataUnits(new)) = Cardinality(DataRest(ms, i)) + Cardinality(DataOf(n))
       /\ Cardinality(DataOf(n)) \in Nat
  BY <1>9, <1>10, DisjointUnion
<1>13. Cardinality(DataUnits(new)) + Cardinality(DataOf(ms[i]))
         = Cardinality(DataUnits(ms)) + Cardinality(DataOf(n))
  BY <1>11, <1>12
<1> QED BY <1>2, <1>3, <1>4, <1>6, <1>7, <1>13

\* A list with one more major, and what it adds.
AndMajor(ms, n) == Append(ms, n)

Adds(ms, n, new) ==
  /\ HeapInv(new, MajorEnd(n)) /\ Len(new) = Len(ms) + 1 /\ DOMAIN new = DOMAIN ms \cup {Len(ms) + 1}
  /\ new[Len(ms) + 1] = n /\ \A j \in DOMAIN ms : new[j] = ms[j]
  /\ Cardinality(DataUnits(new)) = Cardinality(DataUnits(ms)) + Cardinality(DataOf(n))
  /\ Cardinality(PageUnits(new)) = Cardinality(PageUnits(ms)) + n.pages * PageSize

\* A major is added behind all others.
LEMMA Extended ==
  ASSUME NEW ms, NEW top \in Nat, HeapInv(ms, top), NEW n, MajorInv(n), top <= n.base,
         NEW new, new = AndMajor(ms, n)
  PROVE  Adds(ms, n, new)
<1>1. n \in MajorTypes /\ ms \in Seq(MajorTypes)
  BY DEF MajorInv, HeapInv
<1>2. /\ Len(ms) \in Nat /\ DOMAIN ms = 1 .. Len(ms)
      /\ \A j \in DOMAIN ms : /\ MajorInv(ms[j]) /\ MajorEnd(ms[j]) \in Nat /\ MajorEnd(ms[j]) <= top
                              /\ ms[j].base \in Nat
  BY HeapNumbers
<1>3. PICK z : z = Len(ms) + 1
  OBVIOUS
<1>4. /\ new \in Seq(MajorTypes) /\ Len(new) = z /\ new[z] = n
      /\ \A j \in 1 .. Len(ms) : new[j] = ms[j]
  BY <1>1, <1>3, AppendProperties DEF AndMajor
<1>5. DOMAIN new = DOMAIN ms \cup {z} /\ z \notin DOMAIN ms
  <2>1. DOMAIN new = 1 .. z
    BY <1>4, LenProperties
  <2> QED BY <1>2, <1>3, <2>1
<1>6. \A j \in DOMAIN ms : new[j] = ms[j]
  BY <1>2, <1>4
<1>7. n.base \in Nat /\ MajorEnd(n) \in Nat /\ n.pages * PageSize \in Nat /\ MajorEnd(n) = n.base + n.pages * PageSize
  BY <1>1, MajorNumbers DEF MajorEnd
<1>8. n.base <= MajorEnd(n)
  BY <1>7
<1>9. HeapInv(new, MajorEnd(n))
  <2>1. ASSUME NEW j \in DOMAIN new PROVE MajorInv(new[j]) /\ MajorEnd(new[j]) <= MajorEnd(n)
    <3>1. CASE j = z
      BY <1>4, <1>7, <3>1
    <3>2. CASE j \in DOMAIN ms
      <4>1. new[j] = ms[j] /\ MajorInv(ms[j]) /\ MajorEnd(ms[j]) \in Nat /\ MajorEnd(ms[j]) <= top
        BY <1>2, <1>6, <3>2
      <4>2. MajorEnd(ms[j]) <= MajorEnd(n)
        BY <1>7, <1>8, <4>1
      <4> QED BY <4>1, <4>2
    <3> QED BY <1>5, <3>1, <3>2
  <2>2. ASSUME NEW i \in DOMAIN ms PROVE MajorEnd(new[i]) <= n.base
    <3>1. new[i] = ms[i] /\ MajorEnd(ms[i]) \in Nat /\ MajorEnd(ms[i]) <= top
      BY <1>2, <1>6
    <3> QED BY <1>7, <3>1
  <2>3. ASSUME NEW i \in DOMAIN new, NEW j \in DOMAIN new, i # j
        PROVE  MajorEnd(new[i]) <= new[j].base \/ MajorEnd(new[j]) <= new[i].base
    <3>1. CASE i = z
      BY <1>4, <1>5, <2>2, <2>3, <3>1
    <3>2. CASE j = z
      BY <1>4, <1>5, <2>2, <2>3, <3>2
    <3>3. CASE i \in DOMAIN ms /\ j \in DOMAIN ms
      BY <1>6, <2>3, <3>3 DEF HeapInv, MajorsDisjoint
    <3> QED BY <1>5, <3>1, <3>2, <3>3
  <2> QED BY <1>4, <2>1, <2>3 DEF HeapInv, MajorsDisjoint
<1>10. DOMAIN new \ {z} = DOMAIN ms /\ z \in DOMAIN new
  BY <1>5
<1>11. DataRest(new, z) = DataUnits(ms) /\ PageRest(new, z) = PageUnits(ms)
  BY <1>6, <1>10 DEF DataRest, DataUnits, PageRest, PageUnits
<1>12. /\ DataUnits(new) = DataUnits(ms) \cup DataOf(n) /\ DataUnits(ms) \cap DataOf(n) = {}
       /\ PageUnits(new) = PageUnits(ms) \cup PagesOf(n)
       /\ PageUnits(ms) \cap PagesOf(n) = {}
       /\ IsFiniteSet(DataUnits(ms)) /\ IsFiniteSet(DataOf(n)) /\ IsFiniteSet(PageUnits(ms))
  <2>1. /\ DataUnits(new) = DataRest(new, z) \cup DataOf(new[z]) /\ DataRest(new, z) \cap DataOf(new[z]) = {}
        /\ PageUnits(new) = PageRest(new, z) \cup PagesOf(new[z])
        /\ PageRest(new, z) \cap PagesOf(new[z]) = {}
        /\ IsFiniteSet(DataRest(new, z)) /\ IsFiniteSet(DataOf(new[z])) /\ IsFiniteSet(PageRest(new, z))
    BY <1>7, <1>9, <1>10, OneApart
  <2> QED BY <1>4, <1>11, <2>1
<1>13. Cardinality(DataUnits(new)) = Cardinality(DataUnits(ms)) + Cardinality(DataOf(n))
  BY <1>12, DisjointUnion
<1>14. IsFiniteSet(PagesOf(n)) /\ Cardinality(PagesOf(n)) = n.pages * PageSize
  <2>1. /\ IsFiniteSet(PagesOf(n))
        /\ Cardinality(PagesOf(n)) = MajorEnd(n) - n.base
    BY <1>7, <1>8, Interval DEF PagesOf
  <2>2. MajorEnd(n) - n.base = n.pages * PageSize
    BY <1>7
  <2> QED BY <2>1, <2>2
<1>15. Cardinality(PageUnits(new)) = Cardinality(PageUnits(ms)) + n.pages * PageSize
  BY <1>12, <1>14, DisjointUnion
<1> QED BY <1>3, <1>4, <1>5, <1>6, <1>9, <1>13, <1>15 DEF Adds

\* An empty major is given back.
LEMMA Dropped ==
  ASSUME NEW ms, NEW top \in Nat, HeapInv(ms, top), NEW i \in DOMAIN ms, ms[i].minors = <<>>,
         NEW new, new = RemoveAt(ms, i)
  PROVE  /\ HeapInv(new, top)
         /\ \A j \in DOMAIN new : \E h \in DOMAIN ms : h # i /\ new[j] = ms[h]
         /\ \A h \in DOMAIN ms : h # i => \E j \in DOMAIN new : new[j] = ms[h]
         /\ DataUnits(new) = DataUnits(ms)
         /\ Cardinality(PageUnits(ms)) = Cardinality(PageUnits(new)) + ms[i].pages * PageSize
         /\ Cardinality(PageUnits(new)) \in Nat
<1>1. ms \in Seq(MajorTypes)
  BY DEF HeapInv
<1>2. /\ Len(ms) \in Nat /\ DOMAIN ms = 1 .. Len(ms)
      /\ \A j \in DOMAIN ms : MajorInv(ms[j]) /\ MajorEnd(ms[j]) <= top
  BY HeapNumbers
<1>3. new \in Seq(MajorTypes) /\ Len(new) \in Nat /\ DOMAIN new = 1 .. Len(new)
  BY <1>1, <1>2, Removed, LenProperties
<1>4. /\ \A j \in DOMAIN new : \E h \in DOMAIN ms : /\ h # i /\ new[j] = ms[h]
                                                    /\ h = IF j < i THEN j ELSE j + 1
      /\ \A h \in DOMAIN ms : h # i => \E j \in DOMAIN new : new[j] = ms[h]
  <2>1. i \in 1 .. Len(ms)
    BY <1>2
  <2>2. /\ \A j \in DOMAIN RemoveAt(ms, i) :
              \E h \in DOMAIN ms : /\ h # i /\ RemoveAt(ms, i)[j] = ms[h]
                                   /\ h = IF j < i THEN j ELSE j + 1
        /\ \A h \in DOMAIN ms : h # i => \E j \in DOMAIN RemoveAt(ms, i) : RemoveAt(ms, i)[j] = ms[h]
    BY <1>1, <2>1, RemovedElements
  <2>3. new = RemoveAt(ms, i)
    OBVIOUS
  <2> QED BY <2>2, <2>3, Zenon
<1>5. \A h \in DOMAIN ms : h # i => \E j \in DOMAIN new : new[j] = ms[h]
  BY <1>4
<1>6. HeapInv(new, top)
  <2>1. ASSUME NEW j \in DOMAIN new PROVE MajorInv(new[j]) /\ MajorEnd(new[j]) <= top
    BY <1>2, <1>4
  <2>2. ASSUME NEW j \in DOMAIN new, NEW l \in DOMAIN new, j # l
        PROVE  MajorEnd(new[j]) <= new[l].base \/ MajorEnd(new[l]) <= new[j].base
    <3>1. PICK g \in DOMAIN ms : new[j] = ms[g] /\ g = IF j < i THEN j ELSE j + 1
      BY <1>4
    <3>2. PICK h \in DOMAIN ms : new[l] = ms[h] /\ h = IF l < i THEN l ELSE l + 1
      BY <1>4
    <3>3. g # h
      BY <1>2, <1>3, <2>2, <3>1, <3>2
    <3> QED BY <3>1, <3>2, <3>3 DEF HeapInv, MajorsDisjoint
  <2> QED BY <1>3, <2>1, <2>2 DEF HeapInv, MajorsDisjoint
<1>7. DataRest(ms, i) = DataUnits(new) /\ PageRest(ms, i) = PageUnits(new)
  <2>1. /\ \A j \in DOMAIN new : \E h \in DOMAIN ms \ {i} : new[j] = ms[h]
        /\ \A h \in DOMAIN ms \ {i} : \E j \in DOMAIN new : new[j] = ms[h]
    BY <1>4, <1>5
  <2>2. DataRest(ms, i) = DataUnits(new)
    BY <2>1 DEF DataRest, DataUnits
  <2>3. PageRest(ms, i) = PageUnits(new)
    BY <2>1 DEF PageRest, PageUnits
  <2> QED BY <2>2, <2>3
<1>8. DataOf(ms[i]) = {}
  <2>1. ms[i].minors = <<>> => DOMAIN ms[i].minors = {}
    OBVIOUS
  <2> QED BY <2>1 DEF DataOf
<1>9. /\ DataUnits(ms) = DataRest(ms, i) \cup DataOf(ms[i])
      /\ PageUnits(ms) = PageRest(ms, i) \cup PagesOf(ms[i])
      /\ PageRest(ms, i) \cap PagesOf(ms[i]) = {}
      /\ IsFiniteSet(PageRest(ms, i))
  BY OneApart
<1>10. /\ IsFiniteSet(PagesOf(ms[i]))
       /\ Cardinality(PagesOf(ms[i])) = ms[i].pages * PageSize
  <2>1. ms[i] \in MajorTypes
    BY HeapNumbers
  <2>2. /\ ms[i].base \in Nat /\ MajorEnd(ms[i]) \in Nat /\ ms[i].pages * PageSize \in Nat
        /\ MajorEnd(ms[i]) = ms[i].base + ms[i].pages * PageSize
    BY <2>1, MajorNumbers DEF MajorEnd
  <2>3. ms[i].base <= MajorEnd(ms[i]) /\ MajorEnd(ms[i]) - ms[i].base = ms[i].pages * PageSize
    BY <2>2
  <2>4. /\ IsFiniteSet(PagesOf(ms[i]))
        /\ Cardinality(PagesOf(ms[i])) = MajorEnd(ms[i]) - ms[i].base
    BY <2>2, <2>3, Interval DEF PagesOf
  <2> QED BY <2>3, <2>4
<1>11. /\ Cardinality(PageUnits(ms)) = Cardinality(PageUnits(new)) + ms[i].pages * PageSize
       /\ Cardinality(PageUnits(new)) \in Nat
  <2>1. PageUnits(ms) = PageUnits(new) \cup PagesOf(ms[i])
        /\ PageUnits(new) \cap PagesOf(ms[i]) = {}
        /\ IsFiniteSet(PageUnits(new))
    BY <1>7, <1>9
  <2> QED BY <1>10, <2>1, DisjointUnion
<1> QED BY <1>4, <1>5, <1>6, <1>7, <1>8, <1>9, <1>11

-----------------------------------------------------------------------------
(* What malloc and free find.                                               *)

\* An address is none or that of a major.
Names(ms, best) == best # NoMajor => \E i \in DOMAIN ms : ms[i].base = best

\* The major at an address.
LEMMA IndexIs ==
  ASSUME NEW ms \in Seq(MajorTypes), NEW base, NEW r, r = IndexOf(ms, base),
         \E i \in DOMAIN ms : ms[i].base = base
  PROVE  r \in DOMAIN ms /\ ms[r].base = base
<1>1. Len(ms) \in Nat /\ DOMAIN ms = 1 .. Len(ms)
  BY LenProperties
<1>2. PICK I : I = {i \in 1 .. Len(ms) : ms[i].base = base}
  OBVIOUS
<1>3. r = IF I # {} THEN Min(I) ELSE 0
  BY <1>2 DEF IndexOf, SelectInSeq
<1>4. I # {} => r \in I
  BY <1>1, <1>2, <1>3, FirstOf
<1> QED BY <1>1, <1>2, <1>4

\* The majors from one to the last.
LEMMA CountIs ==
  ASSUME NEW n \in Nat, NEW from \in 1 .. n + 1, NEW c, c = [i \in 1 .. (n - from + 1) |-> from + i - 1]
  PROVE  /\ c \in Seq(1 .. n) /\ Len(c) = n - from + 1
         /\ \A h \in from .. n : h - from + 1 \in DOMAIN c /\ c[h - from + 1] = h
<1>1. PICK l \in Nat : l = n - from + 1
  OBVIOUS
<1>2. c = [i \in 1 .. l |-> from + i - 1] /\ DOMAIN c = 1 .. l
  BY <1>1
<1>3. \A i \in 1 .. l : from + i - 1 \in 1 .. n
  BY <1>1
<1>4. c \in [1 .. l -> 1 .. n]
  BY <1>2, <1>3
<1>5. c \in Seq(1 .. n) /\ Len(c) = l
  BY <1>4
<1>6. ASSUME NEW h \in from .. n
      PROVE  h - from + 1 \in DOMAIN c /\ c[h - from + 1] = h
  <2>1. h - from + 1 \in 1 .. l
    BY <1>1
  <2>2. c[h - from + 1] = from + (h - from + 1) - 1
    BY <1>2, <2>1
  <2>3. from + (h - from + 1) - 1 = h
    OBVIOUS
  <2> QED BY <1>2, <2>1, <2>2, <2>3
<1> QED BY <1>1, <1>5, <1>6

\* The loop of malloc looks at majors of the list, and at all of them.
LEMMA VisitsAll ==
  ASSUME NEW ms \in Seq(MajorTypes), NEW best, Names(ms, best), NEW size
  PROVE  /\ Visits(ms, best, size) \in Seq(DOMAIN ms)
         /\ \A i \in DOMAIN ms : \E v \in DOMAIN Visits(ms, best, size) : Visits(ms, best, size)[v] = i
<1>1. PICK n \in Nat : n = Len(ms) /\ DOMAIN ms = 1 .. n
  BY LenProperties
<1>2. PICK c : c = [i \in 1 .. (n - 1 + 1) |-> 1 + i - 1]
  OBVIOUS
<1>3. c \in Seq(1 .. n) /\ Len(c) = n /\ \A h \in 1 .. n : h \in DOMAIN c /\ c[h] = h
  <2>1. 1 \in 1 .. n + 1
    OBVIOUS
  <2>2. /\ c \in Seq(1 .. n) /\ Len(c) = n - 1 + 1
        /\ \A h \in 1 .. n : h - 1 + 1 \in DOMAIN c /\ c[h - 1 + 1] = h
    BY <1>2, <2>1, CountIs
  <2>3. n - 1 + 1 = n /\ \A h \in 1 .. n : h - 1 + 1 = h
    OBVIOUS
  <2> QED BY <2>2, <2>3
<1>4. PICK b : b = IndexOf(ms, best)
  OBVIOUS
<1>5. PICK d : d = [i \in 1 .. (n - b + 1) |-> b + i - 1]
  OBVIOUS
<1>6. PICK vs : vs = Visits(ms, best, size)
  OBVIOUS
<1>7. vs = IF best # NoMajor /\ Unused(ms[b]) > size + MinorSize THEN d \o c ELSE c
  BY <1>1, <1>2, <1>4, <1>5, <1>6 DEF Visits
<1>8. CASE best # NoMajor /\ Unused(ms[b]) > size + MinorSize
  <2>1. b \in 1 .. n
    BY <1>1, <1>4, <1>8, IndexIs DEF Names
  <2>2. b \in 1 .. n + 1
    BY <2>1
  <2>3. d \in Seq(1 .. n) /\ Len(d) \in Nat
    BY <1>5, <2>2, CountIs, LenProperties
  <2>4. vs = d \o c
    BY <1>7, <1>8
  <2>5. /\ vs \in Seq(1 .. n) /\ Len(vs) = Len(d) + n
        /\ \A i \in 1 .. Len(d) + n : vs[i] = IF i <= Len(d) THEN d[i] ELSE c[i - Len(d)]
    BY <1>3, <2>3, <2>4, ConcatProperties
  <2>6. ASSUME NEW h \in 1 .. n PROVE \E v \in DOMAIN vs : vs[v] = h
    <3>1. Len(d) + h \in 1 .. Len(d) + n /\ ~(Len(d) + h <= Len(d)) /\ (Len(d) + h) - Len(d) = h
      BY <2>3
    <3>2. vs[Len(d) + h] = c[h]
      BY <2>5, <3>1
    <3>3. DOMAIN vs = 1 .. Len(d) + n
      BY <2>5, LenProperties
    <3> QED BY <1>3, <3>1, <3>2, <3>3
  <2> QED BY <1>1, <1>6, <2>5, <2>6
<1>9. CASE ~(best # NoMajor /\ Unused(ms[b]) > size + MinorSize)
  <2>1. vs = c
    BY <1>7, <1>9
  <2> QED BY <1>1, <1>3, <1>6, <2>1
<1> QED BY <1>8, <1>9

\* The visit at which a request is taken.
LEMMA TakenIs ==
  ASSUME NEW ms \in Seq(MajorTypes), NEW best, Names(ms, best), NEW size,
         NEW j, j = TakenAt(ms, best, size)
  PROVE  /\ j # 0 => /\ j \in DOMAIN Visits(ms, best, size) /\ Visits(ms, best, size)[j] \in DOMAIN ms
                     /\ Takes(ms[Visits(ms, best, size)[j]], size)
         /\ j = 0 => \A i \in DOMAIN ms : ~Takes(ms[i], size)
<1>1. PICK vs : vs = Visits(ms, best, size)
  OBVIOUS
<1>2. vs \in Seq(DOMAIN ms) /\ \A i \in DOMAIN ms : \E v \in DOMAIN vs : vs[v] = i
  BY <1>1, VisitsAll
<1>3. Len(vs) \in Nat /\ DOMAIN vs = 1 .. Len(vs)
  BY <1>2, LenProperties
<1>4. PICK I : I = {v \in 1 .. Len(vs) : Takes(ms[vs[v]], size)}
  OBVIOUS
<1>5. j = IF I # {} THEN Min(I) ELSE 0
  BY <1>1, <1>4 DEF TakenAt, SelectInSeq
<1>6. /\ j = 0 => I = {}
      /\ I # {} => j \in I /\ j # 0
  BY <1>3, <1>4, <1>5, FirstOf
<1>7. j # 0 => j \in DOMAIN vs /\ Takes(ms[vs[j]], size)
  BY <1>3, <1>4, <1>5, <1>6
<1>8. \A v \in DOMAIN vs : vs[v] \in DOMAIN ms
  BY <1>2, ElementOfSeq
<1>9. ASSUME j = 0, NEW i \in DOMAIN ms PROVE ~Takes(ms[i], size)
  <2>1. PICK v \in DOMAIN vs : vs[v] = i
    BY <1>2
  <2> QED BY <1>3, <1>4, <1>6, <1>9, <2>1
<1> QED BY <1>1, <1>7, <1>8, <1>9

\* What a major has used never exceeds it.
LEMMA UsageBound ==
  ASSUME NEW m, MajorInv(m)
  PROVE  /\ m.usage \in Nat /\ m.pages * PageSize \in Nat /\ m.usage <= m.pages * PageSize
         /\ Unused(m) \in Nat /\ Unused(m) <= MajorEnd(m)
<1>1. m \in MajorTypes
  BY DEF MajorInv
<1>2. /\ m.base \in Nat /\ m.usage \in Nat /\ m.pages * PageSize \in Nat /\ MajorSize \in Nat
      /\ MajorEnd(m) = m.base + m.pages * PageSize
  BY <1>1, MajorNumbers DEF MajorEnd
<1>3. UnitsOf(m) \subseteq m.base + MajorSize .. MajorEnd(m) - 1 /\ Cardinality(UnitsOf(m)) \in Nat
  BY UnitsInside
<1>4. m.base + MajorSize <= MajorEnd(m)
  BY DEF MajorInv
<1>5. /\ IsFiniteSet(m.base + MajorSize .. MajorEnd(m) - 1)
      /\ Cardinality(m.base + MajorSize .. MajorEnd(m) - 1) = MajorEnd(m) - (m.base + MajorSize)
  <2>1. m.base + MajorSize \in Int /\ MajorEnd(m) \in Int
    BY <1>2
  <2> QED BY <1>4, <2>1, Interval
<1>6. Cardinality(UnitsOf(m)) <= MajorEnd(m) - (m.base + MajorSize)
  BY <1>3, <1>5, FS_Subset
<1>7. m.usage = MajorSize + Cardinality(UnitsOf(m))
  BY DEF MajorInv, UsageSound
<1>8. m.usage <= m.pages * PageSize
  BY <1>2, <1>3, <1>6, <1>7
<1> QED BY <1>2, <1>8 DEF Unused

\* The gap a request is put into fits it.
LEMMA GapIs ==
  ASSUME NEW m, MajorInv(m), NEW size \in Nat, Takes(m, size)
  PROVE  GapIn(m, size) \in 0 .. Len(m.minors) /\ GapFits(m, GapIn(m, size), size)
<1>1. m \in MajorTypes
  BY DEF MajorInv
<1>2. CASE m.minors = <<>>
  <2>1. GapIn(m, size) = 0 /\ Len(m.minors) = 0
    BY <1>2 DEF GapIn
  <2>2. UnitsOf(m) = {}
    <3>1. DOMAIN m.minors = {}
      BY <1>2
    <3> QED BY <3>1 DEF UnitsOf
  <2>3. m.usage = MajorSize
    <3>1. m.usage = MajorSize + Cardinality(UnitsOf(m))
      BY DEF MajorInv, UsageSound
    <3>2. Cardinality(UnitsOf(m)) = 0
      BY <2>2, FS_EmptySet
    <3> QED BY <1>1, <3>1, <3>2, MajorNumbers
  <2>4. GapStart(m, 0) = m.base + MajorSize /\ GapEnd(m, 0) = m.base + m.pages * PageSize
    BY <2>1 DEF GapStart, GapEnd, MajorEnd
  <2>5. m.pages * PageSize - MajorSize >= size + MinorSize
    BY <2>3 DEF Takes, Unused
  <2>6. GapEnd(m, 0) - GapStart(m, 0) >= size + MinorSize
    BY <1>1, <2>4, <2>5, MajorNumbers
  <2> QED BY <2>1, <2>6 DEF GapFits
<1>3. CASE m.minors # <<>>
  <2>1. FittingGaps(m, size) # {} /\ GapIn(m, size) = Min(FittingGaps(m, size))
    BY <1>3 DEF Takes, GapIn
  <2>2. FittingGaps(m, size) \subseteq Nat
    BY <1>1, MajorNumbers DEF FittingGaps
  <2>3. GapIn(m, size) \in FittingGaps(m, size)
    BY <2>1, <2>2, MinExists
  <2> QED BY <2>3 DEF FittingGaps
<1> QED BY <1>2, <1>3

\* A major that does not take a request has no gap for it: its counter is not too high.
LEMMA NoGapLeft ==
  ASSUME NEW m, MajorInv(m), NEW req \in Nat, ~Takes(m, SizeFor(req)), NEW k \in 0 .. Len(m.minors)
  PROVE  ~GapFits(m, k, SizeFor(req))
<1> SUFFICES ASSUME GapFits(m, k, SizeFor(req)) PROVE FALSE
  OBVIOUS
<1>1. PICK size \in Nat : size = SizeFor(req)
  BY PointerInside
<1>2. PICK n : n = Placed(m, k, size, req)
  OBVIOUS
<1>3. MajorInv(n) /\ n.base = m.base /\ n.pages = m.pages
  BY <1>1, <1>2, PlacedSound
<1>4. n.usage <= n.pages * PageSize
  BY <1>3, UsageBound
<1>5. n.usage = m.usage + size + MinorSize /\ m \in MajorTypes
  BY <1>2 DEF Placed, MajorInv, MajorTypes
<1>6. Unused(m) >= size + MinorSize
  <2>1. m.usage \in Nat /\ MinorSize \in Nat /\ m.pages * PageSize \in Nat
    BY <1>5, MajorNumbers
  <2>2. m.usage + size + MinorSize <= m.pages * PageSize
    BY <1>3, <1>4, <1>5
  <2> QED BY <2>1, <2>2 DEF Unused
<1>7. FittingGaps(m, size) # {}
  BY <1>1 DEF FittingGaps
<1> QED BY <1>1, <1>6, <1>7 DEF Takes

\* l_bestBet names a major after the loop of malloc.
LEMMA BestNames ==
  ASSUME NEW ms, NEW top \in Nat, HeapInv(ms, top), NEW best, Names(ms, best), NEW vs \in Seq(DOMAIN ms)
  PROVE  Names(ms, BestAfter(ms, best, vs))
<1>1. ms \in Seq(MajorTypes) /\ \A i \in DOMAIN ms : MajorInv(ms[i]) /\ MajorEnd(ms[i]) \in Nat /\ MajorEnd(ms[i]) <= top
  BY HeapNumbers DEF HeapInv
<1>2. PICK had : had = IF best = NoMajor THEN 0 ELSE Unused(ms[IndexOf(ms, best)])
  OBVIOUS
<1>3. \A i \in DOMAIN ms : Unused(ms[i]) \in Nat /\ Unused(ms[i]) <= top
  <2>1. SUFFICES ASSUME NEW i \in DOMAIN ms PROVE Unused(ms[i]) \in Nat /\ Unused(ms[i]) <= top
    OBVIOUS
  <2>2. Unused(ms[i]) \in Nat /\ Unused(ms[i]) <= MajorEnd(ms[i])
    BY <1>1, UsageBound
  <2>3. MajorEnd(ms[i]) \in Nat /\ MajorEnd(ms[i]) <= top
    BY <1>1
  <2> QED BY <2>2, <2>3
<1>4. had \in Nat /\ had <= top
  <2>1. CASE best = NoMajor
    BY <1>2, <2>1
  <2>2. CASE best # NoMajor
    <3>1. IndexOf(ms, best) \in DOMAIN ms
      BY <1>1, <2>2, IndexIs DEF Names
    <3> QED BY <1>2, <1>3, <2>2, <3>1
  <2> QED BY <2>1, <2>2
<1>5. PICK T : T = {had} \cup {Unused(ms[vs[j]]) : j \in DOMAIN vs}
  OBVIOUS
<1>6. Len(vs) \in Nat /\ DOMAIN vs = 1 .. Len(vs) /\ \A j \in DOMAIN vs : vs[j] \in DOMAIN ms
  BY LenProperties, ElementOfSeq
<1>7. PICK most : most = Max(T)
  OBVIOUS
<1>8. most \in T
  <2>1. \A y \in T : y \in Nat /\ y <= top
    BY <1>3, <1>4, <1>5, <1>6
  <2>2. T # {} /\ T \subseteq Int /\ top \in Int
    BY <1>5, <2>1
  <2> QED BY <1>7, <2>1, <2>2, MaxExists
<1>9. PICK r : r = SelectInSeq(vs, LAMBDA i : Unused(ms[i]) = most)
  OBVIOUS
<1>10. BestAfter(ms, best, vs) = IF most = had THEN best ELSE ms[vs[r]].base
  BY <1>2, <1>5, <1>7, <1>9 DEF BestAfter
<1>11. CASE most # had
  <2>1. PICK I : I = {v \in 1 .. Len(vs) : Unused(ms[vs[v]]) = most}
    OBVIOUS
  <2>2. r = IF I # {} THEN Min(I) ELSE 0
    BY <1>9, <2>1 DEF SelectInSeq
  <2>3. I # {} => r \in I
    BY <1>6, <2>1, <2>2, FirstOf
  <2>4. I # {}
    BY <1>5, <1>6, <1>8, <1>11, <2>1
  <2>5. vs[r] \in DOMAIN ms
    BY <1>6, <2>1, <2>3, <2>4
  <2> QED BY <1>10, <1>11, <2>5 DEF Names
<1> QED BY <1>10, <1>11

\* Fresh pages make a sound major whose space takes the request.
LEMMA FreshFits ==
  ASSUME NEW base \in Nat \ {0}, NEW req \in Nat, NEW size, size = SizeFor(req),
         NEW n, n = NewMajor(base, PagesFor(size))
  PROVE  /\ PagesFor(size) \in Nat \ {0} /\ MajorInv(n) /\ n.base = base /\ n.pages = PagesFor(size)
         /\ n.minors = <<>> /\ DataOf(n) = {} /\ GapFits(n, 0, size) /\ 0 \in 0 .. Len(n.minors)
<1>1. size \in Nat /\ MajorSize \in Nat \ {0} /\ MinorSize \in Nat \ {0} /\ PageSize \in Nat \ {0} /\ PageCount \in Nat \ {0}
  BY PointerInside, SizesAssumption DEF SizeFor
<1>2. PICK x \in Nat \ {0} : x = size + MajorSize + MinorSize
  BY <1>1
<1>3. PICK a \in Nat : a = size + MajorSize + MinorSize + PageSize - 1 /\ a = x + PageSize - 1
  BY <1>1, <1>2
<1>4. PICK whole : whole = a \div PageSize
  OBVIOUS
<1>5. PagesFor(size) = IF whole < PageCount THEN PageCount ELSE whole
  BY <1>3, <1>4 DEF PagesFor
<1>6. whole \in Nat /\ whole * PageSize \in Nat /\ a < whole * PageSize + PageSize
  BY <1>1, <1>4, Division, Products
<1>7. x <= whole * PageSize
  BY <1>1, <1>3, <1>6
<1>8. PICK p : p = PagesFor(size)
  OBVIOUS
<1>9. p \in Nat \ {0} /\ whole <= p
  BY <1>1, <1>5, <1>6, <1>8
<1>10. p * PageSize \in Nat /\ whole * PageSize <= p * PageSize
  BY <1>1, <1>6, <1>9, ProductOrder, Products
<1>11. size + MajorSize + MinorSize <= p * PageSize
  BY <1>2, <1>6, <1>7, <1>10
<1>12. /\ n = [base |-> base, pages |-> p, usage |-> MajorSize, minors |-> <<>>]
       /\ n.base = base /\ n.pages = p /\ n.usage = MajorSize /\ n.minors = <<>>
  BY <1>8 DEF NewMajor
<1>13. n \in MajorTypes
  <2>1. <<>> \in Seq(Minors)
    OBVIOUS
  <2> QED BY <1>1, <1>9, <1>12, <2>1 DEF MajorTypes
<1>14. DOMAIN n.minors = {} /\ Len(n.minors) = 0
  BY <1>12
<1>15. UnitsOf(n) = {} /\ DataOf(n) = {}
  BY <1>14 DEF UnitsOf, DataOf
<1>16. MajorEnd(n) = base + p * PageSize
  BY <1>12 DEF MajorEnd
<1>17. UsageSound(n)
  <2>1. Cardinality(UnitsOf(n)) = 0
    BY <1>15, FS_EmptySet
  <2> QED BY <1>1, <1>12, <2>1 DEF UsageSound
<1>18. n.base + MajorSize <= MajorEnd(n)
  BY <1>1, <1>10, <1>11, <1>12, <1>16
<1>19. MajorInv(n)
  BY <1>13, <1>14, <1>17, <1>18 DEF MajorInv
<1>20. GapFits(n, 0, size)
  <2>1. GapStart(n, 0) = base + MajorSize /\ GapEnd(n, 0) = base + p * PageSize
    BY <1>12, <1>14, <1>16 DEF GapStart, GapEnd
  <2>2. GapEnd(n, 0) - GapStart(n, 0) >= size + MinorSize
    BY <1>1, <1>10, <1>11, <2>1
  <2> QED BY <2>2 DEF GapFits
<1> QED BY <1>8, <1>9, <1>12, <1>14, <1>15, <1>19, <1>20

\* What a caller of malloc may rely on, of the majors before and after.
NewBlock(ms, ns, size) ==
  /\ DOMAIN ms \subseteq DOMAIN ns
  /\ \A i \in DOMAIN ms : /\ ns[i].base = ms[i].base
                          /\ \A k \in DOMAIN ms[i].minors : \E h \in DOMAIN ns[i].minors :
                               ns[i].minors[h] = ms[i].minors[k]
  /\ \A i \in DOMAIN ns \ DOMAIN ms : ns[i].minors # <<>>
  /\ \A i \in DOMAIN ms : ms[i].minors # <<>> => ns[i].minors # <<>>
  /\ Cardinality(DataUnits(ns)) = Cardinality(DataUnits(ms)) + size

\* A request taken by a major.
LEMMA FoundSound ==
  ASSUME NEW ms, NEW top \in Nat, HeapInv(ms, top), NEW best, Names(ms, best),
         NEW req \in Nat, TakenAt(ms, best, SizeFor(req)) # 0,
         NEW f, f = Found(ms, best, req)
  PROVE  /\ HeapInv(f.majors, top) /\ Names(f.majors, f.best)
         /\ NewBlock(ms, f.majors, SizeFor(req)) /\ PageUnits(f.majors) = PageUnits(ms)
<1>1. ms \in Seq(MajorTypes) /\ \A i \in DOMAIN ms : MajorInv(ms[i])
  BY DEF HeapInv
<1>2. PICK size \in Nat : size = SizeFor(req)
  BY PointerInside
<1>3. PICK j : j = TakenAt(ms, best, size)
  OBVIOUS
<1>4. PICK vs : vs = Visits(ms, best, size)
  OBVIOUS
<1>5. j \in DOMAIN vs /\ vs[j] \in DOMAIN ms /\ Takes(ms[vs[j]], size)
  BY <1>1, <1>2, <1>3, <1>4, TakenIs
<1>6. PICK i \in DOMAIN ms : i = vs[j]
  BY <1>5
<1>7. PICK k : k = GapIn(ms[i], size)
  OBVIOUS
<1>8. k \in 0 .. Len(ms[i].minors) /\ GapFits(ms[i], k, size)
  BY <1>1, <1>5, <1>6, <1>7, GapIs
<1>9. PICK n : n = Placed(ms[i], k, size, req)
  OBVIOUS
<1>10. /\ MajorInv(n) /\ n.base = ms[i].base /\ n.pages = ms[i].pages /\ n.minors # <<>>
       /\ Cardinality(DataOf(n)) = Cardinality(DataOf(ms[i])) + size
       /\ \A g \in DOMAIN ms[i].minors : \E h \in DOMAIN n.minors : n.minors[h] = ms[i].minors[g]
  BY <1>1, <1>2, <1>8, <1>9, PlacedSound
<1>11. PICK new : new = WithMajor(ms, i, n)
  OBVIOUS
<1>12. /\ HeapInv(new, top) /\ DOMAIN new = DOMAIN ms /\ new[i] = n
       /\ \A h \in DOMAIN ms : h # i => new[h] = ms[h]
       /\ \A h \in DOMAIN ms : new[h].base = ms[h].base
       /\ PageUnits(new) = PageUnits(ms)
       /\ Cardinality(DataUnits(new)) + Cardinality(DataOf(ms[i]))
            = Cardinality(DataUnits(ms)) + Cardinality(DataOf(n))
  <2>1. MajorInv(n) /\ n.base = ms[i].base /\ n.pages = ms[i].pages
    BY <1>10
  <2>2. HeapInv(new, top) /\ DOMAIN new = DOMAIN ms /\ new[i] = n
    BY <1>11, <2>1, Replaced
  <2>3. \A h \in DOMAIN ms : h # i => new[h] = ms[h]
    BY <1>11, <2>1, Replaced
  <2>4. \A h \in DOMAIN ms : new[h].base = ms[h].base
    BY <1>11, <2>1, Replaced
  <2>5. /\ PageUnits(new) = PageUnits(ms)
        /\ Cardinality(DataUnits(new)) + Cardinality(DataOf(ms[i]))
             = Cardinality(DataUnits(ms)) + Cardinality(DataOf(n))
    BY <1>11, <2>1, <2>2, Replaced
  <2> QED BY <2>2, <2>3, <2>4, <2>5
<1>13. PICK b : b = BestAfter(ms, best, SubSeq(vs, 1, j))
  OBVIOUS
<1>14. f.majors = new /\ f.best = b
  <2>1. [ms EXCEPT ![i] = Placed(@, k, size, req)] = new
    BY <1>9, <1>11 DEF WithMajor
  <2> QED BY <1>2, <1>3, <1>4, <1>6, <1>7, <1>13, <2>1 DEF Found
<1>15. SubSeq(vs, 1, j) \in Seq(DOMAIN ms)
  <2>1. vs \in Seq(DOMAIN ms)
    BY <1>1, <1>4, VisitsAll
  <2>2. Len(vs) \in Nat /\ DOMAIN vs = 1 .. Len(vs)
    BY <2>1, LenProperties
  <2>3. 1 \in 1 .. Len(vs) + 1 /\ j \in 0 .. Len(vs) /\ 1 <= j + 1
    BY <1>5, <2>2
  <2> QED BY <2>1, <2>3, PartOf
<1>16. Names(ms, b)
  BY <1>13, <1>15, BestNames
<1>17. Names(new, b)
  BY <1>12, <1>16 DEF Names
<1>18. Cardinality(DataUnits(new)) = Cardinality(DataUnits(ms)) + size
  <2>1. Cardinality(DataOf(ms[i])) \in Nat
    BY <1>1, UnitsInside
  <2>2. Cardinality(DataUnits(ms)) \in Nat /\ Cardinality(DataUnits(new)) \in Nat
    BY <1>12, HeapFinite
  <2> QED BY <1>2, <1>10, <1>12, <2>1, <2>2
<1>19. NewBlock(ms, new, size)
  <2>1. ASSUME NEW h \in DOMAIN ms
        PROVE  /\ \A g \in DOMAIN ms[h].minors : \E l \in DOMAIN new[h].minors : new[h].minors[l] = ms[h].minors[g]
               /\ ms[h].minors # <<>> => new[h].minors # <<>>
    BY <1>10, <1>12
  <2> QED BY <1>12, <1>18, <2>1 DEF NewBlock
<1> QED BY <1>2, <1>12, <1>14, <1>17, <1>19

\* A request for which a major is added.
LEMMA GrownSound ==
  ASSUME NEW ms, NEW top \in Nat \ {0}, HeapInv(ms, top), NEW best, Names(ms, best), NEW req \in Nat,
         NEW g, g = Grown(ms, best, req, top), NEW p, p = PagesFor(SizeFor(req))
  PROVE  /\ p \in Nat \ {0} /\ HeapInv(g.majors, top + p * PageSize) /\ Names(g.majors, g.best)
         /\ NewBlock(ms, g.majors, SizeFor(req))
         /\ Cardinality(PageUnits(g.majors)) = Cardinality(PageUnits(ms)) + p * PageSize
<1>1. ms \in Seq(MajorTypes) /\ Len(ms) \in Nat /\ DOMAIN ms = 1 .. Len(ms)
  BY HeapNumbers DEF HeapInv
<1>2. PICK size \in Nat : size = SizeFor(req)
  BY PointerInside
<1>3. PICK fresh : fresh = NewMajor(top, PagesFor(size))
  OBVIOUS
<1>4. /\ p \in Nat \ {0} /\ MajorInv(fresh) /\ fresh.base = top /\ fresh.pages = p
      /\ fresh.minors = <<>> /\ DataOf(fresh) = {} /\ GapFits(fresh, 0, size) /\ 0 \in 0 .. Len(fresh.minors)
  <2>1. PICK q : q = SizeFor(req)
    OBVIOUS
  <2>2. PICK f : f = NewMajor(top, PagesFor(q))
    OBVIOUS
  <2>3. /\ PagesFor(q) \in Nat \ {0} /\ MajorInv(f) /\ f.base = top /\ f.pages = PagesFor(q)
        /\ f.minors = <<>> /\ DataOf(f) = {} /\ GapFits(f, 0, q) /\ 0 \in 0 .. Len(f.minors)
    BY <2>1, <2>2, FreshFits
  <2>4. q = size /\ f = fresh /\ p = PagesFor(q)
    BY <1>2, <1>3, <2>1, <2>2
  <2> QED BY <2>3, <2>4
<1>5. MajorEnd(fresh) = top + p * PageSize /\ top + p * PageSize \in Nat
  <2>1. PageSize \in Nat \ {0}
    BY SizesAssumption
  <2>2. p * PageSize \in Nat
    BY <1>4, <2>1, Products
  <2> QED BY <1>4, <2>2 DEF MajorEnd
<1>6. PICK more : more = AndMajor(ms, fresh)
  OBVIOUS
<1>7. PICK z : z = Len(ms) + 1
  OBVIOUS
<1>8. /\ HeapInv(more, MajorEnd(fresh)) /\ Len(more) = z /\ DOMAIN more = DOMAIN ms \cup {z}
      /\ more[z] = fresh /\ \A j \in DOMAIN ms : more[j] = ms[j]
      /\ Cardinality(DataUnits(more)) = Cardinality(DataUnits(ms)) + Cardinality(DataOf(fresh))
      /\ Cardinality(PageUnits(more)) = Cardinality(PageUnits(ms)) + fresh.pages * PageSize
  <2>1. top \in Nat /\ MajorInv(fresh) /\ top <= fresh.base
    BY <1>4
  <2>2. Adds(ms, fresh, more)
    BY <1>6, <2>1, Extended
  <2> QED BY <1>7, <2>2 DEF Adds
<1>9. PICK n : n = Placed(fresh, 0, size, req)
  OBVIOUS
<1>10. /\ MajorInv(n) /\ n.base = fresh.base /\ n.pages = fresh.pages /\ n.minors # <<>>
       /\ Cardinality(DataOf(n)) = Cardinality(DataOf(fresh)) + size
  <2>1. MajorInv(fresh) /\ 0 \in 0 .. Len(fresh.minors) /\ GapFits(fresh, 0, size)
    BY <1>4
  <2> QED BY <1>2, <1>9, <2>1, PlacedSound
<1>11. PICK new : new = WithMajor(more, z, n)
  OBVIOUS
<1>12. PICK end \in Nat : end = top + p * PageSize /\ HeapInv(more, end)
  BY <1>5, <1>8
<1>13. /\ HeapInv(new, end) /\ DOMAIN new = DOMAIN more /\ new[z] = n
       /\ \A h \in DOMAIN more : h # z => new[h] = more[h]
       /\ \A h \in DOMAIN more : new[h].base = more[h].base
       /\ PageUnits(new) = PageUnits(more)
       /\ Cardinality(DataUnits(new)) + Cardinality(DataOf(more[z]))
            = Cardinality(DataUnits(more)) + Cardinality(DataOf(n))
  <2>1. MajorInv(n) /\ n.base = more[z].base /\ n.pages = more[z].pages /\ z \in DOMAIN more
    BY <1>8, <1>10
  <2>2. HeapInv(new, end) /\ DOMAIN new = DOMAIN more /\ new[z] = n
    BY <1>11, <1>12, <2>1, Replaced
  <2>3. \A h \in DOMAIN more : h # z => new[h] = more[h]
    BY <1>11, <1>12, <2>1, Replaced
  <2>4. \A h \in DOMAIN more : new[h].base = more[h].base
    BY <1>11, <1>12, <2>1, Replaced
  <2>5. /\ PageUnits(new) = PageUnits(more)
        /\ Cardinality(DataUnits(new)) + Cardinality(DataOf(more[z]))
             = Cardinality(DataUnits(more)) + Cardinality(DataOf(n))
    BY <1>11, <1>12, <2>1, <2>2, Replaced
  <2> QED BY <2>2, <2>3, <2>4, <2>5
<1>14. PICK vs : vs = Visits(ms, best, size) \o IF ms = <<>> \/ Unused(Last(ms)) >= size + MinorSize THEN <<z>> ELSE <<>>
  OBVIOUS
<1>15. PICK b : b = BestAfter(more, best, vs)
  OBVIOUS
<1>16. g.majors = new /\ g.best = b
  <2>1. [more EXCEPT ![Len(more)] = Placed(@, 0, size, req)] = new
    BY <1>8, <1>9, <1>11 DEF WithMajor
  <2> QED BY <1>2, <1>3, <1>6, <1>8, <1>14, <1>15, <2>1 DEF Grown, AndMajor
<1>17. vs \in Seq(DOMAIN more)
  <2>1. Visits(ms, best, size) \in Seq(DOMAIN more)
    <3>1. Visits(ms, best, size) \in Seq(DOMAIN ms) /\ DOMAIN ms \subseteq DOMAIN more
      BY <1>1, <1>8, VisitsAll
    <3> QED BY <3>1, SequenceWidens
  <2>2. <<z>> \in Seq(DOMAIN more) /\ <<>> \in Seq(DOMAIN more)
    BY <1>8
  <2> QED BY <1>14, <2>1, <2>2, ConcatProperties
<1>18. Names(new, b)
  <2>1. Names(more, best)
    BY <1>8 DEF Names
  <2>2. Names(more, b)
    BY <1>12, <1>15, <1>17, <2>1, BestNames
  <2> QED BY <1>13, <2>2 DEF Names
<1>19. Cardinality(DataUnits(new)) = Cardinality(DataUnits(ms)) + size
  <2>1. Cardinality(DataOf(fresh)) = 0
    BY <1>4, FS_EmptySet
  <2>2. Cardinality(DataUnits(ms)) \in Nat /\ Cardinality(DataUnits(new)) \in Nat
    BY <1>12, <1>13, HeapFinite
  <2> QED BY <1>2, <1>8, <1>10, <1>13, <2>1, <2>2
<1>20. NewBlock(ms, new, size)
  <2>1. z \notin DOMAIN ms
    BY <1>1, <1>7
  <2>2. \A h \in DOMAIN ms : new[h] = ms[h]
    BY <1>8, <1>13, <2>1
  <2>3. DOMAIN new \ DOMAIN ms = {z}
    BY <1>8, <1>13, <2>1
  <2> QED BY <1>8, <1>10, <1>13, <1>19, <2>2, <2>3 DEF NewBlock
<1>21. Cardinality(PageUnits(new)) = Cardinality(PageUnits(ms)) + p * PageSize
  BY <1>4, <1>8, <1>13
<1> QED BY <1>2, <1>4, <1>12, <1>13, <1>16, <1>18, <1>20, <1>21

-----------------------------------------------------------------------------
(* Pointers.                                                                *)

\* A pointer lies in the caller's part of its minor, so that no two are equal.
LEMMA OnePointer ==
  ASSUME NEW m, MajorInv(m), NEW j \in DOMAIN m.minors, NEW k \in DOMAIN m.minors,
         PointerOf(m.minors[j].at) = PointerOf(m.minors[k].at)
  PROVE  j = k
<1>1. m \in MajorTypes
  BY DEF MajorInv
<1>2. ASSUME NEW h \in DOMAIN m.minors
      PROVE  /\ PointerOf(m.minors[h].at) \in Nat /\ m.minors[h].at \in Nat /\ EndOf(m.minors[h]) \in Nat
             /\ m.minors[h].at <= PointerOf(m.minors[h].at)
             /\ PointerOf(m.minors[h].at) < EndOf(m.minors[h])
  <2>1. m.minors[h].at \in Nat /\ m.minors[h].req \in Nat /\ EndOf(m.minors[h]) \in Nat
    BY <1>1, MajorNumbers
  <2>2. PointerOf(m.minors[h].at) \in Nat
    BY <2>1, PointerInside
  <2>3. /\ PointerOf(m.minors[h].at) - AlignInfo >= m.minors[h].at + MinorSize
        /\ PointerOf(m.minors[h].at) + m.minors[h].req < EndOf(m.minors[h])
    BY DEF MajorInv, MinorSound
  <2> QED BY <2>1, <2>2, <2>3, SizesAssumption
<1>3. ~(j < k)
  <2>1. SUFFICES ASSUME j < k PROVE FALSE
    OBVIOUS
  <2>2. EndOf(m.minors[j]) <= m.minors[k].at
    BY <2>1 DEF MajorInv
  <2> QED BY <1>2, <2>2
<1>4. ~(k < j)
  <2>1. SUFFICES ASSUME k < j PROVE FALSE
    OBVIOUS
  <2>2. EndOf(m.minors[k]) <= m.minors[j].at
    BY <2>1 DEF MajorInv
  <2> QED BY <1>2, <2>2
<1> QED BY <1>1, <1>3, <1>4, MajorNumbers

\* The minor of a pointer that a major holds.
LEMMA HeldMinor ==
  ASSUME NEW m, MajorInv(m), NEW p, Holds(m, p), NEW k, k = MinorOf(m, p)
  PROVE  k \in DOMAIN m.minors /\ PointerOf(m.minors[k].at) = p
<1>1. Len(m.minors) \in Nat /\ DOMAIN m.minors = 1 .. Len(m.minors)
  BY MajorNumbers DEF MajorInv
<1>2. PICK I : I = {i \in 1 .. Len(m.minors) : PointerOf(m.minors[i].at) = p}
  OBVIOUS
<1>3. k = IF I # {} THEN Min(I) ELSE 0
  BY <1>2 DEF MinorOf, SelectInSeq
<1>4. I # {} => k \in I
  BY <1>1, <1>2, <1>3, FirstOf
<1> QED BY <1>1, <1>2, <1>4 DEF Holds

\* The major of a pointer.
LEMMA HoldingMajor ==
  ASSUME NEW ms, NEW top \in Nat, HeapInv(ms, top), NEW p \in Pointers(ms), NEW i, i = MajorOf(ms, p)
  PROVE  i \in DOMAIN ms /\ Holds(ms[i], p)
<1>1. Len(ms) \in Nat /\ DOMAIN ms = 1 .. Len(ms) /\ \A h \in DOMAIN ms : ms[h] \in MajorTypes
  BY HeapNumbers
<1>2. PICK I : I = {h \in 1 .. Len(ms) : Holds(ms[h], p)}
  OBVIOUS
<1>3. i = IF I # {} THEN Min(I) ELSE 0
  BY <1>2 DEF MajorOf, SelectInSeq
<1>4. I # {} => i \in I
  BY <1>1, <1>2, <1>3, FirstOf
<1>5. PICK h \in DOMAIN ms : \E x \in ToSet(ms[h].minors) : p = PointerOf(x.at)
  BY DEF Pointers
<1>6. Holds(ms[h], p)
  BY <1>5 DEF ToSet, Holds
<1> QED BY <1>1, <1>2, <1>4, <1>6

-----------------------------------------------------------------------------
(* What the calls do to the heap and its counters.                          *)

\* The heap and the counters that the kernel keeps of it.
Good(ms, best, pool, end, used, taken) ==
  /\ end \in FirstPage .. KernelEnd /\ pool \in Nat
  /\ HeapInv(ms, end * PageSize)
  /\ \A i \in DOMAIN ms : ms[i].minors # <<>>
  /\ Names(ms, best)
  /\ used = Cardinality(DataUnits(ms))
  /\ taken = Cardinality(PageUnits(ms))
  /\ pool * PageSize + taken = Frames * PageSize

\* The numbers of a good heap have their types.
LEMMA GoodNumbers ==
  ASSUME NEW ms, NEW best, NEW pool, NEW end, NEW used, NEW taken, Good(ms, best, pool, end, used, taken)
  PROVE  /\ end \in Nat \ {0} /\ end * PageSize \in Nat \ {0} /\ pool \in Nat /\ pool * PageSize \in Nat
         /\ PageSize \in Nat \ {0} /\ Frames \in Nat /\ Frames * PageSize \in Nat /\ KernelEnd \in Nat
         /\ HeapInv(ms, end * PageSize) /\ used \in Nat /\ taken \in Nat
<1>1. end \in Nat \ {0} /\ pool \in Nat /\ KernelEnd \in Nat /\ Frames \in Nat
  BY KernelHeapAssumption DEF Good, FirstPage
<1>2. PageSize \in Nat \ {0}
  BY SizesAssumption
<1>3. end * PageSize \in Nat \ {0} /\ pool * PageSize \in Nat /\ Frames * PageSize \in Nat
  <2>1. end * PageSize \in Nat /\ end * PageSize >= PageSize
    BY <1>1, <1>2, Products
  <2>2. pool * PageSize \in Nat /\ Frames * PageSize \in Nat
    BY <1>1, <1>2, Products
  <2> QED BY <1>2, <2>1, <2>2
<1>4. HeapInv(ms, end * PageSize)
  BY DEF Good
<1>5. used \in Nat /\ taken \in Nat
  BY <1>3, <1>4, HeapFinite DEF Good
<1> QED BY <1>1, <1>2, <1>3, <1>4, <1>5

\* A request that a major takes.
LEMMA GoodFound ==
  ASSUME NEW ms, NEW best, NEW pool, NEW end, NEW used, NEW taken, Good(ms, best, pool, end, used, taken),
         NEW req \in Nat, TakenAt(ms, best, SizeFor(req)) # 0,
         NEW f, f = Found(ms, best, req)
  PROVE  /\ Good(f.majors, f.best, pool, end, used + SizeFor(req), taken)
         /\ NewBlock(ms, f.majors, SizeFor(req))
<1>1. PICK top \in Nat : top = end * PageSize /\ HeapInv(ms, top)
  BY GoodNumbers
<1>2. Names(ms, best)
  BY DEF Good
<1>3. /\ HeapInv(f.majors, top) /\ Names(f.majors, f.best)
      /\ NewBlock(ms, f.majors, SizeFor(req)) /\ PageUnits(f.majors) = PageUnits(ms)
  BY <1>1, <1>2, FoundSound
<1>4. \A i \in DOMAIN f.majors : f.majors[i].minors # <<>>
  BY <1>3 DEF NewBlock, Good
<1>5. Cardinality(DataUnits(f.majors)) = used + SizeFor(req)
  BY <1>3 DEF NewBlock, Good
<1> QED BY <1>1, <1>3, <1>4, <1>5 DEF Good

\* A request for which pages are taken.
LEMMA GoodGrown ==
  ASSUME NEW ms, NEW best, NEW pool, NEW end, NEW used, NEW taken, Good(ms, best, pool, end, used, taken),
         NEW req \in Nat, NEW g, g = Grown(ms, best, req, end * PageSize),
         NEW n, n = PagesFor(SizeFor(req)), ~(pool < n \/ end + n >= KernelEnd)
  PROVE  /\ Good(g.majors, g.best, pool - n, end + n, used + SizeFor(req), taken + n * PageSize)
         /\ NewBlock(ms, g.majors, SizeFor(req)) /\ n \in Nat
<1>1. /\ end \in Nat \ {0} /\ end * PageSize \in Nat \ {0} /\ pool \in Nat /\ pool * PageSize \in Nat
      /\ PageSize \in Nat \ {0} /\ Frames * PageSize \in Nat /\ KernelEnd \in Nat
      /\ HeapInv(ms, end * PageSize) /\ taken \in Nat
  BY GoodNumbers
<1>2. PICK top \in Nat \ {0} : top = end * PageSize
  BY <1>1
<1>3. /\ n \in Nat \ {0} /\ HeapInv(g.majors, top + n * PageSize) /\ Names(g.majors, g.best)
      /\ NewBlock(ms, g.majors, SizeFor(req))
      /\ Cardinality(PageUnits(g.majors)) = Cardinality(PageUnits(ms)) + n * PageSize
  <2>1. Names(ms, best) /\ HeapInv(ms, top)
    BY <1>1, <1>2 DEF Good
  <2>2. g = Grown(ms, best, req, top)
    BY <1>2
  <2> QED BY <2>1, <2>2, GrownSound
<1>4. \A i \in DOMAIN g.majors : g.majors[i].minors # <<>>
  BY <1>3 DEF NewBlock, Good
<1>5. Cardinality(DataUnits(g.majors)) = used + SizeFor(req)
  BY <1>3 DEF NewBlock, Good
<1>6. Cardinality(PageUnits(g.majors)) = taken + n * PageSize
  BY <1>3 DEF Good
<1>7. /\ (end + n) * PageSize = top + n * PageSize
      /\ (pool - n) * PageSize = pool * PageSize - n * PageSize
      /\ n * PageSize \in Nat
  BY <1>1, <1>2, <1>3, ProductOrder, Products
<1>8. HeapInv(g.majors, (end + n) * PageSize)
  BY <1>3, <1>7
<1>9. end + n \in FirstPage .. KernelEnd /\ pool - n \in Nat
  BY <1>1, <1>3 DEF FirstPage
<1>10. (pool - n) * PageSize + (taken + n * PageSize) = Frames * PageSize
  <2>1. pool * PageSize + taken = Frames * PageSize
    BY DEF Good
  <2>2. PICK a \in Nat : a = pool * PageSize
    BY <1>1
  <2>3. PICK b \in Nat : b = n * PageSize
    BY <1>7
  <2>4. (a - b) + (taken + b) = a + taken
    BY <1>1
  <2> QED BY <1>7, <2>1, <2>2, <2>3, <2>4
<1> QED BY <1>3, <1>4, <1>5, <1>6, <1>8, <1>9, <1>10 DEF Good

\* A list without a major is the same whatever the major was.
LEMMA SameWithout ==
  ASSUME NEW ms \in Seq(MajorTypes), NEW i \in DOMAIN ms, NEW n \in MajorTypes
  PROVE  RemoveAt(WithMajor(ms, i, n), i) = RemoveAt(ms, i)
<1>1. PICK l : l = WithMajor(ms, i, n)
  OBVIOUS
<1>2. Len(ms) \in Nat /\ DOMAIN ms = 1 .. Len(ms) /\ i \in 1 .. Len(ms)
  BY LenProperties
<1>3. l \in Seq(MajorTypes) /\ Len(l) = Len(ms) /\ \A h \in DOMAIN ms : h # i => l[h] = ms[h]
  BY <1>1, PlaceChanged DEF WithMajor
<1>4. PICK a : a = RemoveAt(l, i)
  OBVIOUS
<1>5. PICK b : b = RemoveAt(ms, i)
  OBVIOUS
<1>6. /\ a \in Seq(MajorTypes) /\ Len(a) = Len(ms) - 1
      /\ \A h \in 1 .. i - 1 : a[h] = l[h]
      /\ \A h \in i .. Len(ms) - 1 : a[h] = l[h + 1]
  <2>1. i \in 1 .. Len(l)
    BY <1>2, <1>3
  <2>2. /\ RemoveAt(l, i) \in Seq(MajorTypes) /\ Len(RemoveAt(l, i)) = Len(l) - 1
        /\ \A h \in 1 .. i - 1 : RemoveAt(l, i)[h] = l[h]
        /\ \A h \in i .. Len(l) - 1 : RemoveAt(l, i)[h] = l[h + 1]
    BY <1>3, <2>1, Removed
  <2> QED BY <1>3, <1>4, <2>2
<1>7. /\ b \in Seq(MajorTypes) /\ Len(b) = Len(ms) - 1
      /\ \A h \in 1 .. i - 1 : b[h] = ms[h]
      /\ \A h \in i .. Len(ms) - 1 : b[h] = ms[h + 1]
  <2>1. /\ RemoveAt(ms, i) \in Seq(MajorTypes) /\ Len(RemoveAt(ms, i)) = Len(ms) - 1
        /\ \A h \in 1 .. i - 1 : RemoveAt(ms, i)[h] = ms[h]
        /\ \A h \in i .. Len(ms) - 1 : RemoveAt(ms, i)[h] = ms[h + 1]
    BY <1>2, Removed
  <2> QED BY <1>5, <2>1
<1>8. ASSUME NEW h \in 1 .. Len(ms) - 1 PROVE a[h] = b[h]
  <2>1. CASE h < i
    <3>1. h \in 1 .. i - 1 /\ h \in DOMAIN ms /\ h # i
      BY <1>2, <2>1
    <3> QED BY <1>3, <1>6, <1>7, <3>1
  <2>2. CASE ~(h < i)
    <3>1. h \in i .. Len(ms) - 1 /\ h + 1 \in DOMAIN ms /\ h + 1 # i
      BY <1>2, <2>2
    <3> QED BY <1>3, <1>6, <1>7, <3>1
  <2> QED BY <2>1, <2>2
<1>9. a = b
  BY <1>6, <1>7, <1>8, SeqEqual
<1> QED BY <1>1, <1>4, <1>5, <1>9

\* What is left of a heap when a block of so many bytes goes.
Frees(ms, i, left, best, pool, end, used, taken, size) ==
  /\ i \in DOMAIN left /\ left[i].base = ms[i].base /\ left[i].pages = ms[i].pages
  /\ left[i].pages \in Nat
  /\ RemoveAt(left, i) = RemoveAt(ms, i)
  /\ left[i].minors = <<>> =>
       Good(RemoveAt(left, i), IF best = left[i].base THEN NoMajor ELSE best,
            pool + left[i].pages, end, used - size, taken - left[i].pages * PageSize)
  /\ left[i].minors # <<>> =>
       Good(left, BestAfterFree(left, best, i), pool, end, used - size, taken)

\* A block is freed.
LEMMA GoodFreed ==
  ASSUME NEW ms, NEW best, NEW pool, NEW end, NEW used, NEW taken, Good(ms, best, pool, end, used, taken),
         NEW i \in DOMAIN ms, NEW k \in DOMAIN ms[i].minors,
         NEW left, left = WithMajor(ms, i, Unlinked(ms[i], k))
  PROVE  Frees(ms, i, left, best, pool, end, used, taken, ms[i].minors[k].size)
<1>1. /\ end \in Nat \ {0} /\ pool \in Nat /\ pool * PageSize \in Nat
      /\ PageSize \in Nat \ {0} /\ used \in Nat /\ taken \in Nat
  BY GoodNumbers
<1>2. PICK top \in Nat : top = end * PageSize /\ HeapInv(ms, top)
  BY GoodNumbers
<1>3. MajorInv(ms[i]) /\ ms[i] \in MajorTypes /\ ms \in Seq(MajorTypes) /\ ms[i].base \in Nat \ {0}
  BY <1>2, HeapNumbers DEF HeapInv
<1>4. PICK size \in Nat : size = ms[i].minors[k].size
  BY <1>3, MajorNumbers
<1>5. PICK n : n = Unlinked(ms[i], k)
  OBVIOUS
<1>6. /\ MajorInv(n) /\ n.base = ms[i].base /\ n.pages = ms[i].pages
      /\ Cardinality(DataOf(ms[i])) = Cardinality(DataOf(n)) + size
  BY <1>3, <1>4, <1>5, UnlinkedSound
<1>7. n \in MajorTypes /\ n.pages \in Nat \ {0}
  BY <1>6, MajorNumbers DEF MajorInv
<1>8. left = WithMajor(ms, i, n)
  BY <1>5
<1>9. HeapInv(left, top) /\ DOMAIN left = DOMAIN ms /\ left[i] = n
  BY <1>2, <1>6, <1>8, Replaced
<1>10. \A h \in DOMAIN ms : h # i => left[h] = ms[h]
  BY <1>2, <1>6, <1>8, Replaced
<1>11. \A h \in DOMAIN ms : left[h].base = ms[h].base
  BY <1>2, <1>6, <1>8, Replaced
<1>12. PageUnits(left) = PageUnits(ms)
  BY <1>2, <1>6, <1>8, Replaced
<1>13. Cardinality(DataUnits(left)) + Cardinality(DataOf(ms[i]))
         = Cardinality(DataUnits(ms)) + Cardinality(DataOf(n))
  BY <1>2, <1>6, <1>8, Replaced
<1>14. Cardinality(DataUnits(left)) = used - size
  <2>1. PICK c \in Nat : c = Cardinality(DataOf(n))
    BY <1>6, UnitsInside
  <2>2. PICK d \in Nat : d = Cardinality(DataUnits(left))
    BY <1>2, <1>9, HeapFinite
  <2>3. Cardinality(DataUnits(ms)) = used
    BY DEF Good
  <2>4. PICK e : e = Cardinality(DataOf(ms[i]))
    OBVIOUS
  <2>6. e = c + size
    BY <1>6, <2>1, <2>4
  <2>7. d + e = used + c
    BY <1>13, <2>1, <2>2, <2>3, <2>4
  <2>5. d = used - size
    BY <1>1, <1>4, <2>1, <2>2, <2>6, <2>7
  <2> QED BY <2>2, <2>5
<1>15. RemoveAt(left, i) = RemoveAt(ms, i)
  BY <1>3, <1>7, <1>8, SameWithout
<1>16. ASSUME left[i].minors = <<>>
       PROVE  Good(RemoveAt(left, i), IF best = left[i].base THEN NoMajor ELSE best,
                   pool + left[i].pages, end, used - size, taken - left[i].pages * PageSize)
  <2>1. PICK rest : rest = RemoveAt(left, i)
    OBVIOUS
  <2>2. i \in DOMAIN left
    BY <1>9
  <2>3. HeapInv(rest, top)
    BY <1>2, <1>9, <1>16, <2>1, <2>2, Dropped
  <2>4. \A j \in DOMAIN rest : \E h \in DOMAIN left : h # i /\ rest[j] = left[h]
    BY <1>2, <1>9, <1>16, <2>1, <2>2, Dropped
  <2>5. \A h \in DOMAIN left : h # i => \E j \in DOMAIN rest : rest[j] = left[h]
    BY <1>2, <1>9, <1>16, <2>1, <2>2, Dropped
  <2>6. DataUnits(rest) = DataUnits(left)
    BY <1>2, <1>9, <1>16, <2>1, <2>2, Dropped
  <2>7. /\ Cardinality(PageUnits(left)) = Cardinality(PageUnits(rest)) + left[i].pages * PageSize
        /\ Cardinality(PageUnits(rest)) \in Nat
    BY <1>2, <1>9, <1>16, <2>1, <2>2, Dropped
  <2>8. \A j \in DOMAIN rest : rest[j].minors # <<>>
    <3>1. \A h \in DOMAIN ms : ms[h].minors # <<>>
      BY DEF Good
    <3> QED BY <1>9, <1>10, <2>4, <3>1
  <2>9. Names(rest, IF best = left[i].base THEN NoMajor ELSE best)
    <3>1. ASSUME best # NoMajor, best # left[i].base PROVE \E j \in DOMAIN rest : rest[j].base = best
      <4>1. PICK h \in DOMAIN ms : ms[h].base = best
        BY <3>1 DEF Good, Names
      <4>2. h # i /\ left[h].base = best
        BY <1>11, <3>1, <4>1
      <4> QED BY <1>9, <2>5, <4>1, <4>2
    <3> QED BY <3>1 DEF Names
  <2>10. PICK q \in Nat : q = n.pages * PageSize /\ (pool + n.pages) * PageSize = pool * PageSize + q
    BY <1>1, <1>7, Products, ProductOrder
  <2>11. taken - left[i].pages * PageSize = Cardinality(PageUnits(rest))
    <3>1. Cardinality(PageUnits(ms)) = taken
      BY DEF Good
    <3> QED BY <1>1, <1>9, <1>12, <2>7, <2>10, <3>1
  <2>12. (pool + n.pages) * PageSize + (taken - n.pages * PageSize) = Frames * PageSize
    <3>1. pool * PageSize + taken = Frames * PageSize
      BY DEF Good
    <3>2. PICK a \in Nat : a = pool * PageSize
      BY <1>1
    <3>3. (a + q) + (taken - q) = a + taken
      BY <1>1, <2>10
    <3> QED BY <2>10, <3>1, <3>2, <3>3
  <2>13. end \in FirstPage .. KernelEnd /\ pool + n.pages \in Nat
    BY <1>1, <1>7 DEF Good
  <2>14. used - size = Cardinality(DataUnits(rest))
    BY <1>14, <2>6
  <2>15. Good(rest, IF best = left[i].base THEN NoMajor ELSE best,
              pool + n.pages, end, used - size, taken - n.pages * PageSize)
    BY <1>2, <1>9, <2>3, <2>8, <2>9, <2>11, <2>12, <2>13, <2>14, Zenon DEF Good
  <2> QED BY <1>9, <2>1, <2>15, Zenon
<1>17. ASSUME left[i].minors # <<>>
       PROVE  Good(left, BestAfterFree(left, best, i), pool, end, used - size, taken)
  <2>1. \A h \in DOMAIN left : left[h].minors # <<>>
    BY <1>9, <1>10, <1>17 DEF Good
  <2>2. Names(left, BestAfterFree(left, best, i))
    <3>1. Names(left, best)
      BY <1>9, <1>11 DEF Good, Names
    <3>2. BestAfterFree(left, best, i) = left[i].base \/ BestAfterFree(left, best, i) = best
      BY DEF BestAfterFree
    <3> QED BY <1>9, <3>1, <3>2 DEF Names
  <2> QED BY <1>2, <1>9, <1>12, <1>14, <2>1, <2>2 DEF Good
<1> QED BY <1>4, <1>6, <1>7, <1>9, <1>15, <1>16, <1>17 DEF Frees

\* A block that keeps its place for fewer bytes.
LEMMA ShrunkSound ==
  ASSUME NEW m, MajorInv(m), NEW k \in DOMAIN m.minors, NEW req \in Nat, req <= m.minors[k].req,
         NEW n, n = [m EXCEPT !.minors[k].req = req]
  PROVE  /\ MajorInv(n) /\ n.base = m.base /\ n.pages = m.pages /\ n.minors # <<>>
         /\ DataOf(n) = DataOf(m)
<1>1. m \in MajorTypes
  BY DEF MajorInv
<1>2. /\ m.minors \in Seq(Minors) /\ Len(m.minors) \in Nat /\ DOMAIN m.minors = 1 .. Len(m.minors)
      /\ \A h \in DOMAIN m.minors : m.minors[h] \in Minors
  BY <1>1, MajorNumbers
<1>3. PICK x : x = [m.minors[k] EXCEPT !.req = req]
  OBVIOUS
<1>4. x \in Minors /\ x.at = m.minors[k].at /\ x.size = m.minors[k].size /\ x.req = req
  BY <1>2, <1>3 DEF Minors
<1>5. PICK t : t = [m.minors EXCEPT ![k] = x]
  OBVIOUS
<1>6. t \in Seq(Minors) /\ DOMAIN t = DOMAIN m.minors /\ \A h \in DOMAIN m.minors : t[h] = IF h = k THEN x ELSE m.minors[h]
  BY <1>2, <1>4, <1>5, PlaceChanged
<1>7. /\ n = [base |-> m.base, pages |-> m.pages, usage |-> m.usage, minors |-> t]
      /\ n.base = m.base /\ n.pages = m.pages /\ n.usage = m.usage /\ n.minors = t
  BY <1>1, <1>3, <1>5 DEF MajorTypes
<1>8. n \in MajorTypes
  BY <1>1, <1>6, <1>7 DEF MajorTypes
<1>9. \A h \in DOMAIN t : t[h].at = m.minors[h].at /\ t[h].size = m.minors[h].size /\ EndOf(t[h]) = EndOf(m.minors[h])
  BY <1>4, <1>6 DEF EndOf
<1>10. ASSUME NEW h \in DOMAIN t PROVE MinorSound(t[h])
  <2>1. CASE h = k
    <3>1. /\ PointerOf(m.minors[k].at) - AlignInfo >= m.minors[k].at + MinorSize
          /\ PointerOf(m.minors[k].at) + m.minors[k].req < EndOf(m.minors[k])
      BY DEF MajorInv, MinorSound
    <3>2. m.minors[k].at \in Nat /\ m.minors[k].req \in Nat /\ EndOf(m.minors[k]) \in Nat
      BY <1>1, MajorNumbers
    <3>3. PointerOf(m.minors[k].at) \in Nat
      BY <3>2, PointerInside
    <3>4. PointerOf(m.minors[k].at) + req < EndOf(m.minors[k])
      BY <3>1, <3>2, <3>3
    <3>5. t[h] = x /\ EndOf(x) = EndOf(m.minors[k])
      BY <1>6, <1>9, <2>1
    <3> QED BY <1>4, <3>1, <3>4, <3>5 DEF MinorSound
  <2>2. CASE h # k
    BY <1>6, <2>2 DEF MajorInv
  <2> QED BY <2>1, <2>2
<1>11. MajorEnd(n) = MajorEnd(m)
  BY <1>7 DEF MajorEnd
<1>12. ASSUME NEW h \in DOMAIN t PROVE n.base + MajorSize <= t[h].at /\ EndOf(t[h]) <= MajorEnd(n)
  BY <1>6, <1>7, <1>9, <1>11 DEF MajorInv
<1>13. ASSUME NEW g \in DOMAIN t, NEW h \in DOMAIN t, g < h PROVE EndOf(t[g]) <= t[h].at
  <2>1. EndOf(m.minors[g]) <= m.minors[h].at
    BY <1>6, <1>13 DEF MajorInv
  <2> QED BY <1>9, <2>1
<1>14. UnitsOf(n) = UnitsOf(m) /\ DataOf(n) = DataOf(m)
  <2>1. ASSUME NEW u
        PROVE  /\ u \in UnitsOf(n) <=> u \in UnitsOf(m)
               /\ u \in DataOf(n) <=> u \in DataOf(m)
    <3>1. /\ u \in UnitsOf(n) <=> \E h \in DOMAIN t : u \in t[h].at .. EndOf(t[h]) - 1
          /\ u \in DataOf(n) <=> \E h \in DOMAIN t : u \in t[h].at + MinorSize .. EndOf(t[h]) - 1
      BY <1>7, <1>8, UnitIs
    <3>2. /\ u \in UnitsOf(m) <=> \E h \in DOMAIN m.minors : u \in m.minors[h].at .. EndOf(m.minors[h]) - 1
          /\ u \in DataOf(m) <=> \E h \in DOMAIN m.minors : u \in m.minors[h].at + MinorSize .. EndOf(m.minors[h]) - 1
      BY <1>1, UnitIs
    <3> QED BY <1>6, <1>9, <3>1, <3>2
  <2> QED BY <2>1
<1>15. UsageSound(n) /\ n.base + MajorSize <= MajorEnd(n)
  BY <1>7, <1>11, <1>14 DEF UsageSound, MajorInv
<1>16. MajorInv(n)
  BY <1>7, <1>8, <1>10, <1>12, <1>13, <1>15 DEF MajorInv
<1>17. n.minors # <<>>
  BY <1>6, <1>7
<1> QED BY <1>7, <1>14, <1>16, <1>17

-----------------------------------------------------------------------------
(* The invariant.                                                           *)

HeapOK == Good(majors, bestBet, frames, brk, inuse, allocated) /\ panicked \in BOOLEAN

LEMMA HeapStarts == Init => HeapOK
<1> SUFFICES ASSUME Init PROVE HeapOK
  OBVIOUS
<1>1. /\ majors = <<>> /\ bestBet = NoMajor /\ frames = Frames /\ brk = FirstPage
      /\ inuse = 0 /\ allocated = 0 /\ panicked = FALSE
  BY DEF Init
<1>2. majors \in Seq(MajorTypes) /\ DOMAIN majors = {}
  BY <1>1
<1>3. HeapInv(majors, brk * PageSize)
  BY <1>2 DEF HeapInv, MajorsDisjoint
<1>4. Cardinality(DataUnits(majors)) = 0 /\ Cardinality(PageUnits(majors)) = 0
  <2>1. DataUnits(majors) = {} /\ PageUnits(majors) = {}
    BY <1>2 DEF DataUnits, PageUnits
  <2> QED BY <2>1, FS_EmptySet
<1>5. Frames \in Nat /\ KernelEnd \in Nat \ {0} /\ Frames * PageSize \in Nat
  BY KernelHeapAssumption, SizesAssumption, Products
<1>6. brk \in FirstPage .. KernelEnd /\ frames \in Nat
  BY <1>1, <1>5 DEF FirstPage
<1>7. frames * PageSize + allocated = Frames * PageSize
  BY <1>1, <1>5
<1> QED BY <1>1, <1>2, <1>3, <1>4, <1>6, <1>7 DEF HeapOK, Good, Names

LEMMA PanicKeeps == HeapOK /\ Panic => HeapOK'
BY DEF HeapOK, Panic

LEMMA KmallocKeeps ==
  ASSUME HeapOK, NEW req \in Requests, Kmalloc(req)
  PROVE  HeapOK'
<1>1. Good(majors, bestBet, frames, brk, inuse, allocated) /\ panicked \in BOOLEAN
  BY DEF HeapOK
<1>2. req \in Nat
  BY KernelHeapAssumption
<1>3. CASE TakenAt(majors, bestBet, SizeFor(req)) # 0
  <2>1. PICK f : f = Found(majors, bestBet, req)
    OBVIOUS
  <2>2. Good(f.majors, f.best, frames, brk, inuse + SizeFor(req), allocated)
    BY <1>1, <1>2, <1>3, <2>1, GoodFound
  <2>3. /\ majors' = f.majors /\ bestBet' = f.best /\ inuse' = inuse + SizeFor(req)
        /\ frames' = frames /\ brk' = brk /\ allocated' = allocated /\ panicked' = panicked
    BY <1>3, <2>1 DEF Kmalloc
  <2>4. Good(majors', bestBet', frames', brk', inuse', allocated')
    BY <2>2, <2>3
  <2> QED BY <1>1, <2>3, <2>4 DEF HeapOK, Good
<1>4. CASE TakenAt(majors, bestBet, SizeFor(req)) = 0 /\ CannotTake(PagesFor(SizeFor(req)))
  BY <1>4, PanicKeeps DEF Kmalloc
<1>5. CASE TakenAt(majors, bestBet, SizeFor(req)) = 0 /\ ~CannotTake(PagesFor(SizeFor(req)))
  <2>1. PICK g : g = Grown(majors, bestBet, req, brk * PageSize)
    OBVIOUS
  <2>2. PICK n : n = PagesFor(SizeFor(req))
    OBVIOUS
  <2>3. ~(frames < n \/ brk + n >= KernelEnd)
    BY <1>5, <2>2 DEF CannotTake
  <2>4. Good(g.majors, g.best, frames - n, brk + n, inuse + SizeFor(req), allocated + n * PageSize)
    BY <1>1, <1>2, <2>1, <2>2, <2>3, GoodGrown
  <2>5. /\ majors' = g.majors /\ bestBet' = g.best /\ inuse' = inuse + SizeFor(req)
        /\ frames' = frames - n /\ brk' = brk + n /\ allocated' = allocated + n * PageSize
        /\ panicked' = panicked
    BY <1>5, <2>1, <2>2 DEF Kmalloc, TakePages
  <2>6. Good(majors', bestBet', frames', brk', inuse', allocated')
    BY <2>4, <2>5
  <2> QED BY <1>1, <2>5, <2>6 DEF HeapOK, Good
<1> QED BY <1>3, <1>4, <1>5

LEMMA KfreeKeeps ==
  ASSUME HeapOK, NEW p \in Pointers(majors), Kfree(p)
  PROVE  HeapOK'
<1>1. Good(majors, bestBet, frames, brk, inuse, allocated) /\ panicked \in BOOLEAN
  BY DEF HeapOK
<1>2. PICK top \in Nat : HeapInv(majors, top)
  BY <1>1, GoodNumbers
<1>3. PICK i : i = MajorOf(majors, p)
  OBVIOUS
<1>4. i \in DOMAIN majors /\ Holds(majors[i], p)
  BY <1>2, <1>3, HoldingMajor
<1>5. PICK k : k = MinorOf(majors[i], p)
  OBVIOUS
<1>6. k \in DOMAIN majors[i].minors
  BY <1>2, <1>4, <1>5, HeldMinor, HeapNumbers
<1>7. PICK left : left = WithMajor(majors, i, Unlinked(majors[i], k))
  OBVIOUS
<1>8. left = [majors EXCEPT ![i] = Unlinked(@, k)]
  BY <1>7 DEF WithMajor
<1>9. Frees(majors, i, left, bestBet, frames, brk, inuse, allocated, majors[i].minors[k].size)
  BY <1>1, <1>4, <1>6, <1>7, GoodFreed
<1>10. inuse' = inuse - majors[i].minors[k].size /\ brk' = brk /\ panicked' = panicked
  BY <1>3, <1>5 DEF Kfree
<1>11. CASE left[i].minors = <<>>
  <2>1. GiveBack(i)
    BY <1>3, <1>5, <1>8, <1>11 DEF Kfree
  <2>2. /\ majors' = RemoveAt(left, i) /\ bestBet' = (IF bestBet = left[i].base THEN NoMajor ELSE bestBet)
        /\ frames' = frames + left[i].pages /\ allocated' = allocated - left[i].pages * PageSize
    BY <1>9, <2>1 DEF GiveBack, Frees
  <2>3. Good(majors', bestBet', frames', brk', inuse', allocated')
    BY <1>9, <1>10, <1>11, <2>2 DEF Frees
  <2> QED BY <1>1, <1>10, <2>3 DEF HeapOK, Good
<1>12. CASE left[i].minors # <<>>
  <2>1. /\ majors' = left /\ bestBet' = BestAfterFree(left, bestBet, i)
        /\ frames' = frames /\ allocated' = allocated
    BY <1>3, <1>5, <1>8, <1>12 DEF Kfree
  <2>2. Good(majors', bestBet', frames', brk', inuse', allocated')
    BY <1>9, <1>10, <1>12, <2>1 DEF Frees
  <2> QED BY <1>1, <1>10, <2>2 DEF HeapOK, Good
<1> QED BY <1>11, <1>12

LEMMA InPlaceKeeps ==
  ASSUME HeapOK, NEW p \in Pointers(majors), NEW req \in Requests, KreallocInPlace(p, req)
  PROVE  HeapOK'
<1>1. Good(majors, bestBet, frames, brk, inuse, allocated) /\ panicked \in BOOLEAN
  BY DEF HeapOK
<1>2. PICK top \in Nat : top = brk * PageSize /\ HeapInv(majors, top)
  BY <1>1, GoodNumbers
<1>3. PICK i : i = MajorOf(majors, p)
  OBVIOUS
<1>4. i \in DOMAIN majors /\ Holds(majors[i], p)
  BY <1>2, <1>3, HoldingMajor
<1>5. MajorInv(majors[i]) /\ majors[i] \in MajorTypes
  BY <1>2, <1>4, HeapNumbers
<1>6. PICK k : k = MinorOf(majors[i], p)
  OBVIOUS
<1>7. k \in DOMAIN majors[i].minors /\ majors[i].minors[k].req \in Nat
  BY <1>4, <1>5, <1>6, HeldMinor, MajorNumbers
<1>8. req \in Nat /\ req <= majors[i].minors[k].req
  BY <1>3, <1>6, <1>7, KernelHeapAssumption DEF KreallocInPlace
<1>9. PICK n : n = [majors[i] EXCEPT !.minors[k].req = req]
  OBVIOUS
<1>10. MajorInv(n) /\ n.base = majors[i].base /\ n.pages = majors[i].pages /\ n.minors # <<>> /\ DataOf(n) = DataOf(majors[i])
  BY <1>5, <1>7, <1>8, <1>9, ShrunkSound
<1>11. PICK new : new = WithMajor(majors, i, n)
  OBVIOUS
<1>12. HeapInv(new, top) /\ DOMAIN new = DOMAIN majors /\ new[i] = n
  BY <1>2, <1>4, <1>10, <1>11, Replaced
<1>13. \A h \in DOMAIN majors : h # i => new[h] = majors[h]
  BY <1>2, <1>4, <1>10, <1>11, Replaced
<1>14. \A h \in DOMAIN majors : new[h].base = majors[h].base
  BY <1>2, <1>4, <1>10, <1>11, Replaced
<1>15. PageUnits(new) = PageUnits(majors)
  BY <1>2, <1>4, <1>10, <1>11, Replaced
<1>16. DataUnits(new) = DataUnits(majors)
  <2>1. \A h \in DOMAIN majors : DataOf(new[h]) = DataOf(majors[h])
    BY <1>10, <1>12, <1>13
  <2> QED BY <1>12, <2>1 DEF DataUnits
<1>17. \A h \in DOMAIN new : new[h].minors # <<>>
  BY <1>1, <1>10, <1>12, <1>13 DEF Good
<1>18. Names(new, bestBet)
  BY <1>1, <1>12, <1>14 DEF Good, Names
<1>19. Good(new, bestBet, frames, brk, inuse, allocated)
  BY <1>1, <1>2, <1>12, <1>15, <1>16, <1>17, <1>18 DEF Good
<1>20. /\ majors' = new /\ bestBet' = bestBet /\ frames' = frames /\ brk' = brk
       /\ inuse' = inuse /\ allocated' = allocated /\ panicked' = panicked
  BY <1>3, <1>6, <1>9, <1>11 DEF KreallocInPlace, WithMajor
<1> QED BY <1>1, <1>19, <1>20 DEF HeapOK, Good

\* The block that moves is still there after its new place has been found.
LEMMA StillThere ==
  ASSUME NEW ms, NEW top \in Nat, HeapInv(ms, top), NEW i \in DOMAIN ms, NEW p, Holds(ms[i], p),
         NEW ns, NEW end \in Nat, HeapInv(ns, end), NEW size, NewBlock(ms, ns, size)
  PROVE  /\ i \in DOMAIN ns /\ MinorOf(ns[i], p) \in DOMAIN ns[i].minors
         /\ ns[i].minors[MinorOf(ns[i], p)] = ms[i].minors[MinorOf(ms[i], p)]
<1>1. PICK k : k = MinorOf(ms[i], p)
  OBVIOUS
<1>2. k \in DOMAIN ms[i].minors /\ PointerOf(ms[i].minors[k].at) = p
  BY <1>1, HeldMinor, HeapNumbers
<1>3. PICK h \in DOMAIN ns[i].minors : ns[i].minors[h] = ms[i].minors[k]
  BY <1>2 DEF NewBlock
<1>4. i \in DOMAIN ns
  BY DEF NewBlock
<1>5. MajorInv(ns[i])
  BY <1>4, HeapNumbers
<1>6. PointerOf(ns[i].minors[h].at) = p /\ Holds(ns[i], p)
  BY <1>2, <1>3 DEF Holds
<1>7. PICK l : l = MinorOf(ns[i], p)
  OBVIOUS
<1>8. l \in DOMAIN ns[i].minors /\ PointerOf(ns[i].minors[l].at) = p
  BY <1>5, <1>6, <1>7, HeldMinor
<1>9. l = h
  BY <1>5, <1>6, <1>8, OnePointer
<1> QED BY <1>1, <1>3, <1>4, <1>7, <1>8, <1>9

LEMMA MovesKeeps ==
  ASSUME HeapOK, NEW p \in Pointers(majors), NEW req \in Requests, KreallocMoves(p, req)
  PROVE  HeapOK'
<1>1. Good(majors, bestBet, frames, brk, inuse, allocated) /\ panicked \in BOOLEAN
  BY DEF HeapOK
<1>2. PICK top \in Nat : top = brk * PageSize /\ HeapInv(majors, top)
  BY <1>1, GoodNumbers
<1>3. req \in Nat
  BY KernelHeapAssumption
<1>4. PICK size \in Nat : size = SizeFor(req)
  BY <1>3, PointerInside
<1>5. PICK n : n = PagesFor(size)
  OBVIOUS
<1>6. PICK i : i = MajorOf(majors, p)
  OBVIOUS
<1>7. i \in DOMAIN majors /\ Holds(majors[i], p)
  BY <1>2, <1>6, HoldingMajor
<1>8. PICK old \in Nat : old = majors[i].minors[MinorOf(majors[i], p)].size
  BY <1>2, <1>7, HeldMinor, HeapNumbers, MajorNumbers
<1>10. PICK new : new = IF TakenAt(majors, bestBet, size) # 0 THEN Found(majors, bestBet, req)
                        ELSE Grown(majors, bestBet, req, brk * PageSize)
  OBVIOUS
<1>11. PICK grown : grown = IF TakenAt(majors, bestBet, size) # 0 THEN 0 ELSE n
  OBVIOUS
<1>12. CASE TakenAt(majors, bestBet, size) = 0 /\ CannotTake(n)
  <2>1. Panic
    BY <1>4, <1>5, <1>12 DEF KreallocMoves
  <2> QED BY <2>1, PanicKeeps
<1>13. CASE ~(TakenAt(majors, bestBet, size) = 0 /\ CannotTake(n))
  <2>1. /\ Good(new.majors, new.best, frames - grown, brk + grown, inuse + size, allocated + grown * PageSize)
        /\ NewBlock(majors, new.majors, size) /\ grown \in Nat
    <3>1. CASE TakenAt(majors, bestBet, size) # 0
      <4>1. new = Found(majors, bestBet, req) /\ grown = 0
        BY <1>10, <1>11, <3>1
      <4>2. /\ Good(new.majors, new.best, frames, brk, inuse + size, allocated)
            /\ NewBlock(majors, new.majors, size)
        BY <1>1, <1>3, <1>4, <3>1, <4>1, GoodFound
      <4>3. frames - grown = frames /\ brk + grown = brk /\ allocated + grown * PageSize = allocated
        BY <1>1, <4>1, GoodNumbers
      <4> QED BY <4>1, <4>2, <4>3
    <3>2. CASE TakenAt(majors, bestBet, size) = 0
      <4>1. new = Grown(majors, bestBet, req, brk * PageSize) /\ grown = n
        BY <1>10, <1>11, <3>2
      <4>2. ~(frames < n \/ brk + n >= KernelEnd) /\ n = PagesFor(SizeFor(req))
        BY <1>4, <1>5, <1>13, <3>2 DEF CannotTake
      <4>3. /\ Good(new.majors, new.best, frames - n, brk + n, inuse + size, allocated + n * PageSize)
            /\ NewBlock(majors, new.majors, size) /\ n \in Nat
        BY <1>1, <1>3, <1>4, <4>1, <4>2, GoodGrown
      <4> QED BY <4>1, <4>3
    <3> QED BY <3>1, <3>2
  <2>2. PICK ns : ns = new.majors
    OBVIOUS
  <2>3. PICK end \in Nat : HeapInv(ns, end)
    BY <2>1, <2>2, GoodNumbers
  <2>4. PICK k : k = MinorOf(ns[i], p)
    OBVIOUS
  <2>5. i \in DOMAIN ns /\ k \in DOMAIN ns[i].minors /\ ns[i].minors[k].size = old
    BY <1>2, <1>7, <1>8, <2>1, <2>2, <2>3, <2>4, StillThere
  <2>6. PICK left : left = WithMajor(ns, i, Unlinked(ns[i], k))
    OBVIOUS
  <2>7. Frees(ns, i, left, new.best, frames - grown, brk + grown, inuse + size, allocated + grown * PageSize, old)
    <3>1. Good(ns, new.best, frames - grown, brk + grown, inuse + size, allocated + grown * PageSize)
      BY <2>1, <2>2
    <3> QED BY <2>5, <2>6, <3>1, GoodFreed
  <2>8. [new.majors EXCEPT ![i] = Unlinked(@, MinorOf(@, p))] = left
    BY <2>2, <2>4, <2>6 DEF WithMajor
  <2>9. PICK back : back = IF left[i].minors = <<>> THEN left[i].pages ELSE 0
    OBVIOUS
  <2>10. /\ majors' = (IF left[i].minors = <<>> THEN RemoveAt(left, i) ELSE left)
         /\ bestBet' = (IF left[i].minors = <<>> THEN IF new.best = left[i].base THEN NoMajor ELSE new.best
                        ELSE BestAfterFree(left, new.best, i))
         /\ frames' = (frames - grown) + back
         /\ brk' = brk + grown
         /\ inuse' = inuse + size - old
         /\ allocated' = allocated + (grown - back) * PageSize
         /\ panicked' = panicked
    BY <1>4, <1>5, <1>6, <1>8, <1>10, <1>11, <1>13, <2>8, <2>9 DEF KreallocMoves
  <2>11. PageSize \in Nat \ {0} /\ grown \in Nat /\ allocated \in Nat /\ inuse \in Nat /\ frames \in Nat /\ left[i].pages \in Nat
    BY <1>1, <2>1, <2>7, GoodNumbers DEF Frees
  <2>12. PICK g \in Nat : g = grown * PageSize
    BY <2>11, Products
  <2>13. inuse' = (inuse + size) - old
    <3>1. inuse' = inuse + size - old
      BY <2>10
    <3>2. inuse \in Nat
      BY <2>11
    <3> QED BY <1>4, <1>8, <3>1, <3>2
  <2>14. CASE left[i].minors = <<>>
    <3>1. back = left[i].pages
      BY <2>9, <2>14
    <3>2. PICK b \in Nat : b = left[i].pages * PageSize
      BY <2>11, Products
    <3>3. (grown - back) * PageSize = g - b
      BY <2>11, <2>12, <3>1, <3>2, ProductOrder
    <3>4. allocated' = (allocated + grown * PageSize) - left[i].pages * PageSize
      <4>1. allocated' = allocated + (grown - back) * PageSize
        BY <2>10
      <4>2. allocated' = allocated + (g - b)
        BY <3>3, <4>1
      <4>3. allocated \in Nat
        BY <2>11
      <4>4. allocated' = (allocated + g) - b
        BY <4>2, <4>3
      <4> QED BY <2>12, <3>2, <4>4
    <3>5. Good(RemoveAt(left, i), IF new.best = left[i].base THEN NoMajor ELSE new.best,
               (frames - grown) + left[i].pages, brk + grown, (inuse + size) - old,
               (allocated + grown * PageSize) - left[i].pages * PageSize)
      BY <2>7, <2>14 DEF Frees
    <3>6. /\ majors' = RemoveAt(left, i)
          /\ bestBet' = IF new.best = left[i].base THEN NoMajor ELSE new.best
      BY <2>10, <2>14
    <3>7. Good(majors', bestBet', frames', brk', inuse', allocated')
      BY <2>10, <2>13, <3>1, <3>4, <3>5, <3>6
    <3> QED BY <1>1, <2>10, <3>7 DEF HeapOK, Good
  <2>15. CASE left[i].minors # <<>>
    <3>1. back = 0
      BY <2>9, <2>15
    <3>2. frames' = frames - grown /\ allocated' = allocated + grown * PageSize
      BY <2>10, <2>11, <3>1
    <3>3. majors' = left /\ bestBet' = BestAfterFree(left, new.best, i)
      BY <2>10, <2>15
    <3>4. Good(left, BestAfterFree(left, new.best, i), frames - grown, brk + grown, (inuse + size) - old,
               allocated + grown * PageSize)
      BY <2>7, <2>15 DEF Frees
    <3>5. Good(majors', bestBet', frames', brk', inuse', allocated')
      BY <2>10, <2>13, <3>2, <3>3, <3>4
    <3> QED BY <1>1, <2>10, <3>5 DEF HeapOK, Good
  <2> QED BY <2>14, <2>15
<1> QED BY <1>12, <1>13

\* Whatever is asked for, given back and moved: blocks are apart, the counters of
\* every major and of the kernel agree with them, l_bestBet names a major.
THEOREM HeapInvariant == Spec => []HeapOK
<1>1. HeapOK /\ [Next]_vars => HeapOK'
  <2> SUFFICES ASSUME HeapOK, [Next]_vars PROVE HeapOK'
    OBVIOUS
  <2>1. CASE \E req \in Requests : Kmalloc(req)
    BY <2>1, KmallocKeeps
  <2>2. CASE \E p \in Pointers(majors) : Kfree(p)
    BY <2>2, KfreeKeeps
  <2>3. CASE \E p \in Pointers(majors), req \in Requests : KreallocInPlace(p, req)
    BY <2>3, InPlaceKeeps
  <2>4. CASE \E p \in Pointers(majors), req \in Requests : KreallocMoves(p, req)
    BY <2>4, MovesKeeps
  <2>5. CASE UNCHANGED vars
    BY <2>5 DEF vars, HeapOK
  <2> QED BY <2>1, <2>2, <2>3, <2>4, <2>5 DEF Next
<1> QED BY <1>1, HeapStarts, PTL DEF Spec

\* The invariant says what the runs check.
LEMMA GoodIsSound == HeapOK => HeapSound
<1> SUFFICES ASSUME HeapOK PROVE HeapSound
  OBVIOUS
<1>1. Good(majors, bestBet, frames, brk, inuse, allocated) /\ panicked \in BOOLEAN
  BY DEF HeapOK
<1>2. PICK top \in Nat : HeapInv(majors, top)
  BY <1>1, GoodNumbers
<1>3. \A i \in DOMAIN majors : MajorInv(majors[i]) /\ majors[i] \in MajorTypes
  BY <1>2, HeapNumbers
<1>4. \A i \in DOMAIN majors : MajorSound(majors[i])
  BY <1>3, MajorIsSound
<1>5. MajorsDisjoint(majors)
  BY <1>2 DEF HeapInv
<1>6. /\ frames \in Nat /\ allocated \in Nat /\ inuse \in Nat /\ Frames \in Nat /\ PageSize \in Nat \ {0}
      /\ frames * PageSize \in Nat /\ Frames * PageSize \in Nat
  BY <1>1, GoodNumbers
<1>7. frames * PageSize + allocated = Frames * PageSize
  BY <1>1 DEF Good
<1>8. frames <= Frames
  <2>1. frames * PageSize <= Frames * PageSize
    BY <1>6, <1>7
  <2> QED BY <1>6, <2>1, ProductOrder
<1>9. bestBet # NoMajor => \E i \in DOMAIN majors : majors[i].base = bestBet
  BY <1>1 DEF Good, Names
<1>10. bestBet \in Nat
  <2>1. bestBet # NoMajor => bestBet \in Nat
    BY <1>3, <1>9 DEF MajorTypes
  <2> QED BY <2>1 DEF NoMajor
<1>11. TypeOK
  <2>1. \A i \in DOMAIN majors :
          /\ majors[i].base \in Nat \ {0} /\ majors[i].pages \in Nat \ {0} /\ majors[i].usage \in Nat
          /\ \A k \in DOMAIN majors[i].minors : majors[i].minors[k] \in [at : Nat, size : Nat, req : Nat]
    BY <1>3, MajorNumbers DEF MajorTypes, Minors
  <2>2. brk \in FirstPage .. KernelEnd /\ frames \in 0 .. Frames
    BY <1>1, <1>6, <1>8 DEF Good
  <2> QED BY <1>1, <1>6, <1>10, <2>1, <2>2 DEF TypeOK
<1>12. CountersExact
  BY <1>1, <1>3, <1>7 DEF CountersExact, Good, MajorInv
<1> QED BY <1>4, <1>5, <1>9, <1>11, <1>12 DEF HeapSound

\* No blocks overlap, no counter is wrong, and l_bestBet never names pages that
\* were given back (liballoc.c's malloc, free and realloc).
THEOREM HeapIsSound == Spec => []HeapSound
BY HeapInvariant, GoodIsSound, PTL

\* Pages are taken, or asked for in vain, only when no gap fits the request: the
\* search from l_bestBet comes back to the majors before it.
THEOREM GrowsWhenFull == Spec => GrowsOnlyWhenFull
<1>1. ASSUME HeapOK, ~panicked, NEW req \in Requests, Kmalloc(req), brk' # brk \/ panicked'
      PROVE  ~SomeGap(majors, SizeFor(req))
  <2>1. Good(majors, bestBet, frames, brk, inuse, allocated)
    BY <1>1 DEF HeapOK
  <2>2. PICK top \in Nat : HeapInv(majors, top)
    BY <2>1, GoodNumbers
  <2>3. TakenAt(majors, bestBet, SizeFor(req)) = 0
    BY <1>1 DEF Kmalloc
  <2>4. Names(majors, bestBet) /\ majors \in Seq(MajorTypes)
    BY <2>1, <2>2 DEF Good, HeapInv
  <2>5. \A i \in DOMAIN majors : ~Takes(majors[i], SizeFor(req))
    BY <2>3, <2>4, TakenIs
  <2>6. req \in Nat
    BY KernelHeapAssumption
  <2>7. ASSUME NEW i \in DOMAIN majors, NEW k \in 0 .. Len(majors[i].minors)
        PROVE  ~GapFits(majors[i], k, SizeFor(req))
    <3>1. MajorInv(majors[i]) /\ ~Takes(majors[i], SizeFor(req))
      BY <2>2, <2>5, HeapNumbers
    <3> QED BY <2>6, <3>1, NoGapLeft
  <2> QED BY <2>7 DEF SomeGap
<1>2. HeapOK /\ [Next]_vars =>
        [\A req \in Requests : Kmalloc(req) /\ (brk' # brk \/ panicked') => ~SomeGap(majors, SizeFor(req))]_vars
  BY <1>1 DEF Next
<1> QED BY <1>2, HeapInvariant, PTL DEF Spec, GrowsOnlyWhenFull
=============================================================================
