------------------------------ MODULE VfsProofs ------------------------------
(***************************************************************************)
(* Proofs about Vfs, for every set of processes, volumes, paths and        *)
(* lengths: the count of a file's open handles is right and a descriptor   *)
(* keeps its meaning; the tree that a mount builds is one; the path that   *)
(* chdir stores for a directory leads back to it; all variables keep their *)
(* types; a read yields the bytes of the file; a lookup finds what its     *)
(* path means and nothing else; and the paths of the tree that a mount     *)
(* leaves behind are those on the volume.                                  *)
(*                                                                         *)
(* The model walks trees, paths and chains with recursive functions.  That *)
(* such a function exists is shown by induction over numbers (AllNumbers), *)
(* once for each; for the paths on a volume, whose directories no order is *)
(* known of, they are the least sets a rule adds nothing to (LeastSets).   *)
(***************************************************************************)
EXTENDS Vfs, TLAPS, FiniteSetTheorems, SequenceTheorems, WellFoundedInduction

IsSequence(s) == \E S : s \in Seq(S)

\* A handle without a file is a closed one.
IsHandle(h) == h = [file |-> h.file, loc |-> h.loc] /\ (h.file = NoFile => h = Closed)
IsFile(f) == f = [name |-> f.name, parent |-> f.parent, size |-> f.size, id |-> f.id, open |-> f.open]

\* The handles are records in a sequence for each process, and there are none
\* before the volume is mounted.
HandlesInv ==
  /\ openfiles = [p \in Procs |-> openfiles[p]]
  /\ \A p \in Procs : IsSequence(openfiles[p]) /\ \A fd \in DOMAIN openfiles[p] : IsHandle(openfiles[p][fd])
  /\ mount # "mounted" => \A p \in Procs : openfiles[p] = <<>>

FilesInv == IsSequence(files) /\ \A f \in DOMAIN files : IsFile(files[f])

OpenInv == HandlesInv /\ FilesInv /\ OpenCounts

-----------------------------------------------------------------------------
(* Handles.                                                                *)

\* A sequence over a set is one over a larger set.
LEMMA SequenceWidens ==
  ASSUME NEW S, NEW T, NEW l \in Seq(S), S \subseteq T
  PROVE  l \in Seq(T)
BY SMT

\* A sequence in which one place changes.
LEMMA PlaceChanged ==
  ASSUME NEW S, NEW s \in Seq(S), NEW i \in DOMAIN s, NEW v \in S
  PROVE  /\ [s EXCEPT ![i] = v] \in Seq(S) /\ DOMAIN [s EXCEPT ![i] = v] = DOMAIN s
         /\ \A n \in DOMAIN s : [s EXCEPT ![i] = v][n] = IF n = i THEN v ELSE s[n]
BY SMT

\* A process and a descriptor.
LEMMA HandleIs ==
  ASSUME NEW h
  PROVE  h \in AllHandles <=> \E p \in Procs : \E fd \in DOMAIN openfiles[p] : h = <<p, fd>>
BY DEF AllHandles

\* Handles that mean the same files.
LEMMA SameHandles ==
  ASSUME \A q \in Procs : /\ DOMAIN openfiles'[q] = DOMAIN openfiles[q]
                          /\ \A n \in DOMAIN openfiles[q] : openfiles'[q][n].file = openfiles[q][n].file,
         NEW f
  PROVE  HandlesOf(f)' = HandlesOf(f)
<1>1. \A x : x \in AllHandles' <=> x \in AllHandles
  BY DEF AllHandles
<1>2. ASSUME NEW x \in AllHandles
      PROVE  openfiles'[x[1]][x[2]].file = openfiles[x[1]][x[2]].file
  <2>1. PICK q \in Procs : \E n \in DOMAIN openfiles[q] : x = <<q, n>>
    BY HandleIs
  <2> QED BY <2>1
<1> QED BY <1>1, <1>2 DEF HandlesOf

\* There are finitely many.
LEMMA HandlesFinite ==
  ASSUME HandlesInv
  PROVE  IsFiniteSet(AllHandles) /\ \A f : IsFiniteSet(HandlesOf(f)) /\ Cardinality(HandlesOf(f)) \in Nat
<1> DEFINE Of(p) == {p} \X DOMAIN openfiles[p]
           family == {Of(p) : p \in Procs}
           of == [p \in Procs |-> Of(p)]
<1>1. IsFiniteSet(family)
  <2>1. of \in Surjection(Procs, family)
    BY Zenon DEF Surjection
  <2> QED BY <2>1, ProcsAssumption, FS_Surjection
<1>2. ASSUME NEW p \in Procs PROVE IsFiniteSet(Of(p))
  <2>1. PICK n \in Nat : DOMAIN openfiles[p] = 1 .. n
    BY LenProperties DEF HandlesInv, IsSequence
  <2>2. IsFiniteSet(1 .. n)
    BY FS_Interval
  <2>3. IsFiniteSet(DOMAIN openfiles[p])
    BY <2>1, <2>2
  <2>4. IsFiniteSet({p})
    BY FS_Singleton
  <2> QED BY <2>3, <2>4, FS_Product
<1>3. IsFiniteSet(AllHandles)
  BY <1>1, <1>2, FS_UNION DEF AllHandles
<1>4. ASSUME NEW f PROVE IsFiniteSet(HandlesOf(f)) /\ Cardinality(HandlesOf(f)) \in Nat
  BY <1>3, FS_Subset, FS_CardinalityType DEF HandlesOf
<1> QED BY <1>3, <1>4

\* One handle more.
LEMMA HandleAdded ==
  ASSUME HandlesInv, NEW p \in Procs, NEW h, IsHandle(h),
         openfiles' = [openfiles EXCEPT ![p] = Append(@, h)], mount = "mounted", mount' = mount
  PROVE  /\ HandlesInv'
         /\ \A q \in Procs : \A fd \in DOMAIN openfiles[q] :
              fd \in DOMAIN openfiles'[q] /\ openfiles'[q][fd] = openfiles[q][fd]
         /\ \A f : f # h.file => HandlesOf(f)' = HandlesOf(f)
         /\ \A f : f = h.file => Cardinality(HandlesOf(f)') = Cardinality(HandlesOf(f)) + 1
<1> DEFINE n == Len(openfiles[p]) + 1
<1>1. PICK S : openfiles[p] \in Seq(S)
  BY DEF HandlesInv, IsSequence
<1>2. openfiles[p] \in Seq(S \cup {h}) /\ Len(openfiles[p]) \in Nat /\ DOMAIN openfiles[p] = 1 .. Len(openfiles[p])
  BY <1>1, SequenceWidens, LenProperties
<1>3. /\ openfiles'[p] = Append(openfiles[p], h) /\ \A q \in Procs : q # p => openfiles'[q] = openfiles[q]
      /\ openfiles' = [q \in Procs |-> openfiles'[q]]
  BY DEF HandlesInv
<1>4. /\ openfiles'[p] \in Seq(S \cup {h}) /\ Len(openfiles'[p]) = n
      /\ openfiles'[p][n] = h /\ \A i \in 1 .. n - 1 : openfiles'[p][i] = openfiles[p][i]
  BY <1>2, <1>3, AppendProperties
<1>5. DOMAIN openfiles'[p] = 1 .. n
  BY <1>4, LenProperties
<1>6. HandlesInv'
  <2>1. \A fd \in DOMAIN openfiles'[p] : IsHandle(openfiles'[p][fd])
    <3>1. SUFFICES ASSUME NEW fd \in 1 .. n PROVE IsHandle(openfiles'[p][fd])
      BY <1>5
    <3>2. CASE fd = n
      BY <1>4, <3>2
    <3>3. CASE fd # n
      <4>1. fd \in 1 .. n - 1 /\ fd \in DOMAIN openfiles[p]
        BY <1>2, <3>3
      <4> QED BY <1>4, <4>1 DEF HandlesInv
    <3> QED BY <3>2, <3>3
  <2>2. \A q \in Procs : IsSequence(openfiles'[q]) /\ \A fd \in DOMAIN openfiles'[q] : IsHandle(openfiles'[q][fd])
    BY <1>3, <1>4, <2>1 DEF HandlesInv, IsSequence
  <2> QED BY <1>3, <2>2 DEF HandlesInv
<1>7. <<p, n>> \notin AllHandles
  <2>1. n \notin DOMAIN openfiles[p]
    BY <1>2
  <2> QED BY <2>1, HandleIs
<1>8. ASSUME NEW x
      PROVE  /\ x \in AllHandles' <=> x \in AllHandles \/ x = <<p, n>>
             /\ x \in AllHandles => openfiles'[x[1]][x[2]] = openfiles[x[1]][x[2]]
  <2>1. x \in AllHandles' <=> \E q \in Procs : \E fd \in DOMAIN openfiles'[q] : x = <<q, fd>>
    BY DEF AllHandles
  <2>2. x \in AllHandles <=> \E q \in Procs : \E fd \in DOMAIN openfiles[q] : x = <<q, fd>>
    BY HandleIs
  <2>3. \A fd : fd \in DOMAIN openfiles'[p] <=> fd \in DOMAIN openfiles[p] \/ fd = n
    BY <1>2, <1>5
  <2>4. x \in AllHandles' <=> x \in AllHandles \/ x = <<p, n>>
    BY <1>3, <2>1, <2>2, <2>3
  <2>5. ASSUME NEW q \in Procs, NEW fd \in DOMAIN openfiles[q]
        PROVE  openfiles'[q][fd] = openfiles[q][fd]
    BY <1>2, <1>3, <1>4
  <2> QED BY <2>2, <2>4, <2>5
<1>9. \A f : HandlesOf(f)' = HandlesOf(f) \cup (IF f = h.file THEN {<<p, n>>} ELSE {})
  <2>1. SUFFICES ASSUME NEW f, NEW x
                 PROVE  x \in HandlesOf(f)' <=> x \in HandlesOf(f) \cup (IF f = h.file THEN {<<p, n>>} ELSE {})
    OBVIOUS
  <2>2. x \in HandlesOf(f)' <=> x \in AllHandles' /\ openfiles'[x[1]][x[2]].file = f
    BY DEF HandlesOf
  <2>3. x \in HandlesOf(f) <=> x \in AllHandles /\ openfiles[x[1]][x[2]].file = f
    BY DEF HandlesOf
  <2>4. x = <<p, n>> => openfiles'[x[1]][x[2]].file = h.file
    BY <1>4
  <2> QED BY <1>7, <1>8, <2>2, <2>3, <2>4
<1>10. ASSUME NEW f, f = h.file
       PROVE  Cardinality(HandlesOf(f)') = Cardinality(HandlesOf(f)) + 1
  <2>1. HandlesOf(f)' = HandlesOf(f) \cup {<<p, n>>}
    BY <1>9, <1>10
  <2>2. <<p, n>> \notin HandlesOf(f) /\ IsFiniteSet(HandlesOf(f))
    BY <1>7, HandlesFinite DEF HandlesOf
  <2> QED BY <2>1, <2>2, FS_AddElement
<1>11. ASSUME NEW f, f # h.file PROVE HandlesOf(f)' = HandlesOf(f)
  BY <1>9, <1>11
<1>12. \A q \in Procs : \A fd \in DOMAIN openfiles[q] :
         fd \in DOMAIN openfiles'[q] /\ openfiles'[q][fd] = openfiles[q][fd]
  BY <1>2, <1>3, <1>4, <1>5
<1> QED BY <1>6, <1>10, <1>11, <1>12

\* A handle moves in its file.
LEMMA HandleMoved ==
  ASSUME HandlesInv, NEW p \in Procs, NEW fd \in DOMAIN openfiles[p], NEW loc,
         openfiles[p][fd].file # NoFile,
         openfiles' = [openfiles EXCEPT ![p][fd].loc = loc], mount = "mounted", mount' = mount
  PROVE  /\ HandlesInv'
         /\ \A q \in Procs : /\ DOMAIN openfiles'[q] = DOMAIN openfiles[q]
                             /\ \A n \in DOMAIN openfiles[q] : openfiles'[q][n].file = openfiles[q][n].file
         /\ \A f : HandlesOf(f)' = HandlesOf(f)
<1> DEFINE h == openfiles[p][fd]
<1>1. PICK S : openfiles[p] \in Seq(S)
  BY DEF HandlesInv, IsSequence
<1>2. PICK g : g = [h EXCEPT !.loc = loc]
  OBVIOUS
<1>3. IsHandle(h)
  BY DEF HandlesInv
<1>4. IsHandle(g) /\ g.file = h.file
  BY <1>2, <1>3 DEF IsHandle
<1>5. openfiles' = [openfiles EXCEPT ![p] = [@ EXCEPT ![fd] = g]]
  BY <1>2
<1>6. /\ openfiles'[p] = [openfiles[p] EXCEPT ![fd] = g]
      /\ \A q \in Procs : q # p => openfiles'[q] = openfiles[q]
      /\ openfiles' = [q \in Procs |-> openfiles'[q]]
  BY <1>5 DEF HandlesInv
<1>7. openfiles[p] \in Seq(S \cup {g}) /\ g \in S \cup {g}
  BY <1>1, SequenceWidens
<1>8. /\ openfiles'[p] \in Seq(S \cup {g}) /\ DOMAIN openfiles'[p] = DOMAIN openfiles[p]
      /\ \A n \in DOMAIN openfiles[p] : openfiles'[p][n] = IF n = fd THEN g ELSE openfiles[p][n]
  <2>1. PICK s : s = openfiles[p]
    OBVIOUS
  <2>2. s \in Seq(S \cup {g}) /\ g \in S \cup {g} /\ fd \in DOMAIN s
    BY <1>7, <2>1
  <2>3. /\ [s EXCEPT ![fd] = g] \in Seq(S \cup {g}) /\ DOMAIN [s EXCEPT ![fd] = g] = DOMAIN s
        /\ \A n \in DOMAIN s : [s EXCEPT ![fd] = g][n] = IF n = fd THEN g ELSE s[n]
    BY <2>2, PlaceChanged
  <2> QED BY <1>6, <2>1, <2>3
<1>9. HandlesInv'
  BY <1>4, <1>6, <1>8 DEF HandlesInv, IsSequence
<1>10. \A q \in Procs : /\ DOMAIN openfiles'[q] = DOMAIN openfiles[q]
                        /\ \A n \in DOMAIN openfiles[q] : openfiles'[q][n].file = openfiles[q][n].file
  BY <1>4, <1>6, <1>8
<1>11. ASSUME NEW f PROVE HandlesOf(f)' = HandlesOf(f)
  BY <1>10, SameHandles
<1> QED BY <1>9, <1>10, <1>11

\* A handle is closed.
LEMMA HandleClosed ==
  ASSUME HandlesInv, NEW p \in Procs, NEW fd \in DOMAIN openfiles[p], openfiles[p][fd].file # NoFile,
         openfiles' = [openfiles EXCEPT ![p][fd] = Closed], mount = "mounted", mount' = mount
  PROVE  /\ HandlesInv'
         /\ \A q \in Procs : /\ DOMAIN openfiles'[q] = DOMAIN openfiles[q]
                             /\ \A n \in DOMAIN openfiles[q] :
                                 openfiles'[q][n].file \in {openfiles[q][n].file, NoFile}
         /\ \A f : f \notin {NoFile, openfiles[p][fd].file} => HandlesOf(f)' = HandlesOf(f)
         /\ \A f : f = openfiles[p][fd].file => Cardinality(HandlesOf(f)') = Cardinality(HandlesOf(f)) - 1
<1>1. PICK S : openfiles[p] \in Seq(S)
  BY DEF HandlesInv, IsSequence
<1>2. PICK g : g = Closed
  OBVIOUS
<1>4. IsHandle(g) /\ g.file = NoFile
  BY <1>2 DEF IsHandle, Closed
<1>5. openfiles' = [openfiles EXCEPT ![p] = [@ EXCEPT ![fd] = g]]
  BY <1>2
<1>6. /\ openfiles'[p] = [openfiles[p] EXCEPT ![fd] = g]
      /\ \A q \in Procs : q # p => openfiles'[q] = openfiles[q]
      /\ openfiles' = [q \in Procs |-> openfiles'[q]]
  BY <1>5 DEF HandlesInv
<1>7. openfiles[p] \in Seq(S \cup {g}) /\ g \in S \cup {g}
  BY <1>1, SequenceWidens
<1>8. /\ openfiles'[p] \in Seq(S \cup {g}) /\ DOMAIN openfiles'[p] = DOMAIN openfiles[p]
      /\ \A n \in DOMAIN openfiles[p] : openfiles'[p][n] = IF n = fd THEN g ELSE openfiles[p][n]
  <2>1. PICK s : s = openfiles[p]
    OBVIOUS
  <2>2. s \in Seq(S \cup {g}) /\ g \in S \cup {g} /\ fd \in DOMAIN s
    BY <1>7, <2>1
  <2>3. /\ [s EXCEPT ![fd] = g] \in Seq(S \cup {g}) /\ DOMAIN [s EXCEPT ![fd] = g] = DOMAIN s
        /\ \A n \in DOMAIN s : [s EXCEPT ![fd] = g][n] = IF n = fd THEN g ELSE s[n]
    BY <2>2, PlaceChanged
  <2> QED BY <1>6, <2>1, <2>3
<1>9. HandlesInv'
  BY <1>4, <1>6, <1>8 DEF HandlesInv, IsSequence
<1>10. \A q \in Procs : /\ DOMAIN openfiles'[q] = DOMAIN openfiles[q]
                        /\ \A n \in DOMAIN openfiles[q] :
                             openfiles'[q][n] = IF q = p /\ n = fd THEN g ELSE openfiles[q][n]
  BY <1>6, <1>8
<1>11. \A x : x \in AllHandles' <=> x \in AllHandles
  BY <1>10 DEF AllHandles
<1>12. ASSUME NEW x \in AllHandles
       PROVE  openfiles'[x[1]][x[2]] = IF x = <<p, fd>> THEN g ELSE openfiles[x[1]][x[2]]
  <2>1. PICK q \in Procs : \E n \in DOMAIN openfiles[q] : x = <<q, n>>
    BY HandleIs
  <2> QED BY <1>10, <2>1
<1>13. <<p, fd>> \in AllHandles
  BY HandleIs
<1>14. ASSUME NEW f, f # NoFile
       PROVE  HandlesOf(f)' = HandlesOf(f) \ (IF f = openfiles[p][fd].file THEN {<<p, fd>>} ELSE {})
  <2>1. SUFFICES ASSUME NEW x
                 PROVE  x \in HandlesOf(f)' <=>
                          x \in HandlesOf(f) \ (IF f = openfiles[p][fd].file THEN {<<p, fd>>} ELSE {})
    OBVIOUS
  <2>2. x \in HandlesOf(f)' <=> x \in AllHandles' /\ openfiles'[x[1]][x[2]].file = f
    BY DEF HandlesOf
  <2>3. x \in HandlesOf(f) <=> x \in AllHandles /\ openfiles[x[1]][x[2]].file = f
    BY DEF HandlesOf
  <2>4. CASE x = <<p, fd>>
    BY <1>4, <1>11, <1>12, <1>13, <1>14, <2>2, <2>3, <2>4
  <2>5. CASE x # <<p, fd>>
    BY <1>11, <1>12, <2>2, <2>3, <2>5
  <2> QED BY <2>4, <2>5
<1>15. ASSUME NEW f, f = openfiles[p][fd].file
       PROVE  Cardinality(HandlesOf(f)') = Cardinality(HandlesOf(f)) - 1
  <2>1. HandlesOf(f)' = HandlesOf(f) \ {<<p, fd>>}
    BY <1>14, <1>15
  <2>2. <<p, fd>> \in HandlesOf(f) /\ IsFiniteSet(HandlesOf(f))
    BY <1>13, <1>15, HandlesFinite DEF HandlesOf
  <2> QED BY <2>1, <2>2, FS_RemoveElement
<1>16. ASSUME NEW f, f \notin {NoFile, openfiles[p][fd].file} PROVE HandlesOf(f)' = HandlesOf(f)
  BY <1>14, <1>16
<1> QED BY <1>4, <1>9, <1>10, <1>15, <1>16

-----------------------------------------------------------------------------
(* Files.                                                                  *)

\* The count of one file changes; of a file that is not there, nothing.
LEMMA FilesCounted ==
  ASSUME FilesInv, NEW f, NEW n, Count(f, n)
  PROVE  /\ FilesInv' /\ DOMAIN files' = DOMAIN files
         /\ \A g \in DOMAIN files : files'[g].open = IF g = f THEN files[g].open + n ELSE files[g].open
<1>1. PICK S : files \in Seq(S)
  BY DEF FilesInv, IsSequence
<1>2. CASE f \notin DOMAIN files
  <2>1. files' = files
    BY <1>1, <1>2 DEF Count
  <2> QED BY <1>2, <2>1 DEF FilesInv, IsFile
<1>3. CASE f \in DOMAIN files
  <2>1. PICK r : r = [files[f] EXCEPT !.open = @ + n]
    OBVIOUS
  <2>2. IsFile(files[f])
    BY <1>3 DEF FilesInv
  <2>3. IsFile(r) /\ r.open = files[f].open + n
    BY <2>1, <2>2 DEF IsFile
  <2>4. files' = [files EXCEPT ![f] = r]
    BY <2>1 DEF Count
  <2>5. files \in Seq(S \cup {r}) /\ r \in S \cup {r}
    BY <1>1, SequenceWidens
  <2>6. /\ files' \in Seq(S \cup {r}) /\ DOMAIN files' = DOMAIN files
        /\ \A g \in DOMAIN files : files'[g] = IF g = f THEN r ELSE files[g]
    BY <1>3, <2>4, <2>5, PlaceChanged
  <2> QED BY <2>3, <2>6 DEF FilesInv, IsSequence
<1> QED BY <1>2, <1>3

\* No index of a file is that of no file.
LEMMA FileIsSome ==
  ASSUME FilesInv, NEW f \in DOMAIN files
  PROVE  f # NoFile
BY LenProperties DEF FilesInv, IsSequence, NoFile

\* While there are no handles, a file has none.
LEMMA NoHandles ==
  ASSUME HandlesInv, mount # "mounted", NEW f
  PROVE  HandlesOf(f) = {}
BY DEF HandlesInv, HandlesOf, AllHandles

-----------------------------------------------------------------------------
(* Steps.                                                                  *)

\* A descriptor keeps its meaning.
Kept == \A p \in Procs : \A fd \in DOMAIN openfiles[p] :
          /\ fd \in DOMAIN openfiles'[p]
          /\ openfiles'[p][fd].file \in {openfiles[p][fd].file, NoFile}

LEMMA InitStep == Init => OpenInv
<1> SUFFICES ASSUME Init PROVE OpenInv
  OBVIOUS
<1>1. files = <<>> /\ mount = "reading" /\ openfiles = [p \in Procs |-> <<>>]
  BY DEF Init, MountInit
<1>2. DOMAIN files = {} /\ files \in Seq({})
  BY <1>1
<1>3. FilesInv /\ OpenCounts
  BY <1>2 DEF FilesInv, IsSequence, OpenCounts
<1>4. \A p \in Procs : openfiles[p] = <<>> /\ openfiles[p] \in Seq({}) /\ DOMAIN openfiles[p] = {}
  BY <1>1
<1>5. HandlesInv
  BY <1>1, <1>4 DEF HandlesInv, IsSequence
<1> QED BY <1>3, <1>5 DEF OpenInv

\* Nothing that the invariant speaks of changes.
LEMMA IdleStep ==
  ASSUME OpenInv, UNCHANGED <<openfiles, files, mount>>
  PROVE  OpenInv' /\ Kept
<1>1. OpenInv'
  BY DEF OpenInv, HandlesInv, FilesInv, OpenCounts, HandlesOf, AllHandles
<1> QED BY <1>1 DEF Kept

\* Before the volume is mounted there are no handles, and files come with none.
LEMMA MountingStep ==
  ASSUME OpenInv, Mounting
  PROVE  OpenInv' /\ Kept
<1>1. mount = "reading" /\ openfiles' = openfiles
  BY DEF Mounting, MountStep, NextCluster, Return, SkipFree, TakeLongName, SkipDot, EnterDirectory,
         AddFile, Sees
<1>2. HandlesInv'
  BY <1>1 DEF OpenInv, HandlesInv
<1>3. \A f : HandlesOf(f)' = {}
  BY <1>1 DEF OpenInv, HandlesInv, HandlesOf, AllHandles
<1>4. \A f \in DOMAIN files : files[f].open = 0
  <2>1. \A f : HandlesOf(f) = {}
    BY <1>1, NoHandles DEF OpenInv
  <2> QED BY <2>1, FS_EmptySet DEF OpenInv, OpenCounts
<1>5. FilesInv' /\ \A f \in DOMAIN files' : files'[f].open = 0
  <2>1. CASE UNCHANGED files
    BY <1>4, <2>1 DEF OpenInv, FilesInv
  <2>2. CASE AddFile
    <3>1. PICK r : r = [name |-> NameSeen, parent |-> Top.dir, size |-> Seen.size, id |-> NewId, open |-> 0]
      OBVIOUS
    <3>2. files' = Append(files, r)
      BY <2>2, <3>1 DEF AddFile
    <3>3. IsFile(r) /\ r.open = 0
      BY <3>1 DEF IsFile
    <3>4. PICK S : files \in Seq(S)
      BY DEF OpenInv, FilesInv, IsSequence
    <3>5. files \in Seq(S \cup {r}) /\ Len(files) \in Nat /\ DOMAIN files = 1 .. Len(files)
      BY <3>4, SequenceWidens, LenProperties
    <3>6. /\ files' \in Seq(S \cup {r}) /\ Len(files') = Len(files) + 1
          /\ files'[Len(files) + 1] = r /\ \A i \in 1 .. Len(files) : files'[i] = files[i]
      BY <3>2, <3>5, AppendProperties
    <3>7. DOMAIN files' = 1 .. Len(files) + 1
      BY <3>6, LenProperties
    <3>8. ASSUME NEW f \in DOMAIN files' PROVE IsFile(files'[f]) /\ files'[f].open = 0
      <4>1. CASE f = Len(files) + 1
        BY <3>3, <3>6, <4>1
      <4>2. CASE f # Len(files) + 1
        <5>1. f \in 1 .. Len(files) /\ f \in DOMAIN files
          BY <3>5, <3>7, <4>2
        <5> QED BY <1>4, <3>6, <5>1 DEF OpenInv, FilesInv
      <4> QED BY <4>1, <4>2
    <3> QED BY <3>6, <3>8 DEF FilesInv, IsSequence
  <2> QED BY <2>1, <2>2
    DEF Mounting, MountStep, NextCluster, Return, SkipFree, TakeLongName, SkipDot, EnterDirectory
<1>6. OpenCounts'
  BY <1>3, <1>5, FS_EmptySet DEF OpenCounts
<1>7. Kept
  BY <1>1 DEF Kept
<1> QED BY <1>2, <1>5, <1>6, <1>7 DEF OpenInv

\* Open takes the next descriptor and counts one handle more.
LEMMA OpenStep ==
  ASSUME OpenInv, NEW p \in Procs, NEW path, NEW append, Open(p, path, append)
  PROVE  OpenInv' /\ Kept
<1>1. CASE FindFile(path) = NoFile
  BY <1>1, IdleStep DEF Open, CallFails, mountVars
<1>2. CASE FindFile(path) # NoFile
  <2>1. PICK f : f = FindFile(path)
    OBVIOUS
  <2>2. PICK h : h = [file |-> f, loc |-> IF append THEN files[f].size ELSE 0]
    OBVIOUS
  <2>3. IsHandle(h) /\ h.file = f
    BY <1>2, <2>1, <2>2 DEF IsHandle
  <2>4. /\ openfiles' = [openfiles EXCEPT ![p] = Append(@, h)]
        /\ Count(f, 1) /\ mount = "mounted" /\ mount' = mount
    BY <1>2, <2>1, <2>2 DEF Open, AddHandle, Running
  <2>5. /\ HandlesInv' /\ Kept
        /\ \A g : g # f => HandlesOf(g)' = HandlesOf(g)
        /\ \A g : g = f => Cardinality(HandlesOf(g)') = Cardinality(HandlesOf(g)) + 1
    BY <2>3, <2>4, HandleAdded DEF OpenInv, Kept
  <2>6. /\ FilesInv' /\ DOMAIN files' = DOMAIN files
        /\ \A g \in DOMAIN files : files'[g].open = IF g = f THEN files[g].open + 1 ELSE files[g].open
    BY <2>4, FilesCounted DEF OpenInv
  <2>7. OpenCounts'
    <3>1. SUFFICES ASSUME NEW g \in DOMAIN files PROVE files'[g].open = Cardinality(HandlesOf(g)')
      BY <2>6 DEF OpenCounts
    <3>2. files[g].open = Cardinality(HandlesOf(g))
      BY DEF OpenInv, OpenCounts
    <3> QED BY <2>5, <2>6, <3>2
  <2> QED BY <2>5, <2>6, <2>7 DEF OpenInv
<1> QED BY <1>1, <1>2

\* Close counts one handle less.
LEMMA CloseStep ==
  ASSUME OpenInv, NEW p \in Procs, NEW fd, Close(p, fd)
  PROVE  OpenInv' /\ Kept
<1>1. CASE ~IsOpen(p, fd)
  BY <1>1, IdleStep DEF Close, CallFails, mountVars
<1>2. CASE IsOpen(p, fd)
  <2>1. PICK f : f = openfiles[p][fd].file
    OBVIOUS
  <2>2. fd \in DOMAIN openfiles[p] /\ f # NoFile
    BY <1>2, <2>1 DEF OpenInv, HandlesInv, IsHandle, IsOpen
  <2>3. /\ openfiles' = [openfiles EXCEPT ![p][fd] = Closed]
        /\ Count(f, -1) /\ mount = "mounted" /\ mount' = mount
    BY <1>2, <2>1 DEF Close, Running, ClosedCountDown
  <2>4. /\ HandlesInv' /\ Kept
        /\ \A g : g \notin {NoFile, f} => HandlesOf(g)' = HandlesOf(g)
        /\ \A g : g = f => Cardinality(HandlesOf(g)') = Cardinality(HandlesOf(g)) - 1
    BY <2>1, <2>2, <2>3, HandleClosed DEF OpenInv, Kept
  <2>5. /\ FilesInv' /\ DOMAIN files' = DOMAIN files
        /\ \A g \in DOMAIN files : files'[g].open = IF g = f THEN files[g].open + -1 ELSE files[g].open
    BY <2>3, FilesCounted DEF OpenInv
  <2>6. OpenCounts'
    <3>1. SUFFICES ASSUME NEW g \in DOMAIN files PROVE files'[g].open = Cardinality(HandlesOf(g)')
      BY <2>5 DEF OpenCounts
    <3>2. files[g].open = Cardinality(HandlesOf(g)) /\ Cardinality(HandlesOf(g)) \in Nat /\ g # NoFile
      BY HandlesFinite, FileIsSome DEF OpenInv, OpenCounts
    <3> QED BY <2>4, <2>5, <3>2
  <2> QED BY <2>4, <2>5, <2>6 DEF OpenInv
<1> QED BY <1>1, <1>2

\* Read and write move a handle in its file, far or back.
LEMMA AccessStep ==
  ASSUME OpenInv, NEW p \in Procs, NEW fd, NEW len, NEW write, Access(p, fd, len, write)
  PROVE  OpenInv' /\ Kept
<1>1. CASE ~IsOpen(p, fd)
  BY <1>1, IdleStep DEF Access, CallFails, mountVars
<1>2. CASE IsOpen(p, fd)
  <2>1. fd \in DOMAIN openfiles[p] /\ openfiles[p][fd].file # NoFile
    BY <1>2 DEF OpenInv, HandlesInv, IsHandle, IsOpen
  <2>2. \E loc : openfiles' = [openfiles EXCEPT ![p][fd].loc = loc]
    BY <1>2 DEF Access
  <2>3. mount = "mounted" /\ mount' = mount /\ files' = files
    BY <1>2 DEF Access, Running, mountVars
  <2>4. /\ HandlesInv' /\ Kept
        /\ \A g : HandlesOf(g)' = HandlesOf(g)
    BY <2>1, <2>2, <2>3, HandleMoved DEF OpenInv, Kept
  <2> QED BY <2>3, <2>4 DEF OpenInv, FilesInv, OpenCounts
<1> QED BY <1>1, <1>2

\* exec leaves a closed descriptor behind.
LEMMA ExecStep ==
  ASSUME OpenInv, NEW p \in Procs, NEW path, Exec(p, path)
  PROVE  OpenInv' /\ Kept
<1>1. CASE FindFile(path) = NoFile
  BY <1>1, IdleStep DEF Exec, CallFails, mountVars
<1>2. CASE FindFile(path) # NoFile
  <2>1. /\ openfiles' = [openfiles EXCEPT ![p] = Append(@, Closed)]
        /\ mount = "mounted" /\ mount' = mount /\ files' = files
    BY <1>2 DEF Exec, Running, mountVars
  <2>2. IsHandle(Closed) /\ Closed.file = NoFile
    BY DEF IsHandle, Closed
  <2>3. /\ HandlesInv' /\ Kept
        /\ \A g : g # NoFile => HandlesOf(g)' = HandlesOf(g)
    BY <2>1, <2>2, HandleAdded DEF OpenInv, Kept
  <2>4. \A g \in DOMAIN files : g # NoFile
    BY FileIsSome DEF OpenInv
  <2> QED BY <2>1, <2>3, <2>4 DEF OpenInv, FilesInv, OpenCounts
<1> QED BY <1>1, <1>2

-----------------------------------------------------------------------------
(* Theorems.                                                               *)

LEMMA NextStep ==
  ASSUME OpenInv, [Next]_vars
  PROVE  OpenInv' /\ Kept
<1>1. CASE Mounting
  BY <1>1, MountingStep
<1>2. CASE \E p \in Procs : \E path \in Paths : \E append \in BOOLEAN : Open(p, path, append)
  BY <1>2, OpenStep
<1>3. CASE \E p \in Procs : \E path \in Paths : Exec(p, path)
  BY <1>3, ExecStep
<1>4. CASE \E p \in Procs : \E path \in Paths : Chdir(p, path)
  <2>1. UNCHANGED <<openfiles, files, mount>>
    BY <1>4 DEF Chdir, CallFails, mountVars
  <2> QED BY <2>1, IdleStep
<1>5. CASE \E p \in Procs : \E fd \in 1 .. MaxOpens + 1 : Close(p, fd)
  BY <1>5, CloseStep
<1>6. CASE \E p \in Procs : \E fd \in 1 .. MaxOpens + 1 : \E len \in Lengths : Read(p, fd, len) \/ Write(p, fd, len)
  BY <1>6, AccessStep DEF Read, Write
<1>7. CASE \E p \in Procs : Exit(p)
  <2>1. UNCHANGED <<openfiles, files, mount>>
    BY <1>7 DEF Exit, mountVars
  <2> QED BY <2>1, IdleStep
<1>8. CASE UNCHANGED vars
  <2>1. UNCHANGED <<openfiles, files, mount>>
    BY <1>8 DEF vars, mountVars
  <2> QED BY <2>1, IdleStep
<1> QED BY <1>1, <1>2, <1>3, <1>4, <1>5, <1>6, <1>7, <1>8 DEF Next

\* What vfs_open, vfs_close, vfs_read, vfs_write and exec keep: descriptors are
\* sequences of handles, none before the volume is mounted; a handle without a
\* file is closed; the counts of open handles are right.
THEOREM OpenInvariant == Spec => []OpenInv
<1>1. OpenInv /\ [Next]_vars => OpenInv'
  BY NextStep
<1> QED BY InitStep, <1>1, PTL DEF Spec

\* file->open of vfs_open and vfs_close is the number of the handles of the
\* file, those of processes that are gone included, for every volume and every
\* set of processes.
THEOREM OpenCountsExact == Spec => []OpenCounts
<1>1. OpenInv => OpenCounts
  BY DEF OpenInv
<1> QED BY OpenInvariant, <1>1, PTL

\* A descriptor that vfs_open hands out means that file until it is closed, and
\* nothing from then on.
THEOREM DescriptorsKept == Spec => DescriptorsStable
<1>1. OpenInv /\ [Next]_vars =>
        [\A p \in Procs : \A fd \in DOMAIN openfiles[p] :
           /\ fd \in DOMAIN openfiles'[p]
           /\ openfiles'[p][fd].file \in {openfiles[p][fd].file, NoFile}]_vars
  BY NextStep DEF Kept
<1> QED BY OpenInvariant, <1>1, PTL DEF Spec, DescriptorsStable

-----------------------------------------------------------------------------
(* Sequences, and induction.                                               *)

LEMMA SequenceFacts ==
  ASSUME NEW s, IsSequence(s)
  PROVE  Len(s) \in Nat /\ DOMAIN s = 1 .. Len(s)
BY LenProperties DEF IsSequence

\* A sequence with one element more, of whatever kind.
LEMMA OneMore ==
  ASSUME NEW s, IsSequence(s), NEW x
  PROVE  /\ IsSequence(Append(s, x)) /\ Len(Append(s, x)) = Len(s) + 1
         /\ DOMAIN Append(s, x) = 1 .. Len(s) + 1
         /\ Append(s, x)[Len(s) + 1] = x /\ \A i \in DOMAIN s : Append(s, x)[i] = s[i]
<1>1. PICK S : s \in Seq(S)
  BY DEF IsSequence
<1>2. s \in Seq(S \cup {x}) /\ x \in S \cup {x}
  BY <1>1, SequenceWidens
<1>3. DOMAIN s = 1 .. Len(s) /\ Len(s) \in Nat
  BY SequenceFacts
<1>4. /\ Append(s, x) \in Seq(S \cup {x}) /\ Len(Append(s, x)) = Len(s) + 1
      /\ \A i \in 1 .. Len(s) : Append(s, x)[i] = s[i]
  BY <1>2, AppendProperties
<1>5. Append(s, x)[Len(s) + 1] = x
  BY <1>2, AppendProperties
<1>6. DOMAIN Append(s, x) = 1 .. Len(s) + 1
  BY <1>4, LenProperties
<1>7. IsSequence(Append(s, x))
  BY <1>4 DEF IsSequence
<1> QED BY <1>3, <1>4, <1>5, <1>6, <1>7

\* A sequence in which one element changes, to whatever.
LEMMA OneChanged ==
  ASSUME NEW s, IsSequence(s), NEW k \in DOMAIN s, NEW x
  PROVE  /\ IsSequence([s EXCEPT ![k] = x]) /\ DOMAIN [s EXCEPT ![k] = x] = DOMAIN s
         /\ Len([s EXCEPT ![k] = x]) = Len(s)
         /\ \A i \in DOMAIN s : [s EXCEPT ![k] = x][i] = IF i = k THEN x ELSE s[i]
<1>1. PICK S : s \in Seq(S)
  BY DEF IsSequence
<1>2. s \in Seq(S \cup {x}) /\ x \in S \cup {x}
  BY <1>1, SequenceWidens
<1>3. /\ [s EXCEPT ![k] = x] \in Seq(S \cup {x}) /\ DOMAIN [s EXCEPT ![k] = x] = DOMAIN s
      /\ \A i \in DOMAIN s : [s EXCEPT ![k] = x][i] = IF i = k THEN x ELSE s[i]
  BY <1>2, PlaceChanged
<1>4. Len([s EXCEPT ![k] = x]) = Len(s)
  BY <1>2, <1>3, LenProperties
<1> QED BY <1>3, <1>4 DEF IsSequence

\* The elements before the last k.
LEMMA Shortened ==
  ASSUME NEW s, IsSequence(s), NEW n \in 0 .. Len(s)
  PROVE  /\ IsSequence(SubSeq(s, 1, n)) /\ Len(SubSeq(s, 1, n)) = n /\ DOMAIN SubSeq(s, 1, n) = 1 .. n
         /\ \A i \in 1 .. n : i \in DOMAIN s /\ SubSeq(s, 1, n)[i] = s[i]
<1>1. PICK S : s \in Seq(S)
  BY DEF IsSequence
<1>2. DOMAIN s = 1 .. Len(s) /\ Len(s) \in Nat
  BY SequenceFacts
<1>3. \A i \in 1 .. n : s[i] \in S
  BY <1>1, <1>2, ElementOfSeq
<1>4. /\ SubSeq(s, 1, n) \in Seq(S) /\ Len(SubSeq(s, 1, n)) = n
      /\ \A i \in 1 .. n : SubSeq(s, 1, n)[i] = s[i]
  BY <1>1, <1>2, SMT
<1>5. DOMAIN SubSeq(s, 1, n) = 1 .. n
  BY <1>4, LenProperties
<1> QED BY <1>2, <1>4, <1>5 DEF IsSequence

\* Two sequences in a row.
LEMMA Joined ==
  ASSUME NEW s, IsSequence(s), NEW t, IsSequence(t)
  PROVE  /\ IsSequence(s \o t) /\ Len(s \o t) = Len(s) + Len(t) /\ DOMAIN (s \o t) = 1 .. Len(s) + Len(t)
         /\ \A i \in 1 .. Len(s) + Len(t) : (s \o t)[i] = IF i <= Len(s) THEN s[i] ELSE t[i - Len(s)]
<1>1. PICK S : s \in Seq(S)
  BY DEF IsSequence
<1>2. PICK T : t \in Seq(T)
  BY DEF IsSequence
<1>3. s \in Seq(S \cup T) /\ t \in Seq(S \cup T)
  BY <1>1, <1>2, SequenceWidens
<1>4. /\ s \o t \in Seq(S \cup T) /\ Len(s \o t) = Len(s) + Len(t)
      /\ \A i \in 1 .. Len(s) + Len(t) : (s \o t)[i] = IF i <= Len(s) THEN s[i] ELSE t[i - Len(s)]
  BY <1>3, ConcatProperties
<1>5. DOMAIN (s \o t) = 1 .. Len(s) + Len(t)
  BY <1>4, LenProperties
<1> QED BY <1>4, <1>5 DEF IsSequence

\* Induction, for a set of numbers.
LEMMA AllNumbers ==
  ASSUME NEW T, 0 \in T, \A n \in Nat : n \in T => n + 1 \in T
  PROVE  Nat \subseteq T
<1> SUFFICES ASSUME Nat \ T # {} PROVE FALSE
  OBVIOUS
<1>1. Nat \ T \subseteq Nat
  OBVIOUS
<1>2. PICK x \in Nat \ T : \A y \in Nat \ T : ~(<<y, x>> \in OpToRel(<, Nat))
  BY <1>1, NatLessThanWellFounded, WFMin, Zenon
<1>3. \A y \in Nat \ T : ~(y < x)
  BY <1>2 DEF OpToRel
<1>4. x # 0 /\ x - 1 \in Nat /\ x - 1 < x /\ x = (x - 1) + 1
  OBVIOUS
<1>5. x - 1 \in T
  BY <1>3, <1>4
<1> QED BY <1>4, <1>5

-----------------------------------------------------------------------------
(* The tree while a volume is mounted, and afterwards.                     *)

IsName(n) == IsSequence(n) /\ \A k \in DOMAIN n : n[k] \notin {".", ".."}

IsDirectory(d) ==
  /\ d = [name |-> d.name, parent |-> d.parent, id |-> d.id, dirs |-> d.dirs, files |-> d.files]
  /\ IsName(d.name) /\ d.dirs \in Seq(Nat) /\ d.files \in Seq(Nat)

\* A directory comes after its parent and before its subdirectories, which
\* stand in its list in the order in which they were found.
InPlace(d) ==
  /\ IsDirectory(directories[d])
  /\ directories[d].parent \in 0 .. d - 1
  /\ directories[d].parent = NoDirectory <=> d = Root
  /\ \A i \in DOMAIN directories[d].dirs :
       /\ directories[d].dirs[i] >= d + i
       /\ directories[d].dirs[i] \in DOMAIN directories
       /\ directories[directories[d].dirs[i]].parent = d
  /\ \A i \in DOMAIN directories[d].files : directories[d].files[i] \in DOMAIN files

DirectoriesInv ==
  IsSequence(directories) /\ Root \in DOMAIN directories /\ \A d \in DOMAIN directories : InPlace(d)

\* An id is the place of a directory entry, which has the size of the file.
EntriesInv ==
  /\ volume \in Volumes
  /\ IsSequence(fentries) /\ \A id \in DOMAIN fentries : IsEntry(volume, fentries[id])
  /\ \A f \in DOMAIN files :
       /\ files[f].parent \in DOMAIN directories
       /\ files[f].id \in DOMAIN fentries
       /\ fentries[files[f].id].kind = "file"
       /\ files[f].size = fentries[files[f].id].size

IsCall(c) ==
  /\ c = [dir |-> c.dir, data |-> c.data, next |-> c.next, i |-> c.i, lfn |-> c.lfn]
  /\ c.dir \in DOMAIN directories /\ c.i \in Nat \ {0}
  /\ HasEntries(volume, c.data) /\ IsName(c.lfn)

\* The calls under way lead down the tree, and each directory that is being
\* read will be the last of its parent's.
IsUnder(d, above) ==
  /\ directories[d].parent = above
  /\ \A i \in DOMAIN directories[above].dirs : directories[above].dirs[i] < d

CallsInv ==
  /\ IsSequence(calls)
  /\ \A k \in DOMAIN calls : IsCall(calls[k])
  /\ \A j, k \in DOMAIN calls : j < k => calls[j].dir < calls[k].dir
  /\ \A k \in DOMAIN calls : k > 1 => IsUnder(calls[k].dir, calls[k - 1].dir)

TreeInv == DirectoriesInv /\ EntriesInv /\ CallsInv /\ mount \in {"reading", "lost", "mounted"}

LEMMA TreeStarts == Init => TreeInv
<1> SUFFICES ASSUME Init PROVE TreeInv
  OBVIOUS
<1>1. /\ volume \in Volumes /\ mount = "reading" /\ files = <<>> /\ fentries = <<>>
      /\ directories = <<NewDirectory(<<>>, NoDirectory, 0)>> /\ calls = <<RootCall(volume)>>
  BY DEF Init, MountInit
<1>2. PICK d : d = NewDirectory(<<>>, NoDirectory, 0)
  OBVIOUS
<1>3. PICK c : c = RootCall(volume)
  OBVIOUS
<1>4. IsSequence(<<>>) /\ DOMAIN <<>> = {} /\ <<>> \in Seq(Nat)
  <2>1. <<>> \in Seq(Nat)
    BY EmptySeq
  <2> QED BY <2>1 DEF IsSequence
<1>5. /\ directories = <<d>> /\ IsSequence(directories) /\ DOMAIN directories = {Root}
      /\ directories[Root] = d
  <2>1. <<d>> \in Seq({d}) /\ DOMAIN <<d>> = {1} /\ <<d>>[1] = d
    OBVIOUS
  <2> QED BY <1>1, <1>2, <2>1 DEF IsSequence, Root
<1>6. IsDirectory(d) /\ d.parent = 0 /\ d.dirs = <<>> /\ d.files = <<>>
  BY <1>2, <1>4 DEF IsDirectory, NewDirectory, NoDirectory, IsName
<1>7. DirectoriesInv
  BY <1>4, <1>5, <1>6 DEF DirectoriesInv, InPlace, Root, NoDirectory
<1>8. EntriesInv
  BY <1>1, <1>4 DEF EntriesInv
<1>9. calls = <<c>> /\ IsSequence(calls) /\ DOMAIN calls = {1} /\ calls[1] = c
  <2>1. <<c>> \in Seq({c}) /\ DOMAIN <<c>> = {1} /\ <<c>>[1] = c
    OBVIOUS
  <2> QED BY <1>1, <1>3, <2>1 DEF IsSequence
<1>10. IsCall(c)
  <2>1. \E data, next : c = Call(Root, data, next) /\ HasEntries(volume, data)
    BY <1>1, <1>3, VolumesAssumption DEF RootCall
  <2> QED BY <1>4, <1>5, <2>1 DEF IsCall, Call, IsName
<1>11. CallsInv
  BY <1>9, <1>10 DEF CallsInv
<1> QED BY <1>1, <1>7, <1>8, <1>11 DEF TreeInv

\* What the driver looks at is an entry.
LEMMA SeenIsEntry ==
  ASSUME TreeInv, NEW kind, Sees(kind)
  PROVE  /\ mount = "reading" /\ Len(calls) \in DOMAIN calls /\ Top = calls[Len(calls)] /\ IsCall(Top)
         /\ IsEntry(volume, Seen) /\ Seen.kind = kind
<1>1. mount = "reading" /\ calls # <<>> /\ Top.i < Slots /\ Seen.kind = kind
  BY DEF Sees, InCluster, Seen
<1>2. Len(calls) \in Nat /\ DOMAIN calls = 1 .. Len(calls)
  BY SequenceFacts DEF TreeInv, CallsInv
<1>3. Len(calls) # 0
  <2>1. PICK S : calls \in Seq(S)
    BY DEF TreeInv, CallsInv, IsSequence
  <2> QED BY <1>1, <2>1, EmptySeq
<1>4. Len(calls) \in DOMAIN calls /\ Top = calls[Len(calls)]
  BY <1>2, <1>3 DEF Top, Last
<1>5. IsCall(Top)
  BY <1>4 DEF TreeInv, CallsInv
<1>6. Top.i \in 1 .. Slots - 1
  BY <1>1, <1>5, VolumesAssumption DEF IsCall
<1>7. IsEntry(volume, Seen)
  BY <1>5, <1>6 DEF IsCall, HasEntries, Seen
<1> QED BY <1>1, <1>4, <1>5, <1>7

\* The topmost call goes on.
LEMMA TopGoesOn ==
  ASSUME TreeInv, NEW c, calls # <<>>, IsCall(c), c.dir = Top.dir, TopBecomes(c),
         UNCHANGED <<volume, directories, files, fentries, mount>>
  PROVE  TreeInv'
<1>1. IsSequence(calls) /\ Len(calls) \in Nat /\ DOMAIN calls = 1 .. Len(calls)
  BY SequenceFacts DEF TreeInv, CallsInv
<1>2. Len(calls) # 0
  <2>1. PICK S : calls \in Seq(S)
    BY DEF TreeInv, CallsInv, IsSequence
  <2> QED BY <2>1, EmptySeq
<1>3. Len(calls) \in DOMAIN calls /\ Top = calls[Len(calls)]
  BY <1>1, <1>2 DEF Top, Last
<1>4. /\ IsSequence(calls') /\ DOMAIN calls' = DOMAIN calls
      /\ \A k \in DOMAIN calls : calls'[k] = IF k = Len(calls) THEN c ELSE calls[k]
  BY <1>1, <1>3, OneChanged DEF TopBecomes
<1>5. \A k \in DOMAIN calls : calls'[k].dir = calls[k].dir
  BY <1>3, <1>4
<1>6. \A k \in DOMAIN calls : k > 1 => k - 1 \in DOMAIN calls
  BY <1>1
<1>7. \A k \in DOMAIN calls : IsCall(calls'[k])
  BY <1>4 DEF TreeInv, CallsInv
<1>8. CallsInv'
  <2>1. (\A k \in DOMAIN calls : IsCall(calls[k]))'
    BY <1>4, <1>7 DEF IsCall
  <2>2. \A j, k \in DOMAIN calls' : j < k => calls'[j].dir < calls'[k].dir
    BY <1>4, <1>5 DEF TreeInv, CallsInv
  <2>3. (\A k \in DOMAIN calls : k > 1 => IsUnder(calls[k].dir, calls[k - 1].dir))'
    BY <1>4, <1>5, <1>6 DEF TreeInv, CallsInv, IsUnder
  <2> QED BY <1>4, <2>1, <2>2, <2>3 DEF CallsInv
<1>9. DirectoriesInv' /\ EntriesInv'
  BY DEF TreeInv, DirectoriesInv, InPlace, EntriesInv
<1> QED BY <1>8, <1>9 DEF TreeInv

\* The call at its next entry, or with a name that is used.
LEMMA CallContinues ==
  ASSUME NEW c, IsCall(c)
  PROVE  /\ IsCall(Continue(c)) /\ Continue(c).dir = c.dir
         /\ IsCall(Named(c)) /\ Named(c).dir = c.dir
<1>1. IsName(<<>>)
  <2>1. <<>> \in Seq({}) /\ DOMAIN <<>> = {}
    OBVIOUS
  <2> QED BY <2>1 DEF IsName, IsSequence
<1> QED BY <1>1 DEF IsCall, Continue, Named

\* A name is the short one or the long one.
LEMMA NameIsName ==
  ASSUME TreeInv, NEW kind, Sees(kind)
  PROVE  IsName(NameSeen) /\ IsName(Top.lfn \o Seen.name)
<1>1. IsName(Top.lfn)
  BY SeenIsEntry DEF IsCall
<1>2. IsName(Seen.name)
  BY SeenIsEntry DEF IsEntry, IsName, IsSequence, ToSet
<1>3. IsName(Top.lfn \o Seen.name)
  <2>1. PICK s : s = Top.lfn
    OBVIOUS
  <2>2. PICK t : t = Seen.name
    OBVIOUS
  <2>3. IsSequence(s) /\ IsSequence(t)
    BY <1>1, <1>2, <2>1, <2>2 DEF IsName
  <2>4. DOMAIN s = 1 .. Len(s) /\ DOMAIN t = 1 .. Len(t) /\ Len(s) \in Nat /\ Len(t) \in Nat
    BY <2>3, SequenceFacts
  <2>5. /\ IsSequence(s \o t) /\ DOMAIN (s \o t) = 1 .. Len(s) + Len(t)
        /\ \A i \in 1 .. Len(s) + Len(t) : (s \o t)[i] = IF i <= Len(s) THEN s[i] ELSE t[i - Len(s)]
    BY <2>3, Joined
  <2>6. ASSUME NEW i \in DOMAIN (s \o t) PROVE (s \o t)[i] \notin {".", ".."}
    <3>1. CASE i <= Len(s)
      <4>1. i \in DOMAIN s
        BY <2>4, <2>5, <3>1
      <4> QED BY <1>1, <2>1, <2>5, <3>1, <4>1 DEF IsName
    <3>2. CASE ~(i <= Len(s))
      <4>1. i - Len(s) \in DOMAIN t
        BY <2>4, <2>5, <3>2
      <4> QED BY <1>2, <2>2, <2>5, <3>2, <4>1 DEF IsName
    <3> QED BY <3>1, <3>2
  <2> QED BY <2>1, <2>2, <2>5, <2>6 DEF IsName
<1> QED BY <1>1, <1>2, <1>3 DEF NameSeen

\* Steps in which the topmost call goes on.
LEMMA GoingOn ==
  ASSUME TreeInv, NextCluster \/ SkipFree \/ TakeLongName \/ SkipDot
  PROVE  TreeInv'
<1>1. CASE SkipFree
  <2>1. IsCall(Top) /\ calls # <<>>
    BY <1>1, SeenIsEntry DEF SkipFree, Sees
  <2> QED BY <1>1, <2>1, CallContinues, TopGoesOn DEF SkipFree
<1>2. CASE SkipDot
  <2>1. IsCall(Top) /\ calls # <<>>
    BY <1>2, SeenIsEntry DEF SkipDot, Sees
  <2> QED BY <1>2, <2>1, CallContinues, TopGoesOn DEF SkipDot
<1>3. CASE TakeLongName
  <2>1. PICK c : c = [Top EXCEPT !.lfn = @ \o Seen.name]
    OBVIOUS
  <2>2. IsCall(Top) /\ calls # <<>> /\ IsName(Top.lfn \o Seen.name)
    BY <1>3, SeenIsEntry, NameIsName DEF TakeLongName, Sees
  <2>3. IsCall(c) /\ c.dir = Top.dir
    BY <2>1, <2>2 DEF IsCall
  <2>4. TopBecomes(Continue(c)) /\ UNCHANGED <<volume, directories, files, fentries, mount>>
    BY <1>3, <2>1 DEF TakeLongName
  <2> QED BY <2>2, <2>3, <2>4, CallContinues, TopGoesOn
<1>4. CASE NextCluster
  <2>1. CASE Top.next \notin Clusters
    <3>1. UNCHANGED <<volume, directories, files, fentries, calls>> /\ mount' = "lost"
      BY <1>4, <2>1 DEF NextCluster
    <3> QED BY <3>1 DEF TreeInv, DirectoriesInv, InPlace, EntriesInv, CallsInv, IsCall, IsUnder
  <2>2. CASE Top.next \in Clusters
    <3>1. PICK c : c = [Top EXCEPT !.data = volume.slots[Top.next], !.next = volume.next[Top.next], !.i = 1]
      OBVIOUS
    <3>2. calls # <<>> /\ TopBecomes(c) /\ UNCHANGED <<volume, directories, files, fentries, mount>>
      BY <1>4, <2>2, <3>1 DEF NextCluster
    <3>3. IsCall(Top)
      <4>1. IsSequence(calls) /\ Len(calls) \in Nat /\ DOMAIN calls = 1 .. Len(calls)
        BY SequenceFacts DEF TreeInv, CallsInv
      <4>2. PICK S : calls \in Seq(S)
        BY <4>1 DEF IsSequence
      <4>3. Len(calls) \in DOMAIN calls
        BY <3>2, <4>1, <4>2, EmptySeq
      <4> QED BY <4>3 DEF TreeInv, CallsInv, Top, Last
    <3>4. HasEntries(volume, volume.slots[Top.next])
      BY <2>2, VolumesAssumption DEF TreeInv, EntriesInv, Clusters
    <3>5. PICK t : t = Top
      OBVIOUS
    <3>6. PICK d : d = volume.slots[Top.next]
      OBVIOUS
    <3>7. PICK n : n = volume.next[Top.next]
      OBVIOUS
    <3>8. c = [dir |-> t.dir, data |-> d, next |-> n, i |-> 1, lfn |-> t.lfn]
      BY <3>1, <3>3, <3>5, <3>6, <3>7 DEF IsCall
    <3>9. IsCall(c) /\ c.dir = Top.dir
      BY <3>3, <3>4, <3>5, <3>6, <3>8 DEF IsCall
    <3> QED BY <3>2, <3>9, TopGoesOn
  <2> QED BY <2>1, <2>2
<1> QED BY <1>1, <1>2, <1>3, <1>4

\* The topmost call is one of the calls.
LEMMA TopIsCall ==
  ASSUME TreeInv, calls # <<>>
  PROVE  /\ Len(calls) \in Nat \ {0} /\ DOMAIN calls = 1 .. Len(calls)
         /\ Len(calls) \in DOMAIN calls /\ Top = calls[Len(calls)] /\ IsCall(Top)
<1>1. IsSequence(calls) /\ Len(calls) \in Nat /\ DOMAIN calls = 1 .. Len(calls)
  BY SequenceFacts DEF TreeInv, CallsInv
<1>2. PICK S : calls \in Seq(S)
  BY <1>1 DEF IsSequence
<1>3. Len(calls) # 0
  BY <1>1, <1>2, EmptySeq
<1> QED BY <1>1, <1>3 DEF TreeInv, CallsInv, Top, Last

\* A directory is complete and becomes the last of its parent's.
LEMMA DirectoryAttached ==
  ASSUME TreeInv, NEW a \in DOMAIN directories, NEW b \in DOMAIN directories, IsUnder(b, a),
         directories' = [directories EXCEPT ![a].dirs = Append(@, b)],
         UNCHANGED <<files>>
  PROVE  /\ DirectoriesInv' /\ DOMAIN directories' = DOMAIN directories
         /\ \A d \in DOMAIN directories : /\ directories'[d].parent = directories[d].parent
                                          /\ d # a => directories'[d].dirs = directories[d].dirs
<1>1. /\ IsSequence(directories) /\ Len(directories) \in Nat /\ DOMAIN directories = 1 .. Len(directories)
  BY SequenceFacts DEF TreeInv, DirectoriesInv
<1>2. PICK D : D = directories[a]
  OBVIOUS
<1>3. IsDirectory(D)
  BY <1>2 DEF TreeInv, DirectoriesInv, InPlace
<1>4. PICK l : l = D.dirs
  OBVIOUS
<1>5. l \in Seq(Nat) /\ IsSequence(l) /\ Len(l) \in Nat /\ DOMAIN l = 1 .. Len(l) /\ b \in Nat
  BY <1>1, <1>3, <1>4, LenProperties DEF IsDirectory, IsSequence
<1>6. PICK m : m = Append(l, b)
  OBVIOUS
<1>7. /\ m \in Seq(Nat) /\ DOMAIN m = 1 .. Len(l) + 1
      /\ m[Len(l) + 1] = b /\ \A i \in DOMAIN l : m[i] = l[i]
  BY <1>5, <1>6, AppendProperties, OneMore
<1>8. PICK E : E = [D EXCEPT !.dirs = m]
  OBVIOUS
<1>9. /\ IsDirectory(E) /\ E.dirs = m /\ E.files = D.files /\ E.parent = D.parent
  BY <1>3, <1>7, <1>8 DEF IsDirectory
<1>10. directories' = [directories EXCEPT ![a] = E]
  BY <1>2, <1>4, <1>6, <1>8
<1>11. /\ IsSequence(directories') /\ DOMAIN directories' = DOMAIN directories
       /\ \A d \in DOMAIN directories : directories'[d] = IF d = a THEN E ELSE directories[d]
  <2>1. PICK s : s = directories
    OBVIOUS
  <2>2. /\ IsSequence([s EXCEPT ![a] = E]) /\ DOMAIN [s EXCEPT ![a] = E] = DOMAIN s
        /\ \A d \in DOMAIN s : [s EXCEPT ![a] = E][d] = IF d = a THEN E ELSE s[d]
    BY <1>1, <2>1, OneChanged
  <2> QED BY <1>10, <2>1, <2>2
<1>12. \A d \in DOMAIN directories : directories'[d].parent = directories[d].parent
  BY <1>2, <1>9, <1>11
<1>13. ASSUME NEW i \in DOMAIN m PROVE m[i] >= a + i /\ m[i] \in DOMAIN directories /\ directories[m[i]].parent = a
  <2>1. CASE i \in DOMAIN l
    BY <1>2, <1>4, <1>7, <2>1 DEF TreeInv, DirectoriesInv, InPlace
  <2>2. CASE i \notin DOMAIN l
    <3>1. i = Len(l) + 1 /\ m[i] = b
      BY <1>5, <1>7, <2>2
    <3>2. CASE Len(l) = 0
      <4>1. a < b
        BY <1>1 DEF TreeInv, DirectoriesInv, InPlace, IsUnder
      <4> QED BY <1>1, <3>1, <3>2, <4>1 DEF IsUnder
    <3>3. CASE Len(l) # 0
      <4>1. Len(l) \in DOMAIN l
        BY <1>5, <3>3
      <4>2. l[Len(l)] >= a + Len(l)
        BY <1>2, <1>4, <4>1 DEF TreeInv, DirectoriesInv, InPlace
      <4>3. l[Len(l)] < b /\ l[Len(l)] \in Nat
        BY <1>2, <1>4, <1>5, <4>1, ElementOfSeq DEF IsUnder
      <4> QED BY <1>1, <1>5, <3>1, <4>2, <4>3 DEF IsUnder
    <3> QED BY <3>2, <3>3
  <2> QED BY <2>1, <2>2
<1>14. ASSUME NEW d \in DOMAIN directories PROVE InPlace(d)'
  <2>1. CASE d = a
    <3>1. directories'[d] = E /\ d = a
      BY <1>11, <2>1
    <3>2. /\ D.parent \in 0 .. d - 1 /\ (D.parent = NoDirectory <=> d = Root)
          /\ \A i \in DOMAIN D.files : D.files[i] \in DOMAIN files
      BY <1>2, <2>1 DEF TreeInv, DirectoriesInv, InPlace
    <3>3. \A i \in DOMAIN m : directories'[m[i]].parent = a
      BY <1>12, <1>13
    <3> QED BY <1>9, <1>11, <1>13, <3>1, <3>2, <3>3 DEF InPlace, IsDirectory
  <2>2. CASE d # a
    <3>1. directories'[d] = directories[d] /\ InPlace(d)
      BY <1>11, <2>2 DEF TreeInv, DirectoriesInv
    <3> QED BY <1>11, <1>12, <3>1 DEF InPlace, IsDirectory
  <2> QED BY <2>1, <2>2
<1>15. DirectoriesInv'
  <2>1. (Root \in DOMAIN directories)' /\ (\A d \in DOMAIN directories : InPlace(d))'
    BY <1>11, <1>14 DEF TreeInv, DirectoriesInv
  <2> QED BY <1>11, <2>1 DEF DirectoriesInv
<1> QED BY <1>11, <1>12, <1>15

LEMMA ReturnStep ==
  ASSUME TreeInv, Return
  PROVE  TreeInv'
<1>1. calls # <<>> /\ UNCHANGED <<volume, files, fentries>>
  BY DEF Return
<1>2. CASE Len(calls) = 1
  <2>1. calls' = <<>> /\ mount' = "mounted" /\ UNCHANGED directories
    BY <1>2 DEF Return
  <2>2. CallsInv'
    <3>1. DOMAIN calls' = {} /\ calls' \in Seq({})
      BY <2>1
    <3> QED BY <3>1 DEF CallsInv, IsSequence
  <2> QED BY <1>1, <2>1, <2>2 DEF TreeInv, DirectoriesInv, InPlace, EntriesInv
<1>3. CASE Len(calls) # 1
  <2>0. PICK n : n = Len(calls)
    OBVIOUS
  <2>1. /\ n \in Nat \ {0, 1} /\ n > 1 /\ DOMAIN calls = 1 .. n /\ n - 1 \in DOMAIN calls /\ n \in DOMAIN calls
        /\ Top = calls[n]
    BY <1>1, <1>3, <2>0, TopIsCall
  <2>2. PICK x : x = Continue(calls[n - 1])
    OBVIOUS
  <2>3. PICK front : front = SubSeq(calls, 1, n - 2)
    OBVIOUS
  <2>4. /\ calls' = Append(front, x)
        /\ directories' = [directories EXCEPT ![calls[n - 1].dir].dirs = Append(@, Top.dir)] /\ UNCHANGED mount
    BY <1>3, <2>0, <2>2, <2>3 DEF Return
  <2>5. IsCall(calls[n - 1]) /\ IsCall(calls[n]) /\ IsCall(x) /\ x.dir = calls[n - 1].dir
    BY <2>1, <2>2, CallContinues DEF TreeInv, CallsInv
  <2>6. IsUnder(calls[n].dir, calls[n - 1].dir)
    BY <2>1 DEF TreeInv, CallsInv
  <2>7. /\ DirectoriesInv' /\ DOMAIN directories' = DOMAIN directories
        /\ \A d \in DOMAIN directories :
             /\ directories'[d].parent = directories[d].parent
             /\ d # calls[n - 1].dir => directories'[d].dirs = directories[d].dirs
    <3>1. PICK a : a = calls[n - 1].dir
      OBVIOUS
    <3>2. PICK b : b = calls[n].dir
      OBVIOUS
    <3>3. a \in DOMAIN directories /\ b \in DOMAIN directories /\ IsUnder(b, a)
      BY <2>5, <2>6, <3>1, <3>2 DEF IsCall
    <3>4. directories' = [directories EXCEPT ![a].dirs = Append(@, b)] /\ UNCHANGED files
      BY <1>1, <2>1, <2>4, <3>1, <3>2
    <3>5. /\ DirectoriesInv' /\ DOMAIN directories' = DOMAIN directories
          /\ \A d \in DOMAIN directories : /\ directories'[d].parent = directories[d].parent
                                           /\ d # a => directories'[d].dirs = directories[d].dirs
      BY <3>3, <3>4, DirectoryAttached
    <3>6. DirectoriesInv' /\ DOMAIN directories' = DOMAIN directories
      BY <3>5
    <3>7. \A d \in DOMAIN directories : /\ directories'[d].parent = directories[d].parent
                                        /\ d # calls[n - 1].dir => directories'[d].dirs = directories[d].dirs
      <4> QED BY <3>1, <3>5, Zenon
    <3> QED BY <3>6, <3>7
  <2>8. EntriesInv'
    BY <1>1, <2>7 DEF TreeInv, EntriesInv
  <2>9. /\ IsSequence(front) /\ Len(front) = n - 2 /\ DOMAIN front = 1 .. n - 2
        /\ \A i \in 1 .. n - 2 : i \in DOMAIN calls /\ front[i] = calls[i]
    <3>1. n - 2 \in 0 .. Len(calls) /\ IsSequence(calls)
      BY <2>0, <2>1 DEF TreeInv, CallsInv
    <3> QED BY <2>3, <3>1, Shortened
  <2>10. /\ IsSequence(calls') /\ DOMAIN calls' = 1 .. n - 1 /\ calls'[n - 1] = x
         /\ \A i \in 1 .. n - 2 : calls'[i] = calls[i]
    <3>1. /\ IsSequence(Append(front, x)) /\ DOMAIN Append(front, x) = 1 .. Len(front) + 1
          /\ Append(front, x)[Len(front) + 1] = x /\ \A i \in DOMAIN front : Append(front, x)[i] = front[i]
      BY <2>9, OneMore
    <3>2. Len(front) + 1 = n - 1
      BY <2>1, <2>9
    <3> QED BY <2>4, <2>9, <3>1, <3>2
  <2>11. ASSUME NEW k \in DOMAIN calls'
         PROVE  k \in DOMAIN calls /\ k <= n - 1 /\ calls'[k].dir = calls[k].dir /\ IsCall(calls'[k])
    <3>1. k \in 1 .. n - 1 /\ k \in DOMAIN calls
      BY <2>1, <2>10
    <3>2. CASE k = n - 1
      BY <2>5, <2>10, <3>1, <3>2
    <3>3. CASE k # n - 1
      <4>1. k \in 1 .. n - 2
        BY <2>1, <3>1, <3>3
      <4> QED BY <2>10, <3>1, <4>1 DEF TreeInv, CallsInv
    <3> QED BY <3>2, <3>3
  <2>12. CallsInv'
    <3>1. (\A k \in DOMAIN calls : IsCall(calls[k]))'
      BY <1>1, <2>7, <2>11 DEF IsCall
    <3>2. \A j, k \in DOMAIN calls' : j < k => calls'[j].dir < calls'[k].dir
      BY <2>11 DEF TreeInv, CallsInv
    <3>3. ASSUME NEW k \in DOMAIN calls', k > 1 PROVE IsUnder(calls[k].dir, calls[k - 1].dir)'
      <4>1. k - 1 \in DOMAIN calls' /\ k - 1 < n - 1 /\ k \in DOMAIN calls
        BY <2>1, <2>10, <3>3
      <4>2. calls'[k].dir = calls[k].dir /\ calls'[k - 1].dir = calls[k - 1].dir /\ k - 1 \in DOMAIN calls
        BY <2>11, <4>1
      <4>3. calls[k - 1].dir < calls[n - 1].dir
        BY <2>1, <4>1, <4>2 DEF TreeInv, CallsInv
      <4>4. calls[k - 1].dir \in DOMAIN directories /\ calls[k].dir \in DOMAIN directories
        BY <4>1, <4>2 DEF TreeInv, CallsInv, IsCall
      <4>5. calls[k - 1].dir # calls[n - 1].dir
        <5>1. \A d \in DOMAIN directories : d \in Nat
          BY SequenceFacts DEF TreeInv, DirectoriesInv
        <5> QED BY <2>5, <4>3, <4>4, <5>1 DEF IsCall
      <4>6. directories'[calls[k - 1].dir].dirs = directories[calls[k - 1].dir].dirs
        BY <2>7, <4>4, <4>5
      <4> QED BY <2>7, <3>3, <4>1, <4>2, <4>4, <4>6 DEF TreeInv, CallsInv, IsUnder
    <3> QED BY <2>10, <3>1, <3>2, <3>3 DEF CallsInv
  <2> QED BY <2>4, <2>7, <2>8, <2>12 DEF TreeInv
<1> QED BY <1>2, <1>3

\* A directory entry is kept under the next id.
LEMMA EntryKept ==
  ASSUME TreeInv, NEW kind, Sees(kind), fentries' = Append(fentries, Seen), volume' = volume
  PROVE  /\ NewId \in DOMAIN fentries' /\ fentries'[NewId] = Seen
         /\ IsSequence(fentries)' /\ (\A id \in DOMAIN fentries : IsEntry(volume, fentries[id]))'
         /\ \A id \in DOMAIN fentries : id \in DOMAIN fentries' /\ fentries'[id] = fentries[id]
<1>1. IsSequence(fentries) /\ Len(fentries) \in Nat /\ DOMAIN fentries = 1 .. Len(fentries)
  BY SequenceFacts DEF TreeInv, EntriesInv
<1>2. PICK e : e = Seen
  OBVIOUS
<1>3. PICK s : s = fentries
  OBVIOUS
<1>4. /\ IsSequence(Append(s, e)) /\ DOMAIN Append(s, e) = 1 .. Len(s) + 1
      /\ Append(s, e)[Len(s) + 1] = e /\ \A i \in DOMAIN s : Append(s, e)[i] = s[i]
  BY <1>1, <1>3, OneMore
<1>5. fentries' = Append(s, e)
  BY <1>2, <1>3
<1>6. /\ IsSequence(fentries') /\ DOMAIN fentries' = 1 .. Len(fentries) + 1
      /\ fentries'[Len(fentries) + 1] = e /\ \A i \in DOMAIN fentries : fentries'[i] = fentries[i]
  BY <1>3, <1>4, <1>5
<1>7. IsEntry(volume, e)
  BY <1>2, SeenIsEntry
<1>8. ASSUME NEW id \in DOMAIN fentries' PROVE IsEntry(volume, fentries'[id])
  <2>1. CASE id = Len(fentries) + 1
    BY <1>6, <1>7, <2>1
  <2>2. CASE id # Len(fentries) + 1
    <3>1. id \in DOMAIN fentries
      BY <1>1, <1>6, <2>2
    <3> QED BY <1>6, <3>1 DEF TreeInv, EntriesInv
  <2> QED BY <2>1, <2>2
<1>9. NewId \in DOMAIN fentries' /\ fentries'[NewId] = Seen
  BY <1>1, <1>2, <1>6 DEF NewId
<1>10. \A id \in DOMAIN fentries : id \in DOMAIN fentries'
  BY <1>1, <1>6
<1> QED BY <1>6, <1>8, <1>9, <1>10

LEMMA EnterDirectoryStep ==
  ASSUME TreeInv, EnterDirectory
  PROVE  TreeInv'
<1>1. Sees("dir")
  BY DEF EnterDirectory
<1>2. PICK n : n = Len(calls)
  OBVIOUS
<1>3. PICK m : m = Len(directories)
  OBVIOUS
<1>4. /\ n \in Nat \ {0} /\ n \in DOMAIN calls /\ DOMAIN calls = 1 .. n /\ Top = calls[n]
      /\ IsCall(Top) /\ IsCall(Named(Top)) /\ Named(Top).dir = Top.dir
  <2>1. calls # <<>>
    BY <1>1 DEF Sees
  <2> QED BY <1>2, <2>1, TopIsCall, CallContinues
<1>5. /\ IsSequence(directories) /\ m \in Nat \ {0} /\ DOMAIN directories = 1 .. m
      /\ Top.dir \in DOMAIN directories
  <2>1. IsSequence(directories) /\ m \in Nat /\ DOMAIN directories = 1 .. m /\ Top.dir \in DOMAIN directories
    BY <1>3, <1>4, SequenceFacts DEF TreeInv, DirectoriesInv, IsCall
  <2> QED BY <2>1
<1>6. PICK new : new = NewDirectory(NameSeen, Top.dir, NewId)
  OBVIOUS
<1>7. PICK c : c = Call(m + 1, volume.slots[Seen.cluster], volume.next[Seen.cluster])
  OBVIOUS
<1>8. PICK x : x = Named(Top)
  OBVIOUS
<1>9. /\ directories' = Append(directories, new) /\ fentries' = Append(fentries, Seen)
      /\ calls' = Append([calls EXCEPT ![n] = x], c)
      /\ UNCHANGED <<volume, mount, files>>
  BY <1>2, <1>3, <1>6, <1>7, <1>8 DEF EnterDirectory
<1>10. IsDirectory(new) /\ new.parent = Top.dir /\ new.dirs = <<>> /\ new.files = <<>>
  <2>1. IsName(NameSeen) /\ <<>> \in Seq(Nat)
    BY <1>1, NameIsName, EmptySeq
  <2> QED BY <1>6, <2>1 DEF IsDirectory, NewDirectory
<1>11. /\ IsSequence(directories') /\ DOMAIN directories' = 1 .. m + 1 /\ directories'[m + 1] = new
       /\ \A d \in DOMAIN directories : directories'[d] = directories[d]
  <2>1. PICK s : s = directories
    OBVIOUS
  <2>2. /\ IsSequence(Append(s, new)) /\ DOMAIN Append(s, new) = 1 .. Len(s) + 1
        /\ Append(s, new)[Len(s) + 1] = new /\ \A i \in DOMAIN s : Append(s, new)[i] = s[i]
    BY <1>5, <2>1, OneMore
  <2> QED BY <1>3, <1>9, <2>1, <2>2
<1>12. ASSUME NEW d \in DOMAIN directories' PROVE InPlace(d)'
  <2>1. CASE d = m + 1
    <3>1. directories'[d] = new /\ DOMAIN new.dirs = {} /\ DOMAIN new.files = {}
      BY <1>10, <1>11, <2>1
    <3>2. new.parent \in 0 .. d - 1 /\ new.parent # 0 /\ d # 1
      BY <1>5, <1>10, <2>1
    <3> QED BY <1>10, <3>1, <3>2 DEF InPlace, IsDirectory, NoDirectory, Root
  <2>2. CASE d # m + 1
    <3>1. d \in DOMAIN directories /\ directories'[d] = directories[d] /\ InPlace(d)
      BY <1>5, <1>11, <2>2 DEF TreeInv, DirectoriesInv
    <3>2. \A e \in DOMAIN directories : e \in DOMAIN directories' /\ directories'[e] = directories[e]
      BY <1>5, <1>11
    <3> QED BY <1>9, <3>1, <3>2 DEF InPlace, IsDirectory
  <2> QED BY <2>1, <2>2
<1>13. DirectoriesInv'
  <2>1. Root \in DOMAIN directories'
    BY <1>5, <1>11 DEF Root
  <2> QED BY <1>11, <1>12, <2>1 DEF DirectoriesInv
<1>14. /\ IsSequence(fentries)' /\ (\A id \in DOMAIN fentries : IsEntry(volume, fentries[id]))'
       /\ \A id \in DOMAIN fentries : id \in DOMAIN fentries' /\ fentries'[id] = fentries[id]
  BY <1>1, <1>9, EntryKept
<1>15. EntriesInv'
  <2>1. DOMAIN directories \subseteq DOMAIN directories'
    BY <1>5, <1>11
  <2> QED BY <1>9, <1>14, <2>1 DEF TreeInv, EntriesInv
<1>16. PICK cs : cs = [calls EXCEPT ![n] = x]
  OBVIOUS
<1>17. /\ IsSequence(cs) /\ DOMAIN cs = 1 .. n /\ Len(cs) = n
       /\ \A k \in 1 .. n : cs[k] = IF k = n THEN x ELSE calls[k]
  <2>1. IsSequence(calls)
    BY DEF TreeInv, CallsInv
  <2> QED BY <1>2, <1>4, <1>16, <2>1, OneChanged
<1>18. /\ IsSequence(calls') /\ DOMAIN calls' = 1 .. n + 1 /\ calls'[n + 1] = c
       /\ \A k \in 1 .. n : calls'[k] = cs[k]
  BY <1>9, <1>16, <1>17, OneMore
<1>19. \A k \in 1 .. n : /\ calls'[k].dir = calls[k].dir /\ IsCall(calls'[k])
                         /\ calls[k].dir \in DOMAIN directories
  <2>1. ASSUME NEW k \in 1 .. n
        PROVE  calls'[k].dir = calls[k].dir /\ IsCall(calls'[k]) /\ calls[k].dir \in DOMAIN directories
    <3>1. IsCall(calls[k])
      BY <1>4 DEF TreeInv, CallsInv
    <3>2. CASE k = n
      BY <1>4, <1>8, <1>17, <1>18, <3>1, <3>2 DEF IsCall
    <3>3. CASE k # n
      BY <1>17, <1>18, <3>1, <3>3 DEF IsCall
    <3> QED BY <3>2, <3>3
  <2> QED BY <2>1
<1>20. c.dir = m + 1 /\ IsCall(c)'
  <2>1. HasEntries(volume, volume.slots[Seen.cluster])
    <3>1. Seen.cluster \in DOMAIN volume.slots
      BY <1>1, SeenIsEntry DEF IsEntry
    <3> QED BY <3>1, VolumesAssumption DEF TreeInv, EntriesInv
  <2>2. IsName(<<>>)
    <3>1. <<>> \in Seq({}) /\ DOMAIN <<>> = {}
      OBVIOUS
    <3> QED BY <3>1 DEF IsName, IsSequence
  <2>3. m + 1 \in DOMAIN directories'
    BY <1>5, <1>11
  <2>4. PICK data : data = volume.slots[Seen.cluster]
    OBVIOUS
  <2>5. PICK next : next = volume.next[Seen.cluster]
    OBVIOUS
  <2>6. c = [dir |-> m + 1, data |-> data, next |-> next, i |-> 1, lfn |-> <<>>]
    BY <1>7, <2>4, <2>5 DEF Call
  <2> QED BY <1>9, <2>1, <2>2, <2>3, <2>4, <2>6 DEF IsCall
<1>21. \A k \in DOMAIN calls' : k = n + 1 \/ k \in 1 .. n
  BY <1>4, <1>18
<1>22. \A d \in DOMAIN directories : d < m + 1 /\ d \in Nat
  BY <1>5
<1>23. (\A k \in DOMAIN calls : IsCall(calls[k]))'
  <2>1. DOMAIN directories \subseteq DOMAIN directories'
    BY <1>5, <1>11
  <2> QED BY <1>9, <1>18, <1>19, <1>20, <1>21, <2>1 DEF IsCall
<1>24. \A j, k \in DOMAIN calls' : j < k => calls'[j].dir < calls'[k].dir
  <2>1. SUFFICES ASSUME NEW j \in DOMAIN calls', NEW k \in DOMAIN calls', j < k
                 PROVE  calls'[j].dir < calls'[k].dir
    OBVIOUS
  <2>2. j \in 1 .. n
    BY <1>4, <1>18, <2>1
  <2>3. CASE k = n + 1
    BY <1>18, <1>19, <1>20, <1>22, <2>2, <2>3
  <2>4. CASE k # n + 1
    <3>1. k \in 1 .. n
      BY <1>21, <2>4
    <3> QED BY <1>4, <1>19, <2>1, <2>2, <3>1 DEF TreeInv, CallsInv
  <2> QED BY <2>3, <2>4
<1>25. ASSUME NEW k \in DOMAIN calls', k > 1 PROVE IsUnder(calls[k].dir, calls[k - 1].dir)'
  <2>1. CASE k = n + 1
    <3>1. k - 1 = n /\ calls'[k].dir = m + 1 /\ calls'[k - 1].dir = Top.dir
      BY <1>4, <1>18, <1>19, <1>20, <2>1
    <3>2. directories'[m + 1].parent = Top.dir
      BY <1>10, <1>11
    <3>3. directories'[Top.dir] = directories[Top.dir]
      BY <1>5, <1>11
    <3>4. \A i \in DOMAIN directories[Top.dir].dirs : directories[Top.dir].dirs[i] < m + 1
      BY <1>5, <1>22 DEF TreeInv, DirectoriesInv, InPlace
    <3> QED BY <3>1, <3>2, <3>3, <3>4 DEF IsUnder
  <2>2. CASE k # n + 1
    <3>1. k \in 1 .. n /\ k - 1 \in 1 .. n
      BY <1>4, <1>21, <1>25, <2>2
    <3>2. IsUnder(calls[k].dir, calls[k - 1].dir)
      BY <1>4, <1>25, <3>1 DEF TreeInv, CallsInv
    <3>3. /\ directories'[calls[k].dir] = directories[calls[k].dir]
          /\ directories'[calls[k - 1].dir] = directories[calls[k - 1].dir]
      BY <1>11, <1>19, <3>1
    <3> QED BY <1>19, <3>1, <3>2, <3>3 DEF IsUnder
  <2> QED BY <2>1, <2>2
<1>26. CallsInv'
  BY <1>18, <1>23, <1>24, <1>25 DEF CallsInv
<1> QED BY <1>9, <1>13, <1>15, <1>26 DEF TreeInv

\* A file is found, the last of its directory.
LEMMA AddFileStep ==
  ASSUME TreeInv, AddFile, IsSequence(files)
  PROVE  TreeInv'
<1>1. Sees("file")
  BY DEF AddFile
<1>2. /\ calls # <<>> /\ IsCall(Top) /\ IsCall(Continue(Named(Top))) /\ Continue(Named(Top)).dir = Top.dir
      /\ Top.dir \in DOMAIN directories
  <2>1. calls # <<>>
    BY <1>1 DEF Sees
  <2>2. IsCall(Top)
    BY <2>1, TopIsCall
  <2> QED BY <2>1, <2>2, CallContinues DEF IsCall
<1>3. PICK a : a = Top.dir
  OBVIOUS
<1>4. PICK f : f = [name |-> NameSeen, parent |-> Top.dir, size |-> Seen.size, id |-> NewId, open |-> 0]
  OBVIOUS
<1>5. PICK b : b = Len(files) + 1
  OBVIOUS
<1>6. PICK c : c = Continue(Named(Top))
  OBVIOUS
<1>7. /\ files' = Append(files, f) /\ fentries' = Append(fentries, Seen)
      /\ directories' = [directories EXCEPT ![a].files = Append(@, b)]
      /\ TopBecomes(c) /\ UNCHANGED <<volume, mount>>
  BY <1>3, <1>4, <1>5, <1>6 DEF AddFile
<1>8. /\ IsSequence(files') /\ DOMAIN files' = 1 .. b /\ files'[b] = f /\ b \in Nat \ {0}
      /\ \A g \in DOMAIN files : g \in DOMAIN files' /\ files'[g] = files[g]
      /\ \A g \in DOMAIN files' : g = b \/ g \in DOMAIN files
  <2>1. PICK s : s = files
    OBVIOUS
  <2>2. /\ IsSequence(Append(s, f)) /\ DOMAIN Append(s, f) = 1 .. Len(s) + 1
        /\ Append(s, f)[Len(s) + 1] = f /\ \A i \in DOMAIN s : Append(s, f)[i] = s[i]
    BY <2>1, OneMore
  <2>3. Len(s) \in Nat /\ DOMAIN s = 1 .. Len(s) /\ b = Len(s) + 1
    BY <1>5, <2>1, SequenceFacts
  <2> QED BY <1>7, <2>1, <2>2, <2>3
<1>9. PICK D : D = directories[a]
  OBVIOUS
<1>10. IsDirectory(D) /\ a \in DOMAIN directories
  BY <1>2, <1>3, <1>9 DEF TreeInv, DirectoriesInv, InPlace
<1>11. PICK m : m = Append(D.files, b)
  OBVIOUS
<1>12. m \in Seq(Nat) /\ \A i \in DOMAIN m : m[i] \in DOMAIN files'
  <2>1. PICK l : l = D.files
    OBVIOUS
  <2>2. /\ l \in Seq(Nat) /\ IsSequence(l) /\ Len(l) \in Nat /\ DOMAIN l = 1 .. Len(l)
    BY <1>10, <2>1, LenProperties DEF IsDirectory, IsSequence
  <2>3. /\ m \in Seq(Nat) /\ DOMAIN m = 1 .. Len(l) + 1
        /\ m[Len(l) + 1] = b /\ \A i \in DOMAIN l : m[i] = l[i]
    BY <1>8, <1>11, <2>1, <2>2, AppendProperties, OneMore
  <2>4. \A i \in DOMAIN l : l[i] \in DOMAIN files
    BY <1>9, <1>10, <2>1 DEF TreeInv, DirectoriesInv, InPlace
  <2>5. ASSUME NEW i \in DOMAIN m PROVE m[i] \in DOMAIN files'
    <3>1. CASE i \in DOMAIN l
      BY <1>8, <2>3, <2>4, <3>1
    <3>2. CASE i \notin DOMAIN l
      <4>1. i = Len(l) + 1
        BY <2>2, <2>3, <3>2
      <4> QED BY <1>8, <2>3, <4>1
    <3> QED BY <3>1, <3>2
  <2> QED BY <2>3, <2>5
<1>13. PICK E : E = [D EXCEPT !.files = m]
  OBVIOUS
<1>14. IsDirectory(E) /\ E.files = m /\ E.dirs = D.dirs /\ E.parent = D.parent
  BY <1>10, <1>12, <1>13 DEF IsDirectory
<1>15. /\ IsSequence(directories') /\ DOMAIN directories' = DOMAIN directories
       /\ \A d \in DOMAIN directories : directories'[d] = IF d = a THEN E ELSE directories[d]
  <2>1. directories' = [directories EXCEPT ![a] = E]
    BY <1>7, <1>9, <1>11, <1>13
  <2> QED BY <1>10, <2>1, OneChanged DEF TreeInv, DirectoriesInv
<1>16. \A d \in DOMAIN directories : /\ directories'[d].parent = directories[d].parent
                                     /\ directories'[d].dirs = directories[d].dirs
  BY <1>9, <1>14, <1>15
<1>17. ASSUME NEW d \in DOMAIN directories PROVE InPlace(d)'
  <2>0. InPlace(d)
    BY DEF TreeInv, DirectoriesInv
  <2>1. IsDirectory(directories'[d])
    BY <1>14, <1>15, <2>0 DEF InPlace
  <2>2. \A i \in DOMAIN directories'[d].files : directories'[d].files[i] \in DOMAIN files'
    <3>1. CASE d = a
      BY <1>12, <1>14, <1>15, <3>1
    <3>2. CASE d # a
      BY <1>8, <1>15, <2>0, <3>2 DEF InPlace
    <3> QED BY <3>1, <3>2
  <2> QED BY <1>15, <1>16, <2>0, <2>1, <2>2 DEF InPlace
<1>18. DirectoriesInv'
  <2>1. (Root \in DOMAIN directories)' /\ (\A d \in DOMAIN directories : InPlace(d))'
    BY <1>15, <1>17 DEF TreeInv, DirectoriesInv
  <2> QED BY <1>15, <2>1 DEF DirectoriesInv
<1>19. /\ NewId \in DOMAIN fentries' /\ fentries'[NewId] = Seen
       /\ IsSequence(fentries)' /\ (\A id \in DOMAIN fentries : IsEntry(volume, fentries[id]))'
       /\ \A id \in DOMAIN fentries : id \in DOMAIN fentries' /\ fentries'[id] = fentries[id]
  BY <1>1, <1>7, EntryKept
<1>20. ASSUME NEW g \in DOMAIN files'
       PROVE  /\ files'[g].parent \in DOMAIN directories' /\ files'[g].id \in DOMAIN fentries'
              /\ fentries'[files'[g].id].kind = "file" /\ files'[g].size = fentries'[files'[g].id].size
  <2>1. CASE g = b
    <3>1. files'[g].parent = a /\ files'[g].id = NewId /\ files'[g].size = Seen.size
      BY <1>3, <1>4, <1>8, <2>1
    <3>2. Seen.kind = "file"
      BY <1>1, SeenIsEntry
    <3> QED BY <1>10, <1>15, <1>19, <3>1, <3>2
  <2>2. CASE g # b
    <3>1. g \in DOMAIN files /\ files'[g] = files[g]
      BY <1>8, <2>2
    <3> QED BY <1>15, <1>19, <3>1 DEF TreeInv, EntriesInv
  <2> QED BY <2>1, <2>2
<1>21. EntriesInv'
  BY <1>7, <1>19, <1>20 DEF TreeInv, EntriesInv
<1>22. CallsInv'
  <2>1. /\ Len(calls) \in DOMAIN calls /\ Top = calls[Len(calls)] /\ DOMAIN calls = 1 .. Len(calls)
        /\ Len(calls) \in Nat
    BY <1>2, TopIsCall
  <2>2. /\ IsSequence(calls') /\ DOMAIN calls' = DOMAIN calls
        /\ \A k \in DOMAIN calls : calls'[k] = IF k = Len(calls) THEN c ELSE calls[k]
    BY <1>7, <2>1, OneChanged DEF TopBecomes, TreeInv, CallsInv
  <2>3. \A k \in DOMAIN calls : /\ calls'[k].dir = calls[k].dir /\ IsCall(calls'[k])
                                /\ calls[k].dir \in DOMAIN directories
    <3>1. \A k \in DOMAIN calls : calls'[k].dir = calls[k].dir /\ IsCall(calls'[k])
      BY <1>2, <1>6, <2>1, <2>2 DEF TreeInv, CallsInv
    <3>2. \A k \in DOMAIN calls : calls[k].dir \in DOMAIN directories
      BY DEF TreeInv, CallsInv, IsCall
    <3> QED BY <3>1, <3>2
  <2>4. (\A k \in DOMAIN calls : IsCall(calls[k]))'
    BY <1>7, <1>15, <2>2, <2>3 DEF IsCall
  <2>5. \A j, k \in DOMAIN calls' : j < k => calls'[j].dir < calls'[k].dir
    BY <2>2, <2>3 DEF TreeInv, CallsInv
  <2>6. ASSUME NEW k \in DOMAIN calls', k > 1 PROVE IsUnder(calls[k].dir, calls[k - 1].dir)'
    <3>1. k \in DOMAIN calls /\ k - 1 \in DOMAIN calls
      BY <2>1, <2>2, <2>6
    <3>2. IsUnder(calls[k].dir, calls[k - 1].dir)
      BY <2>6, <3>1 DEF TreeInv, CallsInv
    <3> QED BY <1>16, <2>3, <3>1, <3>2 DEF IsUnder
  <2> QED BY <2>2, <2>4, <2>5, <2>6 DEF CallsInv
<1> QED BY <1>7, <1>18, <1>21, <1>22 DEF TreeInv

\* What system calls leave of the tree and the volume: all but the counts.
FileSame(f) ==
  /\ f \in DOMAIN files' /\ files'[f].name = files[f].name /\ files'[f].parent = files[f].parent
  /\ files'[f].size = files[f].size /\ files'[f].id = files[f].id
TreeSame ==
  /\ UNCHANGED <<volume, mount, calls, directories, fentries>>
  /\ DOMAIN files' = DOMAIN files /\ \A f \in DOMAIN files : FileSame(f)

LEMMA CountKeeps ==
  ASSUME FilesInv, NEW f, NEW n, Count(f, n)
  PROVE  DOMAIN files' = DOMAIN files /\ \A g \in DOMAIN files : FileSame(g)
<1>1. DOMAIN files' = DOMAIN files
  BY FilesCounted
<1>2. ASSUME NEW g \in DOMAIN files PROVE FileSame(g)
  <2>1. PICK r : r = [files[f] EXCEPT !.open = @ + n]
    OBVIOUS
  <2>2. files' = [files EXCEPT ![f] = r]
    BY <2>1 DEF Count
  <2>3. CASE g = f
    <3>1. files'[g] = r /\ IsFile(files[f])
      BY <2>2, <2>3 DEF FilesInv
    <3>2. /\ r.name = files[f].name /\ r.parent = files[f].parent /\ r.size = files[f].size
          /\ r.id = files[f].id
      BY <2>1, <3>1 DEF IsFile
    <3> QED BY <1>1, <2>3, <3>1, <3>2 DEF FileSame
  <2>4. CASE g # f
    <3>1. files'[g] = files[g]
      BY <2>2, <2>4
    <3> QED BY <1>1, <3>1 DEF FileSame
  <2> QED BY <2>3, <2>4
<1> QED BY <1>1, <1>2

LEMMA CallsKeepTree ==
  ASSUME FilesInv, [Next]_vars, ~Mounting
  PROVE  TreeSame
<1>1. CASE UNCHANGED mountVars
  BY <1>1 DEF TreeSame, FileSame, mountVars
<1>2. CASE \E f, n : Count(f, n) /\ UNCHANGED <<volume, mount, calls, directories, fentries>>
  BY <1>2, CountKeeps DEF TreeSame
<1>3. CASE \E p \in Procs : \E path \in Paths : \E append \in BOOLEAN : Open(p, path, append)
  BY <1>1, <1>2, <1>3 DEF Open, CallFails
<1>4. CASE \E p \in Procs : \E path \in Paths : Exec(p, path) \/ Chdir(p, path)
  BY <1>1, <1>4 DEF Exec, Chdir, CallFails
<1>5. CASE \E p \in Procs : \E fd \in 1 .. MaxOpens + 1 : Close(p, fd)
  BY <1>1, <1>2, <1>5 DEF Close, CallFails
<1>6. CASE \E p \in Procs : \E fd \in 1 .. MaxOpens + 1 : \E len \in Lengths : Read(p, fd, len) \/ Write(p, fd, len)
  <2>1. ASSUME NEW p, NEW fd, NEW len, NEW write, Access(p, fd, len, write)
        PROVE  UNCHANGED mountVars
    BY <2>1 DEF Access, CallFails
  <2> QED BY <1>1, <1>6, <2>1 DEF Read, Write
<1>7. CASE \E p \in Procs : Exit(p)
  BY <1>1, <1>7 DEF Exit
<1>8. CASE UNCHANGED vars
  BY <1>1, <1>8 DEF vars
<1> QED BY <1>3, <1>4, <1>5, <1>6, <1>7, <1>8 DEF Next

LEMMA SameTree ==
  ASSUME TreeInv, TreeSame
  PROVE  TreeInv'
<1>1. DirectoriesInv'
  BY DEF TreeInv, TreeSame, DirectoriesInv, InPlace
<1>2. EntriesInv'
  BY DEF TreeInv, TreeSame, FileSame, EntriesInv
<1>3. CallsInv'
  BY DEF TreeInv, TreeSame, CallsInv, IsCall, IsUnder
<1> QED BY <1>1, <1>2, <1>3 DEF TreeInv, TreeSame

LEMMA TreeStep ==
  ASSUME TreeInv, OpenInv, [Next]_vars
  PROVE  TreeInv'
<1>1. CASE ~Mounting
  BY <1>1, CallsKeepTree, SameTree DEF OpenInv
<1>2. CASE Mounting
  <2>1. IsSequence(files)
    BY DEF OpenInv, FilesInv
  <2> QED BY <1>2, <2>1, GoingOn, ReturnStep, EnterDirectoryStep, AddFileStep DEF Mounting, MountStep
<1> QED BY <1>1, <1>2

\* What vfat_read_directory builds, for every volume: a directory comes behind
\* its parent and before its subdirectories, which know it as their parent, and
\* files and directories are those of entries that were read.
THEOREM TreeInvariant == Spec => []TreeInv
<1>1. TreeInv /\ OpenInv /\ [Next]_vars => TreeInv'
  BY TreeStep
<1> QED BY TreeStarts, OpenInvariant, <1>1, PTL DEF Spec

-----------------------------------------------------------------------------
(* The loop over the subdirectories.                                       *)

\* What the loop makes of a directory e at index i, from what it makes of the
\* others at the next one.
Scanned(s, name, i) ==
  [e \in DOMAIN directories |->
     IF i > Len(directories[e].dirs) THEN e
     ELSE LET child == directories[e].dirs[i]
          IN  s[i + 1][IF directories[child].name = name THEN child ELSE e]]

\* The loop from index k on.
IsScanFrom(s, name, k) == s = [i \in k .. (Len(directories) + 1) |-> Scanned(s, name, i)]

IsScan(s, name) ==
  s = [i \in 1..(Len(directories) + 1) |->
         [e \in DOMAIN directories |->
            IF i > Len(directories[e].dirs) THEN e
            ELSE LET child == directories[e].dirs[i]
                 IN  s[i + 1][IF directories[child].name = name THEN child ELSE e]]]

\* A directory has fewer subdirectories than there are directories.
LEMMA FewSubdirectories ==
  ASSUME TreeInv, NEW e \in DOMAIN directories
  PROVE  /\ DOMAIN directories = 1 .. Len(directories) /\ Len(directories) \in Nat
         /\ Len(directories[e].dirs) \in 0 .. Len(directories)
         /\ DOMAIN directories[e].dirs = 1 .. Len(directories[e].dirs)
<1>1. /\ DOMAIN directories = 1 .. Len(directories) /\ Len(directories) \in Nat
  BY SequenceFacts DEF TreeInv, DirectoriesInv
<1>2. PICK l : l = directories[e].dirs
  OBVIOUS
<1>3. InPlace(e)
  BY DEF TreeInv, DirectoriesInv
<1>4. l \in Seq(Nat) /\ Len(l) \in Nat /\ DOMAIN l = 1 .. Len(l)
  BY <1>2, <1>3, LenProperties DEF InPlace, IsDirectory
<1>5. CASE Len(l) = 0
  BY <1>1, <1>2, <1>4, <1>5
<1>6. CASE Len(l) # 0
  <2>1. Len(l) \in DOMAIN l
    BY <1>4, <1>6
  <2>2. l[Len(l)] >= e + Len(l) /\ l[Len(l)] \in DOMAIN directories
    BY <1>2, <1>3, <2>1 DEF InPlace
  <2>3. Len(l) \in 0 .. Len(directories)
    BY <1>1, <1>4, <2>2
  <2> QED BY <1>1, <1>2, <1>4, <2>3
<1> QED BY <1>5, <1>6

\* The loop is defined.
LEMMA ScanExists ==
  ASSUME TreeInv, NEW name
  PROVE  \E s : IsScan(s, name)
<1>1. PICK n : n = Len(directories)
  OBVIOUS
<1>2. n \in Nat /\ DOMAIN directories = 1 .. n
  BY <1>1, SequenceFacts DEF TreeInv, DirectoriesInv
<1> DEFINE T == {m \in Nat : m <= n => \E s : IsScanFrom(s, name, n + 1 - m)}
<1>3. 0 \in T
  <2>1. PICK s : s = [i \in (n + 1) .. (n + 1) |-> [e \in DOMAIN directories |-> e]]
    OBVIOUS
  <2>2. \A t : Scanned(t, name, n + 1) = [e \in DOMAIN directories |-> e]
    <3>1. \A e \in DOMAIN directories : n + 1 > Len(directories[e].dirs)
      BY <1>1, <1>2, FewSubdirectories
    <3> QED BY <3>1 DEF Scanned
  <2>3. s = [i \in (n + 1) .. (n + 1) |-> Scanned(s, name, i)]
    <3>1. \A i \in (n + 1) .. (n + 1) : i = n + 1
      BY <1>2
    <3> QED BY <2>1, <2>2, <3>1
  <2>4. IsScanFrom(s, name, n + 1)
    BY <1>1, <2>3 DEF IsScanFrom
  <2>5. n + 1 - 0 = n + 1
    BY <1>2
  <2> QED BY <2>4, <2>5
<1>4. ASSUME NEW m \in Nat, m \in T PROVE m + 1 \in T
  <2>1. SUFFICES ASSUME m + 1 <= n PROVE \E s : IsScanFrom(s, name, n + 1 - (m + 1))
    OBVIOUS
  <2>2. PICK k : k = n + 1 - (m + 1)
    OBVIOUS
  <2>3. k \in 1 .. n /\ n + 1 - m = k + 1 /\ m <= n
    BY <1>2, <2>1, <2>2
  <2>4. PICK s : IsScanFrom(s, name, k + 1)
    BY <1>4, <2>3
  <2>5. s = [i \in (k + 1) .. (n + 1) |-> Scanned(s, name, i)]
    BY <1>1, <2>4 DEF IsScanFrom
  <2>6. PICK x : x = Scanned(s, name, k)
    OBVIOUS
  <2>7. PICK g : g = [i \in k .. (n + 1) |-> IF i = k THEN x ELSE s[i]]
    OBVIOUS
  <2>8. \A i \in (k + 1) .. (n + 1) : i \in k .. (n + 1) /\ i # k
    BY <1>2, <2>3
  <2>9. \A i \in (k + 1) .. (n + 1) : g[i] = s[i]
    BY <2>7, <2>8
  <2>10. ASSUME NEW i \in k .. (n + 1) PROVE Scanned(g, name, i) = Scanned(s, name, i)
    <3>1. CASE i = n + 1
      <4>1. \A e \in DOMAIN directories : n + 1 > Len(directories[e].dirs)
        BY <1>1, <1>2, FewSubdirectories
      <4> QED BY <3>1, <4>1 DEF Scanned
    <3>2. CASE i # n + 1
      <4>1. i + 1 \in (k + 1) .. (n + 1)
        BY <1>2, <2>3, <3>2
      <4>2. g[i + 1] = s[i + 1]
        BY <2>9, <4>1
      <4> QED BY <4>2 DEF Scanned
    <3> QED BY <3>1, <3>2
  <2>11. ASSUME NEW i \in k .. (n + 1) PROVE g[i] = Scanned(g, name, i)
    <3>1. CASE i = k
      BY <2>6, <2>7, <2>10, <3>1
    <3>2. CASE i # k
      <4>1. i \in (k + 1) .. (n + 1)
        BY <1>2, <2>3, <3>2
      <4> QED BY <2>5, <2>9, <2>10, <4>1
    <3> QED BY <3>1, <3>2
  <2>12. g = [i \in k .. (n + 1) |-> Scanned(g, name, i)]
    BY <2>7, <2>11
  <2> QED BY <1>1, <2>2, <2>12 DEF IsScanFrom
<1>5. n \in T
  <2> HIDE DEF T
  <2> QED BY <1>2, <1>3, <1>4, AllNumbers
<1>6. PICK s : IsScanFrom(s, name, 1)
  <2>1. n + 1 - n = 1
    BY <1>2
  <2> QED BY <1>2, <1>5, <2>1
<1> QED BY <1>6, Zenon DEF IsScanFrom, IsScan, Scanned

\* e is the first of the subdirectories of d with its name.
IsFirst(e, d) ==
  \E i \in DOMAIN directories[d].dirs :
    /\ directories[d].dirs[i] = e
    /\ \A j \in DOMAIN directories[d].dirs :
         j < i => directories[directories[d].dirs[j]].name # directories[e].name

\* The loop from index i in e ends in e, or, if no directory is found twice, in
\* the first subdirectory with the name from there on.
EndsWell(x, e, name, i) ==
  /\ x \in DOMAIN directories
  /\ ~FoundTwice =>
       \/ x = e /\ \A j \in DOMAIN directories[e].dirs : j >= i => directories[directories[e].dirs[j]].name # name
       \/ \E j \in DOMAIN directories[e].dirs :
            /\ j >= i /\ directories[e].dirs[j] = x /\ directories[x].name = name
            /\ \A k \in DOMAIN directories[e].dirs :
                 k \in i .. j - 1 => directories[directories[e].dirs[k]].name # name

LEMMA ScanRound ==
  ASSUME TreeInv, NEW name, NEW s, NEW i \in 1 .. Len(directories), IsScan(s, name),
         \A e \in DOMAIN directories : EndsWell(s[i + 1][e], e, name, i + 1),
         NEW e \in DOMAIN directories
  PROVE  EndsWell(s[i][e], e, name, i)
<1>1. PICK l : l = directories[e].dirs
  OBVIOUS
<1>2. /\ Len(l) \in Nat /\ DOMAIN l = 1 .. Len(l) /\ Len(directories) \in Nat
      /\ \A j \in DOMAIN l : l[j] \in DOMAIN directories
  BY <1>1, FewSubdirectories DEF TreeInv, DirectoriesInv, InPlace
<1>3. s[i][e] = IF i > Len(l) THEN e ELSE s[i + 1][IF directories[l[i]].name = name THEN l[i] ELSE e]
  <2>1. i \in 1 .. (Len(directories) + 1)
    BY <1>2
  <2>2. s[i] = [f \in DOMAIN directories |->
                  IF i > Len(directories[f].dirs) THEN f
                  ELSE LET child == directories[f].dirs[i]
                       IN  s[i + 1][IF directories[child].name = name THEN child ELSE f]]
    BY <2>1, Zenon DEF IsScan
  <2> QED BY <1>1, <2>2
<1>4. CASE i > Len(l)
  <2>1. s[i][e] = e
    BY <1>3, <1>4
  <2>2. \A j \in DOMAIN directories[e].dirs : ~(j >= i)
    BY <1>1, <1>2, <1>4
  <2> QED BY <2>1, <2>2 DEF EndsWell
<1>5. CASE ~(i > Len(l)) /\ directories[l[i]].name # name
  <2>1. s[i][e] = s[i + 1][e]
    BY <1>3, <1>5
  <2>2. \A j \in DOMAIN l : j >= i => j = i \/ j >= i + 1
    BY <1>2
  <2>3. EndsWell(s[i + 1][e], e, name, i + 1)
    OBVIOUS
  <2>4. PICK x : x = s[i][e]
    OBVIOUS
  <2>5. ASSUME ~FoundTwice, NEW j \in DOMAIN l, j >= i + 1, l[j] = x, directories[x].name = name,
               \A k \in DOMAIN l : k \in (i + 1) .. j - 1 => directories[l[k]].name # name
        PROVE  j >= i /\ \A k \in DOMAIN l : k \in i .. j - 1 => directories[l[k]].name # name
    <3>1. \A k \in DOMAIN l : k \in i .. j - 1 => k = i \/ k \in (i + 1) .. j - 1
      BY <1>2
    <3> QED BY <1>2, <1>5, <2>5, <3>1
  <2>6. CASE FoundTwice
    BY <2>1, <2>3, <2>6 DEF EndsWell
  <2>7. CASE ~FoundTwice
    <3>1. x \in DOMAIN directories
      BY <2>1, <2>3, <2>4 DEF EndsWell
    <3>2. \/ x = e /\ \A j \in DOMAIN l : j >= i + 1 => directories[l[j]].name # name
          \/ \E j \in DOMAIN l : /\ j >= i + 1 /\ l[j] = x /\ directories[x].name = name
                                 /\ \A k \in DOMAIN l : k \in (i + 1) .. j - 1 => directories[l[k]].name # name
      BY <1>1, <2>1, <2>3, <2>4, <2>7 DEF EndsWell
    <3>3. CASE x = e /\ \A j \in DOMAIN l : j >= i + 1 => directories[l[j]].name # name
      BY <1>1, <1>5, <2>2, <2>4, <3>1, <3>3 DEF EndsWell
    <3>4. CASE \E j \in DOMAIN l : /\ j >= i + 1 /\ l[j] = x /\ directories[x].name = name
                                   /\ \A k \in DOMAIN l : k \in (i + 1) .. j - 1 => directories[l[k]].name # name
      BY <1>1, <2>4, <2>5, <2>7, <3>1, <3>4 DEF EndsWell
    <3> QED BY <3>2, <3>3, <3>4
  <2> QED BY <2>6, <2>7
<1>6. CASE ~(i > Len(l)) /\ directories[l[i]].name = name
  <2>1. i \in DOMAIN l /\ l[i] \in DOMAIN directories
    BY <1>2, <1>6
  <2>2. PICK c : c = l[i]
    OBVIOUS
  <2>3. s[i][e] = s[i + 1][c] /\ EndsWell(s[i + 1][c], c, name, i + 1)
    BY <1>3, <1>6, <2>1, <2>2
  <2>4. CASE FoundTwice
    BY <2>3, <2>4 DEF EndsWell
  <2>5. CASE ~FoundTwice
    <3>1. ASSUME NEW j \in DOMAIN directories[c].dirs, j >= i + 1
          PROVE  directories[directories[c].dirs[j]].name # name
      <4>1. c \in DOMAIN directories
        BY <2>1, <2>2
      <4>2. j \in Nat
        BY <4>1, FewSubdirectories
      <4>3. j > i
        BY <3>1, <4>2
      <4> QED BY <1>1, <1>6, <2>1, <2>2, <2>5, <4>3 DEF FoundTwice
    <3>2. s[i + 1][c] = c
      BY <2>3, <2>5, <3>1 DEF EndsWell
    <3>3. i \in DOMAIN l /\ i >= i /\ l[i] = c /\ directories[c].name = name /\ c \in DOMAIN directories
      BY <1>6, <2>1, <2>2
    <3>4. \A k \in DOMAIN l : k \notin i .. i - 1
      BY <1>2
    <3>5. PICK x : x = s[i][e]
      OBVIOUS
    <3>6. x = c /\ x \in DOMAIN directories
      BY <2>3, <3>2, <3>3, <3>5
    <3>7. \E j \in DOMAIN directories[e].dirs :
            /\ j >= i /\ directories[e].dirs[j] = x /\ directories[x].name = name
            /\ \A k \in DOMAIN directories[e].dirs :
                 k \in i .. j - 1 => directories[directories[e].dirs[k]].name # name
      BY <1>1, <3>3, <3>4, <3>6
    <3>8. EndsWell(x, e, name, i)
      BY <3>6, <3>7, Zenon DEF EndsWell
    <3> QED BY <3>5, <3>8
  <2> QED BY <2>4, <2>5
<1> QED BY <1>4, <1>5, <1>6

\* What the loop finds for a name.
LEMMA ScanFinds ==
  ASSUME TreeInv, NEW d \in DOMAIN directories, NEW name
  PROVE  /\ Scan(d, name) \in DOMAIN directories
         /\ ~FoundTwice =>
              \/ /\ Scan(d, name) = d
                 /\ \A j \in DOMAIN directories[d].dirs : directories[directories[d].dirs[j]].name # name
              \/ IsFirst(Scan(d, name), d) /\ directories[Scan(d, name)].name = name
<1>1. PICK n : n = Len(directories)
  OBVIOUS
<1>2. n \in Nat /\ DOMAIN directories = 1 .. n
  BY <1>1, SequenceFacts DEF TreeInv, DirectoriesInv
<1>3. PICK s : s = CHOOSE x : IsScan(x, name)
  OBVIOUS
<1>4. IsScan(s, name)
  BY <1>3, ScanExists
<1>5. Scan(d, name) = s[1][d]
  BY <1>3, Zenon DEF Scan, IsScan
<1> DEFINE All(i) == \A e \in DOMAIN directories : EndsWell(s[i][e], e, name, i)
           T == {m \in Nat : m <= n => All(n + 1 - m)}
<1>6. 0 \in T
  <2>1. All(n + 1)
    <3>1. SUFFICES ASSUME NEW e \in DOMAIN directories PROVE EndsWell(s[n + 1][e], e, name, n + 1)
      OBVIOUS
    <3>2. /\ Len(directories[e].dirs) \in 0 .. n
          /\ DOMAIN directories[e].dirs = 1 .. Len(directories[e].dirs)
      BY <1>1, FewSubdirectories
    <3>3. n + 1 \in 1 .. n + 1 /\ n + 1 > Len(directories[e].dirs)
      BY <1>2, <3>2
    <3>4. s[n + 1][e] = e
      BY <1>1, <1>4, <3>3 DEF IsScan
    <3>5. \A j \in DOMAIN directories[e].dirs : ~(j >= n + 1)
      BY <1>2, <3>2
    <3> QED BY <3>4, <3>5 DEF EndsWell
  <2>2. n + 1 - 0 = n + 1
    BY <1>2
  <2> QED BY <2>1, <2>2
<1>7. ASSUME NEW m \in Nat, m \in T PROVE m + 1 \in T
  <2>1. SUFFICES ASSUME m + 1 <= n PROVE All(n + 1 - (m + 1))
    OBVIOUS
  <2>2. PICK k : k = n + 1 - (m + 1)
    OBVIOUS
  <2>3. k \in 1 .. n /\ n + 1 - m = k + 1 /\ m <= n
    BY <1>2, <2>1, <2>2
  <2>4. All(k + 1)
    BY <1>7, <2>3
  <2>5. All(k)
    BY <1>1, <1>4, <2>3, <2>4, ScanRound
  <2> QED BY <2>2, <2>5
<1>8. n \in T
  <2> HIDE DEF T
  <2> QED BY <1>2, <1>6, <1>7, AllNumbers
<1>9. EndsWell(s[1][d], d, name, 1)
  <2>1. n + 1 - n = 1
    BY <1>2
  <2> QED BY <1>2, <1>8, <2>1
<1>10. PICK x : x = s[1][d]
  OBVIOUS
<1>11. x \in DOMAIN directories
  BY <1>9, <1>10 DEF EndsWell
<1>12. ASSUME ~FoundTwice
       PROVE  \/ x = d /\ \A j \in DOMAIN directories[d].dirs : directories[directories[d].dirs[j]].name # name
              \/ IsFirst(x, d) /\ directories[x].name = name
  <2>1. \A j \in DOMAIN directories[d].dirs : j \in Nat /\ j >= 1
    BY FewSubdirectories
  <2>2. CASE x = d /\ \A j \in DOMAIN directories[d].dirs : j >= 1 => directories[directories[d].dirs[j]].name # name
    BY <2>1, <2>2
  <2>3. ASSUME NEW j \in DOMAIN directories[d].dirs, directories[d].dirs[j] = x, directories[x].name = name,
               \A k \in DOMAIN directories[d].dirs :
                 k \in 1 .. j - 1 => directories[directories[d].dirs[k]].name # name
        PROVE  IsFirst(x, d)
    <3>1. \A k \in DOMAIN directories[d].dirs : k < j => k \in 1 .. j - 1
      BY <2>1
    <3> QED BY <2>3, <3>1 DEF IsFirst
  <2> QED BY <1>9, <1>10, <1>12, <2>2, <2>3 DEF EndsWell
<1> QED BY <1>5, <1>10, <1>11, <1>12

-----------------------------------------------------------------------------
(* Paths.                                                                  *)

\* Directories to which paths lead: each is the first of its parent's with its
\* name, and so are those above it.
Heads(S) ==
  \A e \in S : e # Root => directories[e].parent \in S /\ IsFirst(e, directories[e].parent)
Found(d) == \E S \in SUBSET DOMAIN directories : d \in S /\ Heads(S)

LEMMA RootFound ==
  ASSUME TreeInv
  PROVE  Found(Root)
<1>1. {Root} \in SUBSET DOMAIN directories /\ Root \in {Root} /\ Heads({Root})
  BY DEF TreeInv, DirectoriesInv, Heads
<1> QED BY <1>1 DEF Found

LEMMA ParentFound ==
  ASSUME TreeInv, NEW d, Found(d), d # Root
  PROVE  /\ directories[d].parent \in DOMAIN directories /\ Found(directories[d].parent)
         /\ IsFirst(d, directories[d].parent)
<1>1. PICK S \in SUBSET DOMAIN directories : d \in S /\ Heads(S)
  BY DEF Found
<1>2. directories[d].parent \in S /\ IsFirst(d, directories[d].parent)
  BY <1>1 DEF Heads
<1> QED BY <1>1, <1>2 DEF Found

LEMMA ChildFound ==
  ASSUME TreeInv, NEW d, Found(d), NEW e, IsFirst(e, d)
  PROVE  Found(e) /\ e \in DOMAIN directories /\ directories[e].parent = d /\ e > d /\ e # Root
<1>1. PICK S \in SUBSET DOMAIN directories : d \in S /\ Heads(S)
  BY DEF Found
<1>2. InPlace(d) /\ d \in Nat \ {0}
  <2>1. d \in DOMAIN directories /\ DOMAIN directories = 1 .. Len(directories) /\ Len(directories) \in Nat
    BY <1>1, SequenceFacts DEF TreeInv, DirectoriesInv
  <2> QED BY <2>1 DEF TreeInv, DirectoriesInv
<1>3. PICK i \in DOMAIN directories[d].dirs : directories[d].dirs[i] = e
  BY DEF IsFirst
<1>4. e \in DOMAIN directories /\ directories[e].parent = d /\ e >= d + i
  BY <1>2, <1>3 DEF InPlace
<1>5. i \in Nat /\ i >= 1
  <2>1. DOMAIN directories[d].dirs = 1 .. Len(directories[d].dirs) /\ Len(directories[d].dirs) \in Nat
    BY <1>1, FewSubdirectories
  <2> QED BY <1>3, <2>1
<1>6. DOMAIN directories \subseteq Nat
  BY SequenceFacts DEF TreeInv, DirectoriesInv
<1>7. e > d /\ e # Root
  BY <1>2, <1>4, <1>5, <1>6 DEF Root
<1>8. PICK T : T = S \cup {e}
  OBVIOUS
<1>9. Heads(T) /\ T \in SUBSET DOMAIN directories /\ e \in T
  BY <1>1, <1>4, <1>8 DEF Heads
<1> QED BY <1>4, <1>7, <1>9 DEF Found

\* One round of vfs_find_directory.
LEMMA LookupFinds ==
  ASSUME TreeInv, NEW d \in DOMAIN directories, NEW name
  PROVE  /\ Lookup(d, name) \in {NoDirectory} \cup DOMAIN directories
         /\ (~FoundTwice /\ Found(d)) => Lookup(d, name) = NoDirectory \/ Found(Lookup(d, name))
<1>1. PICK e : e = Scan(d, name)
  OBVIOUS
<1>2. /\ e \in DOMAIN directories
      /\ ~FoundTwice => e = d \/ IsFirst(e, d)
  BY <1>1, ScanFinds
<1>3. Lookup(d, name) = IF name = Up THEN directories[e].parent ELSE e
  BY <1>1 DEF Lookup
<1>4. directories[e].parent \in {NoDirectory} \cup DOMAIN directories
  <2>1. /\ DOMAIN directories = 1 .. Len(directories) /\ Len(directories) \in Nat
    BY SequenceFacts DEF TreeInv, DirectoriesInv
  <2>2. directories[e].parent \in 0 .. e - 1
    BY <1>2 DEF TreeInv, DirectoriesInv, InPlace
  <2> QED BY <1>2, <2>1, <2>2 DEF NoDirectory
<1>5. ASSUME ~FoundTwice, Found(d)
      PROVE  Found(e) /\ (directories[e].parent = NoDirectory \/ Found(directories[e].parent))
  <2>1. Found(e)
    BY <1>2, <1>5, ChildFound
  <2>2. CASE e = Root
    BY <1>2, <2>1, <2>2 DEF TreeInv, DirectoriesInv, InPlace
  <2>3. CASE e # Root
    BY <2>1, <2>3, ParentFound
  <2> QED BY <2>1, <2>2, <2>3
<1> QED BY <1>2, <1>3, <1>4, <1>5

\* The loop of vfs_find_directory over the names of a path.
Walked(w, path, i) ==
  IF i = 0 THEN Root
  ELSE IF w[i - 1] = NoDirectory THEN NoDirectory
  ELSE LET e == Lookup(w[i - 1], path[i])
       IN  IF i = Len(path) /\ e = w[i - 1] /\ path[i] # Here THEN NoDirectory ELSE e
IsWalkUpTo(w, path, m) == w = [i \in 0 .. m |-> Walked(w, path, i)]
IsWalk(w, path) ==
  LET n == Len(path)
  IN  w = [i \in 0..n |->
             IF i = 0 THEN Root
             ELSE IF w[i - 1] = NoDirectory THEN NoDirectory
             ELSE LET e == Lookup(w[i - 1], path[i])
                  IN  IF i = n /\ e = w[i - 1] /\ path[i] # Here THEN NoDirectory ELSE e]

LEMMA WalkExists ==
  ASSUME NEW path, Len(path) \in Nat
  PROVE  \E w : IsWalk(w, path)
<1> DEFINE T == {m \in Nat : \E w : IsWalkUpTo(w, path, m)}
<1>1. 0 \in T
  <2>1. PICK w : w = [i \in 0 .. 0 |-> Root]
    OBVIOUS
  <2>2. \A t : Walked(t, path, 0) = Root
    BY DEF Walked
  <2>3. IsWalkUpTo(w, path, 0)
    BY <2>1, <2>2 DEF IsWalkUpTo
  <2> QED BY <2>3
<1>2. ASSUME NEW m \in Nat, m \in T PROVE m + 1 \in T
  <2>1. PICK w : w = [i \in 0 .. m |-> Walked(w, path, i)]
    BY <1>2 DEF IsWalkUpTo
  <2>2. PICK x : x = Walked(w, path, m + 1)
    OBVIOUS
  <2>3. PICK g : g = [i \in 0 .. m + 1 |-> IF i = m + 1 THEN x ELSE w[i]]
    OBVIOUS
  <2>4. \A i \in 0 .. m : i \in 0 .. m + 1 /\ i # m + 1 /\ g[i] = w[i]
    BY <2>3
  <2>5. ASSUME NEW i \in 0 .. m + 1 PROVE Walked(g, path, i) = Walked(w, path, i)
    <3>1. CASE i = 0
      BY <3>1 DEF Walked
    <3>2. CASE i # 0
      <4>1. i - 1 \in 0 .. m
        BY <3>2
      <4>2. g[i - 1] = w[i - 1]
        BY <2>4, <4>1
      <4> QED BY <3>2, <4>2 DEF Walked
    <3> QED BY <3>1, <3>2
  <2>6. ASSUME NEW i \in 0 .. m + 1 PROVE g[i] = Walked(g, path, i)
    <3>1. CASE i = m + 1
      BY <2>2, <2>3, <2>5, <3>1
    <3>2. CASE i # m + 1
      <4>1. i \in 0 .. m
        BY <3>2
      <4>2. w[i] = Walked(w, path, i)
        BY <2>1, <4>1
      <4> QED BY <2>4, <2>5, <4>1, <4>2
    <3> QED BY <3>1, <3>2
  <2>7. IsWalkUpTo(g, path, m + 1)
    BY <2>3, <2>6 DEF IsWalkUpTo
  <2> QED BY <2>7
<1>3. Len(path) \in T
  <2> HIDE DEF T
  <2> QED BY <1>1, <1>2, AllNumbers
<1>4. PICK w : IsWalkUpTo(w, path, Len(path))
  BY <1>3
<1> QED BY <1>4, Zenon DEF IsWalkUpTo, IsWalk, Walked

\* vfs_find_directory is what its loop ends with.
LEMMA FindWalks ==
  ASSUME NEW path, Len(path) \in Nat
  PROVE  \E w : IsWalk(w, path) /\ FindDirectory(path) = w[Len(path)]
<1>1. PICK w : w = CHOOSE x : IsWalk(x, path)
  OBVIOUS
<1>2. IsWalk(w, path)
  BY <1>1, WalkExists
<1>3. FindDirectory(path) = w[Len(path)]
  BY <1>1, Zenon DEF FindDirectory, IsWalk
<1> QED BY <1>2, <1>3

\* Each place of the loop, one by one.
LEMMA WalkPlaces ==
  ASSUME NEW path, Len(path) \in Nat, NEW w, IsWalk(w, path)
  PROVE  \A i \in 0 .. Len(path) : w[i] = Walked(w, path, i)
<1>1. w = [i \in 0 .. Len(path) |-> Walked(w, path, i)]
  BY Zenon DEF IsWalk, Walked
<1> QED BY <1>1

\* Where it ends.
LEMMA DirectoryFound ==
  ASSUME TreeInv, NEW path, Len(path) \in Nat
  PROVE  /\ FindDirectory(path) \in {NoDirectory} \cup DOMAIN directories
         /\ ~FoundTwice => FindDirectory(path) = NoDirectory \/ Found(FindDirectory(path))
<1>1. PICK w : IsWalk(w, path) /\ FindDirectory(path) = w[Len(path)]
  BY FindWalks
<1> DEFINE Good(d) == /\ d \in {NoDirectory} \cup DOMAIN directories
                      /\ ~FoundTwice => d = NoDirectory \/ Found(d)
           T == {m \in Nat : m <= Len(path) => Good(w[m])}
<1>2. 0 \in T
  <2>1. w[0] = Root
    <3>1. w[0] = Walked(w, path, 0)
      BY <1>1, WalkPlaces
    <3> QED BY <3>1 DEF Walked
  <2> QED BY <2>1, RootFound DEF TreeInv, DirectoriesInv
<1>3. ASSUME NEW m \in Nat, m \in T PROVE m + 1 \in T
  <2>1. SUFFICES ASSUME m + 1 <= Len(path) PROVE Good(w[m + 1])
    OBVIOUS
  <2>2. Good(w[m])
    BY <1>3, <2>1
  <2>3. m + 1 \in 0 .. Len(path) /\ m + 1 # 0 /\ (m + 1) - 1 = m
    BY <2>1
  <2>4. w[m + 1] = Walked(w, path, m + 1)
    BY <1>1, <2>3, WalkPlaces
  <2>5. CASE w[m] = NoDirectory
    BY <2>3, <2>4, <2>5 DEF Walked
  <2>6. CASE w[m] # NoDirectory
    <3>1. w[m] \in DOMAIN directories
      BY <2>2, <2>6
    <3>2. PICK e : e = Lookup(w[m], path[m + 1])
      OBVIOUS
    <3>3. w[m + 1] \in {NoDirectory, e}
      BY <2>3, <2>4, <2>6, <3>2 DEF Walked
    <3>4. Good(e)
      BY <2>2, <2>6, <3>1, <3>2, LookupFinds
    <3> QED BY <3>3, <3>4
  <2> QED BY <2>5, <2>6
<1>4. Len(path) \in T
  <2> HIDE DEF T
  <2> QED BY <1>2, <1>3, AllNumbers
<1> QED BY <1>1, <1>4

\* The paths of directories.
PathAt(ps, e) ==
  IF directories[e].parent = NoDirectory THEN <<>>
  ELSE Append(ps[directories[e].parent], directories[e].name)
ArePathsUpTo(ps, m) == ps = [e \in 1 .. m |-> PathAt(ps, e)]
ArePaths(ps) ==
  ps = [e \in DOMAIN directories |->
          IF directories[e].parent = NoDirectory THEN <<>>
          ELSE Append(ps[directories[e].parent], directories[e].name)]

LEMMA PathsExist ==
  ASSUME TreeInv
  PROVE  \E ps : ArePaths(ps)
<1>1. PICK n : n = Len(directories)
  OBVIOUS
<1>2. n \in Nat /\ DOMAIN directories = 1 .. n
  BY <1>1, SequenceFacts DEF TreeInv, DirectoriesInv
<1>3. \A e \in 1 .. n : directories[e].parent \in 0 .. e - 1
  BY <1>2 DEF TreeInv, DirectoriesInv, InPlace
<1> DEFINE T == {m \in Nat : m <= n => \E ps : ArePathsUpTo(ps, m)}
<1>4. 0 \in T
  <2>1. PICK ps : ps = [e \in 1 .. 0 |-> <<>>]
    OBVIOUS
  <2>2. \A e : e \notin 1 .. 0
    OBVIOUS
  <2>3. ArePathsUpTo(ps, 0)
    BY <2>1, <2>2 DEF ArePathsUpTo
  <2> QED BY <2>3
<1>5. ASSUME NEW m \in Nat, m \in T PROVE m + 1 \in T
  <2>0. SUFFICES ASSUME m + 1 <= n PROVE \E ps : ArePathsUpTo(ps, m + 1)
    OBVIOUS
  <2>1. PICK ps : ps = [e \in 1 .. m |-> PathAt(ps, e)]
    BY <1>2, <1>5, <2>0 DEF ArePathsUpTo
  <2>2. PICK x : x = PathAt(ps, m + 1)
    OBVIOUS
  <2>3. PICK g : g = [e \in 1 .. m + 1 |-> IF e = m + 1 THEN x ELSE ps[e]]
    OBVIOUS
  <2>4. \A e \in 1 .. m : e \in 1 .. m + 1 /\ e # m + 1 /\ g[e] = ps[e]
    BY <2>3
  <2>5. ASSUME NEW e \in 1 .. m + 1 PROVE PathAt(g, e) = PathAt(ps, e)
    <3>1. CASE directories[e].parent = NoDirectory
      BY <3>1 DEF PathAt
    <3>2. CASE directories[e].parent # NoDirectory
      <4>1. directories[e].parent \in 1 .. m
        BY <1>2, <1>3, <2>0, <3>2 DEF NoDirectory
      <4>2. g[directories[e].parent] = ps[directories[e].parent]
        BY <2>4, <4>1
      <4> QED BY <4>2 DEF PathAt
    <3> QED BY <3>1, <3>2
  <2>6. ASSUME NEW e \in 1 .. m + 1 PROVE g[e] = PathAt(g, e)
    <3>1. CASE e = m + 1
      BY <2>2, <2>3, <2>5, <3>1
    <3>2. CASE e # m + 1
      <4>1. e \in 1 .. m
        BY <3>2
      <4>2. ps[e] = PathAt(ps, e)
        BY <2>1, <4>1
      <4> QED BY <2>4, <2>5, <4>1, <4>2
    <3> QED BY <3>1, <3>2
  <2>7. ArePathsUpTo(g, m + 1)
    BY <2>3, <2>6 DEF ArePathsUpTo
  <2> QED BY <2>7
<1>6. n \in T
  <2> HIDE DEF T
  <2> QED BY <1>2, <1>4, <1>5, AllNumbers
<1>7. PICK ps : ArePathsUpTo(ps, n)
  BY <1>2, <1>6
<1>8. ps = [e \in DOMAIN directories |-> PathAt(ps, e)]
  BY <1>2, <1>7 DEF ArePathsUpTo
<1> QED BY <1>8, Zenon DEF ArePaths, PathAt

\* The path of a directory.
LEMMA PathIs ==
  ASSUME TreeInv, NEW d \in DOMAIN directories
  PROVE  \E ps : ArePaths(ps) /\ PathOfDirectory(d) = ps[d]
<1>1. PICK ps : ps = CHOOSE x : ArePaths(x)
  OBVIOUS
<1>2. ArePaths(ps)
  BY <1>1, PathsExist
<1>3. PathOfDirectory(d) = ps[d]
  BY <1>1, Zenon DEF PathOfDirectory, ArePaths
<1> QED BY <1>2, <1>3

\* A loop that goes where a name leads elsewhere.
Goes(w, path) ==
  \A i \in 1 .. Len(path) :
    w[i - 1] # NoDirectory /\ Lookup(w[i - 1], path[i]) # w[i - 1] => w[i] = Lookup(w[i - 1], path[i])
Leads(path, d) == IsSequence(path) /\ \A w : w[0] = Root /\ Goes(w, path) => w[Len(path)] = d

\* The path of the root, and of a directory below one whose path leads to it.
LEMMA NameLeads ==
  ASSUME TreeInv, ~FoundTwice, NEW d, Found(d), d # Root, NEW path, Leads(path, directories[d].parent)
  PROVE  Leads(Append(path, directories[d].name), d)
<1>1. PICK e : e = directories[d].parent
  OBVIOUS
<1>2. PICK name : name = directories[d].name
  OBVIOUS
<1>3. e \in DOMAIN directories /\ Found(e) /\ IsFirst(d, e) /\ Leads(path, e)
  BY <1>1, ParentFound
<1>4. d \in DOMAIN directories /\ d > e
  BY <1>3, ChildFound
<1>5. PICK q : q = Append(path, name)
  OBVIOUS
<1>6. IsSequence(path) /\ DOMAIN path = 1 .. Len(path) /\ Len(path) \in Nat
  BY <1>3, SequenceFacts DEF Leads
<1>7. /\ IsSequence(q) /\ Len(q) = Len(path) + 1
      /\ q[Len(path) + 1] = name /\ \A i \in DOMAIN path : q[i] = path[i]
  BY <1>5, <1>6, OneMore
<1>8. name # Up
  <2>1. IsName(name)
    BY <1>2, <1>4 DEF TreeInv, DirectoriesInv, InPlace, IsDirectory
  <2>2. 1 \in DOMAIN Up /\ Up[1] = ".."
    BY DEF Up
  <2> QED BY <2>1, <2>2 DEF IsName
<1>9. Lookup(e, name) = d
  <2>1. PICK x : x = Scan(e, name)
    OBVIOUS
  <2>2. \/ x = e /\ \A j \in DOMAIN directories[e].dirs : directories[directories[e].dirs[j]].name # name
        \/ IsFirst(x, e) /\ directories[x].name = name
    BY <1>3, <2>1, ScanFinds
  <2>3. PICK i \in DOMAIN directories[e].dirs :
          /\ directories[e].dirs[i] = d
          /\ \A j \in DOMAIN directories[e].dirs : j < i => directories[directories[e].dirs[j]].name # name
    BY <1>2, <1>3 DEF IsFirst
  <2>4. IsFirst(x, e) /\ directories[x].name = name
    BY <1>2, <2>2, <2>3
  <2>5. PICK k \in DOMAIN directories[e].dirs :
          /\ directories[e].dirs[k] = x
          /\ \A j \in DOMAIN directories[e].dirs : j < k => directories[directories[e].dirs[j]].name # name
    BY <2>4 DEF IsFirst
  <2>6. \A j \in DOMAIN directories[e].dirs : j \in Nat
    BY <1>3, FewSubdirectories
  <2>7. ~(i < k) /\ ~(k < i)
    BY <1>2, <2>3, <2>4, <2>5
  <2>8. x = d
    BY <2>3, <2>5, <2>6, <2>7
  <2> QED BY <1>8, <2>1, <2>8 DEF Lookup
<1>10. ASSUME NEW w, w[0] = Root, Goes(w, q)
       PROVE  w[Len(q)] = d
  <2>1. ASSUME NEW i \in 1 .. Len(path), w[i - 1] # NoDirectory, Lookup(w[i - 1], path[i]) # w[i - 1]
        PROVE  w[i] = Lookup(w[i - 1], path[i])
    <3>1. i \in 1 .. Len(q) /\ q[i] = path[i]
      BY <1>6, <1>7
    <3> QED BY <1>10, <2>1, <3>1 DEF Goes
  <2>2. Goes(w, path)
    BY <2>1 DEF Goes
  <2>3. w[Len(path)] = e
    BY <1>3, <1>10, <2>2 DEF Leads
  <2>4. /\ Len(path) + 1 \in 1 .. Len(q) /\ (Len(path) + 1) - 1 = Len(path) /\ q[Len(path) + 1] = name
        /\ Len(q) = Len(path) + 1
    BY <1>6, <1>7
  <2>5. e # NoDirectory /\ d # e
    <3>1. \A x \in DOMAIN directories : x \in Nat \ {0}
      BY SequenceFacts DEF TreeInv, DirectoriesInv
    <3> QED BY <1>3, <1>4, <3>1 DEF NoDirectory
  <2> QED BY <1>9, <1>10, <2>3, <2>4, <2>5 DEF Goes
<1>11. Leads(q, d)
  BY <1>7, <1>10 DEF Leads
<1> QED BY <1>2, <1>5, <1>11

LEMMA PathLeads ==
  ASSUME TreeInv, ~FoundTwice, NEW ps, ArePaths(ps), NEW d, Found(d)
  PROVE  Leads(ps[d], d)
<1>1. DOMAIN directories \subseteq Nat \ {0}
  BY SequenceFacts DEF TreeInv, DirectoriesInv
<1>2. \A e \in DOMAIN directories : ps[e] = PathAt(ps, e)
  <2>1. ps = [e \in DOMAIN directories |-> PathAt(ps, e)]
    BY Zenon DEF ArePaths, PathAt
  <2> QED BY <2>1
<1> DEFINE T == {m \in Nat : \A e \in DOMAIN directories : e <= m /\ Found(e) => Leads(ps[e], e)}
<1>3. 0 \in T
  BY <1>1
<1>4. ASSUME NEW m \in Nat, m \in T PROVE m + 1 \in T
  <2>1. SUFFICES ASSUME NEW e \in DOMAIN directories, e <= m + 1, Found(e) PROVE Leads(ps[e], e)
    OBVIOUS
  <2>2. InPlace(e)
    BY DEF TreeInv, DirectoriesInv
  <2>3. CASE e = Root
    <3>1. ps[e] = <<>>
      BY <1>2, <2>2, <2>3 DEF InPlace, PathAt
    <3>2. IsSequence(<<>>) /\ Len(<<>>) = 0
      <4>1. <<>> \in Seq({}) /\ Len(<<>>) = 0
        OBVIOUS
      <4> QED BY <4>1 DEF IsSequence
    <3> QED BY <2>3, <3>1, <3>2 DEF Leads
  <2>4. CASE e # Root
    <3>1. directories[e].parent \in DOMAIN directories /\ Found(directories[e].parent)
      BY <2>1, <2>4, ParentFound
    <3>2. directories[e].parent <= m
      BY <1>1, <2>1, <2>2 DEF InPlace
    <3>3. Leads(ps[directories[e].parent], directories[e].parent)
      BY <1>4, <3>1, <3>2
    <3>4. ps[e] = Append(ps[directories[e].parent], directories[e].name)
      BY <1>2, <2>2, <2>4 DEF InPlace, PathAt
    <3> QED BY <2>1, <2>4, <3>3, <3>4, NameLeads
  <2> QED BY <2>3, <2>4
<1>5. d \in DOMAIN directories
  BY DEF Found
<1>6. d \in T
  <2> HIDE DEF T
  <2> QED BY <1>1, <1>3, <1>4, <1>5, AllNumbers
<1>7. d <= d
  BY <1>1, <1>5
<1> QED BY <1>5, <1>6, <1>7

\* vfs_find_directory finds a directory by its path.
LEMMA PathFinds ==
  ASSUME TreeInv, ~FoundTwice, NEW ps, ArePaths(ps), NEW d, Found(d)
  PROVE  FindDirectory(ps[d]) = d
<1>1. PICK path : path = ps[d]
  OBVIOUS
<1>2. Leads(path, d)
  BY <1>1, PathLeads
<1>3. Len(path) \in Nat
  BY <1>2, SequenceFacts DEF Leads
<1>4. PICK w : IsWalk(w, path) /\ FindDirectory(path) = w[Len(path)]
  BY <1>3, FindWalks
<1>5. \A i \in 0 .. Len(path) : w[i] = Walked(w, path, i)
  BY <1>3, <1>4, WalkPlaces
<1>6. w[0] = Root
  BY <1>3, <1>5 DEF Walked
<1>7. Goes(w, path)
  <2>1. SUFFICES ASSUME NEW i \in 1 .. Len(path), w[i - 1] # NoDirectory, Lookup(w[i - 1], path[i]) # w[i - 1]
                 PROVE  w[i] = Lookup(w[i - 1], path[i])
    BY DEF Goes
  <2>2. i \in 0 .. Len(path) /\ i # 0
    BY <1>3
  <2>3. w[i] = Walked(w, path, i)
    BY <1>5, <2>2
  <2> QED BY <2>1, <2>2, <2>3 DEF Walked
<1> QED BY <1>1, <1>2, <1>4, <1>6, <1>7 DEF Leads

\* The directory that chdir found is one that paths lead to, and the path it
\* stored is that of the directory.
PathsInv ==
  /\ mount # "mounted" => reply.call = "none"
  /\ (reply.call = "chdir" /\ reply.ret = 0) =>
       /\ ~FoundTwice => Found(reply.target)
       /\ \E ps : ArePaths(ps) /\ reply.data = ps[reply.target]

\* Paths mean the same while the directories are the same.
LEMMA SamePaths ==
  ASSUME UNCHANGED directories, NEW d, NEW ps
  PROVE  /\ FoundTwice' <=> FoundTwice
         /\ Found(d)' <=> Found(d)
         /\ ArePaths(ps)' <=> ArePaths(ps)
<1>1. FoundTwice' <=> FoundTwice
  BY DEF FoundTwice
<1>2. \A e, f : IsFirst(e, f)' <=> IsFirst(e, f)
  BY DEF IsFirst
<1>3. \A S : Heads(S)' <=> Heads(S)
  BY <1>2 DEF Heads
<1>4. Found(d)' <=> Found(d)
  BY <1>3 DEF Found
<1>5. ArePaths(ps)' <=> ArePaths(ps)
  BY DEF ArePaths
<1> QED BY <1>1, <1>4, <1>5

LEMMA PathsStep ==
  ASSUME TreeInv, OpenInv, PathsInv, [Next]_vars
  PROVE  PathsInv'
<1>1. CASE UNCHANGED <<mount, reply, directories>>
  BY <1>1, SamePaths DEF PathsInv
<1>2. CASE reply'.call # "chdir" /\ mount = "mounted" /\ mount' = "mounted"
  BY <1>2 DEF PathsInv
<1>3. CASE reply'.ret # 0 /\ mount = "mounted" /\ mount' = "mounted"
  BY <1>3 DEF PathsInv
<1>4. ASSUME NEW call, mount = "mounted", CallFails(call) PROVE PathsInv'
  <2>1. reply'.ret # 0 /\ mount' = "mounted"
    BY <1>4 DEF CallFails, Failed, Reply, mountVars
  <2> QED BY <1>3, <1>4, <2>1
<1>5. CASE Mounting
  <2>1. mount = "reading" /\ reply' = reply
    BY <1>5 DEF Mounting, MountStep, NextCluster, Return, SkipFree, TakeLongName, SkipDot, EnterDirectory,
                AddFile, Sees
  <2>2. reply'.call = "none"
    BY <2>1 DEF PathsInv
  <2> QED BY <2>2 DEF PathsInv
<1>6. ASSUME NEW p \in Procs, NEW path \in Paths, NEW append \in BOOLEAN, Open(p, path, append) PROVE PathsInv'
  BY <1>2, <1>4, <1>6 DEF Open, Running, Reply
<1>7. ASSUME NEW p \in Procs, NEW path \in Paths, Exec(p, path) PROVE PathsInv'
  <2>1. mount = "mounted"
    BY <1>7 DEF Exec, Running
  <2>2. CASE FindFile(path) = NoFile
    BY <1>4, <1>7, <2>1, <2>2 DEF Exec
  <2>3. CASE FindFile(path) # NoFile
    <3>1. mount' = mount /\ reply'.call = "exec"
      BY <1>7, <2>3 DEF Exec, Reply, mountVars
    <3> QED BY <1>2, <2>1, <3>1
  <2> QED BY <2>2, <2>3
<1>8. ASSUME NEW p \in Procs, NEW path \in Paths, Chdir(p, path) PROVE PathsInv'
  <2>1. mount = "mounted"
    BY <1>8 DEF Chdir, Running
  <2>2. CASE FindDirectory(path) = NoDirectory
    BY <1>4, <1>8, <2>1, <2>2 DEF Chdir
  <2>3. CASE FindDirectory(path) # NoDirectory
    <3>1. PICK d : d = FindDirectory(path)
      OBVIOUS
    <3>2. PICK data : data = PathOfDirectory(d)
      OBVIOUS
    <3>3. reply' = Reply("chdir", d, 0, 0, data) /\ UNCHANGED <<mount, directories>>
      BY <1>8, <2>3, <3>1, <3>2 DEF Chdir, mountVars
    <3>4. Len(path) \in Nat
      BY CallsAssumption, LenProperties
    <3>5. d \in DOMAIN directories /\ (~FoundTwice => Found(d))
      BY <2>3, <3>1, <3>4, DirectoryFound
    <3>6. PICK ps : ArePaths(ps) /\ data = ps[d]
      BY <3>2, <3>5, PathIs
    <3>7. (~FoundTwice => Found(d))' /\ ArePaths(ps)'
      BY <3>3, <3>5, <3>6, SamePaths
    <3>8. reply'.target = d /\ reply'.data = data
      BY <3>3 DEF Reply
    <3> QED BY <2>1, <3>3, <3>6, <3>7, <3>8 DEF PathsInv
  <2> QED BY <2>2, <2>3
<1>9. ASSUME NEW p \in Procs, NEW fd, Close(p, fd) PROVE PathsInv'
  BY <1>2, <1>4, <1>9 DEF Close, Running, Reply
<1>10. ASSUME NEW p \in Procs, NEW fd, NEW len, NEW write \in BOOLEAN, Access(p, fd, len, write) PROVE PathsInv'
  <2>1. mount = "mounted"
    BY <1>10 DEF Access, Running
  <2>2. CASE ~IsOpen(p, fd)
    BY <1>4, <1>10, <2>1, <2>2 DEF Access
  <2>3. CASE IsOpen(p, fd)
    <3>1. mount' = mount /\ reply'.call = IF write THEN "write" ELSE "read"
      BY <1>10, <2>3 DEF Access, Reply, mountVars
    <3> QED BY <1>2, <2>1, <3>1
  <2> QED BY <2>2, <2>3
<1>11. ASSUME NEW p \in Procs, Exit(p) PROVE PathsInv'
  BY <1>2, <1>11 DEF Exit, Running, Reply, mountVars
<1>12. CASE UNCHANGED vars
  BY <1>1, <1>12 DEF vars, mountVars
<1>13. CASE Next
  <2>1. CASE \E p \in Procs : \E fd \in 1 .. (MaxOpens + 1) :
               \E len \in Lengths : Read(p, fd, len) \/ Write(p, fd, len)
    BY <1>10, <2>1 DEF Read, Write
  <2> QED BY <1>5, <1>6, <1>7, <1>8, <1>9, <1>11, <1>13, <2>1 DEF Next
<1> QED BY <1>12, <1>13

\* The path that chdir stores for a directory, vfs_get_path_directory, is one
\* that vfs_find_directory follows back to the directory, whatever the tree of
\* the volume, as long as no directory lies in one of its name.
THEOREM PathsLeadBack == Spec => []PathLeadsBack
<1>1. Init => PathsInv
  BY DEF Init, MountInit, PathsInv, Failed, Reply
<1>2. TreeInv /\ OpenInv /\ PathsInv /\ [Next]_vars => PathsInv'
  BY PathsStep
<1>3. TreeInv /\ PathsInv => PathLeadsBack
  <2>1. SUFFICES ASSUME TreeInv, PathsInv, reply.call = "chdir", reply.ret = 0, ~FoundTwice
                 PROVE  FindDirectory(reply.data) = reply.target
    BY DEF PathLeadsBack
  <2>2. PICK ps : ArePaths(ps) /\ reply.data = ps[reply.target]
    BY <2>1 DEF PathsInv
  <2>3. Found(reply.target)
    BY <2>1 DEF PathsInv
  <2> QED BY <2>1, <2>2, <2>3, PathFinds
<1> QED BY TreeInvariant, OpenInvariant, <1>1, <1>2, <1>3, PTL DEF Spec

-----------------------------------------------------------------------------
(* Types.                                                                  *)

\* A bounded set of numbers has a greatest element.
LEMMA GreatestOf ==
  ASSUME NEW n \in Nat, NEW T, T \subseteq 1 .. n, T # {}
  PROVE  Max(T) \in T
<1> DEFINE U == {m \in Nat : \E x \in T : x >= m}
<1>1. \E x \in T : \A y \in T : y <= x
  <2> SUFFICES ASSUME \A x \in T : \E y \in T : ~(y <= x) PROVE FALSE
    OBVIOUS
  <2>1. 0 \in U
    <3>1. PICK x \in T : x \in 1 .. n
      OBVIOUS
    <3> QED BY <3>1
  <2>2. ASSUME NEW m \in Nat, m \in U PROVE m + 1 \in U
    <3>1. PICK x \in T : x >= m
      BY <2>2
    <3>2. PICK y \in T : ~(y <= x)
      OBVIOUS
    <3>3. x \in Nat /\ y \in Nat
      OBVIOUS
    <3>4. y >= m + 1
      BY <3>1, <3>2, <3>3
    <3> QED BY <3>4
  <2>3. n + 1 \in U
    <3> HIDE DEF U
    <3> QED BY <2>1, <2>2, AllNumbers
  <2>4. PICK x \in T : x >= n + 1
    BY <2>3
  <2> QED BY <2>4
<1>2. PICK g : g = Max(T)
  OBVIOUS
<1>3. g = CHOOSE x \in T : \A y \in T : x >= y
  BY <1>2 DEF Max
<1>4. \E x \in T : \A y \in T : x >= y
  <2>1. PICK x \in T : \A y \in T : y <= x
    BY <1>1
  <2>2. \A y \in T : x >= y
    <3>1. T \subseteq Int
      OBVIOUS
    <3> QED BY <2>1, <3>1
  <2> QED BY <2>2
<1>5. g \in T
  BY <1>3, <1>4
<1> QED BY <1>2, <1>5

\* vfs_find_file finds a file or none.
LEMMA FileFound ==
  ASSUME TreeInv, NEW path \in Paths
  PROVE  FindFile(path) \in {NoFile} \cup DOMAIN files
<1>1. PICK d : d = IF path = <<>> THEN NoDirectory ELSE FindDirectory(Front(path))
  OBVIOUS
<1>2. PICK found : found = IF d = NoDirectory THEN {}
                           ELSE {i \in DOMAIN directories[d].files : files[directories[d].files[i]].name = Last(path)}
  OBVIOUS
<1>3. FindFile(path) = IF found = {} THEN NoFile ELSE directories[d].files[Max(found)]
  BY <1>1, <1>2 DEF FindFile
<1>4. CASE found = {}
  BY <1>3, <1>4
<1>5. CASE found # {}
  <2>1. d # NoDirectory /\ path # <<>> /\ found \subseteq DOMAIN directories[d].files
    BY <1>1, <1>2, <1>5
  <2>2. path \in Seq(ToSet(path)) /\ Len(path) \in Nat
    BY CallsAssumption, LenProperties
  <2>3. Len(path) - 1 \in 0 .. Len(path)
    BY <2>1, <2>2, EmptySeq
  <2>4. Len(Front(path)) \in Nat
    BY <2>2, <2>3, Shortened DEF Front, IsSequence
  <2>5. d \in DOMAIN directories
    BY <1>1, <2>1, <2>4, DirectoryFound
  <2>6. InPlace(d)
    BY <2>5 DEF TreeInv, DirectoriesInv
  <2>7. directories[d].files \in Seq(Nat)
    BY <2>6 DEF InPlace, IsDirectory
  <2>8. DOMAIN directories[d].files = 1 .. Len(directories[d].files) /\ Len(directories[d].files) \in Nat
    BY <2>7, LenProperties
  <2>9. Max(found) \in DOMAIN directories[d].files
    BY <1>5, <2>1, <2>8, GreatestOf
  <2>10. directories[d].files[Max(found)] \in DOMAIN files
    BY <2>6, <2>9 DEF InPlace
  <2> QED BY <1>3, <1>5, <2>10
<1> QED BY <1>4, <1>5

\* A handle is at a position of 32 bits in a file of the volume.
TypedHandle(h) == h \in Handles /\ h.file \in {NoFile} \cup DOMAIN files
TypesInv ==
  /\ alive \in [Procs -> BOOLEAN]
  /\ \A p \in Procs : \A fd \in DOMAIN openfiles[p] : TypedHandle(openfiles[p][fd])

LEMMA SizeIsWord ==
  ASSUME TreeInv, NEW f \in DOMAIN files
  PROVE  files[f].size \in 0 .. Word - 1
BY DEF TreeInv, EntriesInv, IsEntry

LEMMA ClosedTyped == TypedHandle(Closed)
<1>1. 0 \in 0 .. Word - 1
  BY VolumesAssumption
<1> QED BY <1>1 DEF TypedHandle, Closed, Handles, NoFile

\* The handles of a process become others.
LEMMA HandlesTyped ==
  ASSUME TypesInv, HandlesInv, NEW p \in Procs, NEW t, \A fd \in DOMAIN t : TypedHandle(t[fd]),
         openfiles' = [openfiles EXCEPT ![p] = t], alive' \in [Procs -> BOOLEAN],
         DOMAIN files' = DOMAIN files
  PROVE  TypesInv'
<1>1. /\ openfiles'[p] = t /\ \A q \in Procs : q # p => openfiles'[q] = openfiles[q]
  BY DEF HandlesInv
<1>2. \A q \in Procs : \A fd \in DOMAIN openfiles'[q] : TypedHandle(openfiles'[q][fd])
  BY <1>1 DEF TypesInv
<1>3. \A h : TypedHandle(h)' <=> h \in Handles /\ h.file \in {NoFile} \cup DOMAIN files
  BY DEF TypedHandle, Handles
<1>4. (\A q \in Procs : \A fd \in DOMAIN openfiles[q] : TypedHandle(openfiles[q][fd]))'
  BY <1>2, <1>3 DEF TypedHandle
<1> QED BY <1>4 DEF TypesInv

LEMMA HandleAppended ==
  ASSUME TypesInv, HandlesInv, NEW p \in Procs, NEW h, TypedHandle(h)
  PROVE  \A fd \in DOMAIN Append(openfiles[p], h) : TypedHandle(Append(openfiles[p], h)[fd])
<1>1. PICK s : s = openfiles[p]
  OBVIOUS
<1>2. PICK t : t = Append(s, h)
  OBVIOUS
<1>3. /\ IsSequence(s) /\ Len(s) \in Nat /\ DOMAIN s = 1 .. Len(s)
  BY <1>1, SequenceFacts DEF HandlesInv
<1>4. DOMAIN t = 1 .. Len(s) + 1 /\ t[Len(s) + 1] = h /\ \A i \in DOMAIN s : t[i] = s[i]
  BY <1>2, <1>3, OneMore
<1>5. ASSUME NEW fd \in DOMAIN t PROVE TypedHandle(t[fd])
  <2>1. fd \in DOMAIN s \/ fd = Len(s) + 1
    BY <1>3, <1>4
  <2> QED BY <1>1, <1>4, <2>1 DEF TypesInv
<1> QED BY <1>1, <1>2, <1>5

\* How far a call moves.
LEMMA MovedIsWord ==
  ASSUME TreeInv, NEW f \in DOMAIN files, NEW loc \in 0 .. Word - 1, NEW len \in Nat, NEW write \in BOOLEAN
  PROVE  /\ AccessFile(write, f, len, loc).ret \in Int
         /\ Moved(loc, AccessFile(write, f, len, loc).ret, len) \in 0 .. Word - 1
<1>1. PICK bytes : bytes = ReadLength(files[f].size, loc, len)
  OBVIOUS
<1>2. Word \in Nat \ {0} /\ files[f].size \in Nat
  BY VolumesAssumption, SizeIsWord
<1>3. PICK left : left = (files[f].size - loc) % Word
  OBVIOUS
<1>4. left \in Nat
  BY <1>2, <1>3
<1>5. bytes \in Nat
  BY <1>1, <1>3, <1>4 DEF ReadLength
<1>6. PICK ret : ret = AccessFile(write, f, len, loc).ret
  OBVIOUS
<1>7. ret \in {-1, bytes}
  BY <1>1, <1>6 DEF AccessFile
<1>8. ret \in Int /\ loc + ret \in Int
  BY <1>5, <1>7
<1>9. (loc + ret) % Word \in 0 .. Word - 1
  BY <1>2, <1>8
<1> QED BY <1>6, <1>8, <1>9 DEF Moved

LEMMA TypesStep ==
  ASSUME TreeInv, OpenInv, TypesInv, [Next]_vars
  PROVE  TypesInv'
<1>0. HandlesInv /\ FilesInv
  BY DEF OpenInv
<1>1. CASE UNCHANGED openfiles /\ DOMAIN files' = DOMAIN files /\ alive' \in [Procs -> BOOLEAN]
  BY <1>1 DEF TypesInv, TypedHandle, Handles
<1>2. CASE Mounting
  <2>1. mount = "reading" /\ UNCHANGED <<openfiles, alive>>
    BY <1>2 DEF Mounting, MountStep, NextCluster, Return, SkipFree, TakeLongName, SkipDot, EnterDirectory,
                AddFile, Sees
  <2>2. \A p \in Procs : openfiles'[p] = <<>>
    BY <1>0, <2>1 DEF HandlesInv
  <2>3. DOMAIN <<>> = {}
    OBVIOUS
  <2> QED BY <2>1, <2>2, <2>3 DEF TypesInv
<1>3. ASSUME NEW call, CallFails(call) PROVE TypesInv'
  BY <1>1, <1>3 DEF CallFails, mountVars, TypesInv
<1>4. ASSUME NEW p \in Procs, NEW path \in Paths, NEW append \in BOOLEAN, Open(p, path, append) PROVE TypesInv'
  <2>1. PICK f : f = FindFile(path)
    OBVIOUS
  <2>2. CASE f = NoFile
    BY <1>3, <1>4, <2>1, <2>2 DEF Open
  <2>3. CASE f # NoFile
    <3>1. PICK h : h = [file |-> f, loc |-> IF append THEN files[f].size ELSE 0]
      OBVIOUS
    <3>2. f \in DOMAIN files
      BY <2>1, <2>3, FileFound
    <3>3. f \in Nat /\ 0 \in 0 .. Word - 1 /\ files[f].size \in 0 .. Word - 1
      BY <1>0, <3>2, VolumesAssumption, SizeIsWord, SequenceFacts DEF FilesInv
    <3>4. TypedHandle(h)
      BY <3>1, <3>2, <3>3 DEF TypedHandle, Handles
    <3>5. openfiles' = [openfiles EXCEPT ![p] = Append(openfiles[p], h)] /\ Count(f, 1) /\ alive' = alive
      BY <1>4, <2>1, <2>3, <3>1 DEF Open, AddHandle
    <3>6. DOMAIN files' = DOMAIN files
      BY <1>0, <3>5, FilesCounted
    <3>7. PICK t : t = Append(openfiles[p], h)
      OBVIOUS
    <3>8. \A fd \in DOMAIN t : TypedHandle(t[fd])
      BY <1>0, <3>4, <3>7, HandleAppended
    <3>9. openfiles' = [openfiles EXCEPT ![p] = t] /\ alive' \in [Procs -> BOOLEAN]
      BY <3>5, <3>7 DEF TypesInv
    <3> QED BY <1>0, <3>6, <3>8, <3>9, HandlesTyped
  <2> QED BY <2>2, <2>3
<1>5. ASSUME NEW p \in Procs, NEW path \in Paths, Exec(p, path) PROVE TypesInv'
  <2>1. CASE FindFile(path) = NoFile
    BY <1>3, <1>5, <2>1 DEF Exec
  <2>2. CASE FindFile(path) # NoFile
    <3>1. openfiles' = [openfiles EXCEPT ![p] = Append(openfiles[p], Closed)] /\ UNCHANGED <<files, alive>>
      BY <1>5, <2>2 DEF Exec, mountVars
    <3>2. PICK t : t = Append(openfiles[p], Closed)
      OBVIOUS
    <3>3. \A fd \in DOMAIN t : TypedHandle(t[fd])
      BY <1>0, <3>2, ClosedTyped, HandleAppended
    <3>4. openfiles' = [openfiles EXCEPT ![p] = t] /\ alive' \in [Procs -> BOOLEAN] /\ DOMAIN files' = DOMAIN files
      BY <3>1, <3>2 DEF TypesInv
    <3> QED BY <1>0, <3>3, <3>4, HandlesTyped
  <2> QED BY <2>1, <2>2
<1>6. ASSUME NEW p \in Procs, NEW path, Chdir(p, path) PROVE TypesInv'
  BY <1>1, <1>3, <1>6 DEF Chdir, mountVars, TypesInv
<1>7. ASSUME NEW p \in Procs, NEW fd, Close(p, fd) PROVE TypesInv'
  <2>1. CASE ~IsOpen(p, fd)
    BY <1>3, <1>7, <2>1 DEF Close
  <2>2. CASE IsOpen(p, fd)
    <3>1. PICK s : s = openfiles[p]
      OBVIOUS
    <3>2. PICK t : t = [s EXCEPT ![fd] = Closed]
      OBVIOUS
    <3>3. /\ openfiles' = [openfiles EXCEPT ![p] = t] /\ alive' = alive
          /\ \E f : Count(f, ClosedCountDown)
      BY <1>7, <2>2, <3>1, <3>2 DEF Close
    <3>4. DOMAIN files' = DOMAIN files
      BY <1>0, <3>3, FilesCounted
    <3>5. \A n \in DOMAIN t : TypedHandle(t[n])
      BY <3>1, <3>2, ClosedTyped DEF TypesInv
    <3> QED BY <1>0, <3>3, <3>4, <3>5, HandlesTyped DEF TypesInv
  <2> QED BY <2>1, <2>2
<1>8. ASSUME NEW p \in Procs, NEW fd, NEW len \in Nat, NEW write \in BOOLEAN, Access(p, fd, len, write)
      PROVE  TypesInv'
  <2>1. CASE ~IsOpen(p, fd)
    BY <1>3, <1>8, <2>1 DEF Access
  <2>2. CASE IsOpen(p, fd)
    <3>1. PICK s : s = openfiles[p]
      OBVIOUS
    <3>2. PICK h : h = s[fd]
      OBVIOUS
    <3>3. fd \in DOMAIN s /\ h # Closed /\ TypedHandle(h) /\ IsHandle(h)
      BY <1>0, <2>2, <3>1, <3>2 DEF IsOpen, TypesInv, HandlesInv
    <3>4. h.file \in DOMAIN files /\ h.file \in Nat /\ h.loc \in 0 .. Word - 1
      BY <3>3 DEF IsHandle, TypedHandle, Handles
    <3>5. PICK loc : loc = Moved(h.loc, AccessFile(write, h.file, len, h.loc).ret, len)
      OBVIOUS
    <3>6. loc \in 0 .. Word - 1
      BY <3>4, <3>5, MovedIsWord
    <3>7. PICK g : g = [h EXCEPT !.loc = loc]
      OBVIOUS
    <3>8. TypedHandle(g)
      BY <3>3, <3>4, <3>6, <3>7 DEF TypedHandle, Handles
    <3>9. PICK t : t = [s EXCEPT ![fd] = g]
      OBVIOUS
    <3>10. openfiles' = [openfiles EXCEPT ![p] = t] /\ UNCHANGED <<files, alive>>
      <4>1. openfiles' = [openfiles EXCEPT ![p][fd].loc = loc] /\ UNCHANGED <<files, alive>>
        BY <1>8, <2>2, <3>1, <3>2, <3>5 DEF Access, mountVars
      <4> QED BY <3>1, <3>2, <3>7, <3>9, <4>1
    <3>11. \A n \in DOMAIN t : TypedHandle(t[n])
      BY <3>1, <3>8, <3>9 DEF TypesInv
    <3>12. alive' \in [Procs -> BOOLEAN] /\ DOMAIN files' = DOMAIN files
      BY <3>10 DEF TypesInv
    <3> QED BY <1>0, <3>10, <3>11, <3>12, HandlesTyped
  <2> QED BY <2>1, <2>2
<1>9. ASSUME NEW p \in Procs, Exit(p) PROVE TypesInv'
  <2>1. alive' \in [Procs -> BOOLEAN]
    BY <1>9 DEF Exit, TypesInv
  <2> QED BY <1>1, <1>9, <2>1 DEF Exit, mountVars
<1>10. CASE UNCHANGED vars
  BY <1>1, <1>10 DEF vars, mountVars, TypesInv
<1>11. CASE Next
  <2>1. CASE \E p \in Procs : \E fd \in 1 .. (MaxOpens + 1) :
               \E len \in Lengths : Read(p, fd, len) \/ Write(p, fd, len)
    BY <1>8, <2>1, CallsAssumption DEF Read, Write
  <2> QED BY <1>2, <1>4, <1>5, <1>6, <1>7, <1>9, <1>11, <2>1 DEF Next
<1> QED BY <1>10, <1>11

\* The tree of directories that vfat_read_directory builds and the open files
\* of all processes have their types: positions stay 32 bits wide, and files and
\* directories refer to each other by numbers that exist.
THEOREM TypeCorrect == Spec => []TypeOK
<1>1. Init => TypesInv
  BY DEF Init, TypesInv
<1>2. TreeInv /\ OpenInv /\ TypesInv /\ [Next]_vars => TypesInv'
  BY TypesStep
<1>3. TreeInv /\ TypesInv => TypeOK
  <2>1. SUFFICES ASSUME TreeInv, TypesInv PROVE TypeOK
    OBVIOUS
  <2>2. ASSUME NEW d \in DOMAIN directories
        PROVE  /\ directories[d].parent \in 0 .. (d - 1)
               /\ ToSet(directories[d].dirs) \subseteq (d + 1) .. Len(directories)
               /\ ToSet(directories[d].files) \subseteq DOMAIN files
    <3>1. InPlace(d)
      BY <2>1 DEF TreeInv, DirectoriesInv
    <3>2. /\ DOMAIN directories = 1 .. Len(directories) /\ Len(directories) \in Nat
          /\ \A i \in DOMAIN directories[d].dirs : i \in Nat /\ i >= 1
      BY <2>1, FewSubdirectories
    <3>3. \A i \in DOMAIN directories[d].dirs : directories[d].dirs[i] \in (d + 1) .. Len(directories)
      BY <3>1, <3>2 DEF InPlace
    <3> QED BY <3>1, <3>3 DEF InPlace, ToSet
  <2>3. \A f \in DOMAIN files : files[f].id \in DOMAIN fentries /\ files[f].parent \in DOMAIN directories
    BY <2>1 DEF TreeInv, EntriesInv
  <2>4. volume \in Volumes /\ mount \in {"reading", "lost", "mounted"}
    BY <2>1 DEF TreeInv, EntriesInv
  <2> QED BY <2>1, <2>2, <2>3, <2>4 DEF TypeOK, TypesInv, TypedHandle
<1> QED BY TreeInvariant, OpenInvariant, <1>1, <1>2, <1>3, PTL DEF Spec

-----------------------------------------------------------------------------
(* Bytes in clusters.                                                      *)

LEMMA TimesKeeps ==
  ASSUME NEW a \in Nat, NEW b \in Nat, NEW c \in Nat, a <= b
  PROVE  a * c <= b * c /\ a * c \in Nat
<1>1. PICK d \in Nat : b = a + d
  <2>1. b - a \in Nat /\ b = a + (b - a)
    OBVIOUS
  <2> QED BY <2>1
<1>2. d * c \in Nat /\ a * c \in Nat
  BY SMT
<1>3. b * c = a * c + d * c
  BY <1>1, SMT
<1> QED BY <1>2, <1>3

LEMMA PlaceInParts ==
  ASSUME NEW q \in Nat \ {0}, NEW c \in Nat \ {0}
  PROVE  \E i \in Nat, r \in 1 .. c : q = i * c + r
<1>1. (q - 1) \div c \in Nat /\ (q - 1) % c \in 0 .. c - 1 /\ q - 1 = c * ((q - 1) \div c) + ((q - 1) % c)
  OBVIOUS
<1>2. PICK i \in Nat : i = (q - 1) \div c
  BY <1>1
<1>3. PICK r \in 0 .. c - 1 : r = (q - 1) % c
  BY <1>1
<1>4. q - 1 = i * c + r
  BY <1>1, <1>2, <1>3
<1>5. i * c \in Nat
  BY SMT
<1>6. q = i * c + (r + 1) /\ r + 1 \in 1 .. c
  BY <1>3, <1>4, <1>5
<1> QED BY <1>6

LEMMA PartsEnough ==
  ASSUME NEW n \in Nat \ {0}, NEW c \in Nat \ {0}
  PROVE (n + c - 1) \div c \in Nat \ {0}
<1>1. n + c - 1 \in Nat /\ n + c - 1 >= c
  OBVIOUS
<1>2. PICK m : m = n + c - 1
  OBVIOUS
<1>3. m \div c \in Nat /\ m % c \in 0 .. c - 1 /\ m = c * (m \div c) + (m % c)
  BY <1>1, <1>2
<1>4. m \div c # 0
  BY <1>1, <1>2, <1>3
<1> QED BY <1>2, <1>3, <1>4

LEMMA NextPart ==
  ASSUME NEW i \in Nat, NEW c \in Nat
  PROVE (i + 1) * c = i * c + c
OBVIOUS

\* What FlattenSeq makes of the first parts.
Flat(f, parts, i) == IF i = 1 THEN parts[i] ELSE f[i - 1] \o parts[i]
IsFlatUpTo(f, parts, m) == f = [i \in 1 .. m |-> Flat(f, parts, i)]
IsFlat(f, parts) ==
  f = [i \in 1..Len(parts) |-> IF i = 1 THEN parts[i] ELSE f[i-1] \o parts[i]]

LEMMA FlatExists ==
  ASSUME NEW parts, Len(parts) \in Nat
  PROVE  \E f : IsFlat(f, parts)
<1> DEFINE T == {m \in Nat : \E f : IsFlatUpTo(f, parts, m)}
<1>1. 0 \in T
  <2>1. PICK f : f = [i \in 1 .. 0 |-> <<>>]
    OBVIOUS
  <2>2. \A i : i \notin 1 .. 0
    OBVIOUS
  <2>3. IsFlatUpTo(f, parts, 0)
    BY <2>1, <2>2 DEF IsFlatUpTo
  <2> QED BY <2>3
<1>2. ASSUME NEW m \in Nat, m \in T PROVE m + 1 \in T
  <2>1. PICK f : f = [i \in 1 .. m |-> Flat(f, parts, i)]
    BY <1>2 DEF IsFlatUpTo
  <2>2. PICK x : x = Flat(f, parts, m + 1)
    OBVIOUS
  <2>3. PICK g : g = [i \in 1 .. m + 1 |-> IF i = m + 1 THEN x ELSE f[i]]
    OBVIOUS
  <2>4. \A i \in 1 .. m : i \in 1 .. m + 1 /\ i # m + 1 /\ g[i] = f[i]
    BY <2>3
  <2>5. ASSUME NEW i \in 1 .. m + 1 PROVE Flat(g, parts, i) = Flat(f, parts, i)
    <3>1. CASE i = 1
      BY <3>1 DEF Flat
    <3>2. CASE i # 1
      <4>1. i - 1 \in 1 .. m
        BY <3>2
      <4>2. g[i - 1] = f[i - 1]
        BY <2>4, <4>1
      <4> QED BY <4>2 DEF Flat
    <3> QED BY <3>1, <3>2
  <2>6. ASSUME NEW i \in 1 .. m + 1 PROVE g[i] = Flat(g, parts, i)
    <3>1. CASE i = m + 1
      BY <2>2, <2>3, <2>5, <3>1
    <3>2. CASE i # m + 1
      <4>1. i \in 1 .. m
        BY <3>2
      <4>2. f[i] = Flat(f, parts, i)
        BY <2>1, <4>1
      <4> QED BY <2>4, <2>5, <4>1, <4>2
    <3> QED BY <3>1, <3>2
  <2>7. IsFlatUpTo(g, parts, m + 1)
    BY <2>3, <2>6 DEF IsFlatUpTo
  <2> QED BY <2>7
<1>3. Len(parts) \in T
  <2> HIDE DEF T
  <2> QED BY <1>1, <1>2, AllNumbers
<1>4. PICK f : IsFlatUpTo(f, parts, Len(parts))
  BY <1>3
<1> QED BY <1>4, Zenon DEF IsFlatUpTo, IsFlat, Flat

\* Parts of one size lie one behind the other.
LiesInParts(flat, parts, size, m) ==
  /\ IsSequence(flat) /\ Len(flat) = m * size
  /\ \A i \in Nat, r \in 1 .. size :
       i < m => i * size + r \in 1 .. m * size /\ flat[i * size + r] = parts[i + 1][r]

LEMMA PartAdded ==
  ASSUME NEW size \in Nat \ {0}, NEW m \in Nat, NEW parts, NEW flat, LiesInParts(flat, parts, size, m),
         IsSequence(parts[m + 1]), Len(parts[m + 1]) = size
  PROVE  LiesInParts(flat \o parts[m + 1], parts, size, m + 1)
<1>1. PICK t : t = parts[m + 1]
  OBVIOUS
<1>2. PICK both : both = flat \o t
  OBVIOUS
<1>3. PICK len : len = m * size
  OBVIOUS
<1>4. len \in Nat /\ (m + 1) * size = len + size
  BY <1>3, TimesKeeps, NextPart
<1>5. /\ IsSequence(both) /\ Len(both) = len + size
      /\ \A i \in 1 .. len + size : both[i] = IF i <= len THEN flat[i] ELSE t[i - len]
  <2>1. IsSequence(flat) /\ Len(flat) = len /\ IsSequence(t) /\ Len(t) = size
    BY <1>1, <1>3 DEF LiesInParts
  <2>2. /\ IsSequence(flat \o t) /\ Len(flat \o t) = Len(flat) + Len(t)
        /\ \A i \in 1 .. Len(flat) + Len(t) :
             (flat \o t)[i] = IF i <= Len(flat) THEN flat[i] ELSE t[i - Len(flat)]
    BY <2>1, Joined
  <2> QED BY <1>2, <2>1, <2>2
<1>6. ASSUME NEW i \in Nat, NEW r \in 1 .. size, i < m + 1
      PROVE  i * size + r \in 1 .. len + size /\ both[i * size + r] = parts[i + 1][r]
  <2>1. CASE i = m
    <3>1. i * size + r = len + r
      BY <1>3, <2>1
    <3>2. len + r \in 1 .. len + size /\ ~(len + r <= len) /\ (len + r) - len = r
      BY <1>4
    <3> QED BY <1>1, <1>5, <2>1, <3>1, <3>2
  <2>2. CASE i # m
    <3>1. i < m
      BY <1>6, <2>2
    <3>2. PICK q : q = i * size + r
      OBVIOUS
    <3>3. q \in 1 .. len /\ flat[q] = parts[i + 1][r]
      BY <1>3, <3>1, <3>2 DEF LiesInParts
    <3>4. q \in 1 .. len + size /\ q <= len
      BY <1>4, <3>3
    <3>5. both[q] = flat[q]
      BY <1>5, <3>4
    <3> QED BY <3>2, <3>3, <3>4, <3>5
  <2> QED BY <2>1, <2>2
<1> QED BY <1>1, <1>2, <1>4, <1>5, <1>6 DEF LiesInParts

LEMMA PartsLie ==
  ASSUME NEW size \in Nat \ {0}, NEW parts, Len(parts) \in Nat \ {0},
         \A i \in 1 .. Len(parts) : IsSequence(parts[i]) /\ Len(parts[i]) = size
  PROVE  LiesInParts(FlattenSeq(parts), parts, size, Len(parts))
<1>1. PICK f : f = CHOOSE x : IsFlat(x, parts)
  OBVIOUS
<1>2. IsFlat(f, parts)
  BY <1>1, FlatExists
<1>3. FlattenSeq(parts) = f[Len(parts)]
  BY <1>1, Zenon DEF FlattenSeq, IsFlat
<1>4. PICK n \in Nat \ {0} : n = Len(parts)
  OBVIOUS
<1>5. \A i \in 1 .. n : f[i] = IF i = 1 THEN parts[i] ELSE f[i - 1] \o parts[i]
  BY <1>2, <1>4 DEF IsFlat
<1> DEFINE T == {m \in Nat : m + 1 <= n => LiesInParts(f[m + 1], parts, size, m + 1)}
<1>6. 0 \in T
  <2>1. f[1] = parts[1] /\ IsSequence(parts[1]) /\ Len(parts[1]) = size
    BY <1>4, <1>5
  <2>2. 1 * size = size /\ 0 * size = 0
    OBVIOUS
  <2>3. ASSUME NEW i \in Nat, NEW r \in 1 .. size, i < 1
        PROVE  i * size + r \in 1 .. 1 * size /\ f[1][i * size + r] = parts[i + 1][r]
    <3>1. i = 0 /\ i * size = 0
      BY <2>2, <2>3
    <3>2. i * size + r = r /\ i + 1 = 1
      BY <3>1
    <3> QED BY <2>1, <2>2, <3>2
  <2>4. LiesInParts(f[1], parts, size, 1)
    BY <2>1, <2>2, <2>3 DEF LiesInParts
  <2> QED BY <2>4
<1>7. ASSUME NEW m \in Nat, m \in T PROVE m + 1 \in T
  <2>1. SUFFICES ASSUME (m + 1) + 1 <= n PROVE LiesInParts(f[(m + 1) + 1], parts, size, (m + 1) + 1)
    OBVIOUS
  <2>2. PICK k : k = m + 1
    OBVIOUS
  <2>3. k \in Nat /\ k + 1 \in 1 .. n /\ k + 1 # 1 /\ (k + 1) - 1 = k /\ k <= n
    BY <2>1, <2>2
  <2>4. LiesInParts(f[k], parts, size, k)
    BY <1>7, <2>2, <2>3
  <2>5. f[k + 1] = f[k] \o parts[k + 1]
    BY <1>5, <2>3
  <2>6. IsSequence(parts[k + 1]) /\ Len(parts[k + 1]) = size
    BY <1>4, <2>3
  <2>7. LiesInParts(f[k + 1], parts, size, k + 1)
    BY <2>3, <2>4, <2>5, <2>6, PartAdded
  <2> QED BY <2>2, <2>7
<1>8. n - 1 \in T
  <2> HIDE DEF T
  <2> QED BY <1>6, <1>7, AllNumbers
<1>9. LiesInParts(f[n], parts, size, n)
  <2>1. (n - 1) + 1 = n /\ n <= n
    OBVIOUS
  <2> QED BY <1>8, <2>1
<1> QED BY <1>3, <1>4, <1>9

-----------------------------------------------------------------------------
(* Clusters in chains.                                                     *)

\* vfat_next_cluster, 0 .. n times from c.
HopAt(h, c, k) ==
  IF k = 0 THEN c ELSE IF h[k - 1] \in Clusters THEN volume.next[h[k - 1]] ELSE 0
IsHop(h, c, n) ==
  h = [k \in 0..n |-> IF k = 0 THEN c
                      ELSE IF h[k - 1] \in Clusters THEN volume.next[h[k - 1]] ELSE 0]

LEMMA HopPlaces ==
  ASSUME NEW n \in Nat, NEW c, NEW h, IsHop(h, c, n)
  PROVE  h[0] = c /\ \A k \in 1 .. n : h[k] = IF h[k - 1] \in Clusters THEN volume.next[h[k - 1]] ELSE 0
<1>1. h = [k \in 0 .. n |-> HopAt(h, c, k)]
  BY Zenon DEF IsHop, HopAt
<1>2. \A k \in 0 .. n : h[k] = HopAt(h, c, k)
  BY <1>1
<1>3. 0 \in 0 .. n /\ \A k \in 1 .. n : k \in 0 .. n /\ k # 0
  OBVIOUS
<1> QED BY <1>2, <1>3 DEF HopAt

LEMMA HopExists ==
  ASSUME NEW n \in Nat, NEW c
  PROVE  \E h : IsHop(h, c, n)
<1> DEFINE T == {m \in Nat : \E h : h = [k \in 0 .. m |-> HopAt(h, c, k)]}
<1>1. 0 \in T
  <2>1. PICK h : h = [k \in 0 .. 0 |-> c]
    OBVIOUS
  <2>2. \A k \in 0 .. 0 : h[k] = c /\ HopAt(h, c, k) = c
    BY <2>1 DEF HopAt
  <2> QED BY <2>1, <2>2
<1>2. ASSUME NEW m \in Nat, m \in T PROVE m + 1 \in T
  <2>1. PICK f : f = [k \in 0 .. m |-> HopAt(f, c, k)]
    BY <1>2
  <2>2. PICK x : x = HopAt(f, c, m + 1)
    OBVIOUS
  <2>3. PICK g : g = [k \in 0 .. m + 1 |-> IF k = m + 1 THEN x ELSE f[k]]
    OBVIOUS
  <2>4. \A k \in 0 .. m : k \in 0 .. m + 1 /\ k # m + 1 /\ g[k] = f[k]
    BY <2>3
  <2>5. ASSUME NEW k \in 0 .. m + 1 PROVE HopAt(g, c, k) = HopAt(f, c, k)
    <3>1. CASE k = 0
      BY <3>1 DEF HopAt
    <3>2. CASE k # 0
      <4>1. k - 1 \in 0 .. m
        BY <3>2
      <4>2. g[k - 1] = f[k - 1]
        BY <2>4, <4>1
      <4> QED BY <4>2 DEF HopAt
    <3> QED BY <3>1, <3>2
  <2>6. ASSUME NEW k \in 0 .. m + 1 PROVE g[k] = HopAt(g, c, k)
    <3>1. CASE k = m + 1
      BY <2>2, <2>3, <2>5, <3>1
    <3>2. CASE k # m + 1
      <4>1. k \in 0 .. m
        BY <3>2
      <4>2. f[k] = HopAt(f, c, k)
        BY <2>1, <4>1
      <4> QED BY <2>4, <2>5, <4>1, <4>2
    <3> QED BY <3>1, <3>2
  <2>7. g = [k \in 0 .. m + 1 |-> HopAt(g, c, k)]
    BY <2>3, <2>6
  <2> QED BY <2>7
<1>3. n \in T
  <2> HIDE DEF T
  <2> QED BY <1>1, <1>2, AllNumbers
<1>4. PICK h : h = [k \in 0 .. n |-> HopAt(h, c, k)]
  BY <1>3
<1> QED BY <1>4, Zenon DEF IsHop, HopAt

\* Going on from where one has got to.
LEMMA HopsOn ==
  ASSUME NEW n \in Nat, NEW c, NEW h, IsHop(h, c, n), NEW a \in 0 .. n, NEW b \in Nat, a + b <= n
  PROVE  Hop(h[a], b) = h[a + b]
<1>1. PICK g : g = CHOOSE x : IsHop(x, h[a], b)
  OBVIOUS
<1>2. IsHop(g, h[a], b)
  BY <1>1, HopExists
<1>3. Hop(h[a], b) = g[b]
  BY <1>1, Zenon DEF Hop, IsHop
<1>4. \A k \in 1 .. n : h[k] = IF h[k - 1] \in Clusters THEN volume.next[h[k - 1]] ELSE 0
  BY HopPlaces
<1>5. g[0] = h[a] /\ \A k \in 1 .. b : g[k] = IF g[k - 1] \in Clusters THEN volume.next[g[k - 1]] ELSE 0
  BY <1>2, HopPlaces
<1> DEFINE T == {m \in Nat : m <= b => g[m] = h[a + m]}
<1>6. 0 \in T
  BY <1>5
<1>7. ASSUME NEW m \in Nat, m \in T PROVE m + 1 \in T
  <2>1. SUFFICES ASSUME m + 1 <= b PROVE g[m + 1] = h[a + (m + 1)]
    OBVIOUS
  <2>2. PICK k : k = a + (m + 1)
    OBVIOUS
  <2>3. k \in 1 .. n /\ k - 1 = a + m /\ m + 1 \in 1 .. b /\ (m + 1) - 1 = m /\ m <= b
    BY <2>1, <2>2
  <2>4. g[m] = h[k - 1]
    BY <1>7, <2>3
  <2> QED BY <1>4, <1>5, <2>2, <2>3, <2>4
<1>8. b \in T
  <2> HIDE DEF T
  <2> QED BY <1>6, <1>7, AllNumbers
<1> QED BY <1>3, <1>8

\* The chains of the clusters of a volume.
ChainAt(ch, v, d) == <<d>> \o IF v.next[d] \in DOMAIN v.next THEN ch[v.next[d]] ELSE <<>>
AreChainsOn(ch, v, B) == ch = [d \in B |-> ChainAt(ch, v, d)]
AreChains(ch, v) ==
  ch = [d \in DOMAIN v.next |->
          <<d>> \o IF v.next[d] \in DOMAIN v.next THEN ch[v.next[d]] ELSE <<>>]

LEMMA ChainsExist ==
  ASSUME NEW v, v.next \in Seq(Nat), ChainsEnd(v)
  PROVE  \E ch : AreChains(ch, v)
<1>1. PICK D : D = DOMAIN v.next
  OBVIOUS
<1>2. PICK n : n = Len(v.next)
  OBVIOUS
<1>3. n \in Nat
  BY <1>2, LenProperties
<1>4. PICK left \in [D -> 0 .. n] : \A c \in D : v.next[c] \in D => left[v.next[c]] < left[c]
  BY <1>1, <1>2 DEF ChainsEnd
<1>5. PICK below : below = [m \in Nat |-> {c \in D : left[c] < m}]
  OBVIOUS
<1>6. \A m \in Nat : \A c : c \in below[m] <=> c \in D /\ left[c] < m
  BY <1>5
<1> DEFINE T == {m \in Nat : \E ch : AreChainsOn(ch, v, below[m])}
<1>7. 0 \in T
  <2>1. PICK ch : ch = [d \in {} |-> <<>>]
    OBVIOUS
  <2>2. below[0] = {}
    <3>1. \A c \in D : ~(left[c] < 0)
      BY <1>3, <1>4
    <3> QED BY <1>6, <3>1
  <2>3. AreChainsOn(ch, v, below[0])
    BY <2>1, <2>2 DEF AreChainsOn
  <2> QED BY <2>3
<1>8. ASSUME NEW m \in Nat, m \in T PROVE m + 1 \in T
  <2>1. PICK f : f = [d \in below[m] |-> ChainAt(f, v, d)]
    BY <1>8 DEF AreChainsOn
  <2>2. PICK g : g = [d \in below[m + 1] |-> ChainAt(f, v, d)]
    OBVIOUS
  <2>3. \A d \in below[m] : d \in below[m + 1]
    <3>1. \A d \in D : left[d] \in Nat
      BY <1>3, <1>4
    <3>2. \A d \in D : left[d] < m => left[d] < m + 1
      BY <3>1
    <3> QED BY <1>6, <3>2
  <2>4. \A d \in below[m] : g[d] = f[d]
    BY <2>1, <2>2, <2>3
  <2>5. ASSUME NEW d \in below[m + 1] PROVE ChainAt(g, v, d) = ChainAt(f, v, d)
    <3>1. CASE v.next[d] \notin DOMAIN v.next
      BY <3>1 DEF ChainAt
    <3>2. CASE v.next[d] \in DOMAIN v.next
      <4>1. PICK e : e = v.next[d]
        OBVIOUS
      <4>2. e \in D /\ left[e] < left[d] /\ left[d] < m + 1 /\ left[e] \in Nat /\ left[d] \in Nat
        BY <1>1, <1>3, <1>4, <1>6, <3>2, <4>1
      <4>3. left[e] < m
        BY <4>2
      <4>4. g[e] = f[e]
        BY <1>6, <2>4, <4>2, <4>3
      <4> QED BY <4>1, <4>4 DEF ChainAt
    <3> QED BY <3>1, <3>2
  <2>6. AreChainsOn(g, v, below[m + 1])
    <3>1. PICK B : B = below[m + 1]
      OBVIOUS
    <3>2. g = [d \in B |-> ChainAt(f, v, d)] /\ \A d \in B : ChainAt(g, v, d) = ChainAt(f, v, d)
      BY <2>2, <2>5, <3>1
    <3>3. g = [d \in B |-> ChainAt(g, v, d)]
      BY <3>2
    <3> QED BY <3>1, <3>3 DEF AreChainsOn
  <2> QED BY <2>6
<1>9. n + 1 \in T
  <2> HIDE DEF T
  <2> QED BY <1>3, <1>7, <1>8, AllNumbers
<1>10. PICK ch : ch = [d \in below[n + 1] |-> ChainAt(ch, v, d)]
  BY <1>9 DEF AreChainsOn
<1>11. below[n + 1] = DOMAIN v.next
  <2>1. \A c \in D : left[c] < n + 1
    BY <1>3, <1>4
  <2>2. n + 1 \in Nat
    BY <1>3
  <2>3. \A c : c \in below[n + 1] <=> c \in D
    BY <1>6, <2>1, <2>2
  <2> QED BY <1>1, <2>3
<1>12. ch = [d \in DOMAIN v.next |-> ChainAt(ch, v, d)]
  BY <1>10, <1>11
<1> QED BY <1>12, Zenon DEF AreChains, ChainAt

\* A chain begins with the cluster and goes on with the next one of each.
GoesOn(s, v, d) ==
  /\ IsSequence(s) /\ Len(s) \in Nat \ {0} /\ s[1] = d
  /\ \A k \in 1 .. Len(s) : s[k] \in DOMAIN v.next /\ (k < Len(s) => s[k + 1] = v.next[s[k]])
  /\ v.next[s[Len(s)]] \notin DOMAIN v.next

LEMMA ChainGoesOn ==
  ASSUME NEW v, v.next \in Seq(Nat), ChainsEnd(v), NEW c \in DOMAIN v.next
  PROVE  GoesOn(Chain(v, c), v, c)
<1>1. PICK ch : ch = CHOOSE x : AreChains(x, v)
  OBVIOUS
<1>2. AreChains(ch, v)
  BY <1>1, ChainsExist
<1>3. Chain(v, c) = ch[c]
  BY <1>1, Zenon DEF Chain, AreChains
<1>4. \A d \in DOMAIN v.next : ch[d] = ChainAt(ch, v, d)
  <2>1. ch = [d \in DOMAIN v.next |-> ChainAt(ch, v, d)]
    BY <1>2, Zenon DEF AreChains, ChainAt
  <2> QED BY <2>1
<1>5. PICK n : n = Len(v.next)
  OBVIOUS
<1>6. n \in Nat
  BY <1>5, LenProperties
<1>7. PICK D : D = DOMAIN v.next
  OBVIOUS
<1>8. PICK left \in [D -> 0 .. n] : \A d \in D : v.next[d] \in D => left[v.next[d]] < left[d]
  BY <1>5, <1>7 DEF ChainsEnd
<1> DEFINE T == {m \in Nat : \A d \in D : left[d] < m => GoesOn(ch[d], v, d)}
<1>9. 0 \in T
  BY <1>6, <1>8
<1>10. ASSUME NEW m \in Nat, m \in T PROVE m + 1 \in T
  <2>1. SUFFICES ASSUME NEW d \in D, left[d] < m + 1 PROVE GoesOn(ch[d], v, d)
    OBVIOUS
  <2>2. PICK e : e = v.next[d]
    OBVIOUS
  <2>3. <<d>> \in Seq({d}) /\ IsSequence(<<d>>) /\ Len(<<d>>) = 1 /\ <<d>>[1] = d
    <3>1. <<d>> \in Seq({d}) /\ Len(<<d>>) = 1 /\ <<d>>[1] = d
      OBVIOUS
    <3> QED BY <3>1 DEF IsSequence
  <2>4. CASE e \notin D
    <3>1. ch[d] = <<d>> \o <<>>
      BY <1>4, <1>7, <2>2, <2>4 DEF ChainAt
    <3>2. <<d>> \o <<>> = <<d>>
      BY <2>3, ConcatEmptySeq
    <3> QED BY <1>7, <2>2, <2>3, <2>4, <3>1, <3>2 DEF GoesOn
  <2>5. CASE e \in D
    <3>1. PICK t : t = ch[e]
      OBVIOUS
    <3>2. PICK s : s = <<d>> \o t
      OBVIOUS
    <3>3. ch[d] = s
      BY <1>4, <1>7, <2>2, <2>5, <3>1, <3>2 DEF ChainAt
    <3>4. left[e] < m
      <4>1. left[e] < left[d] /\ left[e] \in Nat /\ left[d] \in Nat
        BY <1>6, <1>8, <2>2, <2>5
      <4> QED BY <2>1, <4>1
    <3>5. GoesOn(t, v, e)
      BY <1>10, <2>5, <3>1, <3>4
    <3>6. PICK l \in Nat \ {0} : l = Len(t)
      BY <3>5 DEF GoesOn
    <3>7. /\ IsSequence(s) /\ Len(s) = 1 + l
          /\ \A k \in 1 .. 1 + l : s[k] = IF k <= 1 THEN <<d>>[k] ELSE t[k - 1]
      <4>1. IsSequence(t)
        BY <3>5 DEF GoesOn
      <4>2. /\ IsSequence(<<d>> \o t) /\ Len(<<d>> \o t) = Len(<<d>>) + Len(t)
            /\ \A k \in 1 .. Len(<<d>>) + Len(t) :
                 (<<d>> \o t)[k] = IF k <= Len(<<d>>) THEN <<d>>[k] ELSE t[k - Len(<<d>>)]
        BY <2>3, <4>1, Joined
      <4> QED BY <2>3, <3>2, <3>6, <4>2
    <3>8. s[1] = d /\ \A k \in 2 .. 1 + l : s[k] = t[k - 1]
      <4>1. 1 \in 1 .. 1 + l /\ \A k \in 2 .. 1 + l : k \in 1 .. 1 + l /\ ~(k <= 1)
        OBVIOUS
      <4> QED BY <2>3, <3>7, <4>1
    <3>9. ASSUME NEW k \in 1 .. 1 + l
          PROVE  s[k] \in DOMAIN v.next /\ (k < 1 + l => s[k + 1] = v.next[s[k]])
      <4>1. CASE k = 1
        <5>1. 2 \in 2 .. 1 + l /\ s[2] = t[1] /\ t[1] = e
          BY <3>5, <3>8 DEF GoesOn
        <5> QED BY <1>7, <2>2, <3>8, <4>1, <5>1
      <4>2. CASE k # 1
        <5>1. k \in 2 .. 1 + l /\ k - 1 \in 1 .. l /\ (k - 1) + 1 = k
          BY <4>2
        <5>2. s[k] = t[k - 1] /\ t[k - 1] \in DOMAIN v.next
          BY <3>5, <3>6, <3>8, <5>1 DEF GoesOn
        <5>3. ASSUME k < 1 + l PROVE s[k + 1] = v.next[s[k]]
          <6>1. k + 1 \in 2 .. 1 + l /\ (k + 1) - 1 = k /\ k - 1 < l
            BY <5>1, <5>3
          <6>2. s[k + 1] = t[k]
            BY <3>8, <6>1
          <6>3. t[(k - 1) + 1] = v.next[t[k - 1]]
            BY <3>5, <3>6, <5>1, <6>1 DEF GoesOn
          <6> QED BY <5>1, <5>2, <6>2, <6>3
        <5> QED BY <5>2, <5>3
      <4> QED BY <4>1, <4>2
    <3>10. Len(s) = 1 + l /\ 1 + l \in Nat \ {0}
      BY <3>7
    <3>11. v.next[s[Len(s)]] \notin DOMAIN v.next
      <4>1. 1 + l \in 2 .. 1 + l /\ (1 + l) - 1 = l
        OBVIOUS
      <4>2. s[1 + l] = t[l]
        BY <3>8, <4>1
      <4> QED BY <3>5, <3>6, <3>10, <4>2 DEF GoesOn
    <3> QED BY <3>3, <3>7, <3>8, <3>9, <3>10, <3>11 DEF GoesOn
  <2> QED BY <2>4, <2>5
<1>11. n + 1 \in T
  <2> HIDE DEF T
  <2> QED BY <1>6, <1>9, <1>10, AllNumbers
<1>12. left[c] < n + 1 /\ c \in D
  BY <1>6, <1>7, <1>8
<1> QED BY <1>3, <1>11, <1>12

\* The clusters of a chain are those that vfat_next_cluster leads to.
LEMMA HopsInChain ==
  ASSUME NEW s, NEW c, GoesOn(s, volume, c), NEW n \in Nat, NEW h, IsHop(h, c, n),
         NEW k \in Nat, k <= n, k < Len(s)
  PROVE  h[k] = s[k + 1]
<1>1. h[0] = c /\ \A j \in 1 .. n : h[j] = IF h[j - 1] \in Clusters THEN volume.next[h[j - 1]] ELSE 0
  BY HopPlaces
<1>2. Len(s) \in Nat
  BY DEF GoesOn
<1> DEFINE T == {m \in Nat : m <= n /\ m < Len(s) => h[m] = s[m + 1]}
<1>3. 0 \in T
  BY <1>1 DEF GoesOn
<1>4. ASSUME NEW m \in Nat, m \in T PROVE m + 1 \in T
  <2>1. SUFFICES ASSUME m + 1 <= n, m + 1 < Len(s) PROVE h[m + 1] = s[(m + 1) + 1]
    OBVIOUS
  <2>2. PICK j : j = m + 1
    OBVIOUS
  <2>3. j \in 1 .. n /\ j - 1 = m /\ j \in 1 .. Len(s) /\ j < Len(s) /\ m <= n /\ m < Len(s)
    BY <1>2, <2>1, <2>2
  <2>4. h[m] = s[j]
    BY <1>4, <2>2, <2>3
  <2>5. s[j] \in Clusters /\ s[j + 1] = volume.next[s[j]]
    BY <2>3 DEF GoesOn, Clusters
  <2> QED BY <1>1, <2>2, <2>3, <2>4, <2>5
<1>5. k \in T
  <2> HIDE DEF T
  <2> QED BY <1>3, <1>4, AllNumbers
<1> QED BY <1>5

-----------------------------------------------------------------------------
(* Reading.                                                                *)

\* The bytes of a cluster.
LEMMA ClusterHasBytes ==
  ASSUME NEW c
  PROVE  IsSequence(ClusterBytes(c)) /\ Len(ClusterBytes(c)) = ClusterSize
<1>1. ClusterSize \in Nat
  BY VolumesAssumption
<1>2. PICK s : s = ClusterBytes(c)
  OBVIOUS
<1>3. \E S : \E e \in [1 .. ClusterSize -> S] : s = e
  <2>1. s = [k \in 1 .. ClusterSize |-> IF c \in Clusters THEN <<c, k>> ELSE Garbage]
    BY <1>2 DEF ClusterBytes
  <2>2. PICK S : S = {s[k] : k \in 1 .. ClusterSize}
    OBVIOUS
  <2>3. s \in [1 .. ClusterSize -> S]
    BY <2>1, <2>2
  <2> QED BY <2>3
<1>4. PICK S : s \in [1 .. ClusterSize -> S]
  BY <1>3
<1>5. s \in Seq(S) /\ Len(s) = ClusterSize
  BY <1>1, <1>4
<1> QED BY <1>2, <1>5 DEF IsSequence

\* What a read yields: the bytes in the clusters from the one with the position
\* on, as far as those that were read go.
YieldsAlong(h, loc, ret, data) ==
  \A i \in Nat, r \in 1 .. ClusterSize, k \in 1 .. ret :
    i < Clustered(ret) /\ (loc % ClusterSize) + k = i * ClusterSize + r =>
      data[k] = ClusterBytes(h[(loc \div ClusterSize) + i])[r]
Yields(f, loc, ret, data) ==
  /\ f \in DOMAIN files /\ loc \in Nat /\ ret \in Nat \ {0} /\ data = [k \in 1 .. ret |-> data[k]]
  /\ \E n, h :
       /\ n \in Nat /\ IsHop(h, fentries[files[f].id].cluster, n) /\ (loc \div ClusterSize) + Clustered(ret) <= n
       /\ YieldsAlong(h, loc, ret, data)

\* vfat_accessfile.
LEMMA AccessYields ==
  ASSUME TreeInv, NEW f \in DOMAIN files, NEW len \in Nat, NEW loc \in 0 .. Word - 1,
         NEW write \in BOOLEAN, ~write,
         NEW result, result = AccessFile(write, f, len, loc), NEW ret, ret = result.ret, ret > 0,
         NEW data, data = result.data
  PROVE  Yields(f, loc, ret, data)
<1>1. ClusterSize \in Nat \ {0} /\ Word \in Nat \ {0} /\ loc \in Nat
  BY VolumesAssumption
<1>2. PICK bytes : bytes = ReadLength(files[f].size, loc, len)
  OBVIOUS
<1>3. PICK buf : buf = Tempbuf(f, loc, bytes)
  OBVIOUS
<1>5. result = IF bytes >= Word \div 2 THEN [ret |-> -1, data |-> <<>>]
               ELSE [ret |-> bytes,
                     data |-> [k \in 1 .. bytes |->
                                 IF (loc % ClusterSize) + k \in DOMAIN buf
                                   THEN buf[(loc % ClusterSize) + k] ELSE Garbage]]
  BY <1>2, <1>3 DEF AccessFile
<1>6. bytes \in Nat
  <2>1. files[f].size \in Nat
    BY <1>1, SizeIsWord
  <2>2. PICK left : left = (files[f].size - loc) % Word
    OBVIOUS
  <2>3. left \in Nat
    BY <1>1, <2>1, <2>2
  <2> QED BY <1>2, <2>2, <2>3 DEF ReadLength
<1>8. ~(bytes >= Word \div 2)
  <2> SUFFICES ASSUME bytes >= Word \div 2 PROVE FALSE
    OBVIOUS
  <2>1. result.ret = -1
    BY <1>5
  <2> QED BY <2>1
<1>9. /\ ret = bytes /\ ret \in Nat \ {0}
      /\ data = [k \in 1 .. bytes |->
                   IF (loc % ClusterSize) + k \in DOMAIN buf THEN buf[(loc % ClusterSize) + k] ELSE Garbage]
  <2>1. PICK d : d = [k \in 1 .. bytes |->
                        IF (loc % ClusterSize) + k \in DOMAIN buf THEN buf[(loc % ClusterSize) + k] ELSE Garbage]
    OBVIOUS
  <2>2. result = [ret |-> bytes, data |-> d]
    BY <1>5, <1>8, <2>1
  <2>3. ret = bytes /\ data = d
    BY <2>2
  <2> QED BY <1>6, <2>1, <2>3
<1>10. PICK m : m = Clustered(ret)
  OBVIOUS
<1>11. m \in Nat \ {0}
  BY <1>1, <1>9, <1>10, PartsEnough DEF Clustered
<1>12. PICK a : a = loc \div ClusterSize
  OBVIOUS
<1>13. a \in Nat
  BY <1>1, <1>12
<1>14. PICK first : first = fentries[files[f].id].cluster
  OBVIOUS
<1>15. PICK n : n = a + m
  OBVIOUS
<1>16. n \in Nat /\ a \in 0 .. n
  BY <1>11, <1>13, <1>15
<1>17. PICK h : IsHop(h, first, n)
  BY <1>16, HopExists
<1>18. PICK parts : parts = [i \in 1 .. m |-> ClusterBytes(Hop(Hop(first, a), i - 1))]
  OBVIOUS
<1>19. buf = FlattenSeq(parts)
  BY <1>3, <1>9, <1>10, <1>12, <1>14, <1>18 DEF Tempbuf, FirstCluster
<1>20. Hop(first, a) = h[a]
  <2>1. h[0] = first
    BY <1>16, <1>17, HopPlaces
  <2>2. 0 \in 0 .. n /\ 0 + a <= n /\ 0 + a = a
    BY <1>16
  <2>3. Hop(h[0], a) = h[0 + a]
    BY <1>13, <1>16, <1>17, <2>2, HopsOn
  <2> QED BY <2>1, <2>2, <2>3
<1>21. \A i \in 1 .. m : parts[i] = ClusterBytes(h[a + (i - 1)])
  <2>1. SUFFICES ASSUME NEW i \in 1 .. m PROVE Hop(h[a], i - 1) = h[a + (i - 1)]
    BY <1>18, <1>20
  <2>2. i - 1 \in Nat /\ a + (i - 1) <= n
    BY <1>11, <1>13, <1>15
  <2> QED BY <1>16, <1>17, <2>2, HopsOn
<1>22. Len(parts) = m
  <2>1. parts \in Seq({parts[i] : i \in 1 .. m})
    <3>1. PICK S : S = {parts[i] : i \in 1 .. m}
      OBVIOUS
    <3>2. parts \in [1 .. m -> S]
      BY <1>18, <3>1
    <3> QED BY <1>11, <3>1, <3>2
  <2>2. DOMAIN parts = 1 .. m
    BY <1>18
  <2>3. DOMAIN parts = 1 .. Len(parts) /\ Len(parts) \in Nat
    BY <2>1, LenProperties
  <2> QED BY <1>11, <2>2, <2>3
<1>23. LiesInParts(buf, parts, ClusterSize, m)
  <2>1. \A i \in 1 .. m : IsSequence(parts[i]) /\ Len(parts[i]) = ClusterSize
    BY <1>21, ClusterHasBytes
  <2> QED BY <1>1, <1>11, <1>19, <1>22, <2>1, PartsLie
<1>24. ASSUME NEW i \in Nat, NEW r \in 1 .. ClusterSize, NEW k \in 1 .. ret,
              i < m, (loc % ClusterSize) + k = i * ClusterSize + r
       PROVE  data[k] = ClusterBytes(h[a + i])[r]
  <2>1. PICK q : q = (loc % ClusterSize) + k
    OBVIOUS
  <2>2. q \in 1 .. m * ClusterSize /\ buf[q] = parts[i + 1][r]
    BY <1>23, <1>24, <2>1 DEF LiesInParts
  <2>3. DOMAIN buf = 1 .. m * ClusterSize
    BY <1>23, SequenceFacts DEF LiesInParts
  <2>4. data[k] = buf[q]
    BY <1>9, <2>1, <2>2, <2>3
  <2>5. i + 1 \in 1 .. m /\ a + ((i + 1) - 1) = a + i
    BY <1>11, <1>13, <1>24
  <2>6. parts[i + 1] = ClusterBytes(h[a + i])
    BY <1>21, <2>5
  <2> QED BY <2>2, <2>4, <2>6
<1>25. data = [k \in 1 .. ret |-> data[k]]
  BY <1>9
<1>26. YieldsAlong(h, loc, ret, data)
  BY <1>10, <1>12, <1>24 DEF YieldsAlong
<1>27. (loc \div ClusterSize) + Clustered(ret) <= n
  <2>1. a + m <= n
    BY <1>15, <1>16
  <2> QED BY <1>10, <1>12, <2>1, Zenon
<1>28. IsHop(h, fentries[files[f].id].cluster, n)
  BY <1>14, <1>17
<1>29. f \in DOMAIN files /\ loc \in Nat /\ ret \in Nat \ {0}
  BY <1>1, <1>9
<1> QED BY <1>16, <1>25, <1>26, <1>27, <1>28, <1>29, Zenon DEF Yields

\* What the last read or exec yielded.
ReadInv ==
  (reply.call \in ReadingReplies /\ reply.ret > 0) =>
    Yields(reply.target, reply.loc, reply.ret, reply.data)

LEMMA SameYields ==
  ASSUME UNCHANGED <<volume, files, fentries>>, NEW f, NEW loc, NEW ret, NEW data, Yields(f, loc, ret, data)
  PROVE  Yields(f, loc, ret, data)'
<1>1. Clusters' = Clusters
  BY DEF Clusters
<1>2. \A h, c, n : IsHop(h, c, n)' <=> IsHop(h, c, n)
  BY <1>1, Zenon DEF IsHop
<1>3. \A c : ClusterBytes(c)' = ClusterBytes(c)
  BY <1>1, Zenon DEF ClusterBytes
<1>4. \A h : YieldsAlong(h, loc, ret, data)' <=> YieldsAlong(h, loc, ret, data)
  BY <1>3, Zenon DEF YieldsAlong
<1>5. PICK first : first = fentries[files[f].id].cluster
  OBVIOUS
<1>6. first = (fentries[files[f].id].cluster)' /\ (f \in DOMAIN files)'
  BY <1>5 DEF Yields
<1> QED BY <1>2, <1>4, <1>5, <1>6, Zenon DEF Yields

\* A reply to a read.
LEMMA ReplyYields ==
  ASSUME UNCHANGED <<volume, files, fentries>>, NEW call, NEW f, NEW loc, NEW ret, NEW data,
         ret > 0 => Yields(f, loc, ret, data), reply' = Reply(call, f, loc, ret, data)
  PROVE  ReadInv'
<1>1. reply'.target = f /\ reply'.loc = loc /\ reply'.ret = ret /\ reply'.data = data
  BY DEF Reply
<1>2. ASSUME ret > 0 PROVE Yields(f, loc, ret, data)'
  BY <1>2, SameYields
<1>3. ASSUME ret > 0 PROVE Yields(reply.target, reply.loc, reply.ret, reply.data)'
  BY <1>1, <1>2, <1>3
<1> QED BY <1>1, <1>3 DEF ReadInv

LEMMA ReadStep ==
  ASSUME TreeInv, OpenInv, PathsInv, TypesInv, ReadInv, [Next]_vars
  PROVE  ReadInv'
<1>1. CASE reply'.call \notin ReadingReplies
  BY <1>1 DEF ReadInv, ReadingReplies
<1>2. ASSUME NEW call, CallFails(call) PROVE ReadInv'
  <2>1. reply'.ret = -1
    BY <1>2 DEF CallFails, Failed, Reply
  <2>2. ~(reply'.ret > 0)
    BY <2>1
  <2> QED BY <2>2 DEF ReadInv
<1>3. CASE Mounting
  <2>1. mount = "reading" /\ reply' = reply
    BY <1>3 DEF Mounting, MountStep, NextCluster, Return, SkipFree, TakeLongName, SkipDot, EnterDirectory,
                AddFile, Sees
  <2>2. reply'.call = "none"
    BY <2>1 DEF PathsInv
  <2> QED BY <1>1, <2>2 DEF ReadingReplies
<1>4. ASSUME NEW p \in Procs, NEW path \in Paths, NEW append \in BOOLEAN, Open(p, path, append) PROVE ReadInv'
  BY <1>1, <1>2, <1>4 DEF Open, Reply, ReadingReplies
<1>5. ASSUME NEW p \in Procs, NEW path \in Paths, Exec(p, path) PROVE ReadInv'
  <2>1. CASE FindFile(path) = NoFile
    BY <1>2, <1>5, <2>1 DEF Exec
  <2>2. CASE FindFile(path) # NoFile
    <3>1. PICK f : f = FindFile(path)
      OBVIOUS
    <3>2. f \in DOMAIN files
      BY <2>2, <3>1, FileFound
    <3>3. PICK write \in BOOLEAN : ~write
      OBVIOUS
    <3>4. write = FALSE
      BY <3>3
    <3>5. PICK len : len = files[f].size
      OBVIOUS
    <3>6. len \in Nat /\ 0 \in 0 .. Word - 1
      <4>1. len \in 0 .. Word - 1 /\ Word \in Nat \ {0}
        BY <3>2, <3>5, SizeIsWord, VolumesAssumption
      <4> QED BY <4>1
    <3>7. PICK result : result = AccessFile(write, f, len, 0)
      OBVIOUS
    <3>8. PICK ret, data : ret = result.ret /\ data = result.data
      OBVIOUS
    <3>9. reply' = Reply("exec", f, 0, ret, data) /\ UNCHANGED mountVars
      BY <1>5, <2>2, <3>1, <3>4, <3>5, <3>7, <3>8, Zenon DEF Exec
    <3>10. ret > 0 => Yields(f, 0, ret, data)
      BY <3>2, <3>3, <3>6, <3>7, <3>8, AccessYields
    <3>11. UNCHANGED <<volume, files, fentries>>
      BY <3>9 DEF mountVars
    <3> QED BY <3>9, <3>10, <3>11, ReplyYields
  <2> QED BY <2>1, <2>2
<1>6. ASSUME NEW p \in Procs, NEW path, Chdir(p, path) PROVE ReadInv'
  <2>1. CASE FindDirectory(path) = NoDirectory
    BY <1>2, <1>6, <2>1 DEF Chdir
  <2>2. CASE FindDirectory(path) # NoDirectory
    BY <1>1, <1>6, <2>2 DEF Chdir, Reply, ReadingReplies
  <2> QED BY <2>1, <2>2
<1>7. ASSUME NEW p \in Procs, NEW fd, Close(p, fd) PROVE ReadInv'
  BY <1>1, <1>2, <1>7 DEF Close, Reply, ReadingReplies
<1>8. ASSUME NEW p \in Procs, NEW fd, NEW len \in Nat, NEW write \in BOOLEAN, Access(p, fd, len, write)
      PROVE  ReadInv'
  <2>1. CASE ~IsOpen(p, fd)
    BY <1>2, <1>8, <2>1 DEF Access
  <2>2. CASE IsOpen(p, fd)
    <3>1. PICK h : h = openfiles[p][fd]
      OBVIOUS
    <3>2. PICK f, loc : f = h.file /\ loc = h.loc
      OBVIOUS
    <3>3. fd \in DOMAIN openfiles[p] /\ h # Closed
      BY <2>2, <3>1 DEF IsOpen
    <3>4. f \in DOMAIN files /\ loc \in 0 .. Word - 1
      <4>1. IsHandle(h) /\ TypedHandle(h)
        BY <3>1, <3>3 DEF OpenInv, HandlesInv, TypesInv
      <4> QED BY <3>2, <3>3, <4>1 DEF IsHandle, TypedHandle, Handles
    <3>5. PICK result : result = AccessFile(write, f, len, loc)
      OBVIOUS
    <3>6. PICK ret, data : ret = result.ret /\ data = result.data
      OBVIOUS
    <3>7. PICK call : call = IF write THEN "write" ELSE "read"
      OBVIOUS
    <3>8. reply' = Reply(call, f, loc, ret, data) /\ UNCHANGED mountVars
      BY <1>8, <2>2, <3>1, <3>2, <3>5, <3>6, <3>7, Zenon DEF Access
    <3>9. UNCHANGED <<volume, files, fentries>>
      BY <3>8 DEF mountVars
    <3>10. CASE write
      BY <1>1, <3>7, <3>8, <3>10 DEF Reply, ReadingReplies
    <3>11. CASE ~write
      <4>1. ret > 0 => Yields(f, loc, ret, data)
        BY <3>4, <3>5, <3>6, <3>11, AccessYields
      <4> QED BY <3>8, <3>9, <4>1, ReplyYields
    <3> QED BY <3>10, <3>11
  <2> QED BY <2>1, <2>2
<1>9. ASSUME NEW p \in Procs, Exit(p) PROVE ReadInv'
  BY <1>1, <1>9 DEF Exit, Reply, ReadingReplies
<1>10. CASE UNCHANGED vars
  <2>1. UNCHANGED <<volume, files, fentries>> /\ reply' = reply
    BY <1>10 DEF vars, mountVars
  <2>2. PICK f, loc, ret, data : f = reply.target /\ loc = reply.loc /\ ret = reply.ret /\ data = reply.data
    OBVIOUS
  <2>3. ASSUME reply'.call \in ReadingReplies, reply'.ret > 0
        PROVE  Yields(reply.target, reply.loc, reply.ret, reply.data)'
    <3>1. Yields(f, loc, ret, data)
      BY <2>1, <2>2, <2>3 DEF ReadInv, ReadingReplies
    <3>2. Yields(f, loc, ret, data)'
      BY <2>1, <3>1, SameYields
    <3>3. f = reply'.target /\ loc = reply'.loc /\ ret = reply'.ret /\ data = reply'.data
      BY <2>1, <2>2
    <3> QED BY <3>2, <3>3
  <2> QED BY <2>3 DEF ReadInv, ReadingReplies
<1>11. CASE Next
  <2>1. CASE \E p \in Procs : \E fd \in 1 .. (MaxOpens + 1) :
               \E len \in Lengths : Read(p, fd, len) \/ Write(p, fd, len)
    BY <1>8, <2>1, CallsAssumption DEF Read, Write
  <2> QED BY <1>3, <1>4, <1>5, <1>6, <1>7, <1>9, <1>11, <2>1 DEF Next
<1> QED BY <1>10, <1>11

\* The number of clusters before a byte of the file is that of its chain.
LEMMA BeforeEnd ==
  ASSUME NEW a \in Nat, NEW n \in Nat, NEW c \in Nat \ {0}, NEW r \in 1 .. c, a * c + r <= n * c
  PROVE  a < n
<1> SUFFICES ASSUME n <= a PROVE FALSE
  OBVIOUS
<1>1. n * c <= a * c /\ n * c \in Nat
  BY TimesKeeps
<1>2. PICK x, y : x = n * c /\ y = a * c
  OBVIOUS
<1>3. x <= y /\ x \in Nat /\ y + r <= x
  BY <1>1, <1>2
<1>4. y \in Nat
  BY <1>2, TimesKeeps
<1> QED BY <1>3, <1>4

\* Positions, counted from the start of the file and from that of a cluster.
IsPlace(loc, c, a, k, i, r) ==
  /\ loc \in Nat /\ c \in Nat \ {0} /\ k \in Nat /\ i \in Nat /\ r \in Nat
  /\ a = loc \div c /\ (loc % c) + k = i * c + r

LEMMA Position ==
  ASSUME NEW loc, NEW c, NEW a, NEW k, NEW i, NEW r, IsPlace(loc, c, a, k, i, r)
  PROVE  a \in Nat /\ loc + k = (a + i) * c + r
<1>0. /\ loc \in Nat /\ c \in Nat \ {0} /\ k \in Nat /\ i \in Nat /\ r \in Nat
      /\ a = loc \div c /\ (loc % c) + k = i * c + r
  BY DEF IsPlace
<1>1. PICK b \in Nat : a \in Nat /\ loc = c * a + b /\ b + k = i * c + r
  <2>1. loc \div c \in Nat /\ loc % c \in Nat /\ loc = c * (loc \div c) + (loc % c)
    BY <1>0
  <2> QED BY <1>0, <2>1
<1>2. PICK x, y : x = c * a /\ y = i * c
  OBVIOUS
<1>3. x \in Nat /\ y \in Nat
  <2>1. a * c \in Nat /\ i * c \in Nat /\ a * c = c * a
    BY <1>0, <1>1, SMT
  <2> QED BY <1>2, <2>1
<1>4. (a + i) * c = x + y
  BY <1>0, <1>1, <1>2, SMT
<1>5. loc + k = (x + y) + r
  BY <1>0, <1>1, <1>2, <1>3
<1> QED BY <1>1, <1>4, <1>5

\* A function on the first numbers is a sequence.
LEMMA FunctionIsSequence ==
  ASSUME NEW n \in Nat, NEW t, DOMAIN t = 1 .. n, t = [k \in 1 .. n |-> t[k]]
  PROVE  IsSequence(t) /\ Len(t) = n
<1>1. PICK S : S = {t[k] : k \in 1 .. n}
  OBVIOUS
<1>2. t \in [1 .. n -> S]
  BY <1>1
<1>3. t \in Seq(S)
  BY <1>2
<1>4. DOMAIN t = 1 .. Len(t) /\ Len(t) \in Nat
  BY <1>3, LenProperties
<1> QED BY <1>3, <1>4 DEF IsSequence

\* The contents of a file lie in its chain.
LEMMA FileInChain ==
  ASSUME TreeInv, NEW f \in DOMAIN files, files[f].size > 0,
         NEW s, s = Chain(volume, fentries[files[f].id].cluster),
         NEW a \in Nat, NEW r \in 1 .. ClusterSize, a * ClusterSize + r <= files[f].size
  PROVE  /\ GoesOn(s, volume, fentries[files[f].id].cluster) /\ a < Len(s)
         /\ Len(FileBytes(f)) = files[f].size
         /\ FileBytes(f)[a * ClusterSize + r] = ClusterBytes(s[a + 1])[r]
<1>1. PICK e : e = fentries[files[f].id]
  OBVIOUS
<1>2. PICK size : size = files[f].size
  OBVIOUS
<1>3. IsEntry(volume, e) /\ e.kind = "file" /\ size = e.size /\ volume \in Volumes
  BY <1>1, <1>2 DEF TreeInv, EntriesInv
<1>4. size \in Nat /\ size > 0
  BY <1>2, <1>3, VolumesAssumption DEF IsEntry
<1>5. e.cluster \in DOMAIN volume.next /\ size <= Len(s) * ClusterSize
  BY <1>1, <1>3, <1>4 DEF IsEntry
<1>6. volume.next \in Seq(Nat) /\ ChainsEnd(volume) /\ ClusterSize \in Nat \ {0}
  BY <1>3, VolumesAssumption
<1>7. GoesOn(s, volume, e.cluster)
  BY <1>1, <1>5, <1>6, ChainGoesOn
<1>8. PICK n \in Nat \ {0} : n = Len(s)
  BY <1>7 DEF GoesOn
<1>9. DOMAIN s = 1 .. n
  BY <1>7, <1>8, SequenceFacts DEF GoesOn
<1>10. PICK parts : parts = [k \in DOMAIN s |-> ClusterBytes(s[k])]
  OBVIOUS
<1>11. Len(parts) = n /\ \A k \in 1 .. n : parts[k] = ClusterBytes(s[k])
  <2>1. parts = [k \in 1 .. n |-> ClusterBytes(s[k])]
    BY <1>9, <1>10
  <2>2. DOMAIN parts = 1 .. n /\ parts = [k \in 1 .. n |-> parts[k]]
    BY <2>1
  <2>3. n \in Nat
    BY <1>8
  <2> QED BY <2>1, <2>2, <2>3, FunctionIsSequence
<1>12. PICK flat : flat = FlattenSeq(parts)
  OBVIOUS
<1>13. LiesInParts(flat, parts, ClusterSize, n)
  <2>1. \A k \in 1 .. n : IsSequence(parts[k]) /\ Len(parts[k]) = ClusterSize
    BY <1>11, ClusterHasBytes
  <2> QED BY <1>6, <1>11, <1>12, <2>1, PartsLie
<1>14. FileBytes(f) = SubSeq(flat, 1, size)
  BY <1>1, <1>2, <1>10, <1>12, Zenon DEF FileBytes
<1>15. size \in 0 .. Len(flat) /\ IsSequence(flat)
  BY <1>4, <1>5, <1>8, <1>13 DEF LiesInParts
<1>16. /\ Len(SubSeq(flat, 1, size)) = size
       /\ \A k \in 1 .. size : SubSeq(flat, 1, size)[k] = flat[k]
  BY <1>15, Shortened
<1>17. PICK q : q = a * ClusterSize + r
  OBVIOUS
<1>18. PICK y : y = n * ClusterSize
  OBVIOUS
<1>19. q <= size /\ size <= y /\ q \in Nat /\ y \in Nat /\ q >= 1
  <2>1. PICK x : x = a * ClusterSize
    OBVIOUS
  <2>2. x \in Nat /\ y \in Nat
    BY <1>6, <1>8, <1>18, <2>1, TimesKeeps
  <2>3. q = x + r /\ q <= size
    BY <1>2, <1>17, <2>1
  <2>4. size <= y
    BY <1>5, <1>8, <1>18
  <2> QED BY <1>6, <2>2, <2>3, <2>4
<1>20. q <= y
  BY <1>4, <1>19
<1>21. a < n
  BY <1>6, <1>17, <1>18, <1>20, BeforeEnd
<1>22. flat[q] = parts[a + 1][r]
  BY <1>13, <1>17, <1>21 DEF LiesInParts
<1>23. a + 1 \in 1 .. n
  BY <1>21
<1>24. FileBytes(f)[q] = ClusterBytes(s[a + 1])[r]
  <2>1. q \in 1 .. size
    BY <1>4, <1>19
  <2> QED BY <1>11, <1>14, <1>16, <1>22, <1>23, <2>1
<1> QED BY <1>1, <1>2, <1>7, <1>8, <1>14, <1>16, <1>17, <1>21, <1>24

\* A read that stays in the file and in the clusters it read yields the file.
LEMMA YieldsFile ==
  ASSUME TreeInv, NEW f, NEW loc, NEW ret, NEW data, Yields(f, loc, ret, data),
         loc + ret <= files[f].size, (loc % ClusterSize) + ret <= Clustered(ret) * ClusterSize
  PROVE  data = SubSeq(FileBytes(f), loc + 1, loc + ret)
<1>1. f \in DOMAIN files /\ loc \in Nat /\ ret \in Nat \ {0} /\ data = [k \in 1 .. ret |-> data[k]]
  BY DEF Yields
<1>2. PICK n, h :
        /\ n \in Nat /\ IsHop(h, fentries[files[f].id].cluster, n)
        /\ (loc \div ClusterSize) + Clustered(ret) <= n
        /\ YieldsAlong(h, loc, ret, data)
  BY DEF Yields
<1>3. ClusterSize \in Nat \ {0}
  BY VolumesAssumption
<1>4. PICK m : m = Clustered(ret)
  OBVIOUS
<1>5. m \in Nat \ {0}
  BY <1>1, <1>3, <1>4, PartsEnough DEF Clustered
<1>6. PICK size : size = files[f].size
  OBVIOUS
<1>7. size \in Nat
  BY <1>1, <1>6, SizeIsWord, VolumesAssumption
<1>8. size > 0 /\ loc + ret <= size
  BY <1>1, <1>6, <1>7
<1>9. PICK s : s = Chain(volume, fentries[files[f].id].cluster)
  OBVIOUS
<1>10. ASSUME NEW k \in 1 .. ret
       PROVE  data[k] = FileBytes(f)[loc + k] /\ Len(FileBytes(f)) = size
  <2>1. loc % ClusterSize \in Nat
    BY <1>1, <1>3
  <2>2. PICK q : q = (loc % ClusterSize) + k
    OBVIOUS
  <2>3. q \in Nat \ {0} /\ q <= (loc % ClusterSize) + ret
    BY <1>1, <2>1, <2>2
  <2>4. PICK i \in Nat, r \in 1 .. ClusterSize : q = i * ClusterSize + r
    BY <1>3, <2>3, PlaceInParts
  <2>5. i < m
    <3>1. PICK y : y = m * ClusterSize
      OBVIOUS
    <3>2. y \in Nat
      BY <1>3, <1>5, <3>1, TimesKeeps
    <3>3. q <= y
      BY <1>1, <1>4, <2>1, <2>3, <3>1, <3>2
    <3> QED BY <1>3, <1>5, <2>4, <3>1, <3>3, BeforeEnd
  <2>6. PICK a : a = (loc \div ClusterSize) + i
    OBVIOUS
  <2>7. /\ loc \div ClusterSize \in Nat /\ loc + k = a * ClusterSize + r
    <3>1. PICK d : d = loc \div ClusterSize
      OBVIOUS
    <3>2. k \in Nat /\ r \in Nat /\ i \in Nat /\ loc \in Nat /\ ClusterSize \in Nat \ {0}
      BY <1>1, <1>3, <2>4
    <3>3. IsPlace(loc, ClusterSize, d, k, i, r)
      BY <2>2, <2>4, <3>1, <3>2, Zenon DEF IsPlace
    <3>4. d \in Nat /\ loc + k = (d + i) * ClusterSize + r
      BY <3>3, Position, SMT
    <3> QED BY <2>6, <3>1, <3>4, Zenon
  <2>8. a \in Nat /\ a <= n
    BY <1>2, <1>4, <1>5, <2>5, <2>6, <2>7
  <2>9. a * ClusterSize + r <= size
    BY <1>1, <1>7, <1>8, <2>7
  <2>10. /\ GoesOn(s, volume, fentries[files[f].id].cluster) /\ a < Len(s)
         /\ Len(FileBytes(f)) = size
         /\ FileBytes(f)[a * ClusterSize + r] = ClusterBytes(s[a + 1])[r]
    BY <1>1, <1>6, <1>8, <1>9, <2>8, <2>9, FileInChain
  <2>11. h[a] = s[a + 1]
    BY <1>2, <2>8, <2>10, HopsInChain
  <2>12. data[k] = ClusterBytes(h[a])[r]
    BY <1>2, <1>4, <2>2, <2>4, <2>5, <2>6 DEF YieldsAlong
  <2> QED BY <2>7, <2>10, <2>11, <2>12
<1>11. PICK t : t = FileBytes(f)
  OBVIOUS
<1>12. PICK u : u = SubSeq(t, loc + 1, loc + ret)
  OBVIOUS
<1>13. PICK S : S = {t[k] : k \in loc + 1 .. loc + ret}
  OBVIOUS
<1>14. /\ u \in Seq(S) /\ Len(u) = ret
       /\ \A k \in 1 .. ret : u[k] = t[loc + k]
  <2>1. loc + 1 \in Int /\ loc + ret \in Int /\ \A k \in loc + 1 .. loc + ret : t[k] \in S
    BY <1>1, <1>13
  <2>2. /\ SubSeq(t, loc + 1, loc + ret) \in Seq(S)
        /\ Len(SubSeq(t, loc + 1, loc + ret)) =
             IF loc + 1 <= loc + ret THEN (loc + ret) - (loc + 1) + 1 ELSE 0
        /\ \A k \in 1 .. (loc + ret) - (loc + 1) + 1 :
             SubSeq(t, loc + 1, loc + ret)[k] = t[(loc + 1) + k - 1]
    BY <2>1, SubSeqProperties
  <2>3. loc + 1 <= loc + ret /\ (loc + ret) - (loc + 1) + 1 = ret
    BY <1>1
  <2>4. \A k \in 1 .. ret : (loc + 1) + k - 1 = loc + k
    BY <1>1
  <2> QED BY <1>12, <2>2, <2>3, <2>4
<1>15. DOMAIN u = 1 .. ret /\ u = [k \in 1 .. ret |-> u[k]]
  BY <1>14, LenProperties
<1>16. \A k \in 1 .. ret : data[k] = u[k]
  BY <1>10, <1>11, <1>14
<1>17. data = u
  BY <1>1, <1>15, <1>16
<1> QED BY <1>11, <1>12, <1>17

\* What a process reads from a file, and what exec loads, is what the clusters
\* of the file hold at that position, wherever its chain leads, as long as the
\* read stays in the clusters that vfat_accessfile has fetched.
THEOREM ReadsReturnFile == Spec => []ReadReturnsFile
<1>1. Init => ReadInv /\ PathsInv /\ TypesInv
  BY DEF Init, MountInit, ReadInv, PathsInv, TypesInv, Failed, Reply, ReadingReplies
<1>2. TreeInv /\ OpenInv /\ PathsInv /\ TypesInv /\ ReadInv /\ [Next]_vars =>
        PathsInv' /\ TypesInv' /\ ReadInv'
  BY PathsStep, TypesStep, ReadStep
<1>3. TreeInv /\ ReadInv => ReadReturnsFile
  <2>1. SUFFICES ASSUME TreeInv, ReadInv, reply.call \in ReadingReplies, reply.ret > 0,
                        reply.loc + reply.ret <= files[reply.target].size,
                        (reply.loc % ClusterSize) + reply.ret <= Clustered(reply.ret) * ClusterSize
                 PROVE  reply.data = SubSeq(FileBytes(reply.target), reply.loc + 1, reply.loc + reply.ret)
    BY DEF ReadReturnsFile
  <2>2. Yields(reply.target, reply.loc, reply.ret, reply.data)
    BY <2>1 DEF ReadInv
  <2> QED BY <2>1, <2>2, YieldsFile
<1> QED BY TreeInvariant, OpenInvariant, <1>1, <1>2, <1>3, PTL DEF Spec

-----------------------------------------------------------------------------
(* Where paths lead.                                                       *)

\* The lists of a directory.
DirsOf(d) == ToSet(directories[d].dirs)
FilesOf(d) == ToSet(directories[d].files)

\* A directory is in the list of its parent or is still being read, and a file
\* in the list of its directory.
Attached(d) == d \in DirsOf(directories[d].parent)
LinksInv ==
  /\ \A d \in DOMAIN directories : d = Root \/ Attached(d) \/ \E k \in DOMAIN calls : calls[k].dir = d
  /\ \A f \in DOMAIN files : f \in FilesOf(files[f].parent)
  /\ \A d \in DOMAIN directories : \A f \in FilesOf(d) : files[f].parent = d
  /\ calls # <<>> => calls[1].dir = Root
  /\ mount = "mounted" => calls = <<>>

\* The directories of a tree that is complete.
Complete == (\A d \in DOMAIN directories : d = Root \/ Attached(d)) /\ NamesDiffer /\ ~FoundTwice

\* One name: what the loop finds is what it means.
LEMMA NameMeans ==
  ASSUME TreeInv, Complete, NEW d \in DOMAIN directories, NEW name
  PROVE  /\ name = Here => Lookup(d, name) = d
         /\ name = Up => Lookup(d, name) = directories[d].parent
         /\ name \notin {Here, Up} =>
              IF NamedIn(d, name) = {} THEN Lookup(d, name) = d
              ELSE /\ Lookup(d, name) = CHOOSE e \in NamedIn(d, name) : TRUE
                   /\ Lookup(d, name) > d
<1>1. PICK e : e = Scan(d, name)
  OBVIOUS
<1>2. \/ e = d /\ \A j \in DOMAIN directories[d].dirs : directories[directories[d].dirs[j]].name # name
      \/ IsFirst(e, d) /\ directories[e].name = name
  BY <1>1, ScanFinds DEF Complete
<1>3. Lookup(d, name) = IF name = Up THEN directories[e].parent ELSE e
  BY <1>1 DEF Lookup
<1>4. InPlace(d) /\ d \in Nat \ {0} /\ DOMAIN directories[d].dirs \subseteq Nat \ {0}
  <2>1. DOMAIN directories = 1 .. Len(directories) /\ Len(directories) \in Nat
    BY SequenceFacts DEF TreeInv, DirectoriesInv
  <2> QED BY <2>1, FewSubdirectories DEF TreeInv, DirectoriesInv
<1>5. ASSUME IsFirst(e, d)
      PROVE  e \in DOMAIN directories /\ directories[e].parent = d /\ e > d
  <2>1. PICK i \in DOMAIN directories[d].dirs : directories[d].dirs[i] = e
    BY <1>5 DEF IsFirst
  <2>2. e \in DOMAIN directories /\ directories[e].parent = d /\ e >= d + i
    BY <1>4, <2>1 DEF InPlace
  <2>3. e \in Nat
    BY <2>2, SequenceFacts DEF TreeInv, DirectoriesInv
  <2> QED BY <1>4, <2>1, <2>2, <2>3
<1>6. CASE name \in {Here, Up}
  <2>1. \A f \in DOMAIN directories : directories[f].name # name
    <3>1. SUFFICES ASSUME NEW f \in DOMAIN directories, directories[f].name = name PROVE FALSE
      OBVIOUS
    <3>2. IsName(name)
      BY <3>1 DEF TreeInv, DirectoriesInv, InPlace, IsDirectory
    <3>3. 1 \in DOMAIN name /\ name[1] \in {".", ".."}
      BY <1>6 DEF Here, Up
    <3> QED BY <3>2, <3>3 DEF IsName
  <2>2. e = d
    BY <1>2, <1>5, <2>1
  <2> QED BY <1>3, <1>6, <2>2 DEF Here, Up
<1>7. CASE name \notin {Here, Up} /\ NamedIn(d, name) = {}
  <2>1. e = d
    BY <1>2, <1>5, <1>7 DEF NamedIn
  <2> QED BY <1>3, <1>7, <2>1
<1>8. CASE name \notin {Here, Up} /\ NamedIn(d, name) # {}
  <2>1. PICK c : c = CHOOSE x \in NamedIn(d, name) : TRUE
    OBVIOUS
  <2>2. c \in DOMAIN directories /\ directories[c].parent = d /\ directories[c].name = name
    BY <1>8, <2>1 DEF NamedIn
  <2>3. Attached(c)
    <3>1. c # Root
      BY <1>4, <2>2 DEF TreeInv, DirectoriesInv, InPlace, NoDirectory
    <3> QED BY <2>2, <3>1 DEF Complete
  <2>4. IsFirst(e, d) /\ directories[e].name = name
    BY <1>2, <2>2, <2>3 DEF Attached, DirsOf, ToSet
  <2>5. e = c
    BY <1>5, <2>2, <2>4 DEF Complete, NamesDiffer
  <2> QED BY <1>3, <1>5, <1>8, <2>1, <2>4, <2>5
<1> QED BY <1>6, <1>7, <1>8

\* The loop of Meant.
MeantAt(m, path, i) ==
  IF i = 0 THEN Root
  ELSE IF m[i - 1] = NoDirectory \/ path[i] = Here THEN m[i - 1]
  ELSE IF path[i] = Up THEN directories[m[i - 1]].parent
  ELSE IF NamedIn(m[i - 1], path[i]) = {} THEN NoDirectory
  ELSE CHOOSE e \in NamedIn(m[i - 1], path[i]) : TRUE
IsMeantUpTo(m, path, n) == m = [i \in 0 .. n |-> MeantAt(m, path, i)]
IsMeant(m, path) ==
  m = [i \in 0..Len(path) |->
         IF i = 0 THEN Root
         ELSE IF m[i - 1] = NoDirectory \/ path[i] = Here THEN m[i - 1]
         ELSE IF path[i] = Up THEN directories[m[i - 1]].parent
         ELSE IF NamedIn(m[i - 1], path[i]) = {} THEN NoDirectory
         ELSE CHOOSE e \in NamedIn(m[i - 1], path[i]) : TRUE]

LEMMA MeantExists ==
  ASSUME NEW path, Len(path) \in Nat
  PROVE  \A i \in 0 .. Len(path) : Meant(path)[i] = MeantAt(Meant(path), path, i)
<1> DEFINE T == {n \in Nat : \E m : IsMeantUpTo(m, path, n)}
<1>1. 0 \in T
  <2>1. PICK m : m = [i \in 0 .. 0 |-> Root]
    OBVIOUS
  <2>2. \A t : MeantAt(t, path, 0) = Root
    BY DEF MeantAt
  <2>3. IsMeantUpTo(m, path, 0)
    BY <2>1, <2>2 DEF IsMeantUpTo
  <2> QED BY <2>3
<1>2. ASSUME NEW n \in Nat, n \in T PROVE n + 1 \in T
  <2>1. PICK m : m = [i \in 0 .. n |-> MeantAt(m, path, i)]
    BY <1>2 DEF IsMeantUpTo
  <2>2. PICK x : x = MeantAt(m, path, n + 1)
    OBVIOUS
  <2>3. PICK g : g = [i \in 0 .. n + 1 |-> IF i = n + 1 THEN x ELSE m[i]]
    OBVIOUS
  <2>4. \A i \in 0 .. n : i \in 0 .. n + 1 /\ i # n + 1 /\ g[i] = m[i]
    BY <2>3
  <2>5. ASSUME NEW i \in 0 .. n + 1 PROVE MeantAt(g, path, i) = MeantAt(m, path, i)
    <3>1. CASE i = 0
      BY <3>1 DEF MeantAt
    <3>2. CASE i # 0
      <4>1. i - 1 \in 0 .. n
        BY <3>2
      <4>2. g[i - 1] = m[i - 1]
        BY <2>4, <4>1
      <4> QED BY <3>2, <4>2 DEF MeantAt
    <3> QED BY <3>1, <3>2
  <2>6. ASSUME NEW i \in 0 .. n + 1 PROVE g[i] = MeantAt(g, path, i)
    <3>1. CASE i = n + 1
      BY <2>2, <2>3, <2>5, <3>1
    <3>2. CASE i # n + 1
      <4>1. i \in 0 .. n
        BY <3>2
      <4>2. m[i] = MeantAt(m, path, i)
        BY <2>1, <4>1
      <4> QED BY <2>4, <2>5, <4>1, <4>2
    <3> QED BY <3>1, <3>2
  <2>7. IsMeantUpTo(g, path, n + 1)
    BY <2>3, <2>6 DEF IsMeantUpTo
  <2> QED BY <2>7
<1>3. Len(path) \in T
  <2> HIDE DEF T
  <2> QED BY <1>1, <1>2, AllNumbers
<1>4. \E m : IsMeant(m, path)
  <2>1. PICK m : IsMeantUpTo(m, path, Len(path))
    BY <1>3
  <2> QED BY <2>1, Zenon DEF IsMeantUpTo, IsMeant, MeantAt
<1>5. PICK m : m = CHOOSE x : IsMeant(x, path)
  OBVIOUS
<1>6. IsMeant(m, path)
  BY <1>4, <1>5
<1>7. Meant(path) = m
  <2>1. Meant(path) = CHOOSE x : IsMeant(x, path)
    BY DEF Meant, IsMeant
  <2> QED BY <1>5, <2>1
<1>8. m = [i \in 0 .. Len(path) |-> MeantAt(m, path, i)]
  BY <1>6, Zenon DEF IsMeant, MeantAt
<1> QED BY <1>7, <1>8

\* Following the names of a path ends where they mean to, unless one is passed over.
LEMMA WalkMeans ==
  ASSUME TreeInv, Complete, NEW path, Len(path) \in Nat, NEW m,
         \A i \in 0 .. Len(path) : m[i] = MeantAt(m, path, i),
         \A i \in 1 .. Len(path) - 1 :
           m[i - 1] # NoDirectory /\ path[i] \notin {Up, Here} => NamedIn(m[i - 1], path[i]) # {}
  PROVE  FindDirectory(path) = m[Len(path)]
<1>1. PICK n \in Nat : n = Len(path)
  OBVIOUS
<1>2. PICK w : IsWalk(w, path) /\ FindDirectory(path) = w[n]
  BY <1>1, FindWalks
<1>3. \A i \in 0 .. n : w[i] = Walked(w, path, i)
  BY <1>1, <1>2, WalkPlaces
<1> DEFINE T == {i \in Nat : i <= n => w[i] = m[i] /\ m[i] \in {NoDirectory} \cup DOMAIN directories}
<1>4. 0 \in T
  <2>1. w[0] = Root /\ m[0] = Root
    <3>1. w[0] = Walked(w, path, 0) /\ m[0] = MeantAt(m, path, 0)
      BY <1>1, <1>3
    <3> QED BY <3>1 DEF Walked, MeantAt
  <2> QED BY <2>1 DEF TreeInv, DirectoriesInv
<1>5. ASSUME NEW j \in Nat, j \in T PROVE j + 1 \in T
  <2>1. SUFFICES ASSUME j + 1 <= n
                 PROVE  w[j + 1] = m[j + 1] /\ m[j + 1] \in {NoDirectory} \cup DOMAIN directories
    OBVIOUS
  <2>2. PICK i : i = j + 1
    OBVIOUS
  <2>3. i \in 1 .. n /\ i \in 0 .. n /\ i # 0 /\ i - 1 = j /\ j <= n /\ (i # n => i \in 1 .. n - 1)
    BY <2>1, <2>2
  <2>4. PICK d : d = m[j]
    OBVIOUS
  <2>5. w[j] = d /\ d \in {NoDirectory} \cup DOMAIN directories
    BY <1>5, <2>3, <2>4
  <2>6. PICK name : name = path[i]
    OBVIOUS
  <2>7. w[i] = IF d = NoDirectory THEN NoDirectory
               ELSE IF i = n /\ Lookup(d, name) = d /\ name # Here THEN NoDirectory ELSE Lookup(d, name)
    <3>1. w[i] = Walked(w, path, i)
      BY <1>3, <2>3
    <3> QED BY <1>1, <2>3, <2>5, <2>6, <3>1 DEF Walked
  <2>8. m[i] = IF d = NoDirectory \/ name = Here THEN d
               ELSE IF name = Up THEN directories[d].parent
               ELSE IF NamedIn(d, name) = {} THEN NoDirectory
               ELSE CHOOSE e \in NamedIn(d, name) : TRUE
    <3>1. m[i] = MeantAt(m, path, i)
      BY <1>1, <2>3
    <3> QED BY <2>3, <2>4, <2>6, <3>1 DEF MeantAt
  <2>9. CASE d = NoDirectory
    BY <2>2, <2>5, <2>7, <2>8, <2>9
  <2>10. CASE d # NoDirectory
    <3>1. d \in DOMAIN directories
      BY <2>5, <2>10
    <3>2. /\ name = Here => Lookup(d, name) = d
          /\ name = Up => Lookup(d, name) = directories[d].parent
          /\ name \notin {Here, Up} =>
               IF NamedIn(d, name) = {} THEN Lookup(d, name) = d
               ELSE /\ Lookup(d, name) = CHOOSE e \in NamedIn(d, name) : TRUE
                    /\ Lookup(d, name) > d
      BY <3>1, NameMeans
    <3>3. d \in Nat \ {0} /\ directories[d].parent \in 0 .. d - 1
      <4>1. DOMAIN directories = 1 .. Len(directories) /\ Len(directories) \in Nat
        BY SequenceFacts DEF TreeInv, DirectoriesInv
      <4> QED BY <3>1, <4>1 DEF TreeInv, DirectoriesInv, InPlace
    <3>4. CASE name = Here
      BY <2>2, <2>5, <2>7, <2>8, <2>10, <3>2, <3>4
    <3>5. CASE name = Up
      <4>1. name # Here
        BY <3>5 DEF Up, Here
      <4>2. m[i] = directories[d].parent /\ directories[d].parent # d
        BY <2>8, <2>10, <3>3, <3>5, <4>1
      <4>3. w[i] = m[i]
        BY <2>7, <2>10, <3>2, <3>5, <4>2
      <4>4. directories[d].parent \in {NoDirectory} \cup DOMAIN directories
        <5>1. DOMAIN directories = 1 .. Len(directories) /\ Len(directories) \in Nat
          BY SequenceFacts DEF TreeInv, DirectoriesInv
        <5> QED BY <3>1, <3>3, <5>1 DEF NoDirectory
      <4> QED BY <2>2, <4>2, <4>3, <4>4
    <3>6. CASE name \notin {Here, Up} /\ NamedIn(d, name) = {}
      <4>1. i = n
        BY <2>3, <2>4, <2>6, <2>10, <3>6, <1>1
      <4>2. Lookup(d, name) = d /\ name # Here /\ name # Up
        BY <3>2, <3>6
      <4>3. w[i] = NoDirectory
        BY <2>7, <4>1, <4>2
      <4>4. m[i] = NoDirectory
        BY <2>8, <2>10, <3>6, <4>2
      <4> QED BY <2>2, <4>3, <4>4
    <3>7. CASE name \notin {Here, Up} /\ NamedIn(d, name) # {}
      <4>1. PICK c : c = CHOOSE e \in NamedIn(d, name) : TRUE
        OBVIOUS
      <4>2. c \in DOMAIN directories /\ Lookup(d, name) = c /\ c > d
        BY <3>2, <3>7, <4>1 DEF NamedIn
      <4>3. c # d
        BY <3>1, <3>3, <4>2, SequenceFacts DEF TreeInv, DirectoriesInv
      <4>4. w[i] = c
        BY <2>7, <2>10, <4>2, <4>3
      <4>5. m[i] = c
        BY <2>8, <2>10, <3>7, <4>1
      <4> QED BY <2>2, <4>2, <4>4, <4>5
    <3> QED BY <3>4, <3>5, <3>6, <3>7
  <2> QED BY <2>9, <2>10
<1>6. n \in T
  <2> HIDE DEF T
  <2> QED BY <1>4, <1>5, AllNumbers
<1> QED BY <1>1, <1>2, <1>6

\* What looking a path up yields is what it means.
FoundAsMeant(path) ==
  LET n == Len(path)
      there == IF n = 0 THEN NoDirectory ELSE Meant(path)[n - 1]
  IN  /\ FindDirectory(path) = Meant(path)[n]
      /\ {FindFile(path)} \ {NoFile} =
           {f \in DOMAIN files : files[f].parent = there /\ files[f].name = Last(path)}

\* Once a volume is mounted, paths lead where they mean to.
LEMMA PathMeans ==
  ASSUME TreeInv, LinksInv, FilesInv, mount = "mounted", ~FoundTwice, NamesDiffer,
         NEW path, IsSequence(path), ~PassesOver(path)
  PROVE  FoundAsMeant(path)
<1>1. Complete
  <2>1. DOMAIN calls = {}
    BY DEF LinksInv
  <2> QED BY <2>1 DEF LinksInv, Complete
<1>2. PICK n \in Nat : n = Len(path) /\ IsSequence(path) /\ DOMAIN path = 1 .. n
  BY SequenceFacts
<1>3. PICK m : m = Meant(path)
  OBVIOUS
<1>4. \A i \in 0 .. n : m[i] = MeantAt(m, path, i)
  BY <1>2, <1>3, MeantExists
<1>5. \A i \in 1 .. n - 1 : m[i - 1] # NoDirectory /\ path[i] \notin {Up, Here} => NamedIn(m[i - 1], path[i]) # {}
  BY <1>2, <1>3 DEF PassesOver
<1>6. FindDirectory(path) = m[n]
  BY <1>1, <1>2, <1>4, <1>5, WalkMeans
<1>7. PICK there : there = IF n = 0 THEN NoDirectory ELSE m[n - 1]
  OBVIOUS
<1>8. PICK D : D = {f \in DOMAIN files : files[f].parent = there /\ files[f].name = Last(path)}
  OBVIOUS
<1>9. DOMAIN files \subseteq Nat \ {0} /\ DOMAIN directories \subseteq Nat \ {0}
  BY SequenceFacts DEF FilesInv, TreeInv, DirectoriesInv
<1>10. \A f \in DOMAIN files : files[f].parent \in DOMAIN directories
  BY DEF TreeInv, EntriesInv
<1>11. {FindFile(path)} \ {NoFile} = D
  <2>1. PICK d : d = IF path = <<>> THEN NoDirectory ELSE FindDirectory(Front(path))
    OBVIOUS
  <2>2. PICK found : found = IF d = NoDirectory THEN {}
                             ELSE {i \in DOMAIN directories[d].files : files[directories[d].files[i]].name = Last(path)}
    OBVIOUS
  <2>3. FindFile(path) = IF found = {} THEN NoFile ELSE directories[d].files[Max(found)]
    BY <2>1, <2>2 DEF FindFile
  <2>4. d = there
    <3>1. CASE n = 0
      <4>1. path = <<>>
        <5>1. PICK S : path \in Seq(S)
          BY <1>2 DEF IsSequence
        <5> QED BY <1>2, <3>1, <5>1, EmptySeq
      <4> QED BY <1>7, <2>1, <3>1, <4>1
    <3>2. CASE n # 0
      <4>1. path # <<>>
        BY <1>2, <3>2
      <4>2. PICK q : q = Front(path)
        OBVIOUS
      <4>3. n - 1 \in 0 .. Len(path) /\ n - 1 \in Nat
        BY <1>2, <3>2
      <4>4. Len(q) = n - 1 /\ \A i \in 1 .. n - 1 : q[i] = path[i]
        BY <1>2, <4>2, <4>3, Shortened DEF Front
      <4>5. \A i \in 0 .. n - 1 : m[i] = MeantAt(m, q, i)
        <5>1. SUFFICES ASSUME NEW i \in 0 .. n - 1 PROVE m[i] = MeantAt(m, q, i)
          OBVIOUS
        <5>2. m[i] = MeantAt(m, path, i)
          BY <1>4, <4>3
        <5>3. i # 0 => q[i] = path[i]
          BY <4>4
        <5> QED BY <5>2, <5>3 DEF MeantAt
      <4>6. \A i \in 1 .. (n - 1) - 1 :
              m[i - 1] # NoDirectory /\ q[i] \notin {Up, Here} => NamedIn(m[i - 1], q[i]) # {}
        <5>1. SUFFICES ASSUME NEW i \in 1 .. (n - 1) - 1, m[i - 1] # NoDirectory, q[i] \notin {Up, Here}
                       PROVE  NamedIn(m[i - 1], q[i]) # {}
          OBVIOUS
        <5>2. i \in 1 .. n - 1
          BY <4>3
        <5>3. q[i] = path[i]
          BY <4>4, <5>2
        <5> QED BY <1>5, <5>1, <5>2, <5>3
      <4>7. FindDirectory(q) = m[n - 1]
        BY <1>1, <4>3, <4>4, <4>5, <4>6, WalkMeans
      <4> QED BY <1>7, <2>1, <3>2, <4>1, <4>2, <4>7
    <3> QED BY <3>1, <3>2
  <2>5. CASE d = NoDirectory
    <3>1. D = {}
      BY <1>8, <1>9, <1>10, <2>4, <2>5 DEF NoDirectory
    <3> QED BY <2>2, <2>3, <2>5, <3>1
  <2>6. CASE d # NoDirectory
    <3>1. d \in DOMAIN directories
      <4>1. path # <<>> /\ d = FindDirectory(Front(path))
        BY <2>1, <2>6
      <4>2. n # 0
        <5>1. PICK S : path \in Seq(S)
          BY <1>2 DEF IsSequence
        <5> QED BY <1>2, <4>1, <5>1, EmptySeq
      <4>3. n - 1 \in 0 .. Len(path) /\ n - 1 \in Nat
        BY <1>2, <4>2
      <4>4. Len(Front(path)) \in Nat
        BY <1>2, <4>3, Shortened DEF Front
      <4> QED BY <2>6, <4>1, <4>4, DirectoryFound
    <3>2. PICK l : l = directories[d].files
      OBVIOUS
    <3>3. /\ DOMAIN l = 1 .. Len(l) /\ Len(l) \in Nat
          /\ \A i \in DOMAIN l : l[i] \in DOMAIN files /\ files[l[i]].parent = d
      <4>1. InPlace(d) /\ l \in Seq(Nat)
        BY <3>1, <3>2 DEF TreeInv, DirectoriesInv, InPlace, IsDirectory
      <4>2. DOMAIN l = 1 .. Len(l) /\ Len(l) \in Nat
        BY <4>1, LenProperties
      <4> QED BY <3>1, <3>2, <4>1, <4>2 DEF InPlace, LinksInv, FilesOf, ToSet
    <3>4. found = {i \in DOMAIN l : files[l[i]].name = Last(path)}
      BY <2>2, <2>6, <3>2
    <3>5. \A f \in DOMAIN files : files[f].parent = d => \E i \in DOMAIN l : l[i] = f
      BY <3>2 DEF LinksInv, FilesOf, ToSet
    <3>6. CASE found = {}
      <4>1. D = {}
        BY <1>8, <2>4, <3>4, <3>5, <3>6
      <4> QED BY <2>3, <3>6, <4>1
    <3>7. CASE found # {}
      <4>1. PICK g : g = l[Max(found)]
        OBVIOUS
      <4>2. Max(found) \in found
        BY <3>3, <3>4, <3>7, GreatestOf
      <4>3. g \in DOMAIN files /\ files[g].parent = d /\ files[g].name = Last(path)
        BY <3>3, <3>4, <4>1, <4>2
      <4>4. D = {g}
        BY <1>8, <2>4, <4>3 DEF NamesDiffer
      <4>5. g # NoFile
        BY <1>9, <4>3 DEF NoFile
      <4> QED BY <2>3, <3>2, <3>7, <4>1, <4>4, <4>5
    <3> QED BY <3>6, <3>7
  <2> QED BY <2>5, <2>6
<1> QED BY <1>2, <1>3, <1>6, <1>7, <1>8, <1>11 DEF FoundAsMeant

\* The same for the paths the runs look up.
LEMMA LookupsExact ==
  ASSUME TreeInv, LinksInv, FilesInv, mount = "mounted"
  PROVE  LookupIsExact
<1> DEFINE names == {Up, Here} \cup {directories[d].name : d \in DOMAIN directories \ {Root}}
                    \cup {files[f].name : f \in DOMAIN files}
<1>1. SUFFICES ASSUME ~FoundTwice, NamesDiffer, NEW len \in 0 .. 3, NEW path \in [1 .. len -> names],
                      ~PassesOver(path)
               PROVE  FoundAsMeant(path)
  BY DEF LookupIsExact, FoundAsMeant
<1> HIDE DEF names
<1>2. len \in Nat /\ path = [k \in 1 .. len |-> path[k]]
  OBVIOUS
<1>3. IsSequence(path)
  BY <1>2, FunctionIsSequence
<1> QED BY <1>1, <1>3, PathMeans

-----------------------------------------------------------------------------
(* What a step of mounting does to the tree.                               *)

LEMMA MoreInSet ==
  ASSUME NEW s, IsSequence(s), NEW x
  PROVE  ToSet(Append(s, x)) = ToSet(s) \cup {x}
<1>1. PICK t : t = Append(s, x)
  OBVIOUS
<1>2. /\ DOMAIN s = 1 .. Len(s) /\ Len(s) \in Nat /\ DOMAIN t = 1 .. Len(s) + 1
      /\ t[Len(s) + 1] = x /\ \A i \in DOMAIN s : t[i] = s[i]
  BY <1>1, SequenceFacts, OneMore
<1>3. \A i \in DOMAIN t : i \in DOMAIN s \/ i = Len(s) + 1
  BY <1>2
<1>4. \A i \in DOMAIN s : i \in DOMAIN t
  BY <1>2
<1>5. Len(s) + 1 \in DOMAIN t
  BY <1>2
<1>6. ToSet(t) = ToSet(s) \cup {x}
  BY <1>2, <1>3, <1>4, <1>5 DEF ToSet
<1> QED BY <1>1, <1>6

\* What no step changes of a directory.
DirectorySame(d) ==
  /\ d \in DOMAIN directories' /\ directories'[d].name = directories[d].name
  /\ directories'[d].parent = directories[d].parent /\ directories'[d].id = directories[d].id

LEMMA ReturnDoes ==
  ASSUME TreeInv, Return, Len(calls) # 1, NEW n, n = Len(calls)
  PROVE  /\ n \in Nat \ {0, 1} /\ n > 1 /\ DOMAIN calls = 1 .. n /\ Top = calls[n]
         /\ Len(calls') = n - 1 /\ DOMAIN calls' = 1 .. n - 1
         /\ \A k \in 1 .. n - 1 : calls'[k] = IF k = n - 1 THEN Continue(calls[k]) ELSE calls[k]
         /\ DOMAIN directories' = DOMAIN directories
         /\ \A d \in DOMAIN directories :
              /\ DirectorySame(d) /\ FilesOf(d)' = FilesOf(d)
              /\ DirsOf(d)' = IF d = calls[n - 1].dir THEN DirsOf(d) \cup {calls[n].dir} ELSE DirsOf(d)
         /\ UNCHANGED <<volume, mount, files, fentries>>
<1>1. calls # <<>> /\ UNCHANGED <<volume, mount, files, fentries>>
  BY DEF Return
<1>2. /\ n \in Nat \ {0, 1} /\ n > 1 /\ DOMAIN calls = 1 .. n /\ n - 1 \in DOMAIN calls /\ n \in DOMAIN calls
      /\ Top = calls[n]
  BY <1>1, TopIsCall
<1>3. PICK x : x = Continue(calls[n - 1])
  OBVIOUS
<1>4. PICK front : front = SubSeq(calls, 1, n - 2)
  OBVIOUS
<1>5. PICK a : a = calls[n - 1].dir
  OBVIOUS
<1>6. PICK b : b = calls[n].dir
  OBVIOUS
<1>7. /\ calls' = Append(front, x)
      /\ directories' = [directories EXCEPT ![a].dirs = Append(@, b)]
  BY <1>2, <1>3, <1>4, <1>5, <1>6 DEF Return
<1>8. /\ IsSequence(front) /\ Len(front) = n - 2 /\ DOMAIN front = 1 .. n - 2
      /\ \A i \in 1 .. n - 2 : i \in DOMAIN calls /\ front[i] = calls[i]
  <2>1. n - 2 \in 0 .. Len(calls) /\ IsSequence(calls)
    BY <1>2 DEF TreeInv, CallsInv
  <2> QED BY <1>4, <2>1, Shortened
<1>9. /\ Len(calls') = n - 1 /\ DOMAIN calls' = 1 .. n - 1 /\ calls'[n - 1] = x
      /\ \A i \in 1 .. n - 2 : calls'[i] = calls[i]
  <2>1. /\ Len(Append(front, x)) = Len(front) + 1 /\ DOMAIN Append(front, x) = 1 .. Len(front) + 1
        /\ Append(front, x)[Len(front) + 1] = x /\ \A i \in DOMAIN front : Append(front, x)[i] = front[i]
    BY <1>8, OneMore
  <2>2. Len(front) + 1 = n - 1
    BY <1>2, <1>8
  <2> QED BY <1>7, <1>8, <2>1, <2>2
<1>10. \A k \in 1 .. n - 1 : calls'[k] = IF k = n - 1 THEN Continue(calls[k]) ELSE calls[k]
  <2>1. \A k \in 1 .. n - 1 : k = n - 1 \/ k \in 1 .. n - 2
    BY <1>2
  <2> QED BY <1>3, <1>9, <2>1
<1>11. a \in DOMAIN directories /\ IsDirectory(directories[a])
  BY <1>2, <1>5 DEF TreeInv, CallsInv, IsCall, DirectoriesInv, InPlace
<1>12. PICK D : D = directories[a]
  OBVIOUS
<1>13. PICK m : m = Append(D.dirs, b)
  OBVIOUS
<1>14. ToSet(m) = ToSet(D.dirs) \cup {b}
  BY <1>11, <1>12, <1>13, MoreInSet DEF IsDirectory, IsSequence
<1>15. PICK E : E = [D EXCEPT !.dirs = m]
  OBVIOUS
<1>16. E.dirs = m /\ E.files = D.files /\ E.parent = D.parent /\ E.name = D.name /\ E.id = D.id
  BY <1>11, <1>12, <1>15 DEF IsDirectory
<1>17. directories' = [directories EXCEPT ![a] = E]
  BY <1>7, <1>12, <1>13, <1>15
<1>18. /\ DOMAIN directories' = DOMAIN directories
       /\ \A d \in DOMAIN directories : directories'[d] = IF d = a THEN E ELSE directories[d]
  BY <1>17
<1>19. ASSUME NEW d \in DOMAIN directories
       PROVE  /\ DirectorySame(d) /\ FilesOf(d)' = FilesOf(d)
              /\ DirsOf(d)' = IF d = calls[n - 1].dir THEN DirsOf(d) \cup {calls[n].dir} ELSE DirsOf(d)
  <2>1. CASE d = a
    BY <1>5, <1>6, <1>12, <1>14, <1>16, <1>18, <2>1 DEF DirectorySame, DirsOf, FilesOf
  <2>2. CASE d # a
    BY <1>5, <1>18, <2>2 DEF DirectorySame, DirsOf, FilesOf
  <2> QED BY <2>1, <2>2
<1> QED BY <1>1, <1>2, <1>9, <1>10, <1>18, <1>19

LEMMA EnterDirectoryDoes ==
  ASSUME TreeInv, EnterDirectory, NEW n, n = Len(calls), NEW m, m = Len(directories) + 1
  PROVE  /\ n \in Nat \ {0} /\ DOMAIN calls = 1 .. n /\ Top = calls[n] /\ IsCall(Top)
         /\ Len(calls') = n + 1 /\ DOMAIN calls' = 1 .. n + 1
         /\ \A k \in 1 .. n : calls'[k] = IF k = n THEN Named(Top) ELSE calls[k]
         /\ calls'[n + 1] = Call(m, volume.slots[Seen.cluster], volume.next[Seen.cluster])
         /\ m \in Nat /\ m \notin DOMAIN directories /\ DOMAIN directories' = DOMAIN directories \cup {m}
         /\ \A d \in DOMAIN directories :
              DirectorySame(d) /\ FilesOf(d)' = FilesOf(d) /\ DirsOf(d)' = DirsOf(d) /\ d < m
         /\ directories'[m].name = NameSeen /\ directories'[m].parent = Top.dir /\ directories'[m].id = NewId
         /\ FilesOf(m)' = {} /\ DirsOf(m)' = {}
         /\ UNCHANGED <<volume, mount, files>>
<1>1. Sees("dir") /\ UNCHANGED <<volume, mount, files>>
  BY DEF EnterDirectory
<1>2. /\ n \in Nat \ {0} /\ DOMAIN calls = 1 .. n /\ Top = calls[n] /\ IsCall(Top) /\ IsSequence(calls)
  <2>1. calls # <<>>
    BY <1>1 DEF Sees
  <2> QED BY <2>1, TopIsCall DEF TreeInv, CallsInv
<1>3. PICK new : new = NewDirectory(NameSeen, Top.dir, NewId)
  OBVIOUS
<1>4. PICK c : c = Call(m, volume.slots[Seen.cluster], volume.next[Seen.cluster])
  OBVIOUS
<1>5. PICK x : x = Named(Top)
  OBVIOUS
<1>6. directories' = Append(directories, new) /\ calls' = Append([calls EXCEPT ![n] = x], c)
  BY <1>3, <1>4, <1>5 DEF EnterDirectory
<1>7. IsSequence(directories) /\ DOMAIN directories = 1 .. m - 1 /\ m \in Nat \ {0} /\ m - 1 = Len(directories)
  <2>1. IsSequence(directories) /\ Len(directories) \in Nat /\ DOMAIN directories = 1 .. Len(directories)
    BY SequenceFacts DEF TreeInv, DirectoriesInv
  <2> QED BY <2>1
<1>8. /\ DOMAIN directories' = 1 .. m /\ directories'[m] = new
      /\ \A d \in DOMAIN directories : directories'[d] = directories[d]
  <2>1. PICK s : s = directories
    OBVIOUS
  <2>2. /\ DOMAIN Append(s, new) = 1 .. Len(s) + 1
        /\ Append(s, new)[Len(s) + 1] = new /\ \A i \in DOMAIN s : Append(s, new)[i] = s[i]
    BY <1>7, <2>1, OneMore
  <2> QED BY <1>6, <1>7, <2>1, <2>2
<1>9. PICK cs : cs = [calls EXCEPT ![n] = x]
  OBVIOUS
<1>10. /\ IsSequence(cs) /\ DOMAIN cs = 1 .. n /\ Len(cs) = n
       /\ \A k \in 1 .. n : cs[k] = IF k = n THEN x ELSE calls[k]
  <2>1. n \in DOMAIN calls
    BY <1>2
  <2> QED BY <1>2, <1>9, <2>1, OneChanged
<1>11. /\ Len(calls') = n + 1 /\ DOMAIN calls' = 1 .. n + 1 /\ calls'[n + 1] = c
       /\ \A k \in 1 .. n : calls'[k] = cs[k]
  BY <1>6, <1>9, <1>10, OneMore
<1>12. m \notin DOMAIN directories /\ DOMAIN directories' = DOMAIN directories \cup {m}
       /\ \A d \in DOMAIN directories : d < m /\ d \in DOMAIN directories'
  BY <1>7, <1>8
<1>13. \A d \in DOMAIN directories :
         DirectorySame(d) /\ FilesOf(d)' = FilesOf(d) /\ DirsOf(d)' = DirsOf(d) /\ d < m
  BY <1>8, <1>12 DEF DirectorySame, FilesOf, DirsOf
<1>14. /\ new.name = NameSeen /\ new.parent = Top.dir /\ new.id = NewId /\ new.dirs = <<>> /\ new.files = <<>>
  BY <1>3 DEF NewDirectory
<1>15. FilesOf(m)' = {} /\ DirsOf(m)' = {}
  <2>1. ToSet(<<>>) = {}
    BY DEF ToSet
  <2> QED BY <1>8, <1>14, <2>1 DEF FilesOf, DirsOf
<1>16. \A k \in 1 .. n : calls'[k] = IF k = n THEN Named(Top) ELSE calls[k]
  BY <1>5, <1>10, <1>11
<1> QED BY <1>1, <1>2, <1>4, <1>7, <1>8, <1>11, <1>12, <1>13, <1>14, <1>15, <1>16

LEMMA AddFileDoes ==
  ASSUME TreeInv, FilesInv, AddFile, NEW n, n = Len(calls), NEW b, b = Len(files) + 1
  PROVE  /\ n \in Nat \ {0} /\ DOMAIN calls = 1 .. n /\ Top = calls[n] /\ IsCall(Top)
         /\ Len(calls') = n /\ DOMAIN calls' = 1 .. n
         /\ \A k \in 1 .. n : calls'[k] = IF k = n THEN Continue(Named(Top)) ELSE calls[k]
         /\ DOMAIN directories' = DOMAIN directories
         /\ \A d \in DOMAIN directories :
              /\ DirectorySame(d) /\ DirsOf(d)' = DirsOf(d)
              /\ FilesOf(d)' = IF d = Top.dir THEN FilesOf(d) \cup {b} ELSE FilesOf(d)
         /\ b \notin DOMAIN files /\ DOMAIN files' = DOMAIN files \cup {b}
         /\ \A f \in DOMAIN files : files'[f] = files[f]
         /\ files'[b].name = NameSeen /\ files'[b].parent = Top.dir /\ files'[b].size = Seen.size
         /\ files'[b].id = NewId
         /\ UNCHANGED <<volume, mount>>
<1>1. Sees("file") /\ UNCHANGED <<volume, mount>>
  BY DEF AddFile
<1>2. /\ n \in Nat \ {0} /\ DOMAIN calls = 1 .. n /\ Top = calls[n] /\ IsCall(Top) /\ IsSequence(calls)
  <2>1. calls # <<>>
    BY <1>1 DEF Sees
  <2> QED BY <2>1, TopIsCall DEF TreeInv, CallsInv
<1>3. PICK a : a = Top.dir
  OBVIOUS
<1>4. PICK f : f = [name |-> NameSeen, parent |-> Top.dir, size |-> Seen.size, id |-> NewId, open |-> 0]
  OBVIOUS
<1>5. PICK c : c = Continue(Named(Top))
  OBVIOUS
<1>6. /\ files' = Append(files, f) /\ directories' = [directories EXCEPT ![a].files = Append(@, b)]
      /\ calls' = [calls EXCEPT ![n] = c]
  BY <1>3, <1>4, <1>5 DEF AddFile, TopBecomes
<1>7. /\ Len(calls') = n /\ DOMAIN calls' = 1 .. n
      /\ \A k \in 1 .. n : calls'[k] = IF k = n THEN c ELSE calls[k]
  BY <1>2, <1>6, OneChanged
<1>8. /\ b \notin DOMAIN files /\ DOMAIN files' = DOMAIN files \cup {b} /\ files'[b] = f
      /\ \A g \in DOMAIN files : files'[g] = files[g]
  <2>1. PICK s : s = files
    OBVIOUS
  <2>2. IsSequence(s) /\ Len(s) \in Nat /\ DOMAIN s = 1 .. Len(s)
    BY <2>1, SequenceFacts DEF FilesInv
  <2>3. /\ DOMAIN Append(s, f) = 1 .. Len(s) + 1
        /\ Append(s, f)[Len(s) + 1] = f /\ \A i \in DOMAIN s : Append(s, f)[i] = s[i]
    BY <2>2, OneMore
  <2> QED BY <1>6, <2>1, <2>2, <2>3
<1>9. a \in DOMAIN directories /\ IsDirectory(directories[a])
  BY <1>2, <1>3 DEF TreeInv, IsCall, DirectoriesInv, InPlace
<1>10. PICK D : D = directories[a]
  OBVIOUS
<1>11. PICK m : m = Append(D.files, b)
  OBVIOUS
<1>12. ToSet(m) = ToSet(D.files) \cup {b}
  BY <1>9, <1>10, <1>11, MoreInSet DEF IsDirectory, IsSequence
<1>13. PICK E : E = [D EXCEPT !.files = m]
  OBVIOUS
<1>14. E.files = m /\ E.dirs = D.dirs /\ E.parent = D.parent /\ E.name = D.name /\ E.id = D.id
  BY <1>9, <1>10, <1>13 DEF IsDirectory
<1>15. directories' = [directories EXCEPT ![a] = E]
  BY <1>6, <1>10, <1>11, <1>13
<1>16. /\ DOMAIN directories' = DOMAIN directories
       /\ \A d \in DOMAIN directories : directories'[d] = IF d = a THEN E ELSE directories[d]
  BY <1>15
<1>17. ASSUME NEW d \in DOMAIN directories
       PROVE  /\ DirectorySame(d) /\ DirsOf(d)' = DirsOf(d)
              /\ FilesOf(d)' = IF d = Top.dir THEN FilesOf(d) \cup {b} ELSE FilesOf(d)
  <2>1. CASE d = a
    BY <1>3, <1>10, <1>12, <1>14, <1>16, <2>1 DEF DirectorySame, DirsOf, FilesOf
  <2>2. CASE d # a
    BY <1>3, <1>16, <2>2 DEF DirectorySame, DirsOf, FilesOf
  <2> QED BY <2>1, <2>2
<1>18. f.name = NameSeen /\ f.parent = Top.dir /\ f.size = Seen.size /\ f.id = NewId
  BY <1>4
<1> QED BY <1>1, <1>2, <1>5, <1>7, <1>8, <1>16, <1>17, <1>18

\* A step in which the topmost call goes on leaves the directories of the calls.
LEMMA GoingOnDoes ==
  ASSUME TreeInv, NextCluster \/ SkipFree \/ TakeLongName \/ SkipDot
  PROVE  /\ UNCHANGED <<volume, directories, files, fentries>> /\ mount' \in {mount, "lost"} /\ mount = "reading"
         /\ calls # <<>> /\ IsCall(Top) /\ Len(calls') = Len(calls)
         /\ DOMAIN calls' = DOMAIN calls /\ \A k \in DOMAIN calls : calls'[k].dir = calls[k].dir
<1>1. /\ UNCHANGED <<volume, directories, files, fentries>> /\ mount' \in {mount, "lost"} /\ mount = "reading"
      /\ calls # <<>>
  BY DEF NextCluster, SkipFree, TakeLongName, SkipDot, Sees
<1>2. Len(calls) \in DOMAIN calls /\ Top = calls[Len(calls)] /\ IsCall(Top) /\ IsSequence(calls)
  BY <1>1, TopIsCall DEF TreeInv, CallsInv
<1>3. ASSUME NEW c, TopBecomes(c), c.dir = Top.dir
      PROVE  /\ DOMAIN calls' = DOMAIN calls /\ \A k \in DOMAIN calls : calls'[k].dir = calls[k].dir
             /\ Len(calls') = Len(calls)
  <2>1. /\ DOMAIN calls' = DOMAIN calls /\ \A k \in DOMAIN calls : calls'[k] = IF k = Len(calls) THEN c ELSE calls[k]
        /\ Len(calls') = Len(calls)
    BY <1>2, <1>3, OneChanged DEF TopBecomes
  <2> QED BY <1>2, <1>3, <2>1
<1>4. Continue(Top).dir = Top.dir
  BY <1>2, CallContinues
<1>5. PICK t : t = [Top EXCEPT !.lfn = @ \o Seen.name]
  OBVIOUS
<1>6. t.dir = Top.dir /\ Continue(t).dir = Top.dir
  BY <1>2, <1>5 DEF IsCall, Continue
<1>7. PICK u : u = [Top EXCEPT !.data = volume.slots[Top.next], !.next = volume.next[Top.next], !.i = 1]
  OBVIOUS
<1>8. u.dir = Top.dir
  BY <1>2, <1>7 DEF IsCall
<1>9. \/ calls' = calls \/ TopBecomes(Continue(Top)) \/ TopBecomes(Continue(t)) \/ TopBecomes(u)
  BY <1>5, <1>7 DEF NextCluster, SkipFree, TakeLongName, SkipDot
<1> QED BY <1>1, <1>2, <1>3, <1>4, <1>6, <1>8, <1>9

\* Nothing is lost from the lists.
LEMMA LinksStep ==
  ASSUME TreeInv, OpenInv, LinksInv, [Next]_vars
  PROVE  LinksInv'
<1>0. FilesInv /\ \A f \in DOMAIN files : files[f].parent \in DOMAIN directories
  BY DEF OpenInv, TreeInv, EntriesInv
<1>00. \A d \in DOMAIN directories : d # Root => directories[d].parent \in DOMAIN directories
  <2>1. DOMAIN directories = 1 .. Len(directories) /\ Len(directories) \in Nat
    BY SequenceFacts DEF TreeInv, DirectoriesInv
  <2> QED BY <2>1 DEF TreeInv, DirectoriesInv, InPlace, NoDirectory
<1>1. CASE ~Mounting
  <2>1. TreeSame
    BY <1>0, <1>1, CallsKeepTree
  <2>2. \A d \in DOMAIN directories : FilesOf(d) \subseteq DOMAIN files
    BY DEF TreeInv, DirectoriesInv, InPlace, FilesOf, ToSet
  <2>3. (\A d \in DOMAIN directories : \A f \in FilesOf(d) : files[f].parent = d)'
    BY <2>1, <2>2 DEF LinksInv, TreeSame, FileSame, FilesOf
  <2> QED BY <2>1, <2>3 DEF LinksInv, TreeSame, FileSame, Attached, DirsOf, FilesOf
<1>2. CASE NextCluster \/ SkipFree \/ TakeLongName \/ SkipDot
  BY <1>2, GoingOnDoes DEF LinksInv, Attached, DirsOf, FilesOf
<1>3. CASE Return
  <2>1. CASE Len(calls) = 1
    <3>1. UNCHANGED <<directories, files>> /\ calls' = <<>> /\ calls # <<>>
      BY <1>3, <2>1 DEF Return
    <3>2. DOMAIN calls = {1}
      BY <2>1, <3>1, TopIsCall
    <3>3. \A d \in DOMAIN directories : d = Root \/ Attached(d)
      BY <3>1, <3>2 DEF LinksInv
    <3> QED BY <3>1, <3>3 DEF LinksInv, Attached, DirsOf, FilesOf
  <2>2. CASE Len(calls) # 1
    <3>1. PICK n : n = Len(calls)
      OBVIOUS
    <3>2. /\ n \in Nat \ {0, 1} /\ n > 1 /\ DOMAIN calls = 1 .. n /\ DOMAIN calls' = 1 .. n - 1
          /\ \A k \in 1 .. n - 1 : calls'[k] = IF k = n - 1 THEN Continue(calls[k]) ELSE calls[k]
          /\ DOMAIN directories' = DOMAIN directories
          /\ \A d \in DOMAIN directories :
               /\ DirectorySame(d) /\ FilesOf(d)' = FilesOf(d)
               /\ DirsOf(d)' = IF d = calls[n - 1].dir THEN DirsOf(d) \cup {calls[n].dir} ELSE DirsOf(d)
          /\ UNCHANGED <<volume, mount, files, fentries>>
      BY <1>3, <2>2, <3>1, ReturnDoes
    <3>3. \A k \in 1 .. n - 1 : calls'[k].dir = calls[k].dir
      <4>1. \A k \in 1 .. n - 1 : k \in DOMAIN calls
        BY <3>2
      <4>2. \A k \in 1 .. n - 1 : Continue(calls[k]).dir = calls[k].dir
        BY <4>1, CallContinues DEF TreeInv, CallsInv
      <4> QED BY <3>2, <4>2
    <3>4. ASSUME NEW d \in DOMAIN directories, d # Root
          PROVE  Attached(d)' \/ \E k \in DOMAIN calls' : calls'[k].dir = d
      <4>1. CASE Attached(d)
        <5>1. directories[d].parent \in DOMAIN directories /\ directories'[d].parent = directories[d].parent
          BY <1>00, <3>2, <3>4 DEF DirectorySame
        <5> QED BY <3>2, <4>1, <5>1 DEF Attached
      <4>2. ASSUME NEW k \in DOMAIN calls, calls[k].dir = d PROVE Attached(d)' \/ \E j \in DOMAIN calls' : calls'[j].dir = d
        <5>1. CASE k = n
          <6>1. IsUnder(calls[n].dir, calls[n - 1].dir)
            BY <3>2, <4>2, <5>1 DEF TreeInv, CallsInv
          <6>2. directories[d].parent = calls[n - 1].dir /\ directories'[d].parent = directories[d].parent
            BY <3>2, <4>2, <5>1, <6>1 DEF IsUnder, DirectorySame
          <6>3. directories[d].parent \in DOMAIN directories
            BY <1>00, <3>4
          <6> QED BY <3>2, <4>2, <5>1, <6>2, <6>3 DEF Attached
        <5>2. CASE k # n
          BY <3>2, <3>3, <4>2, <5>2
        <5> QED BY <5>1, <5>2
      <4> QED BY <3>4, <4>1, <4>2 DEF LinksInv
    <3>5. (\A f \in DOMAIN files : f \in FilesOf(files[f].parent))'
      BY <1>0, <3>2 DEF LinksInv
    <3>6. (\A d \in DOMAIN directories : \A f \in FilesOf(d) : files[f].parent = d)'
      BY <3>2 DEF LinksInv
    <3>7. calls'[1].dir = Root /\ mount' # "mounted"
      <4>1. calls # <<>> /\ mount = "reading"
        BY <1>3 DEF Return
      <4> QED BY <3>2, <3>3, <4>1 DEF LinksInv
    <3> QED BY <3>2, <3>4, <3>5, <3>6, <3>7 DEF LinksInv
  <2> QED BY <2>1, <2>2
<1>4. CASE EnterDirectory
  <2>1. PICK n, m : n = Len(calls) /\ m = Len(directories) + 1
    OBVIOUS
  <2>2. /\ n \in Nat \ {0} /\ DOMAIN calls = 1 .. n /\ Top = calls[n] /\ IsCall(Top)
        /\ DOMAIN calls' = 1 .. n + 1
        /\ \A k \in 1 .. n : calls'[k] = IF k = n THEN Named(Top) ELSE calls[k]
        /\ calls'[n + 1] = Call(m, volume.slots[Seen.cluster], volume.next[Seen.cluster])
        /\ m \in Nat /\ m \notin DOMAIN directories /\ DOMAIN directories' = DOMAIN directories \cup {m}
        /\ \A d \in DOMAIN directories :
             DirectorySame(d) /\ FilesOf(d)' = FilesOf(d) /\ DirsOf(d)' = DirsOf(d) /\ d < m
        /\ FilesOf(m)' = {} /\ DirsOf(m)' = {}
        /\ UNCHANGED <<volume, mount, files>>
    BY <1>4, <2>1, EnterDirectoryDoes
  <2>3. (\A k \in 1 .. n : k \in DOMAIN calls' /\ calls'[k].dir = calls[k].dir) /\ n + 1 \in DOMAIN calls' /\ calls'[n + 1].dir = m
    BY <2>2, CallContinues DEF Call
  <2>4. ASSUME NEW d \in DOMAIN directories', d # Root
        PROVE  Attached(d)' \/ \E k \in DOMAIN calls' : calls'[k].dir = d
    <3>1. CASE d = m
      BY <2>3, <3>1
    <3>2. CASE d # m
      <4>1. d \in DOMAIN directories
        BY <2>2, <3>2
      <4>2. directories[d].parent \in DOMAIN directories /\ directories'[d].parent = directories[d].parent
        BY <1>00, <2>2, <2>4, <4>1 DEF DirectorySame
      <4>3. Attached(d) => Attached(d)'
        BY <2>2, <4>2 DEF Attached
      <4> QED BY <2>2, <2>3, <2>4, <4>1, <4>3 DEF LinksInv
    <3> QED BY <3>1, <3>2
  <2>5. (\A f \in DOMAIN files : f \in FilesOf(files[f].parent))'
    BY <1>0, <2>2 DEF LinksInv
  <2>6. (\A d \in DOMAIN directories : \A f \in FilesOf(d) : files[f].parent = d)'
    BY <2>2 DEF LinksInv
  <2>7. calls'[1].dir = Root /\ mount' # "mounted"
    <3>1. calls # <<>> /\ mount = "reading"
      BY <1>4 DEF EnterDirectory, Sees
    <3> QED BY <2>2, <2>3, <3>1 DEF LinksInv
  <2> QED BY <2>4, <2>5, <2>6, <2>7 DEF LinksInv
<1>5. CASE AddFile
  <2>1. PICK n, b : n = Len(calls) /\ b = Len(files) + 1
    OBVIOUS
  <2>2. /\ n \in Nat \ {0} /\ DOMAIN calls = 1 .. n /\ Top = calls[n] /\ IsCall(Top)
        /\ DOMAIN calls' = 1 .. n
        /\ \A k \in 1 .. n : calls'[k] = IF k = n THEN Continue(Named(Top)) ELSE calls[k]
        /\ DOMAIN directories' = DOMAIN directories
        /\ \A d \in DOMAIN directories :
             /\ DirectorySame(d) /\ DirsOf(d)' = DirsOf(d)
             /\ FilesOf(d)' = IF d = Top.dir THEN FilesOf(d) \cup {b} ELSE FilesOf(d)
        /\ b \notin DOMAIN files /\ DOMAIN files' = DOMAIN files \cup {b}
        /\ \A f \in DOMAIN files : files'[f] = files[f]
        /\ files'[b].parent = Top.dir
        /\ UNCHANGED <<volume, mount>>
    BY <1>0, <1>5, <2>1, AddFileDoes
  <2>3. \A k \in 1 .. n : calls'[k].dir = calls[k].dir
    BY <2>2, CallContinues
  <2>4. ASSUME NEW d \in DOMAIN directories, d # Root
        PROVE  Attached(d)' \/ \E k \in DOMAIN calls' : calls'[k].dir = d
    <3>1. directories[d].parent \in DOMAIN directories /\ directories'[d].parent = directories[d].parent
      BY <1>00, <2>2, <2>4 DEF DirectorySame
    <3>2. Attached(d) => Attached(d)'
      BY <2>2, <3>1 DEF Attached
    <3> QED BY <2>2, <2>3, <2>4, <3>2 DEF LinksInv
  <2>5. Top.dir \in DOMAIN directories
    BY <2>2 DEF IsCall
  <2>6. (\A f \in DOMAIN files : f \in FilesOf(files[f].parent))'
    <3>1. SUFFICES ASSUME NEW f \in DOMAIN files' PROVE f \in ToSet(directories'[files'[f].parent].files)
      BY DEF FilesOf
    <3>2. PICK d : d = files'[f].parent
      OBVIOUS
    <3>3. f \in FilesOf(d)'
      <4>1. CASE f = b
        BY <2>2, <2>5, <3>2, <4>1
      <4>2. CASE f # b
        BY <1>0, <2>2, <3>2, <4>2 DEF LinksInv
      <4> QED BY <4>1, <4>2
    <3> QED BY <3>2, <3>3 DEF FilesOf
  <2>7. (\A d \in DOMAIN directories : \A f \in FilesOf(d) : files[f].parent = d)'
    <3>1. \A d \in DOMAIN directories : FilesOf(d) \subseteq DOMAIN files
      BY DEF TreeInv, DirectoriesInv, InPlace, FilesOf, ToSet
    <3> QED BY <2>2, <3>1 DEF LinksInv
  <2>8. calls'[1].dir = Root /\ mount' # "mounted"
    <3>1. calls # <<>> /\ mount = "reading"
      BY <1>5 DEF AddFile, Sees
    <3> QED BY <2>2, <2>3, <3>1 DEF LinksInv
  <2> QED BY <2>2, <2>4, <2>6, <2>7, <2>8 DEF LinksInv
<1> QED BY <1>1, <1>2, <1>3, <1>4, <1>5 DEF Mounting, MountStep

LEMMA LinksStart == Init => LinksInv
<1>1. SUFFICES ASSUME Init PROVE LinksInv
  OBVIOUS
<1>2. /\ mount = "reading" /\ files = <<>> /\ directories = <<NewDirectory(<<>>, NoDirectory, 0)>>
      /\ calls = <<RootCall(volume)>>
  BY <1>1 DEF Init, MountInit
<1>3. directories[1].files = <<>> /\ DOMAIN directories = {1} /\ ToSet(<<>>) = {} /\ DOMAIN files = {}
  BY <1>2 DEF NewDirectory, ToSet
<1>4. calls[1].dir = Root
  BY <1>2 DEF RootCall, Call
<1> QED BY <1>2, <1>3, <1>4 DEF LinksInv, FilesOf, Root

\* The tree after a mount gives every path, whose directories but the last exist,
\* its meaning: vfs_find_directory and vfs_find_file find what it names and nothing
\* else, whatever the volume.
THEOREM LookupsMean == Spec => LookupExact
<1>1. Init => LinksInv
  BY LinksStart
<1>2. TreeInv /\ OpenInv /\ LinksInv /\ [Next]_vars => LinksInv'
  BY LinksStep
<1>3. TreeInv /\ OpenInv /\ LinksInv => (mount = "mounted" => LookupIsExact)
  BY LookupsExact DEF OpenInv
<1>4. (mount = "mounted" => LookupIsExact)' => (MountCompletes => LookupIsExact')
  BY DEF MountCompletes
<1> QED BY TreeInvariant, OpenInvariant, <1>1, <1>2, <1>3, <1>4, PTL DEF Spec, LookupExact

\* Paths of any length lead where they mean to, as long as the volume is mounted.
PathsMean ==
  mount = "mounted" /\ ~FoundTwice /\ NamesDiffer =>
    \A path : IsSequence(path) /\ ~PassesOver(path) => FoundAsMeant(path)

\* A path of any length, of any names, has its meaning for vfs_find_directory and
\* vfs_find_file from the end of the mount on: opening and closing files never
\* takes that away.
THEOREM EveryPathMeans == Spec => []PathsMean
<1>1. Init => LinksInv
  BY LinksStart
<1>2. TreeInv /\ OpenInv /\ LinksInv /\ [Next]_vars => LinksInv'
  BY LinksStep
<1>3. TreeInv /\ OpenInv /\ LinksInv => PathsMean
  <2>1. SUFFICES ASSUME TreeInv, LinksInv, FilesInv, mount = "mounted", ~FoundTwice, NamesDiffer,
                        NEW path, IsSequence(path), ~PassesOver(path)
                 PROVE  FoundAsMeant(path)
    BY DEF PathsMean, OpenInv
  <2> QED BY <2>1, PathMeans
<1> QED BY TreeInvariant, OpenInvariant, <1>1, <1>2, <1>3, PTL DEF Spec

-----------------------------------------------------------------------------
(* The entries of a directory and what they list.                          *)

LEMMA LeastOf ==
  ASSUME NEW T, T \subseteq Nat, T # {}
  PROVE  Min(T) \in T /\ \A y \in T : Min(T) <= y
<1>1. PICK x \in T : \A y \in T : ~(<<y, x>> \in OpToRel(<, Nat))
  BY NatLessThanWellFounded, WFMin, Zenon
<1>2. \A y \in T : ~(y < x)
  BY <1>1 DEF OpToRel
<1>3. \A y \in T : x <= y
  BY <1>2
<1> QED BY <1>3, Zenon DEF Min

\* Parts that are empty but for the first one.
LEMMA FlatFirst ==
  ASSUME NEW parts, Len(parts) \in Nat \ {0}, IsSequence(parts[1]),
         \A i \in 2 .. Len(parts) : parts[i] = <<>>
  PROVE  FlattenSeq(parts) = parts[1]
<1>1. PICK f : f = CHOOSE x : IsFlat(x, parts)
  OBVIOUS
<1>2. IsFlat(f, parts)
  BY <1>1, FlatExists
<1>3. FlattenSeq(parts) = f[Len(parts)]
  BY <1>1, Zenon DEF FlattenSeq, IsFlat
<1>4. PICK n \in Nat \ {0} : n = Len(parts)
  OBVIOUS
<1>5. \A i \in 1 .. n : f[i] = IF i = 1 THEN parts[i] ELSE f[i - 1] \o parts[i]
  BY <1>2, <1>4 DEF IsFlat
<1>6. parts[1] \o <<>> = parts[1]
  <2>1. PICK S : parts[1] \in Seq(S)
    BY DEF IsSequence
  <2> QED BY <2>1, ConcatEmptySeq
<1> DEFINE T == {m \in Nat : m + 1 <= n => f[m + 1] = parts[1]}
<1>7. 0 \in T
  BY <1>4, <1>5
<1>8. ASSUME NEW m \in Nat, m \in T PROVE m + 1 \in T
  <2>1. SUFFICES ASSUME (m + 1) + 1 <= n PROVE f[(m + 1) + 1] = parts[1]
    OBVIOUS
  <2>2. f[m + 1] = parts[1]
    BY <1>8, <2>1
  <2>3. /\ (m + 1) + 1 \in 1 .. n /\ (m + 1) + 1 \in 2 .. n /\ (m + 1) + 1 # 1
        /\ ((m + 1) + 1) - 1 = m + 1
    BY <1>4, <2>1
  <2>4. f[(m + 1) + 1] = f[m + 1] \o parts[(m + 1) + 1] /\ parts[(m + 1) + 1] = <<>>
    BY <1>4, <1>5, <2>3
  <2> QED BY <1>6, <2>2, <2>4
<1>9. n - 1 \in T
  <2> HIDE DEF T
  <2>1. Nat \subseteq T
    BY <1>7, <1>8, AllNumbers
  <2>2. n - 1 \in Nat
    OBVIOUS
  <2> QED BY <2>1, <2>2
<1>10. (n - 1) + 1 = n /\ n <= n
  OBVIOUS
<1> QED BY <1>3, <1>4, <1>9, <1>10

\* The long name right before an entry, the entry with its name, and those of
\* the files and directories among the first.
LfnAt(s, p) == IF p > 1 /\ s[p - 1].kind = "lfn" THEN s[p - 1].name ELSE <<>>
ItemAt(s, p) == [s[p] EXCEPT !.name = IF LfnAt(s, p) = <<>> THEN @ ELSE LfnAt(s, p)]
InUseAt(s, p) == s[p].kind \in {"file", "dir"}
ItemsBefore(s, p) == {ItemAt(s, j) : j \in {j \in 1 .. p - 1 : InUseAt(s, j)}}

\* A long name is one part, right before the entry it names.
WellNamed(s) ==
  \A i \in DOMAIN s : s[i].kind = "lfn" =>
    IsSequence(s[i].name) /\ i + 1 \in DOMAIN s /\ InUseAt(s, i + 1)

LEMMA LongNameIs ==
  ASSUME NEW s, IsSequence(s), WellNamed(s), NEW i \in DOMAIN s
  PROVE  LongName(s, i) = LfnAt(s, i)
<1>1. DOMAIN s = 1 .. Len(s) /\ Len(s) \in Nat /\ i \in Nat \ {0} /\ i - 1 \in Nat
  BY SequenceFacts
<1> DEFINE N(j) == IF s[j].kind = "lfn" /\ \A k \in j..(i - 1) : k \notin InUse(s) THEN s[j].name ELSE <<>>
<1>2. PICK x : x = [j \in 1..(i - 1) |-> N(j)]
  OBVIOUS
<1>3. LongName(s, i) = FlattenSeq(Reverse(x))
  BY <1>2, Zenon DEF LongName
<1>4. Len(x) = i - 1 /\ DOMAIN x = 1 .. i - 1 /\ \A j \in 1 .. i - 1 : x[j] = N(j)
  <2>1. DOMAIN x = 1 .. i - 1 /\ x = [j \in 1 .. i - 1 |-> x[j]] /\ \A j \in 1 .. i - 1 : x[j] = N(j)
    BY <1>2
  <2>2. Len(x) = i - 1
    BY <1>1, <2>1, FunctionIsSequence
  <2> QED BY <2>1, <2>2
<1>5. PICK r : r = [j \in 1 .. i - 1 |-> x[((i - 1) - j) + 1]]
  OBVIOUS
<1>6. LongName(s, i) = FlattenSeq(r)
  BY <1>3, <1>4, <1>5 DEF Reverse
<1>7. Len(r) = i - 1 /\ \A j \in 1 .. i - 1 : r[j] = x[((i - 1) - j) + 1]
  <2>1. DOMAIN r = 1 .. i - 1 /\ r = [j \in 1 .. i - 1 |-> r[j]]
    BY <1>5
  <2>2. Len(r) = i - 1
    BY <1>1, <2>1, FunctionIsSequence
  <2> QED BY <1>5, <2>2
<1>8. CASE i = 1
  <2>1. LfnAt(s, i) = <<>>
    BY <1>8 DEF LfnAt
  <2>2. FlattenSeq(r) = r
    <3>1. Len(r) = 0
      BY <1>7, <1>8
    <3> QED BY <3>1, Zenon DEF FlattenSeq
  <2>3. r = <<>>
    BY <1>5, <1>8
  <2> QED BY <1>6, <2>1, <2>2, <2>3
<1>9. CASE i # 1
  <2>1. i - 1 \in 1 .. i - 1 /\ i > 1 /\ i - 1 \in DOMAIN s
    BY <1>1, <1>9
  <2>2. N(i - 1) = LfnAt(s, i)
    <3>1. CASE s[i - 1].kind = "lfn"
      <4>1. \A k \in (i - 1) .. (i - 1) : k = i - 1
        BY <1>1
      <4>2. i - 1 \notin InUse(s)
        BY <3>1 DEF InUse
      <4> QED BY <2>1, <3>1, <4>1, <4>2 DEF LfnAt
    <3>2. CASE s[i - 1].kind # "lfn"
      BY <3>2 DEF LfnAt
    <3> QED BY <3>1, <3>2
  <2>3. ASSUME NEW j \in 1 .. i - 1, j # i - 1 PROVE N(j) = <<>>
    <3>1. SUFFICES ASSUME s[j].kind = "lfn" PROVE \E k \in j .. (i - 1) : k \in InUse(s)
      BY Zenon
    <3>2. j \in DOMAIN s
      BY <1>1, <2>3
    <3>3. j + 1 \in InUse(s)
      BY <3>1, <3>2 DEF WellNamed, InUseAt, InUse
    <3>4. j + 1 \in j .. (i - 1)
      BY <1>1, <2>3
    <3> QED BY <3>3, <3>4
  <2>4. r[1] = LfnAt(s, i)
    <3>1. 1 \in 1 .. i - 1 /\ ((i - 1) - 1) + 1 = i - 1
      BY <1>1, <2>1
    <3> QED BY <1>4, <1>7, <2>1, <2>2, <3>1
  <2>5. ASSUME NEW j \in 2 .. Len(r) PROVE r[j] = <<>>
    <3>1. /\ j \in 1 .. i - 1 /\ ((i - 1) - j) + 1 \in 1 .. i - 1 /\ ((i - 1) - j) + 1 # i - 1
      BY <1>1, <1>7
    <3> QED BY <1>4, <1>7, <2>3, <3>1
  <2>6. IsSequence(LfnAt(s, i))
    <3>1. IsSequence(<<>>)
      BY EmptySeq DEF IsSequence
    <3> QED BY <2>1, <3>1 DEF LfnAt, WellNamed
  <2>7. FlattenSeq(r) = r[1]
    <3>1. Len(r) \in Nat \ {0}
      BY <1>1, <1>7, <1>9
    <3>2. IsSequence(r[1])
      BY <2>4, <2>6
    <3> QED BY <2>5, <3>1, <3>2, FlatFirst
  <2> QED BY <1>6, <2>4, <2>7
<1> QED BY <1>8, <1>9

\* What the entries before one that is not in use list.
LEMMA ListedIs ==
  ASSUME NEW s, IsSequence(s), WellNamed(s), NEW m \in 0 .. Len(s), m + 1 \in DOMAIN s => ~InUseAt(s, m + 1)
  PROVE  Listed(SubSeq(s, 1, m)) = ItemsBefore(s, m + 1)
<1>1. PICK t : t = SubSeq(s, 1, m)
  OBVIOUS
<1>2. DOMAIN s = 1 .. Len(s) /\ Len(s) \in Nat /\ m \in Nat
  BY SequenceFacts
<1>3. /\ IsSequence(t) /\ Len(t) = m /\ DOMAIN t = 1 .. m
      /\ \A i \in 1 .. m : i \in DOMAIN s /\ t[i] = s[i]
  BY <1>1, Shortened
<1>4. WellNamed(t)
  <2>1. SUFFICES ASSUME NEW i \in 1 .. m, t[i].kind = "lfn"
                 PROVE  IsSequence(t[i].name) /\ i + 1 \in 1 .. m /\ InUseAt(t, i + 1)
    BY <1>3 DEF WellNamed
  <2>2. i \in DOMAIN s /\ s[i].kind = "lfn"
    BY <1>3, <2>1
  <2>3. IsSequence(s[i].name) /\ i + 1 \in DOMAIN s /\ InUseAt(s, i + 1)
    BY <2>2 DEF WellNamed
  <2>4. i + 1 # m + 1
    BY <2>3
  <2>5. i + 1 \in 1 .. m
    BY <1>2, <2>4
  <2> QED BY <1>3, <2>3, <2>5 DEF InUseAt
<1>5. InUse(t) = {j \in 1 .. (m + 1) - 1 : InUseAt(s, j)}
  <2>1. (m + 1) - 1 = m
    BY <1>2
  <2> QED BY <1>3, <2>1 DEF InUse, InUseAt
<1>6. ASSUME NEW i \in InUse(t)
      PROVE  [t[i] EXCEPT !.name = IF LongName(t, i) = <<>> THEN @ ELSE LongName(t, i)] = ItemAt(s, i)
  <2>1. i \in 1 .. m
    BY <1>3 DEF InUse
  <2>2. LongName(t, i) = LfnAt(t, i)
    BY <1>3, <1>4, <2>1, LongNameIs
  <2>3. LfnAt(t, i) = LfnAt(s, i)
    <3>1. CASE i > 1
      <4>1. i - 1 \in 1 .. m
        BY <1>2, <2>1, <3>1
      <4> QED BY <1>3, <4>1 DEF LfnAt
    <3>2. CASE ~(i > 1)
      BY <3>2 DEF LfnAt
    <3> QED BY <3>1, <3>2
  <2>4. t[i] = s[i]
    BY <1>3, <2>1
  <2> QED BY <2>2, <2>3, <2>4, Zenon DEF ItemAt
<1>7. Listed(t) = {ItemAt(s, i) : i \in InUse(t)}
  BY <1>6, Zenon DEF Listed
<1> QED BY <1>1, <1>5, <1>7 DEF ItemsBefore

\* The end of a directory is the first entry that marks it.
LEMMA UpToEndIs ==
  ASSUME NEW s, IsSequence(s), NEW p \in 1 .. Len(s) + 1, \A j \in 1 .. p - 1 : s[j].kind # "end",
         p \in DOMAIN s => s[p].kind = "end"
  PROVE  UpToEnd(s) = SubSeq(s, 1, p - 1)
<1>1. PICK x : x = Entry("end", <<>>, 0, 0)
  OBVIOUS
<1>2. x.kind = "end"
  BY <1>1 DEF Entry
<1>3. PICK t : t = Append(s, x)
  OBVIOUS
<1>4. DOMAIN s = 1 .. Len(s) /\ Len(s) \in Nat
  BY SequenceFacts
<1>5. Len(t) = Len(s) + 1 /\ t[Len(s) + 1] = x /\ \A i \in DOMAIN s : t[i] = s[i]
  BY <1>3, OneMore
<1>6. PICK I : I = {i \in 1 .. Len(t) : t[i].kind = "end"}
  OBVIOUS
<1>7. p \in I
  <2>1. p \in DOMAIN s \/ p = Len(s) + 1
    BY <1>4
  <2> QED BY <1>2, <1>4, <1>5, <1>6, <2>1
<1>8. \A y \in I : y \in Nat /\ p <= y
  <2>1. SUFFICES ASSUME NEW y \in I, ~(p <= y) PROVE FALSE
    BY <1>4, <1>5, <1>6
  <2>2. y \in 1 .. p - 1 /\ y \in DOMAIN s
    BY <1>4, <1>5, <1>6, <2>1
  <2> QED BY <1>5, <1>6, <2>2
<1>9. Min(I) = p
  <2>1. Min(I) \in I /\ \A y \in I : Min(I) <= y
    BY <1>7, <1>8, LeastOf
  <2> QED BY <1>7, <1>8, <2>1
<1>10. SelectInSeq(t, LAMBDA e : e.kind = "end") = Min(I)
  <2>1. I # {}
    BY <1>7
  <2> QED BY <1>6, <2>1, Zenon DEF SelectInSeq
<1> QED BY <1>1, <1>3, <1>9, <1>10, Zenon DEF UpToEnd

-----------------------------------------------------------------------------
(* Where the entries of a directory lie.                                   *)

\* The cluster of a directory, the sector or the clusters it takes, and the
\* entries in them.
ClusterOf(d) == IF d = Root THEN volume.root ELSE fentries[directories[d].id].cluster
InSector(d) == d = Root /\ ~volume.fat32
ChainOf(d) == Chain(volume, ClusterOf(d))
PartsIn(d) ==
  IF InSector(d) THEN <<volume.sector>>
  ELSE [q \in DOMAIN ChainOf(d) |-> volume.slots[ChainOf(d)[q]]]
AllEntries(d) == FlattenSeq(PartsIn(d))

OnVolume(d) ==
  d # Root => directories[d].id \in DOMAIN fentries /\ ClusterOf(d) \in DOMAIN volume.slots

\* A sector or a cluster that the driver reads whole.
PartFine(s) ==
  /\ IsSequence(s) /\ Len(s) = Slots /\ s[Slots].kind \in {"end", "free"}
  /\ \A i \in 1 .. Slots : s[i].kind = "lfn" => IsSequence(s[i].name) /\ i < Slots /\ InUseAt(s, i + 1)

LEMMA LegiblePart ==
  ASSUME TreeInv, Legible(volume), NEW s, HasEntries(volume, s),
         s \in {volume.sector} \cup {volume.slots[c] : c \in DOMAIN volume.slots}
  PROVE  PartFine(s)
<1>1. IsSequence(s) /\ Len(s) = Slots /\ Slots \in Nat \ {0} /\ DOMAIN s = 1 .. Slots
  <2>1. IsSequence(s) /\ Len(s) = Slots /\ Slots \in Nat \ {0}
    BY VolumesAssumption DEF HasEntries, IsSequence
  <2> QED BY <2>1, SequenceFacts
<1>2. /\ s = <<>> \/ Last(s).kind \in {"end", "free"}
      /\ \A i \in DOMAIN s : s[i].kind = "lfn" => s[i + 1].kind \in {"file", "dir"}
  BY DEF Legible
<1>3. s # <<>>
  BY <1>1
<1>4. s[Slots].kind \in {"end", "free"}
  BY <1>1, <1>2, <1>3 DEF Last
<1>5. ASSUME NEW i \in 1 .. Slots, s[i].kind = "lfn"
      PROVE  IsSequence(s[i].name) /\ i < Slots /\ InUseAt(s, i + 1)
  <2>1. i # Slots
    BY <1>4, <1>5
  <2>2. i < Slots /\ i \in 1 .. Slots - 1
    BY <1>1, <2>1
  <2>3. IsSequence(s[i].name)
    BY <2>2 DEF HasEntries, IsEntry, IsSequence
  <2> QED BY <1>1, <1>2, <1>5, <2>2, <2>3 DEF InUseAt
<1> QED BY <1>1, <1>4, <1>5 DEF PartFine

\* The parts of a directory of the tree, and where its entries lie in them.
LEMMA PartsFine ==
  ASSUME TreeInv, Legible(volume), NEW d, OnVolume(d)
  PROVE  /\ Len(PartsIn(d)) \in Nat \ {0}
         /\ \A q \in 1 .. Len(PartsIn(d)) : PartFine(PartsIn(d)[q])
         /\ LiesInParts(AllEntries(d), PartsIn(d), Slots, Len(PartsIn(d)))
         /\ ~InSector(d) =>
              /\ GoesOn(ChainOf(d), volume, ClusterOf(d)) /\ Len(ChainOf(d)) = Len(PartsIn(d))
              /\ \A q \in 1 .. Len(PartsIn(d)) :
                   /\ ChainOf(d)[q] \in DOMAIN volume.slots
                   /\ PartsIn(d)[q] = volume.slots[ChainOf(d)[q]]
<1>1. PICK parts : parts = PartsIn(d)
  OBVIOUS
<1>2. volume \in Volumes
  BY DEF TreeInv, EntriesInv
<1>3. /\ volume.next \in Seq(Nat) /\ DOMAIN volume.slots = DOMAIN volume.next /\ ChainsEnd(volume)
      /\ \A c \in DOMAIN volume.slots : HasEntries(volume, volume.slots[c])
      /\ Slots \in Nat \ {0}
      /\ IF volume.fat32 THEN volume.root \in DOMAIN volume.slots ELSE HasEntries(volume, volume.sector)
  BY <1>2, VolumesAssumption
<1>4. CASE InSector(d)
  <2>1. parts = <<volume.sector>>
    BY <1>1, <1>4 DEF PartsIn
  <2>2. Len(parts) = 1 /\ parts[1] = volume.sector
    BY <2>1
  <2>3. PartFine(volume.sector)
    BY <1>3, <1>4, LegiblePart DEF InSector
  <2>4. \A q \in 1 .. Len(parts) : PartFine(parts[q])
    BY <2>2, <2>3
  <2>5. LiesInParts(FlattenSeq(parts), parts, Slots, Len(parts))
    <3>1. /\ Slots \in Nat \ {0} /\ Len(parts) \in Nat \ {0}
          /\ \A q \in 1 .. Len(parts) : IsSequence(parts[q]) /\ Len(parts[q]) = Slots
      BY <1>3, <2>2, <2>4 DEF PartFine
    <3> QED BY <3>1, PartsLie
  <2> QED BY <1>1, <1>4, <2>2, <2>4, <2>5 DEF AllEntries
<1>5. CASE ~InSector(d)
  <2>1. ClusterOf(d) \in DOMAIN volume.slots
    BY <1>3, <1>5 DEF InSector, OnVolume, ClusterOf
  <2>2. PICK ch : ch = ChainOf(d)
    OBVIOUS
  <2>3. GoesOn(ch, volume, ClusterOf(d))
    BY <1>3, <2>1, <2>2, ChainGoesOn DEF ChainOf
  <2>4. Len(ch) \in Nat \ {0} /\ DOMAIN ch = 1 .. Len(ch)
    BY <2>3, SequenceFacts DEF GoesOn
  <2>5. parts = [q \in 1 .. Len(ch) |-> volume.slots[ch[q]]]
    BY <1>1, <1>5, <2>2, <2>4 DEF PartsIn
  <2>6. Len(parts) = Len(ch) /\ \A q \in 1 .. Len(ch) : parts[q] = volume.slots[ch[q]]
    <3>1. DOMAIN parts = 1 .. Len(ch) /\ parts = [q \in 1 .. Len(ch) |-> parts[q]]
      BY <2>5
    <3>2. Len(ch) \in Nat
      BY <2>4
    <3>3. Len(parts) = Len(ch)
      BY <3>1, <3>2, FunctionIsSequence
    <3> QED BY <2>5, <3>3
  <2>7. ASSUME NEW q \in 1 .. Len(ch)
        PROVE  ch[q] \in DOMAIN volume.slots /\ PartFine(parts[q])
    <3>1. ch[q] \in DOMAIN volume.slots
      BY <1>3, <2>3 DEF GoesOn
    <3>2. PartFine(volume.slots[ch[q]])
      BY <1>3, <3>1, LegiblePart
    <3> QED BY <2>6, <3>1, <3>2
  <2>8. LiesInParts(FlattenSeq(parts), parts, Slots, Len(parts))
    BY <1>3, <2>4, <2>6, <2>7, PartsLie DEF PartFine
  <2> QED BY <1>1, <1>5, <2>2, <2>3, <2>4, <2>6, <2>7, <2>8 DEF AllEntries
<1> QED BY <1>4, <1>5

\* Every place is one of a part.
IsInPart(flat, parts, size, n, p) ==
  \E i \in 0 .. n - 1, r \in 1 .. size : p = i * size + r /\ flat[p] = parts[i + 1][r]

LEMMA PlaceIn ==
  ASSUME NEW flat, NEW parts, NEW size \in Nat \ {0}, NEW n \in Nat, LiesInParts(flat, parts, size, n),
         NEW p \in 1 .. Len(flat)
  PROVE  IsInPart(flat, parts, size, n, p)
<1>1. Len(flat) = n * size /\ n * size \in Nat
  BY TimesKeeps DEF LiesInParts
<1>2. p \in Nat \ {0} /\ p <= n * size
  BY <1>1
<1>3. PICK i \in Nat, r \in 1 .. size : p = i * size + r
  BY <1>2, PlaceInParts
<1>4. i < n
  BY <1>2, <1>3, BeforeEnd
<1>5. flat[i * size + r] = parts[i + 1][r]
  BY <1>4 DEF LiesInParts
<1>6. i \in 0 .. n - 1
  BY <1>4
<1> QED BY <1>3, <1>5, <1>6 DEF IsInPart

\* Long names lie right before what they name.
LEMMA AllWellNamed ==
  ASSUME NEW flat, NEW parts, NEW n \in Nat, LiesInParts(flat, parts, Slots, n),
         \A q \in 1 .. n : PartFine(parts[q])
  PROVE  WellNamed(flat) /\ IsSequence(flat) /\ DOMAIN flat = 1 .. Len(flat) /\ Len(flat) \in Nat
<1>1. IsSequence(flat) /\ DOMAIN flat = 1 .. Len(flat) /\ Len(flat) \in Nat /\ Slots \in Nat \ {0}
  BY SequenceFacts, VolumesAssumption DEF LiesInParts
<1>2. ASSUME NEW p \in 1 .. Len(flat), flat[p].kind = "lfn"
      PROVE  IsSequence(flat[p].name) /\ p + 1 \in 1 .. Len(flat) /\ InUseAt(flat, p + 1)
  <2>1. PICK i \in 0 .. n - 1, r \in 1 .. Slots : p = i * Slots + r /\ flat[p] = parts[i + 1][r]
    <3>1. IsInPart(flat, parts, Slots, n, p)
      BY <1>1, PlaceIn
    <3> QED BY <3>1 DEF IsInPart
  <2>2. i + 1 \in 1 .. n /\ i \in Nat /\ i < n
    BY <2>1
  <2>3. IsSequence(flat[p].name) /\ r < Slots /\ InUseAt(parts[i + 1], r + 1)
    BY <1>2, <2>1, <2>2 DEF PartFine
  <2>4. r + 1 \in 1 .. Slots
    BY <1>1, <2>3
  <2>5. /\ i * Slots + (r + 1) \in 1 .. n * Slots
        /\ flat[i * Slots + (r + 1)] = parts[i + 1][r + 1]
    BY <2>2, <2>4 DEF LiesInParts
  <2>6. i * Slots + (r + 1) = p + 1
    <3>1. i * Slots \in Nat
      BY <1>1, <2>2, TimesKeeps
    <3> QED BY <2>1, <3>1
  <2>7. p + 1 \in 1 .. Len(flat)
    BY <2>5, <2>6 DEF LiesInParts
  <2> QED BY <2>3, <2>5, <2>6, <2>7 DEF InUseAt
<1> QED BY <1>1, <1>2 DEF WellNamed

-----------------------------------------------------------------------------
(* What has been read of the volume.                                       *)

\* The call c has read its directory up to entry p, which is in part q.
ReadsTo(c, q, p) ==
  /\ q \in 1 .. Len(PartsIn(c.dir)) /\ c.i \in 1 .. Slots /\ p = (q - 1) * Slots + c.i
  /\ c.data = PartsIn(c.dir)[q]
  /\ InSector(c.dir) \/ c.next = volume.next[ChainOf(c.dir)[q]]
  /\ \A j \in 1 .. p - 1 : AllEntries(c.dir)[j].kind # "end"
  /\ Held(c.dir) = ItemsBefore(AllEntries(c.dir), p)

\* The topmost call has the long name that lies there; another one is at the
\* entry of the directory d that the next call reads.
Reading(c) == \E q, p \in Nat : ReadsTo(c, q, p) /\ c.lfn = LfnAt(AllEntries(c.dir), p)
Waiting(c, d) ==
  \E q, p \in Nat :
    /\ ReadsTo(c, q, p) /\ c.lfn = <<>> /\ c.i < Slots /\ AllEntries(c.dir)[p].kind = "dir"
    /\ DirectoryEntry(d) = ItemAt(AllEntries(c.dir), p)

\* A directory that has been read holds what lies on the volume.
Done(d) == Held(d) = Listed(UpToEnd(AllEntries(d)))

CallReads(k) == IF k = Len(calls) THEN Reading(calls[k]) ELSE Waiting(calls[k], calls[k + 1].dir)

VolumeOK ==
  /\ \A d \in DOMAIN directories : OnVolume(d)
  /\ \A k \in DOMAIN calls : CallReads(k)
  /\ \A d \in DOMAIN directories : (\E k \in DOMAIN calls : calls[k].dir = d) \/ Done(d)
VolumeInv == mount = "reading" /\ Legible(volume) => VolumeOK

LEMMA ItemsMore ==
  ASSUME NEW s, NEW p \in Nat \ {0}
  PROVE  ItemsBefore(s, p + 1) = ItemsBefore(s, p) \cup (IF InUseAt(s, p) THEN {ItemAt(s, p)} ELSE {})
<1>1. \A j : j \in 1 .. (p + 1) - 1 <=> j \in 1 .. p - 1 \/ j = p
  OBVIOUS
<1>2. CASE InUseAt(s, p)
  BY <1>1, <1>2 DEF ItemsBefore
<1>3. CASE ~InUseAt(s, p)
  BY <1>1, <1>3 DEF ItemsBefore
<1> QED BY <1>2, <1>3

LEMMA LfnNext ==
  ASSUME NEW s, WellNamed(s), DOMAIN s = 1 .. Len(s), Len(s) \in Nat, NEW p \in DOMAIN s
  PROVE  /\ LfnAt(s, p + 1) = IF s[p].kind = "lfn" THEN s[p].name ELSE <<>>
         /\ ~InUseAt(s, p) => LfnAt(s, p) = <<>>
<1>1. p + 1 > 1 /\ (p + 1) - 1 = p
  OBVIOUS
<1>2. LfnAt(s, p + 1) = IF s[p].kind = "lfn" THEN s[p].name ELSE <<>>
  BY <1>1 DEF LfnAt
<1>3. ASSUME LfnAt(s, p) # <<>> PROVE InUseAt(s, p)
  <2>1. p > 1 /\ s[p - 1].kind = "lfn"
    BY <1>3 DEF LfnAt
  <2>2. p - 1 \in DOMAIN s /\ (p - 1) + 1 = p
    BY <2>1
  <2> QED BY <2>1, <2>2 DEF WellNamed
<1> QED BY <1>2, <1>3

\* What a directory that has been read holds.
LEMMA ReadWhole ==
  ASSUME TreeInv, Legible(volume), NEW d, OnVolume(d), NEW p \in Nat, p <= Len(AllEntries(d)),
         \A j \in 1 .. p : AllEntries(d)[j].kind # "end",
         p + 1 \in DOMAIN AllEntries(d) => AllEntries(d)[p + 1].kind = "end"
  PROVE  Listed(UpToEnd(AllEntries(d))) = ItemsBefore(AllEntries(d), p + 1)
<1>1. PICK s : s = AllEntries(d)
  OBVIOUS
<1>2. PICK parts : parts = PartsIn(d)
  OBVIOUS
<1>3. PICK n \in Nat \ {0} : n = Len(parts)
  BY <1>2, PartsFine
<1>4. LiesInParts(s, parts, Slots, n) /\ \A q \in 1 .. n : PartFine(parts[q])
  BY <1>1, <1>2, <1>3, PartsFine
<1>5. WellNamed(s) /\ IsSequence(s) /\ DOMAIN s = 1 .. Len(s) /\ Len(s) \in Nat
  BY <1>3, <1>4, AllWellNamed
<1>6. p + 1 \in 1 .. Len(s) + 1 /\ p \in 0 .. Len(s) /\ (p + 1) - 1 = p
  BY <1>1, <1>5
<1>7. /\ \A j \in 1 .. (p + 1) - 1 : s[j].kind # "end"
      /\ p + 1 \in DOMAIN s => s[p + 1].kind = "end"
  BY <1>1, <1>6
<1>8. UpToEnd(s) = SubSeq(s, 1, (p + 1) - 1)
  BY <1>5, <1>6, <1>7, UpToEndIs
<1>9. p + 1 \in DOMAIN s => ~InUseAt(s, p + 1)
  BY <1>7 DEF InUseAt
<1>10. Listed(SubSeq(s, 1, p)) = ItemsBefore(s, p + 1)
  BY <1>5, <1>6, <1>9, ListedIs
<1> QED BY <1>1, <1>6, <1>8, <1>10

\* Where a call is.
LEMMA PlaceOfCall ==
  ASSUME TreeInv, Legible(volume), NEW c, OnVolume(c.dir), NEW q \in Nat, NEW p \in Nat, ReadsTo(c, q, p),
         NEW s, s = AllEntries(c.dir)
  PROVE  /\ WellNamed(s) /\ DOMAIN s = 1 .. Len(s) /\ Len(s) \in Nat /\ p \in DOMAIN s
         /\ c.data[c.i] = s[p]
         /\ c.i < Slots => p + 1 \in DOMAIN s
         /\ q < Len(PartsIn(c.dir)) \/ c.i < Slots \/ p = Len(s)
         /\ Slots \in Nat \ {0} /\ c.i \in 1 .. Slots
<1>1. PICK parts : parts = PartsIn(c.dir)
  OBVIOUS
<1>2. PICK n \in Nat \ {0} : n = Len(parts)
  BY <1>1, PartsFine
<1>3. LiesInParts(s, parts, Slots, n) /\ \A r \in 1 .. n : PartFine(parts[r])
  BY <1>1, <1>2, PartsFine
<1>4. WellNamed(s) /\ DOMAIN s = 1 .. Len(s) /\ Len(s) \in Nat
  BY <1>2, <1>3, AllWellNamed
<1>5. PICK i : i = c.i
  OBVIOUS
<1>6. q \in 1 .. n /\ i \in 1 .. Slots /\ p = (q - 1) * Slots + i /\ c.data = parts[q] /\ Slots \in Nat \ {0}
  BY <1>1, <1>2, <1>5, VolumesAssumption DEF ReadsTo
<1>7. q - 1 \in Nat /\ q - 1 < n /\ (q - 1) + 1 = q
  BY <1>6
<1>8. \A r \in 1 .. Slots :
        (q - 1) * Slots + r \in 1 .. n * Slots /\ s[(q - 1) * Slots + r] = parts[q][r]
  BY <1>3, <1>7 DEF LiesInParts
<1>9. Len(s) = n * Slots
  BY <1>3 DEF LiesInParts
<1>10. p \in DOMAIN s /\ s[p] = parts[q][i]
  BY <1>4, <1>6, <1>8, <1>9
<1>11. ASSUME i < Slots PROVE p + 1 \in DOMAIN s
  <2>1. i + 1 \in 1 .. Slots
    BY <1>6, <1>11
  <2>2. (q - 1) * Slots + (i + 1) \in 1 .. Len(s)
    BY <1>8, <1>9, <2>1
  <2>3. (q - 1) * Slots \in Nat
    BY <1>6, <1>7, TimesKeeps
  <2> QED BY <1>4, <1>6, <2>2, <2>3
<1>12. ASSUME ~(q < n), ~(i < Slots) PROVE p = Len(s)
  <2>1. q = n /\ i = Slots
    BY <1>6, <1>12
  <2>2. q * Slots = (q - 1) * Slots + Slots
    BY <1>6, <1>7, NextPart
  <2> QED BY <1>6, <1>9, <2>1, <2>2
<1> QED BY <1>1, <1>2, <1>4, <1>5, <1>6, <1>10, <1>11, <1>12

\* Steps that only add to the tree.
EntryStays(f) ==
  /\ f \in DOMAIN files' /\ files'[f].name = files[f].name
  /\ files'[f].size = files[f].size /\ files'[f].id = files[f].id
Keeps ==
  /\ volume' = volume
  /\ \A d \in DOMAIN directories : DirectorySame(d)
  /\ \A f \in DOMAIN files : EntryStays(f)
  /\ \A id \in DOMAIN fentries : id \in DOMAIN fentries' /\ fentries'[id] = fentries[id]

LEMMA KeepsVolume ==
  ASSUME TreeInv, Keeps, NEW d \in DOMAIN directories, OnVolume(d)
  PROVE  /\ OnVolume(d)' /\ InSector(d)' = InSector(d) /\ ChainOf(d)' = ChainOf(d)
         /\ PartsIn(d)' = PartsIn(d) /\ AllEntries(d)' = AllEntries(d)
         /\ d # Root => DirectoryEntry(d)' = DirectoryEntry(d)
<1>1. volume' = volume /\ directories'[d].id = directories[d].id /\ directories'[d].name = directories[d].name
  BY DEF Keeps, DirectorySame
<1>2. d # Root => /\ directories[d].id \in DOMAIN fentries'
                  /\ fentries'[directories[d].id] = fentries[directories[d].id]
  BY DEF Keeps, OnVolume
<1>3. ClusterOf(d)' = ClusterOf(d)
  BY <1>1, <1>2 DEF ClusterOf
<1>4. OnVolume(d)'
  BY <1>1, <1>2, <1>3 DEF OnVolume
<1>5. InSector(d)' = InSector(d)
  BY <1>1 DEF InSector
<1>6. ChainOf(d)' = ChainOf(d)
  BY <1>1, <1>3 DEF ChainOf
<1>7. PartsIn(d)' = PartsIn(d)
  BY <1>1, <1>5, <1>6 DEF PartsIn
<1>8. AllEntries(d)' = AllEntries(d)
  BY <1>7 DEF AllEntries
<1>9. d # Root => DirectoryEntry(d)' = DirectoryEntry(d)
  BY <1>1, <1>2 DEF DirectoryEntry
<1> QED BY <1>4, <1>5, <1>6, <1>7, <1>8, <1>9

\* What a directory holds afterwards.
LEMMA HeldMore ==
  ASSUME TreeInv, Keeps, \A e \in DOMAIN directories : OnVolume(e), NEW d \in DOMAIN directories,
         NEW F, NEW D, FilesOf(d)' = FilesOf(d) \cup F, DirsOf(d)' = DirsOf(d) \cup D
  PROVE  Held(d)' = Held(d) \cup {FileEntry(f) : f \in F}' \cup {DirectoryEntry(e) : e \in D}'
<1>1. \A f \in FilesOf(d) : FileEntry(f)' = FileEntry(f)
  <2>1. SUFFICES ASSUME NEW f \in FilesOf(d) PROVE FileEntry(f)' = FileEntry(f)
    OBVIOUS
  <2>2. f \in DOMAIN files /\ files[f].id \in DOMAIN fentries
    BY DEF TreeInv, DirectoriesInv, InPlace, EntriesInv, FilesOf, ToSet
  <2>3. /\ files'[f].name = files[f].name /\ files'[f].size = files[f].size /\ files'[f].id = files[f].id
        /\ fentries'[files[f].id] = fentries[files[f].id]
    BY <2>2 DEF Keeps, EntryStays
  <2> QED BY <2>3 DEF FileEntry
<1>2. \A e \in DirsOf(d) : DirectoryEntry(e)' = DirectoryEntry(e)
  <2>1. SUFFICES ASSUME NEW e \in DirsOf(d) PROVE DirectoryEntry(e)' = DirectoryEntry(e)
    OBVIOUS
  <2>2. PICK i \in DOMAIN directories[d].dirs : directories[d].dirs[i] = e
    BY DEF DirsOf, ToSet
  <2>3. e >= d + i /\ e \in DOMAIN directories
    BY <2>2 DEF TreeInv, DirectoriesInv, InPlace
  <2>4. d \in Nat \ {0} /\ i \in Nat \ {0} /\ e \in Nat
    BY <2>2, <2>3, FewSubdirectories
  <2>5. e # Root
    BY <2>3, <2>4 DEF Root
  <2> QED BY <2>3, <2>5, KeepsVolume
<1>3. Held(d) = {FileEntry(f) : f \in FilesOf(d)} \cup {DirectoryEntry(e) : e \in DirsOf(d)}
  BY DEF Held, FilesOf, DirsOf
<1>4. Held(d)' = {FileEntry(f)' : f \in FilesOf(d)'} \cup {DirectoryEntry(e)' : e \in DirsOf(d)'}
  BY DEF Held, FilesOf, DirsOf
<1>5. {FileEntry(f)' : f \in FilesOf(d)'} = {FileEntry(f) : f \in FilesOf(d)} \cup {FileEntry(f)' : f \in F}
  BY <1>1
<1>6. {DirectoryEntry(e)' : e \in DirsOf(d)'} =
        {DirectoryEntry(e) : e \in DirsOf(d)} \cup {DirectoryEntry(e)' : e \in D}
  BY <1>2
<1> QED BY <1>3, <1>4, <1>5, <1>6

LEMMA HeldSame ==
  ASSUME TreeInv, Keeps, \A e \in DOMAIN directories : OnVolume(e), NEW d \in DOMAIN directories,
         FilesOf(d)' = FilesOf(d), DirsOf(d)' = DirsOf(d)
  PROVE  Held(d)' = Held(d)
<1>1. FilesOf(d)' = FilesOf(d) \cup {} /\ DirsOf(d)' = DirsOf(d) \cup {}
  OBVIOUS
<1>2. Held(d)' = Held(d) \cup {FileEntry(f) : f \in {}}' \cup {DirectoryEntry(e) : e \in {}}'
  BY <1>1, HeldMore
<1> QED BY <1>2

\* A directory in which nothing happens.
LEMMA CallSame ==
  ASSUME TreeInv, Keeps, NEW d \in DOMAIN directories, OnVolume(d), Held(d)' = Held(d)
  PROVE  /\ Done(d) => Done(d)'
         /\ \A c : c.dir = d =>
              /\ Reading(c) => Reading(c)'
              /\ \A e \in DOMAIN directories : e # Root /\ OnVolume(e) /\ Waiting(c, e) => Waiting(c, e)'
<1>1. /\ volume' = volume /\ InSector(d)' = InSector(d) /\ ChainOf(d)' = ChainOf(d)
      /\ PartsIn(d)' = PartsIn(d) /\ AllEntries(d)' = AllEntries(d)
  BY KeepsVolume DEF Keeps
<1>2. Done(d) => Done(d)'
  BY <1>1 DEF Done
<1>3. ASSUME NEW c, c.dir = d, NEW q, NEW p, ReadsTo(c, q, p) PROVE ReadsTo(c, q, p)'
  BY <1>1, <1>3 DEF ReadsTo
<1>4. ASSUME NEW c, c.dir = d, Reading(c) PROVE Reading(c)'
  BY <1>1, <1>3, <1>4 DEF Reading
<1>5. ASSUME NEW c, c.dir = d, NEW e \in DOMAIN directories, e # Root, OnVolume(e), Waiting(c, e)
      PROVE  Waiting(c, e)'
  <2>1. DirectoryEntry(e)' = DirectoryEntry(e)
    BY <1>5, KeepsVolume
  <2> QED BY <1>1, <1>3, <1>5, <2>1 DEF Waiting
<1> QED BY <1>2, <1>4, <1>5

\* A call that goes on with its next entry.
LEMMA CallAdvances ==
  ASSUME TreeInv, Legible(volume), Keeps, NEW c, c.dir \in DOMAIN directories, OnVolume(c.dir),
         NEW q \in Nat, NEW p \in Nat, ReadsTo(c, q, p), c.i < Slots, NEW s, s = AllEntries(c.dir),
         s[p].kind # "end",
         Held(c.dir)' = Held(c.dir) \cup (IF InUseAt(s, p) THEN {ItemAt(s, p)} ELSE {}),
         NEW x, x.dir = c.dir, x.data = c.data, x.next = c.next, x.i = c.i + 1,
         x.lfn = IF s[p].kind = "lfn" THEN s[p].name ELSE <<>>
  PROVE  Reading(x)'
<1>1. PICK d \in DOMAIN directories : d = c.dir
  OBVIOUS
<1>2. /\ volume' = volume /\ InSector(d)' = InSector(d) /\ ChainOf(d)' = ChainOf(d)
      /\ PartsIn(d)' = PartsIn(d) /\ AllEntries(d)' = AllEntries(d)
  BY <1>1, KeepsVolume DEF Keeps
<1>3. /\ WellNamed(s) /\ DOMAIN s = 1 .. Len(s) /\ Len(s) \in Nat /\ p \in DOMAIN s /\ p + 1 \in DOMAIN s
      /\ Slots \in Nat \ {0} /\ c.i \in 1 .. Slots
  BY PlaceOfCall
<1>4. x.lfn = LfnAt(s, p + 1)
  BY <1>3, LfnNext
<1>5. Held(d)' = ItemsBefore(s, p + 1)
  <2>1. p \in Nat \ {0}
    BY <1>3
  <2>2. ItemsBefore(s, p + 1) = ItemsBefore(s, p) \cup (IF InUseAt(s, p) THEN {ItemAt(s, p)} ELSE {})
    BY <2>1, ItemsMore
  <2>3. Held(d) = ItemsBefore(s, p)
    BY <1>1 DEF ReadsTo
  <2>4. Held(d)' = Held(d) \cup (IF InUseAt(s, p) THEN {ItemAt(s, p)} ELSE {})
    BY <1>1
  <2> QED BY <2>2, <2>3, <2>4
<1>6. \A j \in 1 .. (p + 1) - 1 : s[j].kind # "end"
  <2>1. \A j \in 1 .. (p + 1) - 1 : j \in 1 .. p - 1 \/ j = p
    BY <1>3
  <2> QED BY <2>1 DEF ReadsTo
<1>7. c.i + 1 \in 1 .. Slots /\ p + 1 = (q - 1) * Slots + (c.i + 1)
  <2>1. p = (q - 1) * Slots + c.i /\ q \in 1 .. Len(PartsIn(c.dir))
    BY DEF ReadsTo
  <2>2. q - 1 \in Nat
    BY <2>1
  <2>3. (q - 1) * Slots \in Nat
    BY <1>3, <2>2, TimesKeeps
  <2> QED BY <1>3, <2>1, <2>3
<1>8. ReadsTo(x, q, p + 1)'
  <2>1. q \in 1 .. Len(PartsIn(d))' /\ x.data = PartsIn(d)'[q]
    BY <1>1, <1>2 DEF ReadsTo
  <2>2. InSector(d)' \/ x.next = volume'.next[ChainOf(d)'[q]]
    BY <1>1, <1>2 DEF ReadsTo
  <2>3. x.dir = d /\ x.i = c.i + 1
    BY <1>1
  <2> QED BY <1>1, <1>2, <1>5, <1>6, <1>7, <2>1, <2>2, <2>3 DEF ReadsTo
<1>9. p + 1 \in Nat
  OBVIOUS
<1>10. x.lfn = LfnAt(AllEntries(d)', p + 1)
  BY <1>1, <1>2, <1>4
<1> QED BY <1>1, <1>8, <1>9, <1>10 DEF Reading

\* What the topmost call sees.
SeesAt(q, p, kind) ==
  /\ ReadsTo(Top, q, p) /\ Top.i < Slots
  /\ AllEntries(Top.dir)[p] = Seen /\ Seen.kind = kind
  /\ Top.lfn = LfnAt(AllEntries(Top.dir), p) /\ (kind \notin {"file", "dir"} => Top.lfn = <<>>)
  /\ kind = "lfn" => IsSequence(Seen.name)
  /\ ItemAt(AllEntries(Top.dir), p) = Entry(kind, NameSeen, Seen.cluster, Seen.size)

LEMMA TopSees ==
  ASSUME TreeInv, Legible(volume), Reading(Top), OnVolume(Top.dir), NEW kind, Sees(kind)
  PROVE  \E q, p \in Nat : SeesAt(q, p, kind)
<1>1. IsEntry(volume, Seen) /\ Seen.kind = kind /\ Top.i < Slots
  BY SeenIsEntry DEF Sees, InCluster
<1>2. PICK s : s = AllEntries(Top.dir)
  OBVIOUS
<1>3. PICK c : c = Top
  OBVIOUS
<1>4. PICK q, p \in Nat : ReadsTo(c, q, p) /\ c.lfn = LfnAt(s, p)
  BY <1>2, <1>3 DEF Reading
<1>5. WellNamed(s) /\ DOMAIN s = 1 .. Len(s) /\ Len(s) \in Nat /\ p \in DOMAIN s /\ c.data[c.i] = s[p]
  BY <1>2, <1>3, <1>4, PlaceOfCall
<1>6. s[p] = Seen
  BY <1>3, <1>5 DEF Seen
<1>7. kind \notin {"file", "dir"} => c.lfn = <<>>
  BY <1>1, <1>4, <1>5, <1>6, LfnNext DEF InUseAt
<1>8. kind = "lfn" => IsSequence(Seen.name)
  BY <1>1, <1>5, <1>6 DEF WellNamed
<1>9. PICK e : e = Seen
  OBVIOUS
<1>10. e = [kind |-> e.kind, name |-> e.name, cluster |-> e.cluster, size |-> e.size]
  BY <1>1, <1>9 DEF IsEntry, Entry
<1>11. PICK name : name = IF LfnAt(s, p) = <<>> THEN e.name ELSE LfnAt(s, p)
  OBVIOUS
<1>12. name = NameSeen
  BY <1>3, <1>4, <1>9, <1>11 DEF NameSeen
<1>13. ItemAt(s, p) = [e EXCEPT !.name = name]
  BY <1>6, <1>9, <1>11, Zenon DEF ItemAt
<1>14. [e EXCEPT !.name = name] = [kind |-> e.kind, name |-> name, cluster |-> e.cluster, size |-> e.size]
  BY <1>10
<1>15. ItemAt(s, p) = Entry(kind, NameSeen, Seen.cluster, Seen.size)
  BY <1>1, <1>9, <1>12, <1>13, <1>14 DEF Entry
<1>16. SeesAt(q, p, kind)
  BY <1>1, <1>2, <1>3, <1>4, <1>6, <1>7, <1>8, <1>15 DEF SeesAt
<1> QED BY <1>16

\* The last entry of a part, which the driver does not look at, is none in use.
LEMMA LastRead ==
  ASSUME TreeInv, Legible(volume), NEW c, OnVolume(c.dir), NEW q \in Nat, NEW p \in Nat, ReadsTo(c, q, p),
         ~(c.i < Slots), NEW s, s = AllEntries(c.dir)
  PROVE  s[p].kind \in {"end", "free"} /\ ItemsBefore(s, p + 1) = ItemsBefore(s, p)
<1>1. c.i = Slots /\ c.data[Slots] = s[p] /\ p \in DOMAIN s /\ DOMAIN s = 1 .. Len(s) /\ Len(s) \in Nat
  <2>1. /\ c.data[c.i] = s[p] /\ p \in DOMAIN s /\ DOMAIN s = 1 .. Len(s) /\ Len(s) \in Nat
        /\ Slots \in Nat \ {0} /\ c.i \in 1 .. Slots
    BY PlaceOfCall
  <2>2. c.i = Slots
    BY <2>1
  <2> QED BY <2>1, <2>2
<1>2. PartFine(c.data)
  BY PartsFine DEF ReadsTo
<1>3. s[p].kind \in {"end", "free"}
  BY <1>1, <1>2 DEF PartFine
<1>4. ~InUseAt(s, p)
  BY <1>3 DEF InUseAt
<1>5. ItemsBefore(s, p + 1) = ItemsBefore(s, p)
  <2>1. p \in Nat \ {0}
    BY <1>1
  <2>2. ItemsBefore(s, p + 1) = ItemsBefore(s, p) \cup (IF InUseAt(s, p) THEN {ItemAt(s, p)} ELSE {})
    BY <2>1, ItemsMore
  <2> QED BY <1>4, <2>2
<1> QED BY <1>3, <1>5

\* The next cluster of a directory.
LEMMA ClusterAdvances ==
  ASSUME TreeInv, Legible(volume), Keeps, NEW c, c.dir \in DOMAIN directories, OnVolume(c.dir),
         ~InSector(c.dir), Reading(c), ~(c.i < Slots), c.next \in Clusters, Held(c.dir)' = Held(c.dir),
         NEW x, x.dir = c.dir, x.data = volume.slots[c.next], x.next = volume.next[c.next], x.i = 1,
         x.lfn = c.lfn
  PROVE  Reading(x)'
<1>1. PICK d \in DOMAIN directories : d = c.dir
  OBVIOUS
<1>2. PICK s : s = AllEntries(d)
  OBVIOUS
<1>3. PICK q, p \in Nat : ReadsTo(c, q, p) /\ c.lfn = LfnAt(s, p)
  BY <1>1, <1>2 DEF Reading
<1>4. /\ volume' = volume /\ InSector(d)' = InSector(d) /\ ChainOf(d)' = ChainOf(d)
      /\ PartsIn(d)' = PartsIn(d) /\ AllEntries(d)' = AllEntries(d)
  BY <1>1, KeepsVolume DEF Keeps
<1>5. PICK n \in Nat \ {0} : n = Len(PartsIn(d))
  BY <1>1, PartsFine
<1>6. PICK ch : ch = ChainOf(d)
  OBVIOUS
<1>7. /\ GoesOn(ch, volume, ClusterOf(d)) /\ Len(ch) = n
      /\ \A r \in 1 .. n : ch[r] \in DOMAIN volume.slots /\ PartsIn(d)[r] = volume.slots[ch[r]]
  BY <1>1, <1>5, <1>6, PartsFine
<1>8. /\ q \in 1 .. n /\ c.next = volume.next[ch[q]] /\ p = (q - 1) * Slots + c.i
      /\ c.data = volume.slots[ch[q]] /\ Held(d) = ItemsBefore(s, p)
      /\ \A j \in 1 .. p - 1 : s[j].kind # "end"
  BY <1>1, <1>2, <1>3, <1>5, <1>6, <1>7 DEF ReadsTo
<1>9. q < n /\ q + 1 \in 1 .. n /\ ch[q + 1] = c.next
  <2>1. q # n
    BY <1>7, <1>8 DEF GoesOn, Clusters
  <2> QED BY <1>7, <1>8, <2>1 DEF GoesOn
<1>10. /\ WellNamed(s) /\ DOMAIN s = 1 .. Len(s) /\ Len(s) \in Nat /\ p \in DOMAIN s
       /\ c.data[Slots] = s[p] /\ Slots \in Nat \ {0} /\ c.i = Slots
  BY <1>1, <1>2, <1>3, PlaceOfCall
<1>11. s[p].kind \in {"end", "free"} /\ ItemsBefore(s, p + 1) = ItemsBefore(s, p)
  BY <1>1, <1>2, <1>3, LastRead
<1>12. s[p].kind # "end"
  <2>1. SUFFICES ASSUME s[p].kind = "end" PROVE FALSE
    OBVIOUS
  <2>2. PICK part : part = volume.slots[ch[q]]
    OBVIOUS
  <2>3. PartFine(part)
    BY <1>1, <1>5, <1>7, <1>8, <2>2, PartsFine
  <2>4. Len(part) = Slots /\ DOMAIN part = 1 .. Slots
    BY <2>3, SequenceFacts DEF PartFine
  <2>5. Last(part).kind = "end"
    BY <1>8, <1>10, <2>1, <2>2, <2>4 DEF Last
  <2>6. HasEnd(part)
    <3>1. ch[q] \in DOMAIN volume.slots /\ volume.next[ch[q]] \in DOMAIN volume.slots
      BY <1>7, <1>8, <1>9
    <3> QED BY <2>2, <2>5, <3>1 DEF Legible
  <2>7. PICK i \in 1 .. Slots : i < Slots /\ part[i].kind = "end"
    BY <2>4, <2>6 DEF HasEnd
  <2>8. PICK y \in Nat : y = (q - 1) * Slots
    <3>1. q - 1 \in Nat
      BY <1>8
    <3> QED BY <1>10, <3>1, TimesKeeps
  <2>9. s[y + i] = part[i]
    <3>1. LiesInParts(s, PartsIn(d), Slots, n)
      BY <1>1, <1>2, <1>5, PartsFine
    <3>2. q - 1 \in Nat /\ q - 1 < n /\ (q - 1) + 1 = q
      BY <1>8
    <3>3. s[(q - 1) * Slots + i] = PartsIn(d)[q][i]
      BY <3>1, <3>2 DEF LiesInParts
    <3> QED BY <1>7, <1>8, <2>2, <2>8, <3>3
  <2>10. y + i \in 1 .. p - 1
    BY <1>8, <1>10, <2>7, <2>8
  <2> QED BY <1>8, <2>7, <2>9, <2>10
<1>13. x.lfn = LfnAt(s, p + 1)
  <2>1. ~InUseAt(s, p) /\ s[p].kind # "lfn"
    BY <1>11 DEF InUseAt
  <2> QED BY <1>3, <1>10, <2>1, LfnNext
<1>14. p + 1 = ((q + 1) - 1) * Slots + 1
  <2>1. q - 1 \in Nat /\ (q - 1) + 1 = q /\ (q + 1) - 1 = q
    BY <1>8
  <2>2. q * Slots = (q - 1) * Slots + Slots
    BY <1>10, <2>1, NextPart
  <2>3. (q - 1) * Slots \in Nat
    BY <1>10, <2>1, TimesKeeps
  <2> QED BY <1>8, <1>10, <2>1, <2>2, <2>3
<1>15. \A j \in 1 .. (p + 1) - 1 : s[j].kind # "end"
  <2>1. \A j \in 1 .. (p + 1) - 1 : j \in 1 .. p - 1 \/ j = p
    BY <1>10
  <2> QED BY <1>8, <1>12, <2>1
<1>16. Held(d)' = ItemsBefore(s, p + 1)
  BY <1>1, <1>8, <1>11
<1>17. ReadsTo(x, q + 1, p + 1)'
  <2>1. q + 1 \in 1 .. Len(PartsIn(d))' /\ x.data = PartsIn(d)'[q + 1]
    BY <1>4, <1>5, <1>7, <1>9
  <2>2. x.next = volume'.next[ChainOf(d)'[q + 1]]
    BY <1>4, <1>6, <1>9
  <2>3. 1 \in 1 .. Slots
    BY <1>10
  <2>4. x.dir = d /\ x.i = 1 /\ AllEntries(d)' = s
    BY <1>1, <1>2, <1>4
  <2> QED BY <1>14, <1>15, <1>16, <2>1, <2>2, <2>3, <2>4 DEF ReadsTo
<1>18. q + 1 \in Nat /\ p + 1 \in Nat
  OBVIOUS
<1>19. x.lfn = LfnAt(AllEntries(x.dir), p + 1)'
  BY <1>1, <1>2, <1>4, <1>13
<1> QED BY <1>17, <1>18, <1>19 DEF Reading

\* The sector of the root directory is what the first call reads.
LEMMA RootSector ==
  ASSUME TreeInv, LinksInv, calls # <<>>
  PROVE  InRootSector <=> InSector(Top.dir)
<1>1. /\ Len(calls) \in Nat \ {0} /\ DOMAIN calls = 1 .. Len(calls) /\ Top = calls[Len(calls)]
  BY TopIsCall
<1>2. calls[1].dir = Root
  BY DEF LinksInv
<1>3. ASSUME Len(calls) # 1 PROVE Top.dir # Root
  <2>1. 1 \in DOMAIN calls /\ Len(calls) \in DOMAIN calls /\ 1 < Len(calls)
    BY <1>1, <1>3
  <2>2. calls[1].dir < calls[Len(calls)].dir
    BY <2>1 DEF TreeInv, CallsInv
  <2> QED BY <1>1, <1>2, <2>2 DEF Root
<1> QED BY <1>1, <1>2, <1>3 DEF InRootSector, InSector

\* When a call returns, its directory holds what lies on the volume.
LEMMA CallCompletes ==
  ASSUME TreeInv, LinksInv, Legible(volume), Return, Reading(Top), OnVolume(Top.dir)
  PROVE  Done(Top.dir)
<1>0. calls # <<>> /\ mount = "reading"
  BY DEF Return
<1>1. PICK c : c = Top
  OBVIOUS
<1>2. PICK s : s = AllEntries(c.dir)
  OBVIOUS
<1>3. PICK q, p \in Nat : ReadsTo(c, q, p) /\ c.lfn = LfnAt(s, p)
  BY <1>1, <1>2 DEF Reading
<1>4. /\ WellNamed(s) /\ DOMAIN s = 1 .. Len(s) /\ Len(s) \in Nat /\ p \in DOMAIN s /\ c.data[c.i] = s[p]
      /\ q < Len(PartsIn(c.dir)) \/ c.i < Slots \/ p = Len(s)
  BY <1>1, <1>2, <1>3, PlaceOfCall
<1>5. Held(c.dir) = ItemsBefore(s, p) /\ \A j \in 1 .. p - 1 : s[j].kind # "end"
  BY <1>2, <1>3 DEF ReadsTo
<1>6. CASE s[p].kind = "end"
  <2>1. /\ p - 1 \in Nat /\ (p - 1) + 1 = p /\ p - 1 <= Len(s)
        /\ ((p - 1) + 1 \in DOMAIN s => s[(p - 1) + 1].kind = "end")
    <3>1. p - 1 \in Nat /\ (p - 1) + 1 = p /\ p - 1 <= Len(s)
      BY <1>4
    <3> QED BY <1>6, <3>1
  <2>2. Listed(UpToEnd(s)) = ItemsBefore(s, (p - 1) + 1)
    BY <1>1, <1>2, <1>5, <2>1, ReadWhole
  <2> QED BY <1>1, <1>2, <1>5, <2>1, <2>2 DEF Done
<1>7. CASE s[p].kind # "end"
  <2>1. ~(c.i < Slots) /\ (InSector(c.dir) \/ c.next >= EndMark)
    <3>1. ~Sees("end")
      BY <1>1, <1>4, <1>7 DEF Sees, Seen
    <3>2. InRootSector <=> InSector(c.dir)
      BY <1>0, <1>1, RootSector
    <3> QED BY <1>1, <3>1, <3>2 DEF Return, InCluster
  <2>2. ItemsBefore(s, p + 1) = ItemsBefore(s, p)
    BY <1>1, <1>2, <1>3, <2>1, LastRead
  <2>3. q \in 1 .. Len(PartsIn(c.dir)) /\ Len(PartsIn(c.dir)) \in Nat
    BY <1>1, <1>3, PartsFine DEF ReadsTo
  <2>4. ~(q < Len(PartsIn(c.dir)))
    <3>1. CASE InSector(c.dir)
      <4>1. PartsIn(c.dir) = <<volume.sector>>
        BY <3>1 DEF PartsIn
      <4> QED BY <2>3, <4>1
    <3>2. CASE ~InSector(c.dir)
      <4>1. PICK ch : ch = ChainOf(c.dir)
        OBVIOUS
      <4>2. GoesOn(ch, volume, ClusterOf(c.dir)) /\ Len(ch) = Len(PartsIn(c.dir))
        BY <1>1, <3>2, <4>1, PartsFine
      <4>3. c.next = volume.next[ch[q]] /\ c.next >= EndMark
        BY <1>3, <2>1, <3>2, <4>1 DEF ReadsTo
      <4>4. SUFFICES ASSUME q < Len(ch) PROVE FALSE
        BY <4>2
      <4>5. c.next = ch[q + 1] /\ q + 1 \in 1 .. Len(ch)
        BY <2>3, <4>2, <4>3, <4>4 DEF GoesOn
      <4>6. c.next \in DOMAIN volume.next
        BY <4>2, <4>5 DEF GoesOn
      <4>7. volume \in Volumes
        BY DEF TreeInv, EntriesInv
      <4>8. Len(volume.next) < EndMark /\ EndMark \in Nat /\ DOMAIN volume.next = 1 .. Len(volume.next)
            /\ Len(volume.next) \in Nat
        BY <4>7, VolumesAssumption, LenProperties
      <4> QED BY <4>3, <4>6, <4>8
    <3> QED BY <3>1, <3>2
  <2>5. p = Len(s)
    BY <1>4, <2>1, <2>4
  <2>6. /\ \A j \in 1 .. p : s[j].kind # "end"
        /\ p + 1 \notin DOMAIN s /\ p <= Len(s)
    <3>1. \A j \in 1 .. p : j \in 1 .. p - 1 \/ j = p
      BY <1>4
    <3>2. p + 1 \notin DOMAIN s /\ p <= Len(s)
      BY <1>4, <2>5
    <3> QED BY <1>5, <1>7, <3>1, <3>2
  <2>7. Listed(UpToEnd(s)) = ItemsBefore(s, p + 1)
    BY <1>1, <1>2, <2>6, ReadWhole
  <2> QED BY <1>1, <1>2, <1>5, <2>2, <2>7 DEF Done
<1> QED BY <1>6, <1>7

\* The directories of the calls: all different, and but for the first no root.
LEMMA CallDirs ==
  ASSUME TreeInv
  PROVE  /\ DOMAIN calls = 1 .. Len(calls) /\ Len(calls) \in Nat
         /\ \A k \in DOMAIN calls : IsCall(calls[k]) /\ calls[k].dir \in DOMAIN directories
         /\ \A k \in DOMAIN calls : k > 1 => calls[k].dir # Root
         /\ \A j, k \in DOMAIN calls : j # k => calls[j].dir # calls[k].dir
<1>1. DOMAIN calls = 1 .. Len(calls) /\ Len(calls) \in Nat
  BY SequenceFacts DEF TreeInv, CallsInv
<1>2. DOMAIN directories = 1 .. Len(directories) /\ Len(directories) \in Nat
  BY SequenceFacts DEF TreeInv, DirectoriesInv
<1>3. \A k \in DOMAIN calls : IsCall(calls[k]) /\ calls[k].dir \in DOMAIN directories
  BY DEF TreeInv, CallsInv, IsCall
<1>4. \A j, k \in DOMAIN calls : j < k => calls[j].dir < calls[k].dir
  BY DEF TreeInv, CallsInv
<1>5. ASSUME NEW k \in DOMAIN calls, k > 1 PROVE calls[k].dir # Root
  <2>1. 1 \in DOMAIN calls /\ 1 < k
    BY <1>1, <1>5
  <2>2. calls[1].dir < calls[k].dir /\ calls[1].dir \in Nat \ {0}
    BY <1>2, <1>3, <1>4, <2>1
  <2> QED BY <1>2, <1>3, <2>2 DEF Root
<1>6. ASSUME NEW j \in DOMAIN calls, NEW k \in DOMAIN calls, j # k PROVE calls[j].dir # calls[k].dir
  <2>1. j < k \/ k < j
    BY <1>1, <1>6
  <2>2. calls[j].dir \in Nat /\ calls[k].dir \in Nat
    BY <1>2, <1>3
  <2> QED BY <1>4, <2>1, <2>2
<1> QED BY <1>1, <1>3, <1>5, <1>6

\* Steps that leave the tree as it is.
LEMMA TreeUntouched ==
  ASSUME TreeInv, VolumeOK, UNCHANGED <<volume, directories, files, fentries>>
  PROVE  Keeps /\ \A d \in DOMAIN directories : OnVolume(d)' /\ Held(d)' = Held(d) /\ (Done(d) => Done(d)')
<1>1. Keeps
  BY DEF Keeps, DirectorySame, EntryStays
<1>2. \A d \in DOMAIN directories : FilesOf(d)' = FilesOf(d) /\ DirsOf(d)' = DirsOf(d) /\ OnVolume(d)
  BY DEF FilesOf, DirsOf, VolumeOK
<1>3. \A d \in DOMAIN directories : Held(d)' = Held(d)
  BY <1>1, <1>2, HeldSame
<1>4. \A d \in DOMAIN directories : OnVolume(d)' /\ (Done(d) => Done(d)')
  BY <1>1, <1>2, <1>3, KeepsVolume, CallSame
<1> QED BY <1>1, <1>3, <1>4

\* A call that another one waits for.
LEMMA WaiterSame ==
  ASSUME TreeInv, VolumeOK, Keeps, NEW k \in DOMAIN calls, k < Len(calls),
         NEW c, c = calls[k], NEW d, d = c.dir, NEW e, e = calls[k + 1].dir, Held(d)' = Held(d)
  PROVE  Waiting(c, e)'
<1>1. k + 1 \in DOMAIN calls /\ k + 1 > 1 /\ k # Len(calls)
  BY CallDirs
<1>2. Waiting(c, e)
  BY <1>1 DEF VolumeOK, CallReads
<1>3. /\ d \in DOMAIN directories /\ e \in DOMAIN directories /\ e # Root
      /\ OnVolume(d) /\ OnVolume(e)
  BY <1>1, CallDirs DEF VolumeOK
<1> QED BY <1>2, <1>3, CallSame

\* Steps in which only the topmost call goes on.
LEMMA OnlyTop ==
  ASSUME TreeInv, VolumeOK, UNCHANGED <<volume, directories, files, fentries>>, calls # <<>>,
         NEW x, TopBecomes(x), x.dir = Top.dir, Reading(x)'
  PROVE  VolumeOK'
<1>1. Keeps /\ \A d \in DOMAIN directories : OnVolume(d)' /\ Held(d)' = Held(d) /\ (Done(d) => Done(d)')
  BY TreeUntouched
<1>2. PICK n : n = Len(calls)
  OBVIOUS
<1>3. n \in Nat \ {0} /\ DOMAIN calls = 1 .. n /\ n \in DOMAIN calls /\ Top = calls[n] /\ IsSequence(calls)
  BY <1>2, TopIsCall DEF TreeInv, CallsInv
<1>4. /\ DOMAIN calls' = 1 .. n /\ Len(calls') = n
      /\ \A k \in 1 .. n : calls'[k] = IF k = n THEN x ELSE calls[k]
  BY <1>2, <1>3, OneChanged DEF TopBecomes
<1>5. \A k \in 1 .. n : calls'[k].dir = calls[k].dir
  BY <1>3, <1>4
<1>6. ASSUME NEW k \in 1 .. n PROVE CallReads(k)'
  <2>1. CASE k = n
    BY <1>4, <2>1 DEF CallReads
  <2>2. CASE k # n
    <3>1. k < Len(calls) /\ k \in DOMAIN calls /\ calls[k].dir \in DOMAIN directories /\ k + 1 \in 1 .. n
      BY <1>2, <1>3, <2>2, CallDirs
    <3>2. PICK c, d, e : c = calls[k] /\ d = c.dir /\ e = calls[k + 1].dir
      OBVIOUS
    <3>3. Waiting(c, e)'
      BY <1>1, <3>1, <3>2, WaiterSame
    <3>4. calls'[k] = c /\ calls'[k + 1].dir = e
      BY <1>4, <1>5, <2>2, <3>1, <3>2
    <3> QED BY <1>4, <2>2, <3>3, <3>4 DEF CallReads
  <2> QED BY <2>1, <2>2
<1>7. ASSUME NEW d \in DOMAIN directories PROVE (\E k \in DOMAIN calls' : calls'[k].dir = d) \/ Done(d)'
  BY <1>1, <1>3, <1>4, <1>5 DEF VolumeOK
<1> QED BY <1>1, <1>4, <1>6, <1>7 DEF VolumeOK

\* The topmost call, and how it looks after a step.
LEMMA TopReads ==
  ASSUME TreeInv, VolumeOK, calls # <<>>
  PROVE  /\ Reading(Top) /\ IsCall(Top) /\ Top.dir \in DOMAIN directories /\ OnVolume(Top.dir)
         /\ Top = calls[Len(calls)] /\ Len(calls) \in DOMAIN calls
<1>1. Len(calls) \in DOMAIN calls /\ Top = calls[Len(calls)] /\ IsCall(Top)
  BY TopIsCall
<1>2. CallReads(Len(calls))
  BY <1>1 DEF VolumeOK
<1>3. Top.dir \in DOMAIN directories
  BY <1>1 DEF IsCall
<1> QED BY <1>1, <1>2, <1>3 DEF CallReads, VolumeOK

LEMMA ContinueIs ==
  ASSUME NEW c, IsCall(c)
  PROVE  /\ Continue(c).dir = c.dir /\ Continue(c).data = c.data /\ Continue(c).next = c.next
         /\ Continue(c).i = c.i + 1 /\ Continue(c).lfn = c.lfn
         /\ Named(c).dir = c.dir /\ Named(c).data = c.data /\ Named(c).next = c.next
         /\ Named(c).i = c.i /\ Named(c).lfn = <<>>
BY DEF IsCall, Continue, Named

LEMMA GoingOnReads ==
  ASSUME TreeInv, LinksInv, Legible(volume), VolumeOK, NextCluster \/ SkipFree \/ TakeLongName \/ SkipDot,
         mount' = "reading"
  PROVE  VolumeOK'
<1>1. UNCHANGED <<volume, directories, files, fentries>> /\ calls # <<>>
  BY GoingOnDoes
<1>2. PICK c : c = Top
  OBVIOUS
<1>3. Reading(c) /\ IsCall(c) /\ c.dir \in DOMAIN directories /\ OnVolume(c.dir)
  BY <1>1, <1>2, TopReads
<1>4. Keeps /\ Held(c.dir)' = Held(c.dir)
  BY <1>1, <1>3, TreeUntouched
<1>5. PICK s : s = AllEntries(c.dir)
  OBVIOUS
<1>6. ASSUME NEW kind, Sees(kind), kind \notin {"file", "dir", "end"}, NEW x,
             x.dir = c.dir, x.data = c.data, x.next = c.next, x.i = c.i + 1,
             x.lfn = IF kind = "lfn" THEN Seen.name ELSE <<>>
      PROVE  Reading(x)'
  <2>1. PICK q, p \in Nat : SeesAt(q, p, kind)
    BY <1>2, <1>3, <1>6, TopSees
  <2>2. ReadsTo(c, q, p) /\ c.i < Slots /\ s[p] = Seen /\ s[p].kind = kind
    BY <1>2, <1>5, <2>1 DEF SeesAt
  <2>3. Held(c.dir)' = Held(c.dir) \cup (IF InUseAt(s, p) THEN {ItemAt(s, p)} ELSE {})
    BY <1>4, <1>6, <2>2 DEF InUseAt
  <2>4. s[p].kind # "end" /\ x.lfn = IF s[p].kind = "lfn" THEN s[p].name ELSE <<>>
    BY <1>6, <2>2
  <2> QED BY <1>3, <1>4, <1>5, <1>6, <2>2, <2>3, <2>4, CallAdvances
<1>7. ASSUME NEW kind, Sees(kind), kind \notin {"file", "dir"}
      PROVE  c.lfn = <<>> /\ (kind = "lfn" => IsSequence(Seen.name))
  <2>1. PICK q, p \in Nat : SeesAt(q, p, kind)
    BY <1>2, <1>3, <1>7, TopSees
  <2> QED BY <1>2, <1>7, <2>1 DEF SeesAt
<1>8. CASE SkipFree \/ SkipDot
  <2>1. PICK kind \in {"free", "dot"} : Sees(kind)
    BY <1>8 DEF SkipFree, SkipDot
  <2>2. PICK x : x = Continue(c)
    OBVIOUS
  <2>3. x.dir = c.dir /\ x.data = c.data /\ x.next = c.next /\ x.i = c.i + 1 /\ x.lfn = c.lfn
    BY <1>3, <2>2, ContinueIs
  <2>4. c.lfn = <<>> /\ kind \notin {"file", "dir", "end", "lfn"}
    BY <1>7, <2>1
  <2>5. Reading(x)'
    BY <1>6, <2>1, <2>3, <2>4
  <2>6. TopBecomes(x)
    BY <1>2, <1>8, <2>2 DEF SkipFree, SkipDot
  <2> QED BY <1>1, <1>2, <2>3, <2>5, <2>6, OnlyTop
<1>9. CASE TakeLongName
  <2>1. Sees("lfn")
    BY <1>9 DEF TakeLongName
  <2>2. c.lfn = <<>> /\ IsSequence(Seen.name)
    BY <1>7, <2>1
  <2>3. c.lfn \o Seen.name = Seen.name
    <3>1. PICK S : Seen.name \in Seq(S)
      BY <2>2 DEF IsSequence
    <3> QED BY <2>2, <3>1, ConcatEmptySeq
  <2>4. PICK u : u = [c EXCEPT !.lfn = @ \o Seen.name]
    OBVIOUS
  <2>5. PICK name : name = Seen.name
    OBVIOUS
  <2>6. u = [c EXCEPT !.lfn = name]
    BY <2>3, <2>4, <2>5
  <2>7. u.dir = c.dir /\ u.data = c.data /\ u.next = c.next /\ u.i = c.i /\ u.lfn = name
    BY <1>3, <2>6 DEF IsCall
  <2>8. PICK x : x = Continue(u)
    OBVIOUS
  <2>9. x.dir = c.dir /\ x.data = c.data /\ x.next = c.next /\ x.i = c.i + 1 /\ x.lfn = Seen.name
    <3>1. u = [dir |-> u.dir, data |-> u.data, next |-> u.next, i |-> u.i, lfn |-> u.lfn]
      BY <1>3, <2>6 DEF IsCall
    <3> QED BY <2>5, <2>7, <2>8, <3>1 DEF Continue
  <2>10. Reading(x)'
    BY <1>6, <2>1, <2>9
  <2>11. TopBecomes(x)
    BY <1>2, <1>9, <2>4, <2>8 DEF TakeLongName
  <2> QED BY <1>1, <1>2, <2>9, <2>10, <2>11, OnlyTop
<1>10. CASE NextCluster
  <2>1. c.next \in Clusters /\ ~(c.i < Slots) /\ ~InRootSector
    BY <1>2, <1>10 DEF NextCluster, InCluster
  <2>2. PICK data, next : data = volume.slots[c.next] /\ next = volume.next[c.next]
    OBVIOUS
  <2>3. PICK x : x = [c EXCEPT !.data = data, !.next = next, !.i = 1]
    OBVIOUS
  <2>4. x.dir = c.dir /\ x.data = data /\ x.next = next /\ x.i = 1 /\ x.lfn = c.lfn
    BY <1>3, <2>3 DEF IsCall
  <2>5. ~InSector(c.dir)
    BY <1>1, <1>2, <2>1, RootSector
  <2>6. Reading(x)'
    BY <1>3, <1>4, <2>1, <2>2, <2>4, <2>5, ClusterAdvances
  <2>7. TopBecomes(x)
    BY <1>2, <1>10, <2>1, <2>2, <2>3 DEF NextCluster
  <2> QED BY <1>1, <1>2, <2>4, <2>6, <2>7, OnlyTop
<1> QED BY <1>8, <1>9, <1>10

LEMMA ReturnReads ==
  ASSUME TreeInv, LinksInv, Legible(volume), VolumeOK, Return, Len(calls) # 1
  PROVE  VolumeOK'
<1>1. PICK n : n = Len(calls)
  OBVIOUS
<1>2. /\ n \in Nat \ {0, 1} /\ n > 1 /\ DOMAIN calls = 1 .. n /\ Top = calls[n]
      /\ Len(calls') = n - 1 /\ DOMAIN calls' = 1 .. n - 1
      /\ \A k \in 1 .. n - 1 : calls'[k] = IF k = n - 1 THEN Continue(calls[k]) ELSE calls[k]
      /\ DOMAIN directories' = DOMAIN directories
      /\ \A d \in DOMAIN directories :
           /\ DirectorySame(d) /\ FilesOf(d)' = FilesOf(d)
           /\ DirsOf(d)' = IF d = calls[n - 1].dir THEN DirsOf(d) \cup {calls[n].dir} ELSE DirsOf(d)
      /\ UNCHANGED <<volume, mount, files, fentries>>
  BY <1>1, ReturnDoes
<1>3. Keeps
  BY <1>2 DEF Keeps, EntryStays
<1>4. PICK c : c = calls[n - 1]
  OBVIOUS
<1>5. PICK e : e = calls[n].dir
  OBVIOUS
<1>6. PICK d : d = c.dir
  OBVIOUS
<1>7. /\ n - 1 \in DOMAIN calls /\ n \in DOMAIN calls /\ IsCall(c) /\ d \in DOMAIN directories
      /\ e \in DOMAIN directories /\ e # Root /\ e # d /\ (n - 1) + 1 = n /\ n - 1 # n
  <2>1. n - 1 \in DOMAIN calls /\ n \in DOMAIN calls /\ (n - 1) + 1 = n /\ n - 1 # n
    BY <1>2
  <2> QED BY <1>2, <1>4, <1>5, <1>6, <2>1, CallDirs
<1>8. OnVolume(d) /\ OnVolume(e) /\ \A f \in DOMAIN directories : OnVolume(f)
  BY <1>7 DEF VolumeOK
<1>9. \A f \in DOMAIN directories : f # d => Held(f)' = Held(f)
  BY <1>2, <1>3, <1>4, <1>6, <1>8, HeldSame
<1>10. Held(d)' = Held(d) \cup {DirectoryEntry(e)}
  <2>1. FilesOf(d)' = FilesOf(d) \cup {} /\ DirsOf(d)' = DirsOf(d) \cup {e}
    BY <1>2, <1>4, <1>5, <1>6, <1>7
  <2>2. Held(d)' = Held(d) \cup {FileEntry(f) : f \in {}}' \cup {DirectoryEntry(f) : f \in {e}}'
    BY <1>3, <1>7, <1>8, <2>1, HeldMore
  <2>3. DirectoryEntry(e)' = DirectoryEntry(e)
    BY <1>3, <1>7, <1>8, KeepsVolume
  <2> QED BY <2>2, <2>3
<1>11. Waiting(c, e)
  <2>1. CallReads(n - 1)
    BY <1>7 DEF VolumeOK
  <2> QED BY <1>1, <1>4, <1>5, <1>7, <2>1 DEF CallReads
<1>12. PICK s : s = AllEntries(d)
  OBVIOUS
<1>13. PICK q, p \in Nat : /\ ReadsTo(c, q, p) /\ c.lfn = <<>> /\ c.i < Slots /\ s[p].kind = "dir"
                           /\ DirectoryEntry(e) = ItemAt(s, p)
  BY <1>6, <1>11, <1>12 DEF Waiting
<1>14. PICK x : x = Continue(c)
  OBVIOUS
<1>15. x.dir = c.dir /\ x.data = c.data /\ x.next = c.next /\ x.i = c.i + 1 /\ x.lfn = c.lfn
  BY <1>7, <1>14, ContinueIs
<1>16. Reading(x)'
  <2>1. Held(d)' = Held(d) \cup (IF InUseAt(s, p) THEN {ItemAt(s, p)} ELSE {})
    BY <1>10, <1>13 DEF InUseAt
  <2>2. s[p].kind # "end" /\ x.lfn = IF s[p].kind = "lfn" THEN s[p].name ELSE <<>>
    BY <1>13, <1>15
  <2> QED BY <1>3, <1>6, <1>7, <1>8, <1>12, <1>13, <1>15, <2>1, <2>2, CallAdvances
<1>17. calls'[n - 1] = x /\ \A k \in 1 .. n - 1 : calls'[k].dir = calls[k].dir
  <2>1. n - 1 \in 1 .. n - 1
    BY <1>2
  <2> QED BY <1>2, <1>4, <1>14, <1>15, <2>1
<1>18. ASSUME NEW k \in 1 .. n - 1 PROVE CallReads(k)'
  <2>1. CASE k = n - 1
    BY <1>2, <1>16, <1>17, <2>1 DEF CallReads
  <2>2. CASE k # n - 1
    <3>1. /\ k \in DOMAIN calls /\ k < Len(calls) /\ k + 1 \in 1 .. n - 1
          /\ calls[k].dir \in DOMAIN directories /\ calls[k].dir # d
      <4>1. k \in DOMAIN calls /\ k < Len(calls) /\ k + 1 \in 1 .. n - 1
        BY <1>1, <1>2, <2>2
      <4> QED BY <1>4, <1>6, <1>7, <2>2, <4>1, CallDirs
    <3>2. PICK y, f, g : y = calls[k] /\ f = y.dir /\ g = calls[k + 1].dir
      OBVIOUS
    <3>3. Held(f)' = Held(f)
      BY <1>9, <3>1, <3>2
    <3>4. Waiting(y, g)'
      BY <1>3, <3>1, <3>2, <3>3, WaiterSame
    <3>5. calls'[k] = y /\ calls'[k + 1].dir = g
      BY <1>2, <1>17, <2>2, <3>1, <3>2
    <3> QED BY <1>2, <2>2, <3>4, <3>5 DEF CallReads
  <2> QED BY <2>1, <2>2
<1>19. Done(e)
  <2>1. calls # <<>>
    BY DEF Return
  <2>2. Reading(Top) /\ OnVolume(Top.dir)
    BY <2>1, TopReads
  <2> QED BY <1>2, <1>5, <2>2, CallCompletes
<1>20. ASSUME NEW f \in DOMAIN directories PROVE (\E k \in DOMAIN calls' : calls'[k].dir = f) \/ Done(f)'
  <2>1. CASE \E k \in 1 .. n - 1 : calls[k].dir = f
    BY <1>2, <1>17, <2>1
  <2>2. CASE ~\E k \in 1 .. n - 1 : calls[k].dir = f
    <3>1. \A k \in DOMAIN calls : k \in 1 .. n - 1 \/ k = n
      BY <1>2
    <3>2. Done(f)
      BY <1>5, <1>19, <2>2, <3>1 DEF VolumeOK
    <3>3. f # d
      BY <1>2, <1>4, <1>6, <1>7, <2>2
    <3> QED BY <1>3, <1>8, <1>9, <3>2, <3>3, CallSame
  <2> QED BY <2>1, <2>2
<1>21. \A f \in DOMAIN directories' : OnVolume(f)'
  BY <1>2, <1>3, <1>8, KeepsVolume
<1> QED BY <1>2, <1>18, <1>20, <1>21 DEF VolumeOK

LEMMA EnterReads ==
  ASSUME TreeInv, Legible(volume), VolumeOK, EnterDirectory
  PROVE  VolumeOK'
<1>1. PICK n, m : n = Len(calls) /\ m = Len(directories) + 1
  OBVIOUS
<1>2. /\ n \in Nat \ {0} /\ DOMAIN calls = 1 .. n /\ Top = calls[n] /\ IsCall(Top)
      /\ Len(calls') = n + 1 /\ DOMAIN calls' = 1 .. n + 1
      /\ \A k \in 1 .. n : calls'[k] = IF k = n THEN Named(Top) ELSE calls[k]
      /\ calls'[n + 1] = Call(m, volume.slots[Seen.cluster], volume.next[Seen.cluster])
      /\ m \in Nat /\ m \notin DOMAIN directories /\ DOMAIN directories' = DOMAIN directories \cup {m}
      /\ \A d \in DOMAIN directories :
           DirectorySame(d) /\ FilesOf(d)' = FilesOf(d) /\ DirsOf(d)' = DirsOf(d) /\ d < m
      /\ directories'[m].name = NameSeen /\ directories'[m].parent = Top.dir /\ directories'[m].id = NewId
      /\ FilesOf(m)' = {} /\ DirsOf(m)' = {}
      /\ UNCHANGED <<volume, mount, files>>
  BY <1>1, EnterDirectoryDoes
<1>3. Sees("dir") /\ fentries' = Append(fentries, Seen) /\ volume' = volume
  BY DEF EnterDirectory
<1>4. /\ NewId \in DOMAIN fentries' /\ fentries'[NewId] = Seen
      /\ \A id \in DOMAIN fentries : id \in DOMAIN fentries' /\ fentries'[id] = fentries[id]
  BY <1>3, EntryKept
<1>5. Keeps
  BY <1>2, <1>4 DEF Keeps, EntryStays
<1>6. /\ \A f \in DOMAIN directories : OnVolume(f)
      /\ \A f \in DOMAIN directories : Held(f)' = Held(f)
  <2>1. \A f \in DOMAIN directories : OnVolume(f)
    BY DEF VolumeOK
  <2> QED BY <1>2, <1>5, <2>1, HeldSame
<1>7. PICK c, d : c = Top /\ d = Top.dir
  OBVIOUS
<1>8. Reading(c) /\ IsCall(c) /\ d \in DOMAIN directories /\ OnVolume(d)
  <2>1. calls # <<>>
    BY <1>3 DEF Sees
  <2> QED BY <1>7, <2>1, TopReads
<1>9. PICK q, p \in Nat : SeesAt(q, p, "dir")
  BY <1>3, <1>7, <1>8, TopSees
<1>10. PICK s, e, name : s = AllEntries(d) /\ e = Seen /\ name = NameSeen
  OBVIOUS
<1>11. /\ ReadsTo(c, q, p) /\ c.i < Slots /\ s[p] = e /\ e.kind = "dir"
       /\ ItemAt(s, p) = Entry("dir", name, e.cluster, e.size)
  BY <1>7, <1>9, <1>10 DEF SeesAt
<1>12. IsEntry(volume, e) /\ e.cluster \in DOMAIN volume.slots /\ e.size = 0
  BY <1>3, <1>10, <1>11, SeenIsEntry DEF IsEntry
<1>13. DirectoryEntry(m)' = ItemAt(s, p)
  BY <1>2, <1>4, <1>10, <1>11, <1>12 DEF DirectoryEntry
<1>14. /\ InSector(d)' = InSector(d) /\ ChainOf(d)' = ChainOf(d)
       /\ PartsIn(d)' = PartsIn(d) /\ AllEntries(d)' = AllEntries(d)
  BY <1>5, <1>8, KeepsVolume
<1>15. PICK x : x = Named(c)
  OBVIOUS
<1>16. x.dir = d /\ x.data = c.data /\ x.next = c.next /\ x.i = c.i /\ x.lfn = <<>> /\ c.dir = d
  BY <1>7, <1>8, <1>15, ContinueIs
<1>17. Waiting(x, m)'
  <2>1. Held(d)' = Held(d)
    BY <1>6, <1>8
  <2>2. ReadsTo(x, q, p)'
    BY <1>3, <1>11, <1>14, <1>16, <2>1 DEF ReadsTo
  <2>3. AllEntries(d)'[p].kind = "dir" /\ DirectoryEntry(m)' = ItemAt(AllEntries(d)', p)
    BY <1>10, <1>11, <1>13, <1>14
  <2> QED BY <1>11, <1>16, <2>2, <2>3 DEF Waiting
<1>18. PICK y : y = Call(m, volume.slots[e.cluster], volume.next[e.cluster])
  OBVIOUS
<1>19. y.dir = m /\ y.data = volume.slots[e.cluster] /\ y.next = volume.next[e.cluster] /\ y.i = 1 /\ y.lfn = <<>>
  BY <1>18 DEF Call
<1>20. m # Root /\ OnVolume(m)'
  <2>1. m # Root
    BY <1>2 DEF TreeInv, DirectoriesInv
  <2> QED BY <1>2, <1>4, <1>10, <1>12, <2>1 DEF OnVolume, ClusterOf
<1>21. Reading(y)'
  <2>1. PICK ch : ch = Chain(volume, e.cluster)
    OBVIOUS
  <2>2. ~InSector(m)' /\ ChainOf(m)' = ch
    BY <1>2, <1>4, <1>10, <1>20, <2>1 DEF InSector, ChainOf, ClusterOf
  <2>3. PICK parts : parts = PartsIn(m)'
    OBVIOUS
  <2>4. parts = [r \in DOMAIN ch |-> volume.slots[ch[r]]]
    BY <1>2, <2>2, <2>3 DEF PartsIn
  <2>5. GoesOn(ch, volume, e.cluster)
    <3>1. volume \in Volumes
      BY DEF TreeInv, EntriesInv
    <3>2. volume.next \in Seq(Nat) /\ ChainsEnd(volume) /\ e.cluster \in DOMAIN volume.next
      BY <1>12, <3>1, VolumesAssumption
    <3> QED BY <2>1, <3>2, ChainGoesOn
  <2>6. Len(ch) \in Nat \ {0} /\ DOMAIN ch = 1 .. Len(ch) /\ ch[1] = e.cluster
    BY <2>5, SequenceFacts DEF GoesOn
  <2>7. Len(parts) = Len(ch) /\ parts[1] = volume.slots[e.cluster]
    <3>1. DOMAIN parts = 1 .. Len(ch) /\ parts = [r \in 1 .. Len(ch) |-> parts[r]] /\ 1 \in 1 .. Len(ch)
      BY <2>4, <2>6
    <3>2. Len(ch) \in Nat
      BY <2>6
    <3>3. Len(parts) = Len(ch)
      BY <3>1, <3>2, FunctionIsSequence
    <3> QED BY <2>4, <2>6, <3>1, <3>3
  <2>8. Held(m)' = {}
    BY <1>2 DEF Held, FilesOf, DirsOf
  <2>9. PICK t : t = AllEntries(m)'
    OBVIOUS
  <2>10. ItemsBefore(t, 1) = {} /\ LfnAt(t, 1) = <<>>
    <3>1. \A j : j \notin 1 .. 1 - 1
      OBVIOUS
    <3> QED BY <3>1 DEF ItemsBefore, LfnAt
  <2>11. 1 \in 1 .. Len(parts) /\ 1 \in 1 .. Slots /\ 1 = (1 - 1) * Slots + 1
    <3>1. (1 - 1) * Slots = 0
      BY VolumesAssumption
    <3> QED BY <2>6, <2>7, <3>1, VolumesAssumption
  <2>12. ReadsTo(y, 1, 1)'
    <3>1. y.next = volume'.next[ChainOf(m)'[1]]
      BY <1>2, <1>19, <2>2, <2>6
    <3>2. y.data = PartsIn(m)'[1] /\ 1 \in 1 .. Len(PartsIn(m))'
      BY <1>19, <2>3, <2>7, <2>11
    <3>3. \A j \in 1 .. 1 - 1 : FALSE
      OBVIOUS
    <3>4. Held(m)' = ItemsBefore(AllEntries(m)', 1)
      BY <2>8, <2>9, <2>10
    <3> QED BY <1>19, <2>11, <3>1, <3>2, <3>3, <3>4 DEF ReadsTo
  <2>13. y.lfn = LfnAt(AllEntries(m)', 1)
    BY <1>19, <2>9, <2>10
  <2> QED BY <1>19, <2>12, <2>13 DEF Reading
<1>22. calls'[n] = x /\ calls'[n + 1] = y /\ \A k \in 1 .. n : calls'[k].dir = calls[k].dir
  BY <1>2, <1>7, <1>10, <1>15, <1>16, <1>18
<1>23. ASSUME NEW k \in 1 .. n + 1 PROVE CallReads(k)'
  <2>1. CASE k = n + 1
    BY <1>2, <1>21, <1>22, <2>1 DEF CallReads
  <2>2. CASE k = n
    <3>1. k # Len(calls') /\ calls'[k] = x /\ calls'[k + 1].dir = m
      BY <1>2, <1>19, <1>22, <2>2
    <3> QED BY <1>17, <3>1 DEF CallReads
  <2>3. CASE k # n + 1 /\ k # n
    <3>1. /\ k \in DOMAIN calls /\ k < Len(calls) /\ k + 1 \in 1 .. n /\ k \in 1 .. n
          /\ calls[k].dir \in DOMAIN directories
      BY <1>1, <1>2, <2>3, CallDirs
    <3>2. PICK z, f, g : z = calls[k] /\ f = z.dir /\ g = calls[k + 1].dir
      OBVIOUS
    <3>3. Held(f)' = Held(f)
      BY <1>6, <3>1, <3>2
    <3>4. Waiting(z, g)'
      BY <1>5, <3>1, <3>2, <3>3, WaiterSame
    <3>5. calls'[k] = z /\ calls'[k + 1].dir = g
      BY <1>2, <1>22, <2>3, <3>1, <3>2
    <3> QED BY <1>2, <2>3, <3>4, <3>5 DEF CallReads
  <2> QED BY <2>1, <2>2, <2>3
<1>24. ASSUME NEW f \in DOMAIN directories' PROVE (\E k \in DOMAIN calls' : calls'[k].dir = f) \/ Done(f)'
  <2>1. \A k \in 1 .. n + 1 : k \in DOMAIN calls'
    BY <1>2
  <2>2. CASE f = m
    <3>1. n + 1 \in 1 .. n + 1
      BY <1>2
    <3> QED BY <1>19, <1>22, <2>1, <2>2, <3>1
  <2>3. CASE f # m
    <3>1. f \in DOMAIN directories
      BY <1>2, <2>3
    <3>2. Done(f) => Done(f)'
      BY <1>5, <1>6, <3>1, CallSame
    <3>3. \A k \in 1 .. n : k \in 1 .. n + 1
      BY <1>2
    <3> QED BY <1>2, <1>22, <2>1, <3>1, <3>2, <3>3 DEF VolumeOK
  <2> QED BY <2>2, <2>3
<1>25. \A f \in DOMAIN directories' : OnVolume(f)'
  BY <1>2, <1>5, <1>6, <1>20, KeepsVolume
<1> QED BY <1>2, <1>23, <1>24, <1>25 DEF VolumeOK

LEMMA AddFileReads ==
  ASSUME TreeInv, FilesInv, Legible(volume), VolumeOK, AddFile
  PROVE  VolumeOK'
<1>1. PICK n, b : n = Len(calls) /\ b = Len(files) + 1
  OBVIOUS
<1>2. /\ n \in Nat \ {0} /\ DOMAIN calls = 1 .. n /\ Top = calls[n] /\ IsCall(Top)
      /\ Len(calls') = n /\ DOMAIN calls' = 1 .. n
      /\ \A k \in 1 .. n : calls'[k] = IF k = n THEN Continue(Named(Top)) ELSE calls[k]
      /\ DOMAIN directories' = DOMAIN directories
      /\ \A d \in DOMAIN directories :
           /\ DirectorySame(d) /\ DirsOf(d)' = DirsOf(d)
           /\ FilesOf(d)' = IF d = Top.dir THEN FilesOf(d) \cup {b} ELSE FilesOf(d)
      /\ b \notin DOMAIN files /\ DOMAIN files' = DOMAIN files \cup {b}
      /\ \A f \in DOMAIN files : files'[f] = files[f]
      /\ files'[b].name = NameSeen /\ files'[b].size = Seen.size /\ files'[b].id = NewId
      /\ UNCHANGED <<volume, mount>>
  BY <1>1, AddFileDoes
<1>3. Sees("file") /\ fentries' = Append(fentries, Seen) /\ volume' = volume
  BY DEF AddFile
<1>4. /\ NewId \in DOMAIN fentries' /\ fentries'[NewId] = Seen
      /\ \A id \in DOMAIN fentries : id \in DOMAIN fentries' /\ fentries'[id] = fentries[id]
  BY <1>3, EntryKept
<1>5. Keeps
  BY <1>2, <1>4 DEF Keeps, EntryStays
<1>6. \A f \in DOMAIN directories : OnVolume(f)
  BY DEF VolumeOK
<1>7. PICK c, d : c = Top /\ d = Top.dir
  OBVIOUS
<1>8. Reading(c) /\ IsCall(c) /\ d \in DOMAIN directories /\ OnVolume(d)
  <2>1. calls # <<>>
    BY <1>3 DEF Sees
  <2> QED BY <1>7, <2>1, TopReads
<1>9. PICK q, p \in Nat : SeesAt(q, p, "file")
  BY <1>3, <1>7, <1>8, TopSees
<1>10. PICK s, e, name : s = AllEntries(d) /\ e = Seen /\ name = NameSeen
  OBVIOUS
<1>11. /\ ReadsTo(c, q, p) /\ c.i < Slots /\ s[p] = e /\ e.kind = "file"
       /\ ItemAt(s, p) = Entry("file", name, e.cluster, e.size)
  BY <1>7, <1>9, <1>10 DEF SeesAt
<1>12. FileEntry(b)' = ItemAt(s, p)
  BY <1>2, <1>4, <1>10, <1>11 DEF FileEntry
<1>13. Held(d)' = Held(d) \cup (IF InUseAt(s, p) THEN {ItemAt(s, p)} ELSE {})
  <2>1. FilesOf(d)' = FilesOf(d) \cup {b} /\ DirsOf(d)' = DirsOf(d) \cup {}
    BY <1>2, <1>7, <1>8
  <2>2. Held(d)' = Held(d) \cup {FileEntry(f) : f \in {b}}' \cup {DirectoryEntry(f) : f \in {}}'
    BY <1>5, <1>6, <1>8, <2>1, HeldMore
  <2>3. InUseAt(s, p)
    BY <1>11 DEF InUseAt
  <2> QED BY <1>12, <2>2, <2>3
<1>14. \A f \in DOMAIN directories : f # d => Held(f)' = Held(f)
  BY <1>2, <1>5, <1>6, <1>7, HeldSame
<1>15. PICK u : u = Named(c)
  OBVIOUS
<1>16. u.dir = d /\ u.data = c.data /\ u.next = c.next /\ u.i = c.i /\ u.lfn = <<>> /\ IsCall(u) /\ c.dir = d
  BY <1>7, <1>8, <1>15, ContinueIs, CallContinues
<1>17. PICK x : x = Continue(u)
  OBVIOUS
<1>18. x.dir = d /\ x.data = c.data /\ x.next = c.next /\ x.i = c.i + 1 /\ x.lfn = <<>>
  BY <1>16, <1>17, ContinueIs
<1>19. Reading(x)'
  <2>1. s[p].kind # "end" /\ x.lfn = IF s[p].kind = "lfn" THEN s[p].name ELSE <<>>
    BY <1>11, <1>18
  <2> QED BY <1>5, <1>8, <1>10, <1>11, <1>13, <1>16, <1>18, <2>1, CallAdvances
<1>20. calls'[n] = x /\ \A k \in 1 .. n : calls'[k].dir = calls[k].dir
  BY <1>2, <1>7, <1>15, <1>17, <1>18
<1>21. ASSUME NEW k \in 1 .. n PROVE CallReads(k)'
  <2>1. CASE k = n
    BY <1>2, <1>19, <1>20, <2>1 DEF CallReads
  <2>2. CASE k # n
    <3>1. /\ k \in DOMAIN calls /\ k < Len(calls) /\ k + 1 \in 1 .. n /\ n \in DOMAIN calls
      BY <1>1, <1>2, <2>2
    <3>2. PICK z, f, g : z = calls[k] /\ f = z.dir /\ g = calls[k + 1].dir
      OBVIOUS
    <3>3. f # d /\ f \in DOMAIN directories
      BY <1>2, <1>7, <2>2, <3>1, <3>2, CallDirs
    <3>4. Held(f)' = Held(f)
      BY <1>14, <3>3
    <3>5. Waiting(z, g)'
      BY <1>5, <3>1, <3>2, <3>4, WaiterSame
    <3>6. calls'[k] = z /\ calls'[k + 1].dir = g
      BY <1>2, <1>20, <2>2, <3>1, <3>2
    <3> QED BY <1>2, <2>2, <3>5, <3>6 DEF CallReads
  <2> QED BY <2>1, <2>2
<1>22. ASSUME NEW f \in DOMAIN directories PROVE (\E k \in DOMAIN calls' : calls'[k].dir = f) \/ Done(f)'
  <2>1. CASE f = d
    <3>1. n \in DOMAIN calls' /\ n \in 1 .. n
      BY <1>2
    <3> QED BY <1>18, <1>20, <2>1, <3>1
  <2>2. CASE f # d
    <3>1. Done(f) => Done(f)'
      BY <1>5, <1>6, <1>14, <2>2, CallSame
    <3> QED BY <1>2, <1>20, <3>1 DEF VolumeOK
  <2> QED BY <2>1, <2>2
<1>23. \A f \in DOMAIN directories' : OnVolume(f)'
  BY <1>2, <1>5, <1>6, KeepsVolume
<1> QED BY <1>2, <1>21, <1>22, <1>23 DEF VolumeOK

LEMMA VolumeStep ==
  ASSUME TreeInv, OpenInv, LinksInv, VolumeInv, [Next]_vars
  PROVE  VolumeInv'
<1> SUFFICES ASSUME mount' = "reading", Legible(volume') PROVE VolumeOK'
  BY DEF VolumeInv
<1>1. CASE ~Mounting
  <2>1. TreeSame
    BY <1>1, CallsKeepTree DEF OpenInv
  <2>2. mount = "reading" /\ Legible(volume)
    BY <2>1 DEF TreeSame
  <2>3. VolumeOK
    BY <2>2 DEF VolumeInv
  <2>4. Keeps
    BY <2>1 DEF TreeSame, FileSame, Keeps, DirectorySame, EntryStays
  <2>5. \A d \in DOMAIN directories : FilesOf(d)' = FilesOf(d) /\ DirsOf(d)' = DirsOf(d) /\ OnVolume(d)
    BY <2>1, <2>3 DEF TreeSame, FilesOf, DirsOf, VolumeOK
  <2>6. \A d \in DOMAIN directories : Held(d)' = Held(d)
    BY <2>4, <2>5, HeldSame
  <2>7. \A d \in DOMAIN directories : OnVolume(d)' /\ (Done(d) => Done(d)')
    BY <2>4, <2>5, <2>6, KeepsVolume, CallSame
  <2>8. DOMAIN directories' = DOMAIN directories /\ calls' = calls
    BY <2>1 DEF TreeSame
  <2>9. ASSUME NEW k \in DOMAIN calls PROVE CallReads(k)'
    <3>1. CASE k = Len(calls)
      <4>1. PICK c : c = calls[k]
        OBVIOUS
      <4>2. Reading(c) /\ c.dir \in DOMAIN directories
        BY <2>3, <3>1, <4>1, CallDirs DEF VolumeOK, CallReads
      <4>3. Reading(c)'
        BY <2>4, <2>5, <2>6, <4>2, CallSame
      <4> QED BY <2>8, <3>1, <4>1, <4>3 DEF CallReads
    <3>2. CASE k # Len(calls)
      <4>1. k < Len(calls) /\ calls[k].dir \in DOMAIN directories
        BY <3>2, CallDirs
      <4>2. PICK c, d, e : c = calls[k] /\ d = c.dir /\ e = calls[k + 1].dir
        OBVIOUS
      <4>3. Waiting(c, e)'
        BY <2>3, <2>4, <2>6, <4>1, <4>2, WaiterSame
      <4> QED BY <2>8, <3>2, <4>2, <4>3 DEF CallReads
    <3> QED BY <3>1, <3>2
  <2> QED BY <2>3, <2>7, <2>8, <2>9 DEF VolumeOK
<1>2. CASE Mounting
  <2>1. MountStep
    BY <1>2 DEF Mounting
  <2>2. mount = "reading" /\ volume' = volume
    BY <2>1 DEF MountStep, NextCluster, Return, SkipFree, TakeLongName, SkipDot, EnterDirectory, AddFile, Sees
  <2>3. Legible(volume) /\ VolumeOK
    BY <2>2 DEF VolumeInv
  <2>4. CASE NextCluster \/ SkipFree \/ TakeLongName \/ SkipDot
    BY <2>3, <2>4, GoingOnReads
  <2>5. CASE Return
    <3>1. Len(calls) # 1
      BY <2>5 DEF Return
    <3> QED BY <2>3, <2>5, <3>1, ReturnReads
  <2>6. CASE EnterDirectory
    BY <2>3, <2>6, EnterReads
  <2>7. CASE AddFile
    BY <2>3, <2>7, AddFileReads DEF OpenInv
  <2> QED BY <2>1, <2>4, <2>5, <2>6, <2>7 DEF MountStep
<1> QED BY <1>1, <1>2

\* Before the first step the root directory is empty, and its call is at its
\* first entry.
LEMMA VolumeStarts == Init => VolumeInv
<1> SUFFICES ASSUME Init, Legible(volume) PROVE VolumeOK
  BY DEF VolumeInv
<1>1. TreeInv
  BY TreeStarts
<1>2. /\ volume \in Volumes /\ files = <<>> /\ fentries = <<>>
      /\ directories = <<NewDirectory(<<>>, NoDirectory, 0)>> /\ calls = <<RootCall(volume)>>
  BY DEF Init, MountInit
<1>3. /\ DOMAIN directories = {Root} /\ directories[Root].dirs = <<>> /\ directories[Root].files = <<>>
  BY <1>2 DEF NewDirectory, Root
<1>4. PICK c : c = RootCall(volume)
  OBVIOUS
<1>5. DOMAIN calls = {1} /\ Len(calls) = 1 /\ calls[1] = c
  BY <1>2, <1>4
<1>6. OnVolume(Root)
  BY DEF OnVolume
<1>7. Held(Root) = {}
  BY <1>3 DEF Held, ToSet
<1>8. /\ c.dir = Root /\ c.i = 1 /\ c.lfn = <<>>
      /\ c.data = IF volume.fat32 THEN volume.slots[volume.root] ELSE volume.sector
      /\ volume.fat32 => c.next = volume.next[volume.root]
  BY <1>4 DEF RootCall, Call
<1>9. PICK n \in Nat \ {0} : n = Len(PartsIn(Root))
  BY <1>1, <1>6, PartsFine
<1>10. Slots \in Nat \ {0}
  BY VolumesAssumption
<1>11. /\ c.data = PartsIn(Root)[1]
       /\ InSector(Root) \/ c.next = volume.next[ChainOf(Root)[1]]
  <2>1. CASE InSector(Root)
    <3>1. PartsIn(Root) = <<volume.sector>> /\ ~volume.fat32
      BY <2>1 DEF PartsIn, InSector
    <3> QED BY <1>8, <2>1, <3>1
  <2>2. CASE ~InSector(Root)
    <3>1. volume.fat32 /\ ClusterOf(Root) = volume.root
      BY <2>2 DEF InSector, ClusterOf
    <3>2. /\ GoesOn(ChainOf(Root), volume, volume.root) /\ 1 \in 1 .. Len(PartsIn(Root))
          /\ PartsIn(Root)[1] = volume.slots[ChainOf(Root)[1]]
      BY <1>1, <1>6, <1>9, <2>2, <3>1, PartsFine
    <3>3. ChainOf(Root)[1] = volume.root
      BY <3>2 DEF GoesOn
    <3> QED BY <1>8, <3>1, <3>2, <3>3
  <2> QED BY <2>1, <2>2
<1>12. PICK s : s = AllEntries(Root)
  OBVIOUS
<1>13. ReadsTo(c, 1, 1)
  <2>1. 1 \in 1 .. n /\ 1 \in 1 .. Slots
    BY <1>9, <1>10
  <2>2. 1 = (1 - 1) * Slots + 1
    <3>1. \A x \in Nat : 0 * x = 0
      OBVIOUS
    <3> QED BY <1>10, <3>1
  <2>3. ItemsBefore(s, 1) = {} /\ \A j : j \notin 1 .. 1 - 1
    BY DEF ItemsBefore
  <2> QED BY <1>7, <1>8, <1>9, <1>11, <1>12, <2>1, <2>2, <2>3 DEF ReadsTo
<1>14. LfnAt(s, 1) = <<>>
  BY DEF LfnAt
<1>15. Reading(c)
  <2>1. 1 \in Nat
    OBVIOUS
  <2> QED BY <1>8, <1>12, <1>13, <1>14, <2>1 DEF Reading
<1> QED BY <1>3, <1>5, <1>6, <1>8, <1>15 DEF VolumeOK, CallReads

-----------------------------------------------------------------------------
(* The paths of a tree.                                                    *)

\* A rule that never takes away has sets that it leaves as they are: the least
\* ones that it adds nothing to.
Less(g, h, D) == \A c \in D : g[c] \subseteq h[c]
Grows(F, S, D) == \A g, h \in S : Less(g, h, D) => Less(F[g], F[h], D)

LEMMA LeastSets ==
  ASSUME NEW D, NEW U, NEW S, S = [D -> SUBSET U], NEW F, F \in [S -> S], Grows(F, S, D)
  PROVE  \E g \in S : F[g] = g
<1> DEFINE Adds(g) == Less(F[g], g, D)
<1>1. PICK L : L = [c \in D |-> {x \in U : \A g \in S : Adds(g) => x \in g[c]}]
  OBVIOUS
<1>2. L \in S
  BY <1>1
<1>3. ASSUME NEW g \in S, Adds(g), NEW c \in D PROVE L[c] \subseteq g[c]
  BY <1>1, <1>3
<1>4. F[L] \in S /\ F[F[L]] \in S
  BY <1>2
<1>5. ASSUME NEW c \in D PROVE F[L][c] \subseteq L[c]
  <2>1. SUFFICES ASSUME NEW x \in F[L][c] PROVE x \in L[c]
    OBVIOUS
  <2>2. x \in U
    BY <1>4
  <2>3. ASSUME NEW g \in S, Adds(g) PROVE x \in g[c]
    <3>1. Less(L, g, D)
      BY <1>3, <2>3 DEF Less
    <3>2. Less(F[L], F[g], D)
      BY <1>2, <2>3, <3>1 DEF Grows
    <3> QED BY <2>3, <3>2 DEF Less
  <2> QED BY <1>1, <2>2, <2>3
<1>6. Adds(F[L])
  BY <1>2, <1>4, <1>5 DEF Less, Grows
<1>7. ASSUME NEW c \in D PROVE F[L][c] = L[c]
  <2>1. L[c] \subseteq F[L][c]
    BY <1>3, <1>4, <1>6
  <2> QED BY <1>5, <2>1
<1>8. F[L] = L
  BY <1>2, <1>4, <1>7
<1> QED BY <1>2, <1>8

\* The paths below directories that hold items and lead to others by names.
LinkedPaths(items, links, f) ==
  {PathTo(e) : e \in items} \cup UNION {Below(l[1], f[l[2]]) : l \in links}

AreLinked(f, D, items, links) == f = [c \in D |-> LinkedPaths(items[c], links[c], f)]

LEMMA PathsBelowExist ==
  ASSUME NEW D, NEW items, NEW links, \A c \in D : \A l \in links[c] : l[2] \in D
  PROVE  \E f : AreLinked(f, D, items, links)
<1>1. PICK E : E = UNION {items[c] : c \in D}
  OBVIOUS
<1>2. PICK N : N = {e.name : e \in E} \cup {l[1] : l \in UNION {links[c] : c \in D}}
  OBVIOUS
<1> DEFINE P(s, e) == [path |-> s, kind |-> e.kind, cluster |-> e.cluster, size |-> e.size]
<1>3. PICK U : /\ \A s \in Seq(N) : \A e \in E : P(s, e) \in U
               /\ \A x \in U : \E s \in Seq(N) : \E e \in E : x = P(s, e)
  <2>1. PICK U : U = UNION {{P(s, e) : s \in Seq(N)} : e \in E}
    OBVIOUS
  <2>2. \A s \in Seq(N) : \A e \in E : P(s, e) \in U
    <3>1. SUFFICES ASSUME NEW s \in Seq(N), NEW e \in E PROVE P(s, e) \in U
      OBVIOUS
    <3>2. P(s, e) \in {P(r, e) : r \in Seq(N)}
      OBVIOUS
    <3> QED BY <2>1, <3>2
  <2>3. \A x \in U : \E s \in Seq(N) : \E e \in E : x = P(s, e)
    BY <2>1
  <2> QED BY <2>2, <2>3
<1>4. ASSUME NEW c \in D, NEW e \in items[c] PROVE PathTo(e) \in U
  <2>1. e \in E /\ e.name \in N
    BY <1>1, <1>2
  <2>2. <<e.name>> \in Seq(N)
    BY <2>1
  <2>3. PathTo(e) = P(<<e.name>>, e)
    BY DEF PathTo
  <2> QED BY <1>3, <2>1, <2>2, <2>3
<1>5. ASSUME NEW c \in D, NEW l \in links[c], NEW paths \in SUBSET U PROVE Below(l[1], paths) \subseteq U
  <2>1. l[1] \in N
    BY <1>2
  <2>2. ASSUME NEW x \in paths PROVE [x EXCEPT !.path = <<l[1]>> \o @] \in U
    <3>1. PICK s \in Seq(N), e \in E : x = P(s, e)
      BY <1>3
    <3>2. <<l[1]>> \o s \in Seq(N)
      BY <2>1
    <3>3. PICK t : t = <<l[1]>> \o s
      OBVIOUS
    <3>4. x.path = s /\ [x EXCEPT !.path = t] = P(t, e)
      BY <3>1
    <3>5. [x EXCEPT !.path = <<l[1]>> \o @] = P(<<l[1]>> \o s, e)
      BY <3>3, <3>4, Zenon
    <3> QED BY <1>3, <3>2, <3>5
  <2> QED BY <2>2 DEF Below
<1> DEFINE S == [D -> SUBSET U]
           R(g) == [c \in D |-> LinkedPaths(items[c], links[c], g)]
<1>6. ASSUME NEW g \in S PROVE R(g) \in S
  <2>1. SUFFICES ASSUME NEW c \in D PROVE LinkedPaths(items[c], links[c], g) \subseteq U
    OBVIOUS
  <2>2. \A l \in links[c] : Below(l[1], g[l[2]]) \subseteq U
    <3>1. \A l \in links[c] : g[l[2]] \in SUBSET U
      OBVIOUS
    <3> QED BY <1>5, <3>1
  <2> QED BY <1>4, <2>2 DEF LinkedPaths
<1>7. ASSUME NEW g \in S, NEW h \in S, \A c \in D : g[c] \subseteq h[c], NEW c \in D
      PROVE  R(g)[c] \subseteq R(h)[c]
  <2>1. ASSUME NEW l \in links[c] PROVE Below(l[1], g[l[2]]) \subseteq Below(l[1], h[l[2]])
    BY <1>7 DEF Below
  <2>2. LinkedPaths(items[c], links[c], g) \subseteq LinkedPaths(items[c], links[c], h)
    BY <2>1 DEF LinkedPaths
  <2> QED BY <2>2
<1>8. PICK F : F = [g \in S |-> R(g)]
  OBVIOUS
<1> HIDE DEF R
<1>9. F \in [S -> S] /\ \A g \in S : F[g] = R(g)
  BY <1>6, <1>8
<1>10. Grows(F, S, D)
  BY <1>7, <1>9 DEF Grows, Less
<1>11. PICK g \in S : F[g] = g
  <2>1. S = [D -> SUBSET U] /\ F \in [S -> S]
    BY <1>9
  <2> HIDE DEF S
  <2> QED BY <1>10, <2>1, LeastSets
<1> QED BY <1>9, <1>11 DEF R, AreLinked

\* Every sequence of entries has an end.
LEMMA EndExists ==
  ASSUME NEW s, IsSequence(s)
  PROVE  \E p \in 1 .. Len(s) + 1 :
           (\A j \in 1 .. p - 1 : s[j].kind # "end") /\ (p \in DOMAIN s => s[p].kind = "end")
<1>1. DOMAIN s = 1 .. Len(s) /\ Len(s) \in Nat
  BY SequenceFacts
<1>2. PICK I : I = {i \in 1 .. Len(s) + 1 : i \in DOMAIN s => s[i].kind = "end"}
  OBVIOUS
<1>3. I \subseteq Nat /\ Len(s) + 1 \in I
  BY <1>1, <1>2
<1>4. PICK p : p = Min(I)
  OBVIOUS
<1>5. p \in I /\ \A y \in I : p <= y
  BY <1>3, <1>4, LeastOf
<1>6. ASSUME NEW j \in 1 .. p - 1 PROVE s[j].kind # "end"
  <2>1. j \in 1 .. Len(s) + 1 /\ ~(p <= j)
    BY <1>1, <1>2, <1>5
  <2> QED BY <1>2, <1>5, <2>1
<1> QED BY <1>2, <1>5, <1>6

\* What the directories on the volume list are clusters of the volume.
LEMMA ListedLeads ==
  ASSUME TreeInv, Legible(volume), NEW c \in DOMAIN volume.slots,
         NEW x \in Listed(EntriesOf(volume, c)), x.kind = "dir"
  PROVE  x.cluster \in DOMAIN volume.slots
<1>1. PICK ch : ch = Chain(volume, c)
  OBVIOUS
<1>2. volume \in Volumes
  BY DEF TreeInv, EntriesInv
<1>3. /\ volume.next \in Seq(Nat) /\ DOMAIN volume.slots = DOMAIN volume.next /\ ChainsEnd(volume)
      /\ \A b \in DOMAIN volume.slots : HasEntries(volume, volume.slots[b])
      /\ Slots \in Nat \ {0}
  BY <1>2, VolumesAssumption
<1>4. GoesOn(ch, volume, c)
  BY <1>1, <1>3, ChainGoesOn
<1>5. PICK n \in Nat \ {0} : n = Len(ch)
  BY <1>4 DEF GoesOn
<1>6. DOMAIN ch = 1 .. n /\ \A q \in 1 .. n : ch[q] \in DOMAIN volume.slots
  BY <1>3, <1>4, <1>5, SequenceFacts DEF GoesOn
<1>7. PICK parts : parts = [k \in 1 .. n |-> volume.slots[ch[k]]]
  OBVIOUS
<1>8. Len(parts) = n /\ \A q \in 1 .. n : parts[q] = volume.slots[ch[q]]
  <2>1. DOMAIN parts = 1 .. n /\ parts = [q \in 1 .. n |-> parts[q]]
    BY <1>7
  <2>2. Len(parts) = n
    BY <2>1, FunctionIsSequence
  <2> QED BY <1>7, <2>2
<1>9. \A q \in 1 .. n : PartFine(parts[q]) /\ HasEntries(volume, parts[q])
  <2>1. ASSUME NEW q \in 1 .. n PROVE PartFine(parts[q]) /\ HasEntries(volume, parts[q])
    <3>1. PICK b \in DOMAIN volume.slots : b = ch[q]
      BY <1>6
    <3>2. HasEntries(volume, volume.slots[b])
      BY <1>3
    <3>3. PartFine(volume.slots[b])
      BY <3>2, LegiblePart
    <3> QED BY <1>8, <3>1, <3>2, <3>3
  <2> QED BY <2>1
<1>10. PICK s : s = FlattenSeq(parts)
  OBVIOUS
<1>11. EntriesOf(volume, c) = UpToEnd(s)
  BY <1>1, <1>6, <1>7, <1>10 DEF EntriesOf
<1>12. LiesInParts(s, parts, Slots, n)
  <2>1. \A q \in 1 .. n : IsSequence(parts[q]) /\ Len(parts[q]) = Slots
    BY <1>9 DEF PartFine
  <2> QED BY <1>3, <1>8, <1>10, <2>1, PartsLie
<1>13. WellNamed(s) /\ IsSequence(s) /\ DOMAIN s = 1 .. Len(s) /\ Len(s) \in Nat
  BY <1>9, <1>12, AllWellNamed
<1>14. PICK p \in 1 .. Len(s) + 1 :
         (\A j \in 1 .. p - 1 : s[j].kind # "end") /\ (p \in DOMAIN s => s[p].kind = "end")
  BY <1>13, EndExists
<1>15. UpToEnd(s) = SubSeq(s, 1, p - 1)
  BY <1>13, <1>14, UpToEndIs
<1>16. Listed(SubSeq(s, 1, p - 1)) = ItemsBefore(s, (p - 1) + 1)
  <2>1. p - 1 \in 0 .. Len(s) /\ ((p - 1) + 1 \in DOMAIN s => ~InUseAt(s, (p - 1) + 1))
    <3>1. p - 1 \in 0 .. Len(s) /\ (p - 1) + 1 = p
      BY <1>13
    <3> QED BY <1>14, <3>1 DEF InUseAt
  <2> QED BY <1>13, <2>1, ListedIs
<1>17. PICK j \in 1 .. Len(s) : x = ItemAt(s, j) /\ InUseAt(s, j)
  <2>1. ((p - 1) + 1) - 1 = p - 1
    BY <1>13
  <2>2. PICK j \in 1 .. p - 1 : x = ItemAt(s, j) /\ InUseAt(s, j)
    BY <1>11, <1>15, <1>16, <2>1 DEF ItemsBefore
  <2> QED BY <1>13, <2>2
<1>18. PICK i \in 0 .. n - 1, r \in 1 .. Slots : s[j] = parts[i + 1][r]
  <2>1. IsInPart(s, parts, Slots, n, j)
    BY <1>3, <1>12, PlaceIn
  <2> QED BY <2>1 DEF IsInPart
<1>19. PICK part : part = parts[i + 1]
  OBVIOUS
<1>20. PartFine(part) /\ HasEntries(volume, part) /\ s[j] = part[r]
  <2>1. i + 1 \in 1 .. n
    OBVIOUS
  <2> QED BY <1>9, <1>18, <1>19, <2>1
<1>21. r \in 1 .. Slots - 1
  <2>1. r # Slots
    BY <1>17, <1>20 DEF PartFine, InUseAt
  <2> QED BY <1>3, <2>1
<1>22. IsEntry(volume, s[j])
  BY <1>20, <1>21 DEF HasEntries
<1>23. PICK e : e = s[j]
  OBVIOUS
<1>24. e = Entry(e.kind, e.name, e.cluster, e.size) /\ (e.kind = "dir" => e.cluster \in DOMAIN volume.slots)
  BY <1>22, <1>23 DEF IsEntry
<1>25. PICK name : x = [e EXCEPT !.name = name]
  BY <1>17, <1>23 DEF ItemAt
<1>26. x.kind = e.kind /\ x.cluster = e.cluster
  BY <1>24, <1>25 DEF Entry
<1> QED BY <1>24, <1>26

\* The paths below the directories on the volume and in the tree.
AreBelow(b, v) == b = [c \in DOMAIN v.slots |-> PathsOf(Listed(EntriesOf(v, c)), b)]
AreInTree(b) ==
  b = [d \in DOMAIN directories |->
         {PathTo(x) : x \in Held(d)}
         \cup UNION {Below(directories[e].name, b[e]) : e \in ToSet(directories[d].dirs)}]

LEMMA BelowExists ==
  ASSUME TreeInv, Legible(volume)
  PROVE  \E b : AreBelow(b, volume)
<1>1. PICK D : D = DOMAIN volume.slots
  OBVIOUS
<1>2. PICK items : items = [c \in D |-> Listed(EntriesOf(volume, c))]
  OBVIOUS
<1> DEFINE L(c) == {<<e.name, e.cluster>> : e \in {e \in items[c] : e.kind = "dir"}}
<1>3. PICK links : links = [c \in D |-> L(c)]
  OBVIOUS
<1>4. \A c \in D : \A l \in links[c] : l[2] \in D
  <2>1. SUFFICES ASSUME NEW c \in D, NEW l \in links[c] PROVE l[2] \in D
    OBVIOUS
  <2>2. PICK e \in items[c] : e.kind = "dir" /\ l = <<e.name, e.cluster>>
    BY <1>3
  <2>3. e \in Listed(EntriesOf(volume, c)) /\ c \in DOMAIN volume.slots
    BY <1>1, <1>2
  <2>4. e.cluster \in DOMAIN volume.slots
    BY <2>2, <2>3, ListedLeads
  <2>5. l[2] = e.cluster
    BY <2>2
  <2> QED BY <1>1, <2>4, <2>5
<1>5. PICK b : AreLinked(b, D, items, links)
  BY <1>4, PathsBelowExist
<1>6. ASSUME NEW c \in D PROVE LinkedPaths(items[c], links[c], b) = PathsOf(Listed(EntriesOf(volume, c)), b)
  <2>1. PICK E : E = {e \in items[c] : e.kind = "dir"}
    OBVIOUS
  <2>2. links[c] = {<<e.name, e.cluster>> : e \in E}
    BY <1>3, <2>1
  <2>3. {Below(l[1], b[l[2]]) : l \in links[c]} = {Below(e.name, b[e.cluster]) : e \in E}
    <3>1. ASSUME NEW l \in links[c] PROVE \E e \in E : l[1] = e.name /\ l[2] = e.cluster
      BY <2>2
    <3>2. ASSUME NEW e \in E PROVE \E l \in links[c] : l[1] = e.name /\ l[2] = e.cluster
      <4>1. <<e.name, e.cluster>> \in links[c]
        BY <2>2
      <4> QED BY <4>1
    <3> QED BY <3>1, <3>2
  <2>4. items[c] = Listed(EntriesOf(volume, c))
    BY <1>2
  <2> QED BY <2>1, <2>3, <2>4 DEF LinkedPaths, PathsOf
<1> QED BY <1>1, <1>5, <1>6 DEF AreBelow, AreLinked

LEMMA InTreeExists ==
  ASSUME TreeInv
  PROVE  \E b : AreInTree(b)
<1>1. PICK D : D = DOMAIN directories
  OBVIOUS
<1>2. PICK items : items = [d \in D |-> Held(d)]
  OBVIOUS
<1> DEFINE L(d) == {<<directories[e].name, e>> : e \in ToSet(directories[d].dirs)}
<1>3. PICK links : links = [d \in D |-> L(d)]
  OBVIOUS
<1>4. \A d \in D : \A l \in links[d] : l[2] \in D
  <2>1. SUFFICES ASSUME NEW d \in D, NEW l \in links[d] PROVE l[2] \in D
    OBVIOUS
  <2>2. PICK e \in ToSet(directories[d].dirs) : l = <<directories[e].name, e>>
    BY <1>3
  <2>3. PICK i \in DOMAIN directories[d].dirs : e = directories[d].dirs[i]
    BY DEF ToSet
  <2>4. e \in DOMAIN directories
    BY <1>1, <2>3 DEF TreeInv, DirectoriesInv, InPlace
  <2>5. l[2] = e
    BY <2>2
  <2> QED BY <1>1, <2>4, <2>5
<1>5. PICK b : AreLinked(b, D, items, links)
  BY <1>4, PathsBelowExist
<1>6. ASSUME NEW d \in D
      PROVE  LinkedPaths(items[d], links[d], b) =
               {PathTo(x) : x \in Held(d)}
               \cup UNION {Below(directories[e].name, b[e]) : e \in ToSet(directories[d].dirs)}
  <2>1. PICK E : E = ToSet(directories[d].dirs)
    OBVIOUS
  <2>2. links[d] = {<<directories[e].name, e>> : e \in E}
    BY <1>3, <2>1
  <2>3. {Below(l[1], b[l[2]]) : l \in links[d]} = {Below(directories[e].name, b[e]) : e \in E}
    <3>1. ASSUME NEW l \in links[d] PROVE \E e \in E : l[1] = directories[e].name /\ l[2] = e
      BY <2>2
    <3>2. ASSUME NEW e \in E PROVE \E l \in links[d] : l[1] = directories[e].name /\ l[2] = e
      <4>1. <<directories[e].name, e>> \in links[d]
        BY <2>2
      <4> QED BY <4>1
    <3> QED BY <3>1, <3>2
  <2>4. items[d] = Held(d)
    BY <1>2
  <2> QED BY <2>1, <2>3, <2>4 DEF LinkedPaths
<1> QED BY <1>1, <1>5, <1>6 DEF AreInTree, AreLinked

\* The subdirectories of a directory, by their entries.
LEMMA SubdirectoriesHeld ==
  ASSUME TreeInv, NEW d \in DOMAIN directories
  PROVE  /\ {x \in Held(d) : x.kind = "dir"} = {DirectoryEntry(e) : e \in ToSet(directories[d].dirs)}
         /\ \A e \in ToSet(directories[d].dirs) :
              /\ e \in DOMAIN directories /\ e # Root /\ e >= d + 1
              /\ DirectoryEntry(e).name = directories[e].name /\ DirectoryEntry(e).cluster = ClusterOf(e)
<1>1. \A f : FileEntry(f).kind = "file"
  BY DEF FileEntry, Entry
<1>2. \A e : DirectoryEntry(e).kind = "dir" /\ DirectoryEntry(e).name = directories[e].name
  BY DEF DirectoryEntry, Entry
<1>3. ASSUME NEW e \in ToSet(directories[d].dirs)
      PROVE  e \in DOMAIN directories /\ e # Root /\ e >= d + 1
  <2>1. PICK i \in DOMAIN directories[d].dirs : directories[d].dirs[i] = e
    BY DEF ToSet
  <2>2. e >= d + i /\ e \in DOMAIN directories
    BY <2>1 DEF TreeInv, DirectoriesInv, InPlace
  <2>3. d \in Nat \ {0} /\ i \in Nat \ {0} /\ e \in Nat
    BY <2>1, <2>2, FewSubdirectories
  <2> QED BY <2>2, <2>3 DEF Root
<1>4. ASSUME NEW e, e # Root PROVE DirectoryEntry(e).cluster = ClusterOf(e)
  BY <1>4 DEF DirectoryEntry, Entry, ClusterOf
<1>5. {x \in Held(d) : x.kind = "dir"} = {DirectoryEntry(e) : e \in ToSet(directories[d].dirs)}
  BY <1>1, <1>2 DEF Held
<1> QED BY <1>2, <1>3, <1>4, <1>5

\* When every directory holds what lies in its clusters, the paths of the tree
\* are those of the volume.
LEMMA TreeMeans ==
  ASSUME TreeInv, Legible(volume), \A d \in DOMAIN directories : OnVolume(d) /\ Done(d)
  PROVE  PathsInTree = PathsOn(volume)
<1>1. PICK v : v = CHOOSE x : AreBelow(x, volume)
  OBVIOUS
<1>2. AreBelow(v, volume)
  BY <1>1, BelowExists
<1>3. PathsOn(volume) = PathsOf(Listed(RootEntries(volume)), v)
  BY <1>1, Zenon DEF PathsOn, AreBelow
<1>4. PICK t : t = CHOOSE x : AreInTree(x)
  OBVIOUS
<1>5. AreInTree(t)
  BY <1>4, InTreeExists
<1>6. PathsInTree = t[Root]
  BY <1>4, Zenon DEF PathsInTree, AreInTree
<1>7. \A d \in DOMAIN directories :
        t[d] = {PathTo(x) : x \in Held(d)}
               \cup UNION {Below(directories[e].name, t[e]) : e \in ToSet(directories[d].dirs)}
  BY <1>5 DEF AreInTree
<1>8. ASSUME NEW d \in DOMAIN directories, \A e \in ToSet(directories[d].dirs) : t[e] = v[ClusterOf(e)]
      PROVE  t[d] = PathsOf(Held(d), v)
  <2>1. PICK E : E = ToSet(directories[d].dirs)
    OBVIOUS
  <2>2. {x \in Held(d) : x.kind = "dir"} = {DirectoryEntry(e) : e \in E}
    BY <2>1, SubdirectoriesHeld
  <2>3. \A e \in E : /\ DirectoryEntry(e).name = directories[e].name
                     /\ v[DirectoryEntry(e).cluster] = t[e]
    BY <1>8, <2>1, SubdirectoriesHeld
  <2>4. PathsOf(Held(d), v) =
          {PathTo(x) : x \in Held(d)}
          \cup UNION {Below(x.name, v[x.cluster]) : x \in {DirectoryEntry(e) : e \in E}}
    BY <2>2 DEF PathsOf
  <2>5. {Below(x.name, v[x.cluster]) : x \in {DirectoryEntry(e) : e \in E}} =
          {Below(directories[e].name, t[e]) : e \in E}
    BY <2>3
  <2> QED BY <1>7, <2>1, <2>4, <2>5
<1>9. ASSUME NEW d \in DOMAIN directories, d # Root
      PROVE  v[ClusterOf(d)] = PathsOf(Held(d), v)
  <2>1. PICK c \in DOMAIN volume.slots : c = ClusterOf(d)
    BY <1>9 DEF OnVolume
  <2>2. AllEntries(d) = FlattenSeq([k \in DOMAIN Chain(volume, c) |-> volume.slots[Chain(volume, c)[k]]])
    BY <1>9, <2>1 DEF AllEntries, PartsIn, InSector, ChainOf
  <2>3. Held(d) = Listed(EntriesOf(volume, c))
    BY <2>2 DEF Done, EntriesOf
  <2>4. v[c] = PathsOf(Listed(EntriesOf(volume, c)), v)
    BY <1>2 DEF AreBelow
  <2> QED BY <2>1, <2>3, <2>4
<1>10. PICK n : n = Len(directories)
  OBVIOUS
<1>11. n \in Nat /\ DOMAIN directories = 1 .. n
  BY <1>10, SequenceFacts DEF TreeInv, DirectoriesInv
<1> DEFINE Same(m) == \A d \in DOMAIN directories : d # Root /\ d + m > n => t[d] = v[ClusterOf(d)]
           T == {m \in Nat : Same(m)}
<1>12. 0 \in T
  BY <1>11
<1>13. ASSUME NEW m \in Nat, m \in T PROVE m + 1 \in T
  <2>1. SUFFICES ASSUME NEW d \in DOMAIN directories, d # Root, d + (m + 1) > n
                 PROVE  t[d] = v[ClusterOf(d)]
    OBVIOUS
  <2>2. ASSUME NEW e \in ToSet(directories[d].dirs) PROVE t[e] = v[ClusterOf(e)]
    <3>1. e \in DOMAIN directories /\ e # Root /\ e >= d + 1
      BY SubdirectoriesHeld
    <3>2. e + m > n
      BY <1>11, <2>1, <3>1
    <3> QED BY <1>13, <3>1, <3>2
  <2> QED BY <1>8, <1>9, <2>1, <2>2
<1>14. n \in T
  <2> HIDE DEF T
  <2>1. Nat \subseteq T
    BY <1>12, <1>13, AllNumbers
  <2> QED BY <1>11, <2>1
<1>15. Root \in DOMAIN directories /\ \A e \in ToSet(directories[Root].dirs) : t[e] = v[ClusterOf(e)]
  <2>1. Root \in DOMAIN directories
    BY DEF TreeInv, DirectoriesInv
  <2>2. ASSUME NEW e \in ToSet(directories[Root].dirs) PROVE t[e] = v[ClusterOf(e)]
    <3>1. e \in DOMAIN directories /\ e # Root
      BY <2>1, SubdirectoriesHeld
    <3>2. e + n > n
      BY <1>11, <3>1
    <3> QED BY <1>14, <3>1, <3>2
  <2> QED BY <2>1, <2>2
<1>16. t[Root] = PathsOf(Held(Root), v)
  BY <1>8, <1>15
<1>17. Held(Root) = Listed(RootEntries(volume))
  <2>1. Held(Root) = Listed(UpToEnd(AllEntries(Root)))
    BY <1>15 DEF Done
  <2>2. CASE volume.fat32
    <3>1. PICK c : c = ClusterOf(Root)
      OBVIOUS
    <3>2. c = volume.root
      BY <3>1 DEF ClusterOf
    <3>3. AllEntries(Root) = FlattenSeq([k \in DOMAIN Chain(volume, c) |-> volume.slots[Chain(volume, c)[k]]])
      BY <2>2, <3>1 DEF AllEntries, PartsIn, InSector, ChainOf
    <3> QED BY <2>1, <2>2, <3>2, <3>3 DEF RootEntries, EntriesOf
  <2>3. CASE ~volume.fat32
    <3>1. PICK parts : parts = <<volume.sector>>
      OBVIOUS
    <3>2. AllEntries(Root) = FlattenSeq(parts)
      BY <2>3, <3>1 DEF AllEntries, PartsIn, InSector
    <3>3. HasEntries(volume, volume.sector)
      BY <2>3, VolumesAssumption DEF TreeInv, EntriesInv
    <3>4. Len(parts) = 1 /\ parts[1] = volume.sector /\ IsSequence(parts[1])
      BY <3>1, <3>3 DEF HasEntries, IsSequence
    <3>5. \A i \in 2 .. Len(parts) : parts[i] = <<>>
      BY <3>4
    <3>6. FlattenSeq(parts) = volume.sector
      BY <3>4, <3>5, FlatFirst
    <3> QED BY <2>1, <2>3, <3>2, <3>6 DEF RootEntries
  <2> QED BY <2>2, <2>3
<1> QED BY <1>3, <1>6, <1>16, <1>17

\* When the call for the root directory returns, every directory has been read.
LEMMA MountMeans ==
  ASSUME TreeInv, OpenInv, LinksInv, VolumeInv, [Next]_vars, MountCompletes, Legible(volume)
  PROVE  PathsInTree' = PathsOn(volume)
<1>1. Mounting
  <2>1. SUFFICES ASSUME ~Mounting PROVE FALSE
    OBVIOUS
  <2>2. TreeSame
    BY <2>1, CallsKeepTree DEF OpenInv
  <2> QED BY <2>2 DEF TreeSame, MountCompletes
<1>2. Return /\ Len(calls) = 1
  <2>1. MountStep /\ mount = "reading" /\ mount' = "mounted"
    BY <1>1 DEF Mounting, MountCompletes
  <2> QED BY <2>1 DEF MountStep, NextCluster, Return, SkipFree, TakeLongName, SkipDot, EnterDirectory, AddFile
<1>3. UNCHANGED <<directories, files, fentries, volume>> /\ calls # <<>> /\ VolumeOK
  BY <1>2 DEF Return, VolumeInv
<1>4. Reading(Top) /\ OnVolume(Top.dir) /\ Top = calls[1] /\ DOMAIN calls = {1}
  <2>1. Top = calls[1] /\ Reading(Top) /\ OnVolume(Top.dir)
    BY <1>2, <1>3, TopReads
  <2> QED BY <1>2, <2>1, CallDirs
<1>5. Done(Top.dir)
  BY <1>2, <1>4, CallCompletes
<1>6. \A d \in DOMAIN directories : OnVolume(d) /\ Done(d)
  BY <1>3, <1>4, <1>5 DEF VolumeOK
<1>7. PathsInTree = PathsOn(volume)
  BY <1>6, TreeMeans
<1>8. PathsInTree' = PathsInTree
  BY <1>3 DEF PathsInTree, Held, FileEntry, DirectoryEntry
<1> QED BY <1>7, <1>8

\* The tree that mounting leaves behind has the paths of the volume and no
\* others, and they lead where they lead there, whatever volume it is as long
\* as it is one that vfat_read_directory can read whole.
THEOREM TreeBecomesVolume == Spec => TreeIsVolume
<1>1. Init => LinksInv
  BY LinksStart
<1>2. TreeInv /\ OpenInv /\ LinksInv /\ [Next]_vars => LinksInv'
  BY LinksStep
<1>3. TreeInv /\ OpenInv /\ LinksInv /\ VolumeInv /\ [Next]_vars => VolumeInv'
  BY VolumeStep
<1>4. TreeInv /\ OpenInv /\ LinksInv /\ VolumeInv /\ [Next]_vars =>
        [MountCompletes /\ Legible(volume) => PathsInTree' = PathsOn(volume)]_vars
  BY MountMeans
<1> QED BY TreeInvariant, OpenInvariant, VolumeStarts, <1>1, <1>2, <1>3, <1>4, PTL DEF Spec, TreeIsVolume

=============================================================================
