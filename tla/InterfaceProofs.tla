-------------------------- MODULE InterfaceProofs --------------------------
(***************************************************************************)
(* Machine-checked proofs about Interface, for every set of processes,     *)
(* threads and names and for every limit.  InterfaceInv is the inductive   *)
(* invariant; with it every step of Interface is a step of Mailbox or      *)
(* leaves the state of Mailbox alone.                                      *)
(***************************************************************************)
EXTENDS Interface, SequenceTheorems, WellFoundedInduction, TLAPS

\* An address that holds no interface holds nothing, and one that does has a
\* creator.
CreatorsInv ==
  /\ \A i \in Ids \ Live : creator[i] = 0 /\ messages[i] = <<>>
  /\ \A i \in Live : creator[i] \in Pids

\* Messages are queued in the order in which they were sent.
StampsInv ==
  \A i \in Ids : \A k \in 1..Len(messages[i]) :
    /\ messages[i][k].stamp \in 1..sent
    /\ \A j \in 1..(k - 1) : messages[i][j].stamp < messages[i][k].stamp

\* A private queue holds what its creator sent and what is for its creator.
PrivateInv ==
  \A i \in Ids : private[i] =>
    \A k \in 1..Len(messages[i]) :
      messages[i][k].sender = creator[i] \/ messages[i][k].to = ToOwner

InterfaceInv == TypeOK /\ CreatorsInv /\ StampsInv /\ NoDanglingWait /\ PrivateInv

-----------------------------------------------------------------------------
(* Queues as data.                                                          *)

\* A set of natural numbers has a least element.
LEMMA MinOfNaturals ==
  ASSUME NEW I \in SUBSET Nat, I # {}
  PROVE  Min(I) \in I /\ \A j \in I : Min(I) <= j
  <1> DEFINE R == {ss \in Nat \X Nat : ss[1] < ss[2]}
  <1>1. IsWellFoundedOn(R, Nat)
    BY NatLessThanWellFounded DEF OpToRel
  <1>2. \E x \in I : \A y \in I : ~ (<<y, x>> \in R)
    <2> HIDE DEF R
    <2>1. QED
      BY <1>1, WFMin
  <1>3. PICK x \in I : \A y \in I : ~ (<<y, x>> \in R)
    BY <1>2
  <1>4. ASSUME NEW y \in I
        PROVE  x <= y
    <2>1. x \in Nat /\ y \in Nat
      OBVIOUS
    <2>2. <<y, x>> \in Nat \X Nat /\ <<y, x>>[1] = y /\ <<y, x>>[2] = x
      BY <2>1
    <2>3. ~ (y < x)
      BY <1>3, <2>2
    <2>4. QED
      BY <2>1, <2>3
  <1>5. QED
    BY <1>4 DEF Min

\* The search of interface_recv returns the first message process p may take.
LEMMA FirstForProperties ==
  ASSUME TypeOK, NEW i \in Ids, NEW p
  PROVE  LET k == FirstFor(i, p)
         IN  k # 0 => /\ k \in 1..Len(messages[i])
                      /\ MayTake(i, messages[i][k], p)
                      /\ \A j \in 1..(k - 1) : ~MayTake(i, messages[i][j], p)
  <1> DEFINE I == {j \in 1..Len(messages[i]) : MayTake(i, messages[i][j], p)}
             k == FirstFor(i, p)
  <1>1. k = IF I # {} THEN Min(I) ELSE 0
    BY DEF FirstFor, SelectInSeq
  <1>2. I \in SUBSET Nat
    OBVIOUS
  <1> SUFFICES ASSUME k # 0
               PROVE  /\ k \in 1..Len(messages[i])
                      /\ MayTake(i, messages[i][k], p)
                      /\ \A j \in 1..(k - 1) : ~MayTake(i, messages[i][j], p)
    OBVIOUS
  <1>3. k \in I /\ \A j \in I : k <= j
    <2> HIDE DEF I
    <2>1. I # {} /\ k = Min(I)
      BY <1>1
    <2>2. QED
      BY <1>2, <2>1, MinOfNaturals
  <1>4. Len(messages[i]) \in Nat
    BY DEF TypeOK
  <1>5. ASSUME NEW j \in 1..(k - 1), MayTake(i, messages[i][j], p)
        PROVE  FALSE
    <2>1. j \in I
      BY <1>3, <1>4, <1>5
    <2>2. QED
      BY <1>3, <1>4, <2>1
  <1>6. QED
    BY <1>3, <1>5

\* The shift loop of interface_recv removes message k and keeps the others in
\* their order.
LEMMA WithoutMessageProperties ==
  ASSUME NEW S, NEW q \in Seq(S), NEW k \in 1..Len(q)
  PROVE  /\ WithoutMessage(q, k) \in Seq(S)
         /\ Len(WithoutMessage(q, k)) = Len(q) - 1
         /\ \A j \in 1..(Len(q) - 1) :
              WithoutMessage(q, k)[j] = IF j < k THEN q[j] ELSE q[j + 1]
  <1> DEFINE a == SubSeq(q, 1, k - 1)
             b == SubSeq(q, k + 1, Len(q))
  <1>1. /\ a \in Seq(S) /\ Len(a) = k - 1
        /\ \A j \in 1..(k - 1) : a[j] = q[j]
    OBVIOUS
  <1>2. /\ b \in Seq(S) /\ Len(b) = Len(q) - k
        /\ \A j \in 1..(Len(q) - k) : b[j] = q[k + j]
    OBVIOUS
  <1>3. WithoutMessage(q, k) = a \o b
    BY DEF WithoutMessage, RemoveAt
  <1> HIDE DEF a, b
  <1>4. /\ a \o b \in Seq(S)
        /\ Len(a \o b) = Len(q) - 1
        /\ \A j \in 1..(Len(q) - 1) :
             (a \o b)[j] = IF j <= k - 1 THEN a[j] ELSE b[j - (k - 1)]
    <2>1. Len(a) + Len(b) = Len(q) - 1
      BY <1>1, <1>2
    <2>2. /\ a \o b \in Seq(S)
          /\ Len(a \o b) = Len(a) + Len(b)
          /\ \A j \in 1..(Len(a) + Len(b)) :
               (a \o b)[j] = IF j <= Len(a) THEN a[j] ELSE b[j - Len(a)]
      BY <1>1, <1>2, ConcatProperties
    <2>3. QED
      BY <1>1, <2>1, <2>2
  <1>5. ASSUME NEW j \in 1..(Len(q) - 1)
        PROVE  (a \o b)[j] = IF j < k THEN q[j] ELSE q[j + 1]
    <2>1. (a \o b)[j] = IF j <= k - 1 THEN a[j] ELSE b[j - (k - 1)]
      BY <1>4
    <2>2. CASE j < k
      <3>1. j \in 1..(k - 1) /\ j <= k - 1
        BY <2>2
      <3>2. QED
        BY <1>1, <2>1, <2>2, <3>1
    <2>3. CASE ~ (j < k)
      <3>1. /\ j - (k - 1) \in 1..(Len(q) - k)
            /\ ~ (j <= k - 1)
            /\ k + (j - (k - 1)) = j + 1
        BY <2>3
      <3>2. QED
        BY <1>2, <2>1, <2>3, <3>1
    <2>4. QED
      BY <2>2, <2>3
  <1>6. QED
    BY <1>3, <1>4, <1>5

-----------------------------------------------------------------------------
(* InterfaceInv is inductive.                                               *)

\* No interface exists at the start.
LEMMA InterfaceInvInit == Init => InterfaceInv
  <1> SUFFICES ASSUME Init
               PROVE  InterfaceInv
    OBVIOUS
  <1>1. TypeOK
    <2>1. <<>> \in Seq(Message)
      OBVIOUS
    <2> HIDE DEF Message
    <2>2. messages \in [Ids -> Seq(Message)]
      BY <2>1 DEF Init
    <2>3. creator \in [Ids -> Pids \cup {0}] /\ iname \in [Ids -> Names \cup {NoName}]
      BY DEF Init
    <2>4. QED
      BY <2>2, <2>3 DEF Init, TypeOK
  <1>2. Live = {}
    BY DEF Init, Live
  <1>3. CreatorsInv
    BY <1>2 DEF Init, CreatorsInv
  <1>4. StampsInv /\ PrivateInv
    BY DEF Init, StampsInv, PrivateInv
  <1>5. NoDanglingWait
    BY DEF Init, NoDanglingWait
  <1>6. QED
    BY <1>1, <1>3, <1>4, <1>5 DEF InterfaceInv

\* interface_recv: the queue loses one message and keeps its order.
LEMMA RecvKeepsInv ==
  ASSUME InterfaceInv, NEW i \in Live, NEW p \in Pids, Recv(i, p)
  PROVE  /\ messages' \in [Ids -> Seq(Message)]
         /\ CreatorsInv' /\ StampsInv' /\ NoDanglingWait' /\ PrivateInv'
  <1> DEFINE k == FirstFor(i, p)
             q == messages[i]
             r == WithoutMessage(q, k)
  <1>0. TypeOK /\ i \in Ids /\ q \in Seq(Message) /\ Len(q) \in Nat
    BY DEF InterfaceInv, TypeOK, Live
  <1>1. k \in 1..Len(q)
    BY <1>0, FirstForProperties DEF Recv
  <1>2. /\ r \in Seq(Message)
        /\ Len(r) = Len(q) - 1
        /\ \A j \in 1..(Len(q) - 1) : r[j] = IF j < k THEN q[j] ELSE q[j + 1]
    <2> HIDE DEF k, q
    <2>1. QED
      BY <1>0, <1>1, WithoutMessageProperties
  <1>3. messages' = [messages EXCEPT ![i] = r]
    BY DEF Recv
  <1> HIDE DEF r, k
  <1>4. messages' \in [Ids -> Seq(Message)]
    BY <1>0, <1>2, <1>3 DEF TypeOK
  <1>5. Live' = Live
    BY DEF Recv, Live
  <1>6. CreatorsInv'
    BY <1>0, <1>3, <1>5 DEF InterfaceInv, CreatorsInv, Recv, TypeOK
  <1>7. StampsInv'
    <2> SUFFICES ASSUME NEW a \in Ids, NEW c \in 1..Len(messages'[a])
                 PROVE  /\ messages'[a][c].stamp \in 1..sent
                        /\ \A j \in 1..(c - 1) : messages'[a][j].stamp < messages'[a][c].stamp
      BY DEF StampsInv, Recv
    <2>1. CASE a # i
      BY <1>0, <1>3, <2>1 DEF InterfaceInv, StampsInv, TypeOK
    <2>2. CASE a = i
      <3>1. messages'[a] = r /\ c \in 1..(Len(q) - 1)
        BY <1>0, <1>2, <1>3, <2>2 DEF TypeOK
      <3>2. \A j \in 1..Len(q) :
              /\ q[j].stamp \in 1..sent
              /\ \A h \in 1..(j - 1) : q[h].stamp < q[j].stamp
        BY <1>0 DEF InterfaceInv, StampsInv
      <3> HIDE DEF q
      <3>3. r[c].stamp \in 1..sent
        <4>1. PICK d \in 1..Len(q) : r[c] = q[d]
          BY <1>0, <1>1, <1>2, <3>1
        <4>2. QED
          BY <3>2, <4>1
      <3>4. ASSUME NEW j \in 1..(c - 1)
            PROVE  r[j].stamp < r[c].stamp
        <4>1. r[j] = (IF j < k THEN q[j] ELSE q[j + 1])
              /\ r[c] = (IF c < k THEN q[c] ELSE q[c + 1])
          BY <1>0, <1>2, <3>1
        <4>2. CASE c < k
          <5>1. c \in 1..Len(q) /\ j < k
            BY <1>0, <1>1, <3>1, <4>2
          <5>2. q[j].stamp < q[c].stamp
            BY <3>2, <5>1
          <5>3. QED
            BY <4>1, <4>2, <5>1, <5>2
        <4>3. CASE ~(c < k) /\ j < k
          <5>1. c + 1 \in 1..Len(q) /\ j \in 1..((c + 1) - 1)
            BY <1>0, <1>1, <3>1, <4>3
          <5>2. q[j].stamp < q[c + 1].stamp
            BY <3>2, <5>1
          <5>3. QED
            BY <4>1, <4>3, <5>2
        <4>4. CASE ~(j < k)
          <5>1. j + 1 \in 1..((c + 1) - 1) /\ c + 1 \in 1..Len(q) /\ ~(c < k)
            BY <1>0, <1>1, <3>1, <4>4
          <5>2. q[j + 1].stamp < q[c + 1].stamp
            BY <3>2, <5>1
          <5>3. QED
            BY <4>1, <4>4, <5>1, <5>2
        <4>5. QED
          BY <1>0, <1>1, <3>1, <4>2, <4>3, <4>4
      <3>5. QED
        BY <3>1, <3>3, <3>4
    <2>3. QED
      BY <2>1, <2>2
  <1>8. NoDanglingWait'
    BY <1>5 DEF InterfaceInv, NoDanglingWait, Recv, threadVars
  <1>9. PrivateInv'
    <2> SUFFICES ASSUME NEW a \in Ids, private[a], NEW c \in 1..Len(messages'[a])
                 PROVE  messages'[a][c].sender = creator[a] \/ messages'[a][c].to = ToOwner
      BY DEF PrivateInv, Recv
    <2>1. CASE a # i
      BY <1>0, <1>3, <2>1 DEF InterfaceInv, PrivateInv, TypeOK
    <2>2. CASE a = i
      <3>1. messages'[a] = r /\ c \in 1..(Len(q) - 1)
        BY <1>0, <1>2, <1>3, <2>2 DEF TypeOK
      <3>2. PICK d \in 1..Len(q) : r[c] = q[d]
        BY <1>0, <1>1, <1>2, <3>1
      <3>3. QED
        BY <1>0, <2>2, <3>1, <3>2 DEF InterfaceInv, PrivateInv
    <2>3. QED
      BY <2>1, <2>2
  <1>10. QED
    BY <1>4, <1>6, <1>7, <1>8, <1>9

\* interface_create at an address that is free.
LEMMA CreateKeepsInv ==
  ASSUME InterfaceInv, NEW t \in Threads, NEW n \in Names, NEW flag \in BOOLEAN,
         Create(t, n, flag)
  PROVE  InterfaceInv'
  <1>1. PICK i \in Ids \ Live :
          /\ iname' = [iname EXCEPT ![i] = n]
          /\ creator' = [creator EXCEPT ![i] = Owner[t]]
          /\ private' = [private EXCEPT ![i] = flag]
          /\ messages' = [messages EXCEPT ![i] = <<>>]
    BY DEF Create
  <1>2. /\ UNCHANGED <<sent, pstate, tstate, wait_msg, call, callname>>
        /\ Owner[t] \in Pids /\ n # NoName /\ TypeOK
    BY InterfaceAssumption DEF Create, threadVars, callVars, InterfaceInv
  <1>3. Live' = Live \cup {i}
    BY <1>1, <1>2 DEF Live, TypeOK
  <1>4. messages' = messages
    BY <1>1, <1>2 DEF InterfaceInv, CreatorsInv, TypeOK
  <1>5. TypeOK'
    BY <1>1, <1>2, <1>4 DEF TypeOK
  <1>6. CreatorsInv'
    BY <1>1, <1>2, <1>3, <1>4 DEF InterfaceInv, CreatorsInv, TypeOK
  <1>7. StampsInv'
    BY <1>2, <1>4 DEF InterfaceInv, StampsInv
  <1>8. NoDanglingWait'
    BY <1>2, <1>3 DEF InterfaceInv, NoDanglingWait
  <1>9. PrivateInv'
    <2>1. \A a \in Ids : messages[a] # <<>> => a # i
      BY DEF InterfaceInv, CreatorsInv
    <2>2. ASSUME NEW a \in Ids, private'[a], NEW c \in 1..Len(messages[a])
          PROVE  messages[a][c].sender = creator'[a] \/ messages[a][c].to = ToOwner
      <3>1. a # i
        BY <2>1, <2>2
      <3>2. private[a] /\ creator'[a] = creator[a]
        BY <1>1, <1>2, <2>2, <3>1 DEF TypeOK
      <3>3. QED
        BY <2>2, <3>2 DEF InterfaceInv, PrivateInv
    <2>3. QED
      BY <1>4, <2>2 DEF PrivateInv
  <1>10. QED
    BY <1>5, <1>6, <1>7, <1>8, <1>9 DEF InterfaceInv

\* interface_delete: the interface goes and everyone who waits on it is woken.
LEMMA DeleteKeepsInv ==
  ASSUME InterfaceInv, NEW t \in Threads, NEW n \in Names, Delete(t, n)
  PROVE  InterfaceInv'
  <1>1. PICK i \in Find(n) :
          /\ iname' = [iname EXCEPT ![i] = NoName]
          /\ creator' = [creator EXCEPT ![i] = 0]
          /\ private' = [private EXCEPT ![i] = FALSE]
          /\ messages' = [messages EXCEPT ![i] = <<>>]
          /\ tstate' = [s \in Threads |-> IF s \in WokenByDelete(i) THEN "running" ELSE tstate[s]]
          /\ wait_msg' = [s \in Threads |-> IF s \in WokenByDelete(i) THEN NoInterface ELSE wait_msg[s]]
    BY DEF Delete
  <1>2. /\ UNCHANGED <<sent, pstate, call, callname>>
        /\ TypeOK /\ i \in Ids /\ i \in Live
    BY DEF Delete, callVars, InterfaceInv, Find, Live
  <1>3. Live' = Live \ {i}
    BY <1>1, <1>2 DEF Live, TypeOK
  <1>4. TypeOK'
    <2>1. /\ tstate' \in [Threads -> {"running", "waiting", "dead"}]
          /\ wait_msg' \in [Threads -> Ids \cup {NoInterface}]
      BY <1>1, <1>2 DEF TypeOK
    <2>2. messages' \in [Ids -> Seq(Message)]
      <3>1. <<>> \in Seq(Message)
        OBVIOUS
      <3> HIDE DEF Message
      <3>2. QED
        BY <1>1, <1>2, <3>1 DEF TypeOK
    <2>3. iname' \in [Ids -> Names \cup {NoName}] /\ creator' \in [Ids -> Pids \cup {0}]
          /\ private' \in [Ids -> BOOLEAN]
      BY <1>1, <1>2 DEF TypeOK
    <2>4. QED
      BY <1>2, <2>1, <2>2, <2>3 DEF TypeOK
  <1>5. CreatorsInv'
    BY <1>1, <1>2, <1>3 DEF InterfaceInv, CreatorsInv, TypeOK
  <1>6. StampsInv'
    <2> SUFFICES ASSUME NEW a \in Ids, NEW c \in 1..Len(messages'[a])
                 PROVE  /\ messages'[a][c].stamp \in 1..sent
                        /\ \A j \in 1..(c - 1) : messages'[a][j].stamp < messages'[a][c].stamp
      BY <1>2 DEF StampsInv
    <2>1. a # i /\ messages'[a] = messages[a]
      BY <1>1, <1>2 DEF TypeOK
    <2>2. QED
      BY <2>1 DEF InterfaceInv, StampsInv
  <1>7. NoDanglingWait'
    <2> SUFFICES ASSUME NEW s \in Threads, tstate'[s] = "waiting"
                 PROVE  wait_msg'[s] \in Live'
      BY DEF NoDanglingWait
    <2>1. s \notin WokenByDelete(i) /\ tstate[s] = "waiting" /\ wait_msg'[s] = wait_msg[s]
      BY <1>1
    <2>2. QED
      BY <1>3, <2>1 DEF InterfaceInv, NoDanglingWait, WokenByDelete
  <1>8. PrivateInv'
    <2> SUFFICES ASSUME NEW a \in Ids, private'[a], NEW c \in 1..Len(messages'[a])
                 PROVE  messages'[a][c].sender = creator'[a] \/ messages'[a][c].to = ToOwner
      BY DEF PrivateInv
    <2>1. a # i
      BY <1>1, <1>2 DEF TypeOK
    <2>2. private[a] /\ messages'[a] = messages[a] /\ creator'[a] = creator[a]
      BY <1>1, <1>2, <2>1 DEF TypeOK
    <2>3. QED
      BY <2>2 DEF InterfaceInv, PrivateInv
  <1>9. QED
    BY <1>4, <1>5, <1>6, <1>7, <1>8 DEF InterfaceInv

\* interface_send: one message more, the youngest.
LEMMA SendKeepsInv ==
  ASSUME InterfaceInv, NEW t \in Threads, NEW n \in Names, NEW size \in Sizes,
         NEW to \in Pids \cup {ToOwner, ToAnyone}, Send(t, n, to, size)
  PROVE  InterfaceInv'
  <1> DEFINE m == NewMessage(Owner[t], to, size)
  <1>1. PICK i \in Find(n) :
          /\ MayPost(i, Owner[t], to)
          /\ messages' = [messages EXCEPT ![i] = Append(@, m)]
    BY DEF Send
  <1>2. /\ UNCHANGED <<iname, creator, private, pstate, tstate, wait_msg, call, callname>>
        /\ sent' = sent + 1 /\ sent \in Nat
        /\ TypeOK /\ i \in Ids /\ i \in Live /\ Live' = Live
    BY DEF Send, threadVars, callVars, InterfaceInv, Find, Live, TypeOK
  <1>3. m \in Message /\ m.stamp = sent + 1 /\ m.sender = Owner[t] /\ m.to = to
    BY <1>2, InterfaceAssumption DEF NewMessage, Message
  <1> DEFINE q == messages[i]
             r == Append(q, m)
  <1>4. q \in Seq(Message) /\ Len(q) \in Nat
    BY <1>2 DEF TypeOK
  <1>5. /\ r \in Seq(Message) /\ Len(r) = Len(q) + 1
        /\ r[Len(q) + 1] = m /\ \A j \in 1..Len(q) : r[j] = q[j]
    <2> HIDE DEF m, q, Message
    <2>1. QED
      BY <1>3, <1>4
  <1>6. messages' = [messages EXCEPT ![i] = r]
    BY <1>1
  <1> HIDE DEF r, m
  <1>7. TypeOK'
    BY <1>2, <1>5, <1>6 DEF TypeOK
  <1>8. CreatorsInv'
    BY <1>2, <1>6 DEF InterfaceInv, CreatorsInv, TypeOK
  <1>9. StampsInv'
    <2> SUFFICES ASSUME NEW a \in Ids, NEW c \in 1..Len(messages'[a])
                 PROVE  /\ messages'[a][c].stamp \in 1..(sent + 1)
                        /\ \A j \in 1..(c - 1) : messages'[a][j].stamp < messages'[a][c].stamp
      BY <1>2 DEF StampsInv
    <2>1. CASE a # i
      <3>1. messages'[a] = messages[a]
        BY <1>2, <1>6, <2>1 DEF TypeOK
      <3>2. QED
        BY <1>2, <3>1 DEF InterfaceInv, StampsInv
    <2>2. CASE a = i
      <3>1. messages'[a] = r
        BY <1>2, <1>6, <2>2 DEF TypeOK
      <3>2. \A j \in 1..Len(q) :
              /\ q[j].stamp \in 1..sent
              /\ \A h \in 1..(j - 1) : q[h].stamp < q[j].stamp
        BY <1>2 DEF InterfaceInv, StampsInv
      <3> HIDE DEF q
      <3>3. CASE c \in 1..Len(q)
        <4>1. q[c].stamp \in 1..sent /\ r[c] = q[c]
          BY <1>5, <3>2, <3>3
        <4>2. ASSUME NEW j \in 1..(c - 1)
              PROVE  r[j].stamp < r[c].stamp
          <5>1. j \in 1..Len(q)
            BY <1>4, <3>3
          <5>2. q[j].stamp < q[c].stamp /\ r[j] = q[j]
            BY <1>5, <3>2, <3>3, <5>1
          <5>3. QED
            BY <4>1, <5>2
        <4>3. QED
          BY <1>2, <3>1, <4>1, <4>2
      <3>4. CASE c = Len(q) + 1
        BY <1>2, <1>3, <1>4, <1>5, <3>1, <3>2, <3>4
      <3>5. QED
        BY <1>4, <1>5, <3>1, <3>3, <3>4
    <2>3. QED
      BY <2>1, <2>2
  <1>10. NoDanglingWait'
    BY <1>2 DEF InterfaceInv, NoDanglingWait
  <1>11. PrivateInv'
    <2> SUFFICES ASSUME NEW a \in Ids, private[a], NEW c \in 1..Len(messages'[a])
                 PROVE  messages'[a][c].sender = creator[a] \/ messages'[a][c].to = ToOwner
      BY <1>2 DEF PrivateInv
    <2>1. CASE a # i
      <3>1. messages'[a] = messages[a]
        BY <1>2, <1>6, <2>1 DEF TypeOK
      <3>2. QED
        BY <3>1 DEF InterfaceInv, PrivateInv
    <2>2. CASE a = i
      <3>1. messages'[a] = r
        BY <1>2, <1>6, <2>2 DEF TypeOK
      <3>2. CASE c \in 1..Len(q)
        BY <1>5, <2>2, <3>1, <3>2 DEF InterfaceInv, PrivateInv
      <3>3. CASE c = Len(q) + 1
        BY <1>1, <1>3, <1>5, <2>2, <3>1, <3>3 DEF MayPost
      <3>4. QED
        BY <1>4, <1>5, <3>1, <3>2, <3>3
    <2>3. QED
      BY <2>1, <2>2
  <1>12. QED
    BY <1>7, <1>8, <1>9, <1>10, <1>11 DEF InterfaceInv

\* A step that leaves the interfaces alone and makes no thread wait on an
\* address without interface keeps the invariant.
LEMMA ThreadStepKeepsInv ==
  ASSUME InterfaceInv, TypeOK', UNCHANGED intfaceVars,
         \A t \in Threads : tstate'[t] = "waiting" => wait_msg'[t] \in Live
  PROVE  InterfaceInv'
  <1>1. UNCHANGED <<iname, creator, private, messages, sent>> /\ Live' = Live
    BY DEF intfaceVars, Live
  <1>2. CreatorsInv' /\ StampsInv' /\ PrivateInv'
    BY <1>1 DEF InterfaceInv, CreatorsInv, StampsInv, PrivateInv
  <1>3. NoDanglingWait'
    BY <1>1 DEF NoDanglingWait
  <1>4. QED
    BY <1>2, <1>3 DEF InterfaceInv

\* A step of interface_recv, whatever it does to the library call.
LEMMA RecvStepKeepsInv ==
  ASSUME InterfaceInv, NEW i \in Live, NEW p \in Pids, Recv(i, p),
         call' \in [Threads -> {"none", "again", "waited"}],
         callname' \in [Threads -> Names \cup {NoName}]
  PROVE  InterfaceInv'
  <1>1. UNCHANGED <<iname, creator, private, sent, pstate, tstate, wait_msg>>
    BY DEF Recv, threadVars
  <1>2. TypeOK'
    BY <1>1, RecvKeepsInv DEF InterfaceInv, TypeOK
  <1>3. QED
    BY <1>2, RecvKeepsInv DEF InterfaceInv

\* Every operation of interface.c preserves InterfaceInv.
LEMMA InterfaceInvStep == InterfaceInv /\ [Next]_vars => InterfaceInv'
  <1> SUFFICES ASSUME InterfaceInv, [Next]_vars
               PROVE  InterfaceInv'
    OBVIOUS
  <1>0. TypeOK /\ (\A t \in Threads : Owner[t] \in Pids)
        /\ (\A t \in Threads : tstate[t] = "waiting" => wait_msg[t] \in Live)
    BY InterfaceAssumption DEF InterfaceInv, NoDanglingWait
  <1>1. ASSUME NEW t \in Threads, NEW n \in Names, NEW flag \in BOOLEAN, Create(t, n, flag)
        PROVE  InterfaceInv'
    BY <1>1, CreateKeepsInv
  <1>2. ASSUME NEW t \in Threads, NEW n \in Names, Delete(t, n)
        PROVE  InterfaceInv'
    BY <1>2, DeleteKeepsInv
  <1>3. ASSUME NEW t \in Threads, NEW n \in Names, NEW size \in Sizes,
               NEW to \in Pids \cup {ToOwner, ToAnyone}, Send(t, n, to, size)
        PROVE  InterfaceInv'
    BY <1>3, SendKeepsInv
  <1>4. ASSUME NEW t \in Threads, NEW n \in Names, RecieveNB(t, n)
        PROVE  InterfaceInv'
    <2>1. PICK i \in Find(n) : Recv(i, Owner[t])
      BY <1>4 DEF RecieveNB
    <2>2. i \in Live /\ UNCHANGED <<call, callname>>
      BY <1>4 DEF RecieveNB, callVars, Find
    <2>3. QED
      BY <1>0, <2>1, <2>2, RecvStepKeepsInv DEF TypeOK
  <1>5. ASSUME NEW t \in Threads, NEW n \in Names, RecieveTry(t, n)
        PROVE  InterfaceInv'
    <2>1. UNCHANGED intfaceVars /\ UNCHANGED <<pstate, tstate, wait_msg>>
      BY <1>5 DEF RecieveTry, threadVars
    <2>2. TypeOK'
      BY <1>0, <1>5, <2>1 DEF TypeOK, RecieveTry, intfaceVars
    <2>3. QED
      BY <1>0, <2>1, <2>2, ThreadStepKeepsInv
  <1>6. ASSUME NEW t \in Threads, RecieveWait(t)
        PROVE  InterfaceInv'
    <2>1. UNCHANGED intfaceVars /\ UNCHANGED <<pstate, callname>>
          /\ call' = [call EXCEPT ![t] = "waited"]
      BY <1>6 DEF RecieveWait
    <2>2. CASE UNCHANGED threadVars
      <3>1. TypeOK'
        BY <1>0, <2>1, <2>2 DEF TypeOK, intfaceVars, threadVars
      <3>2. QED
        BY <1>0, <2>1, <2>2, <3>1, ThreadStepKeepsInv DEF threadVars
    <2>3. CASE \E i \in Find(callname[t]) :
                 /\ tstate' = [tstate EXCEPT ![t] = "waiting"]
                 /\ wait_msg' = [wait_msg EXCEPT ![t] = i]
      <3>1. PICK i \in Live : /\ tstate' = [tstate EXCEPT ![t] = "waiting"]
                              /\ wait_msg' = [wait_msg EXCEPT ![t] = i]
        BY <2>3 DEF Find
      <3>2. TypeOK'
        BY <1>0, <2>1, <3>1 DEF TypeOK, intfaceVars, Live
      <3>3. \A s \in Threads : tstate'[s] = "waiting" => wait_msg'[s] \in Live
        BY <1>0, <3>1 DEF TypeOK
      <3>4. QED
        BY <2>1, <3>2, <3>3, ThreadStepKeepsInv
    <2>4. QED
      BY <1>6, <2>2, <2>3 DEF RecieveWait
  <1>7. ASSUME NEW t \in Threads, RecieveAgain(t)
        PROVE  InterfaceInv'
    <2>1. /\ call' \in [Threads -> {"none", "again", "waited"}]
          /\ callname' \in [Threads -> Names \cup {NoName}]
      BY <1>0, <1>7 DEF RecieveAgain, TypeOK
    <2>2. CASE \E i \in Find(callname[t]) : Recv(i, Owner[t])
      BY <1>0, <2>1, <2>2, RecvStepKeepsInv DEF Find
    <2>3. CASE UNCHANGED <<intfaceVars, pstate, threadVars>>
      <3>1. TypeOK'
        BY <1>0, <2>1, <2>3 DEF TypeOK, intfaceVars, threadVars
      <3>2. QED
        BY <1>0, <2>3, <3>1, ThreadStepKeepsInv DEF threadVars
    <2>4. QED
      BY <1>7, <2>2, <2>3 DEF RecieveAgain
  <1>8. ASSUME NEW t \in Threads, Wake(t)
        PROVE  InterfaceInv'
    <2>1. TypeOK'
      BY <1>0, <1>8 DEF TypeOK, Wake, intfaceVars, callVars
    <2>2. \A s \in Threads : tstate'[s] = "waiting" => wait_msg'[s] \in Live
      BY <1>0, <1>8 DEF TypeOK, Wake
    <2>3. QED
      BY <1>8, <2>1, <2>2, ThreadStepKeepsInv DEF Wake
  <1>9. ASSUME NEW S \in SUBSET Threads, Die(S), pstate' \in [Pids -> {"alive", "exited", "freed"}]
        PROVE  InterfaceInv'
    <2>1. TypeOK'
      BY <1>0, <1>9 DEF TypeOK, Die, intfaceVars
    <2>2. \A s \in Threads : tstate'[s] = "waiting" => wait_msg'[s] \in Live
      BY <1>0, <1>9 DEF TypeOK, Die
    <2>3. QED
      BY <1>9, <2>1, <2>2, ThreadStepKeepsInv DEF Die
  <1>10. ASSUME NEW t \in Threads, ExitThread(t)
         PROVE  InterfaceInv'
    BY <1>0, <1>9, <1>10 DEF ExitThread, TypeOK
  <1>11. ASSUME NEW p \in Pids, NEW kept \in BOOLEAN, ExitProcess(p, kept)
         PROVE  InterfaceInv'
    <2>1. pstate' \in [Pids -> {"alive", "exited", "freed"}]
      BY <1>0, <1>11 DEF ExitProcess, TypeOK
    <2>2. QED
      BY <1>9, <1>11, <2>1 DEF ExitProcess
  <1>12. ASSUME NEW p \in Pids, FreeProcess(p)
         PROVE  InterfaceInv'
    <2>1. UNCHANGED intfaceVars /\ UNCHANGED <<tstate, wait_msg, call, callname>>
      BY <1>12 DEF FreeProcess, threadVars, callVars
    <2>2. TypeOK'
      BY <1>0, <1>12, <2>1 DEF TypeOK, FreeProcess, intfaceVars
    <2>3. QED
      BY <1>0, <2>1, <2>2, ThreadStepKeepsInv
  <1>13. CASE UNCHANGED vars
    <2>1. UNCHANGED intfaceVars /\ UNCHANGED <<pstate, tstate, wait_msg, call, callname>>
      BY <1>13 DEF vars, threadVars, callVars
    <2>2. TypeOK'
      BY <1>0, <2>1 DEF TypeOK, intfaceVars
    <2>3. QED
      BY <1>0, <2>1, <2>2, ThreadStepKeepsInv
  <1>14. QED
    BY <1>1, <1>2, <1>3, <1>4, <1>5, <1>6, <1>7, <1>8, <1>10, <1>11, <1>12, <1>13 DEF Next

\* The inductive invariant of Interface: it holds whatever processes create,
\* delete, send, receive, wait and die, for every number of them.
THEOREM InterfaceInvariant == Spec => []InterfaceInv
  BY InterfaceInvInit, InterfaceInvStep, PTL DEF Spec

\* The arrays and counters of interface.c hold what their types say.
THEOREM TypeCorrect == Spec => []TypeOK
  <1>1. InterfaceInv => TypeOK
    BY DEF InterfaceInv
  <1>2. QED
    BY <1>1, InterfaceInvariant, PTL

\* interface_delete and process death never leave a thread waiting on an
\* interface that is gone: sched_pick_next never follows a dangling wait_msg.
THEOREM NoThreadWaitsOnNothing == Spec => []NoDanglingWait
  <1>1. InterfaceInv => NoDanglingWait
    BY DEF InterfaceInv
  <1>2. QED
    BY <1>1, InterfaceInvariant, PTL

\* A message on a private interface can be received only by its creator, or by
\* the process the creator sent it to: the check in interface_send is enough.
THEOREM PrivateIsPrivate == Spec => []PrivateKept
  <1>1. ASSUME InterfaceInv
        PROVE  PrivateKept
    <2> SUFFICES ASSUME NEW i \in Live, private[i], NEW p \in Pids,
                        NEW k \in 1..Len(messages[i]), MayTake(i, messages[i][k], p)
                 PROVE  creator[i] \in {p, messages[i][k].sender}
      <3>1. \A i \in Live : DOMAIN messages[i] = 1..Len(messages[i])
        BY <1>1 DEF InterfaceInv, TypeOK, Live
      <3>2. QED
        BY <3>1 DEF PrivateKept
    <2>1. messages[i][k].sender = creator[i] \/ messages[i][k].to = ToOwner
      BY <1>1 DEF InterfaceInv, PrivateInv, Live
    <2>2. CASE messages[i][k].to = ToOwner
      <3>1. ToOwner # p /\ ToOwner # ToAnyone
        BY InterfaceAssumption DEF ToOwner, ToAnyone
      <3>2. QED
        BY <2>2, <3>1 DEF MayTake
    <2>3. QED
      BY <2>1, <2>2
  <1>2. QED
    BY <1>1, InterfaceInvariant, PTL

-----------------------------------------------------------------------------
(* Interface implements Mailbox.                                            *)

\* The message at place k of queue i, as Mailbox sees it.
Seen(i, k) == [at |-> i, to |-> messages[i][k].to, stamp |-> messages[i][k].stamp]

\* A message is pending when some place of a live queue holds it.
LEMMA PendingIsSeen ==
  ASSUME TypeOK, NEW x
  PROVE  x \in Pending <=> \E i \in Ids : \E k \in 1..Len(messages[i]) : x = Seen(i, k)
  <1>1. \A i \in Ids : DOMAIN messages[i] = 1..Len(messages[i])
    BY DEF TypeOK
  <1>2. QED
    BY <1>1 DEF Pending, Seen

\* The same after a step.
LEMMA PendingIsSeenNext ==
  ASSUME TypeOK', NEW x
  PROVE  x \in Pending' <=> \E i \in Ids : \E k \in 1..Len(messages'[i]) : x = Seen(i, k)'
  <1>1. \A i \in Ids : DOMAIN messages'[i] = 1..Len(messages'[i])
    BY DEF TypeOK
  <1>2. QED
    BY <1>1 DEF Pending, Seen

\* What Mailbox sees does not change when queues and waits do not.
LEMMA SameView ==
  /\ UNCHANGED messages => Pending' = Pending
  /\ UNCHANGED <<tstate, wait_msg>> => Asleep' = Asleep
  BY DEF Pending, Asleep

\* interface_recv takes the oldest message its caller is entitled to.
LEMMA RecvTakes ==
  ASSUME InterfaceInv, InterfaceInv', NEW i \in Live, NEW p \in Pids, Recv(i, p)
  PROVE  \E m \in Pending : Mail!Take(p, m)
  <1> DEFINE k == FirstFor(i, p)
             q == messages[i]
             r == WithoutMessage(q, k)
             m == Seen(i, k)
  <1>0. TypeOK /\ TypeOK' /\ i \in Ids /\ q \in Seq(Message) /\ Len(q) \in Nat
    BY DEF InterfaceInv, TypeOK, Live
  <1>1. /\ k \in 1..Len(q) /\ MayTake(i, q[k], p)
        /\ \A j \in 1..(k - 1) : ~MayTake(i, q[j], p)
    BY <1>0, FirstForProperties DEF Recv
  <1>2. /\ Len(r) = Len(q) - 1
        /\ \A j \in 1..(Len(q) - 1) : r[j] = IF j < k THEN q[j] ELSE q[j + 1]
    <2> HIDE DEF k, q
    <2>1. QED
      BY <1>0, <1>1, WithoutMessageProperties
  <1>3. messages' = [messages EXCEPT ![i] = r]
        /\ UNCHANGED <<creator, sent, tstate, wait_msg>>
    BY DEF Recv, threadVars
  <1>4. \A j \in 1..Len(q) : \A h \in 1..(j - 1) : q[h].stamp < q[j].stamp
    BY <1>0 DEF InterfaceInv, StampsInv
  <1>5. \A j \in 1..Len(q) : q[j].stamp \in Nat
    <2>1. sent \in Nat
      BY <1>0 DEF TypeOK
    <2>2. \A j \in 1..Len(q) : q[j].stamp \in 1..sent
      BY <1>0 DEF InterfaceInv, StampsInv
    <2>3. QED
      BY <2>1, <2>2
  <1> HIDE DEF k, r
  <1>6. m \in Pending
    BY <1>0, <1>1, PendingIsSeen
  <1>7. m = [at |-> i, to |-> q[k].to, stamp |-> q[k].stamp]
    BY DEF Seen
  <1>8. Mail!Entitled(p, m)
    BY <1>1, <1>7 DEF MayTake, Mail!Entitled
  <1>9. ASSUME NEW older \in Pending, older.at = m.at, older.stamp < m.stamp
        PROVE  ~Mail!Entitled(p, older)
    <2>1. PICK a \in Ids : \E j \in 1..Len(messages[a]) : older = Seen(a, j)
      BY <1>0, PendingIsSeen
    <2>2. a = i
      BY <1>7, <1>9, <2>1 DEF Seen
    <2>3. PICK j \in 1..Len(q) : older = [at |-> i, to |-> q[j].to, stamp |-> q[j].stamp]
      BY <2>1, <2>2 DEF Seen
    <2>4. q[j].stamp < q[k].stamp
      BY <1>7, <1>9, <2>3
    <2> HIDE DEF q, m
    <2>5. j \in 1..(k - 1)
      <3>1. j # k
        BY <1>1, <1>5, <2>3, <2>4
      <3>2. CASE j > k
        <4>1. k \in 1..(j - 1)
          BY <1>0, <1>1, <2>3, <3>2
        <4>2. q[k].stamp < q[j].stamp
          BY <1>4, <2>3, <4>1
        <4>3. QED
          BY <1>1, <1>5, <2>3, <2>4, <4>2
      <3>3. QED
        BY <1>0, <1>1, <2>3, <3>1, <3>2
    <2>6. ~MayTake(i, q[j], p)
      BY <1>1, <2>5
    <2>7. QED
      BY <2>3, <2>6 DEF MayTake, Mail!Entitled
  <1>10. Pending' = Pending \ {m}
    <2>1. \A a \in Ids : messages'[a] = IF a = i THEN r ELSE messages[a]
      BY <1>0, <1>3 DEF TypeOK
    <2>2. ASSUME NEW x \in Pending'
          PROVE  x \in Pending /\ x # m
      <3>1. PICK a \in Ids : \E j \in 1..Len(messages'[a]) : x = Seen(a, j)'
        BY <1>0, PendingIsSeenNext
      <3>2. PICK j \in 1..Len(messages'[a]) : x = Seen(a, j)'
        BY <3>1
      <3>3. CASE a # i
        <4>1. x = Seen(a, j) /\ j \in 1..Len(messages[a])
          BY <2>1, <3>2, <3>3 DEF Seen
        <4>2. x # m
          BY <1>7, <3>3, <4>1 DEF Seen
        <4>3. QED
          BY <1>0, <4>1, <4>2, PendingIsSeen
      <3>4. CASE a = i
        <4>1. x = [at |-> i, to |-> r[j].to, stamp |-> r[j].stamp] /\ j \in 1..(Len(q) - 1)
          BY <1>0, <1>2, <2>1, <3>2, <3>4 DEF Seen
        <4>2. PICK h \in 1..Len(q) : h # k /\ r[j] = q[h]
          <5> HIDE DEF q
          <5>1. CASE j < k
            BY <1>0, <1>1, <1>2, <4>1, <5>1
          <5>2. CASE ~(j < k)
            <6>1. j + 1 \in 1..Len(q) /\ j + 1 # k /\ r[j] = q[j + 1]
              BY <1>0, <1>1, <1>2, <4>1, <5>2
            <6>2. QED
              BY <6>1
          <5>3. QED
            BY <5>1, <5>2
        <4>3. x = Seen(i, h)
          BY <4>1, <4>2 DEF Seen
        <4>4. q[h].stamp # q[k].stamp
          <5> HIDE DEF q
          <5>1. CASE h < k
            <6>1. h \in 1..(k - 1)
              BY <1>0, <1>1, <4>2, <5>1
            <6>2. QED
              BY <1>1, <1>4, <1>5, <4>2, <6>1
          <5>2. CASE k < h
            <6>1. k \in 1..(h - 1)
              BY <1>0, <1>1, <4>2, <5>2
            <6>2. QED
              BY <1>1, <1>4, <1>5, <4>2, <6>1
          <5>3. QED
            BY <1>0, <1>1, <4>2, <5>1, <5>2
        <4>5. x # m
          BY <1>7, <4>3, <4>4 DEF Seen
        <4>6. QED
          BY <1>0, <4>2, <4>3, <4>5, PendingIsSeen
      <3>5. QED
        BY <3>3, <3>4
    <2>3. ASSUME NEW x \in Pending, x # m
          PROVE  x \in Pending'
      <3>1. PICK a \in Ids : \E j \in 1..Len(messages[a]) : x = Seen(a, j)
        BY <1>0, PendingIsSeen
      <3>2. PICK j \in 1..Len(messages[a]) : x = Seen(a, j)
        BY <3>1
      <3>3. CASE a # i
        <4>1. x = Seen(a, j)' /\ j \in 1..Len(messages'[a])
          BY <2>1, <3>2, <3>3 DEF Seen
        <4>2. QED
          BY <1>0, <4>1, PendingIsSeenNext
      <3>4. CASE a = i
        <4>1. j # k /\ j \in 1..Len(q)
          BY <2>3, <3>2, <3>4
        <4>2. PICK h \in 1..(Len(q) - 1) : r[h] = q[j]
          <5> HIDE DEF q
          <5>1. CASE j < k
            BY <1>0, <1>1, <1>2, <4>1, <5>1
          <5>2. CASE j > k
            <6>1. j - 1 \in 1..(Len(q) - 1) /\ r[j - 1] = q[j]
              BY <1>0, <1>1, <1>2, <4>1, <5>2
            <6>2. QED
              BY <6>1
          <5>3. QED
            BY <1>0, <1>1, <4>1, <5>1, <5>2
        <4>3. messages'[i] = r /\ h \in 1..Len(r)
          BY <1>0, <1>2, <2>1, <4>2
        <4>4. x = Seen(i, h)'
          BY <3>2, <3>4, <4>2, <4>3 DEF Seen
        <4>5. QED
          BY <1>0, <4>3, <4>4, PendingIsSeenNext
      <3>5. QED
        BY <3>3, <3>4
    <2>4. QED
      BY <2>2, <2>3
  <1>11. Asleep' = Asleep
    BY <1>3, SameView
  <1>12. Mail!Take(p, m)
    <2> HIDE DEF m
    <2>1. QED
      BY <1>3, <1>8, <1>9, <1>10, <1>11 DEF Mail!Take
  <1>13. QED
    BY <1>6, <1>12

\* Every step of Interface is a step of Mailbox, or Mailbox does not see it.
LEMMA StepRefines ==
  ASSUME InterfaceInv, InterfaceInv', [Next]_vars
  PROVE  [Mail!MailboxNext]_(Mail!mailboxVars)
  <1>0. /\ TypeOK /\ TypeOK'
        /\ \A t \in Threads : Owner[t] \in Pids
        /\ \A p \in Pids : p # 0
        /\ \A i \in Live : i \in Ids /\ creator[i] \in Pids
    BY InterfaceAssumption DEF InterfaceInv, CreatorsInv, Live
  <1> DEFINE Unseen == UNCHANGED <<creator, Pending, sent, Asleep>>
  <1>a. Unseen => UNCHANGED Mail!mailboxVars
    BY DEF Mail!mailboxVars
  <1>1. ASSUME NEW t \in Threads, NEW n \in Names, NEW flag \in BOOLEAN, Create(t, n, flag)
        PROVE  Mail!MailboxNext
    <2>1. PICK i \in Ids \ Live : /\ creator' = [creator EXCEPT ![i] = Owner[t]]
                                  /\ messages' = [messages EXCEPT ![i] = <<>>]
      BY <1>1 DEF Create
    <2>2. creator[i] = 0 /\ messages' = messages
      BY <1>0, <2>1 DEF InterfaceInv, CreatorsInv, TypeOK
    <2>3. Pending' = Pending /\ Asleep' = Asleep /\ sent' = sent
      BY <1>1, <2>2, SameView DEF Create, threadVars
    <2>4. Mail!Open(i, Owner[t])
      BY <2>1, <2>2, <2>3 DEF Mail!Open
    <2>5. QED
      BY <1>0, <2>1, <2>4 DEF Mail!MailboxNext
  <1>2. ASSUME NEW t \in Threads, NEW n \in Names, Delete(t, n)
        PROVE  Mail!MailboxNext
    <2>1. PICK i \in Live :
            /\ creator' = [creator EXCEPT ![i] = 0]
            /\ messages' = [messages EXCEPT ![i] = <<>>]
            /\ tstate' = [s \in Threads |-> IF s \in WokenByDelete(i) THEN "running" ELSE tstate[s]]
            /\ wait_msg' = [s \in Threads |-> IF s \in WokenByDelete(i) THEN NoInterface ELSE wait_msg[s]]
      BY <1>2 DEF Delete, Find
    <2>2. creator[i] # 0 /\ i \in Ids /\ i # NoInterface
      BY <1>0, <2>1 DEF Ids, NoInterface
    <2>3. Pending' = {m \in Pending : m.at # i}
      <3>1. \A a \in Ids : messages'[a] = IF a = i THEN <<>> ELSE messages[a]
        BY <1>0, <2>1 DEF TypeOK
      <3>2. ASSUME NEW x \in Pending'
            PROVE  x \in Pending /\ x.at # i
        <4>1. PICK a \in Ids : \E k \in 1..Len(messages'[a]) : x = Seen(a, k)'
          BY <1>0, PendingIsSeenNext
        <4>2. a # i /\ messages'[a] = messages[a]
          BY <3>1, <4>1
        <4>3. \E k \in 1..Len(messages[a]) : x = Seen(a, k)
          BY <4>1, <4>2 DEF Seen
        <4>4. x.at = a
          BY <4>3 DEF Seen
        <4>5. QED
          BY <1>0, <4>2, <4>3, <4>4, PendingIsSeen
      <3>3. ASSUME NEW x \in Pending, x.at # i
            PROVE  x \in Pending'
        <4>1. PICK a \in Ids : \E k \in 1..Len(messages[a]) : x = Seen(a, k)
          BY <1>0, PendingIsSeen
        <4>2. a # i /\ messages'[a] = messages[a]
          BY <3>1, <3>3, <4>1 DEF Seen
        <4>3. \E k \in 1..Len(messages'[a]) : x = Seen(a, k)'
          BY <4>1, <4>2 DEF Seen
        <4>4. QED
          BY <1>0, <4>3, PendingIsSeenNext
      <3>4. QED
        BY <3>2, <3>3
    <2>4. Asleep' = [s \in Threads |-> IF Asleep[s] = i THEN NoInterface ELSE Asleep[s]]
      <3>1. \A s \in Threads : s \in WokenByDelete(i) <=> Asleep[s] = i
        BY <2>2 DEF WokenByDelete, Asleep
      <3>2. \A s \in Threads : Asleep'[s] = IF s \in WokenByDelete(i) THEN NoInterface ELSE Asleep[s]
        BY <2>1 DEF Asleep
      <3>3. QED
        BY <3>1, <3>2 DEF Asleep
    <2>5. Mail!Close(i)
      BY <1>2, <2>1, <2>2, <2>3, <2>4 DEF Delete, Mail!Close
    <2>6. QED
      BY <2>2, <2>5 DEF Mail!MailboxNext
  <1>3. ASSUME NEW t \in Threads, NEW n \in Names, NEW size \in Sizes,
               NEW to \in Pids \cup {ToOwner, ToAnyone}, Send(t, n, to, size)
        PROVE  Mail!MailboxNext
    <2> DEFINE m == NewMessage(Owner[t], to, size)
    <2>1. PICK i \in Live : messages' = [messages EXCEPT ![i] = Append(@, m)]
      BY <1>3 DEF Send, Find
    <2> DEFINE q == messages[i]
    <2>2. i \in Ids /\ q \in Seq(Message) /\ Len(q) \in Nat /\ creator[i] # 0
          /\ sent' = sent + 1 /\ UNCHANGED <<creator, tstate, wait_msg>>
      BY <1>0, <1>3 DEF TypeOK, Send, threadVars
    <2>3. m.to = to /\ m.stamp = sent + 1
      BY DEF NewMessage
    <2> HIDE DEF m
    <2>4. /\ Len(messages'[i]) = Len(q) + 1
          /\ messages'[i][Len(q) + 1] = m
          /\ \A k \in 1..Len(q) : messages'[i][k] = q[k]
          /\ \A a \in Ids \ {i} : messages'[a] = messages[a]
      <3>1. messages'[i] = Append(q, m) /\ \A a \in Ids \ {i} : messages'[a] = messages[a]
        BY <1>0, <2>1, <2>2 DEF TypeOK
      <3> HIDE DEF q
      <3>2. QED
        BY <2>2, <3>1
    <2> DEFINE new == [at |-> i, to |-> to, stamp |-> sent + 1]
    <2> PICK c \in Nat : c = Len(q) + 1
      BY <2>2
    <2>5. Pending' = Pending \cup {new}
      <3>1. new = Seen(i, c)' /\ c \in 1..Len(messages'[i])
        BY <2>2, <2>3, <2>4 DEF Seen
      <3>2. new \in Pending'
        BY <1>0, <2>2, <3>1, PendingIsSeenNext
      <3>3. ASSUME NEW x \in Pending
            PROVE  x \in Pending'
        <4>1. PICK a \in Ids : \E k \in 1..Len(messages[a]) : x = Seen(a, k)
          BY <1>0, PendingIsSeen
        <4>2. PICK k \in 1..Len(messages[a]) : x = Seen(a, k)
          BY <4>1
        <4>3. k \in 1..Len(messages'[a]) /\ x = Seen(a, k)'
          BY <2>2, <2>4, <4>2 DEF Seen
        <4>4. QED
          BY <1>0, <4>3, PendingIsSeenNext
      <3>4. ASSUME NEW x \in Pending', x # new
            PROVE  x \in Pending
        <4>1. PICK a \in Ids : \E k \in 1..Len(messages'[a]) : x = Seen(a, k)'
          BY <1>0, PendingIsSeenNext
        <4>2. PICK k \in 1..Len(messages'[a]) : x = Seen(a, k)'
          BY <4>1
        <4>3. k \in 1..Len(messages[a])
          <5>1. CASE a # i
            BY <2>4, <4>2, <5>1
          <5>2. CASE a = i
            <6>1. k # c
              BY <3>1, <3>4, <4>2, <5>2
            <6>2. QED
              BY <2>2, <2>4, <5>2, <6>1
          <5>3. QED
            BY <5>1, <5>2
        <4>4. x = Seen(a, k)
          BY <2>4, <4>2, <4>3 DEF Seen
        <4>5. QED
          BY <1>0, <4>3, <4>4, PendingIsSeen
      <3>5. QED
        BY <3>2, <3>3, <3>4
    <2>6. Asleep' = Asleep
      BY <2>2, SameView
    <2>7. Mail!Post(i, to)
      BY <2>2, <2>5, <2>6 DEF Mail!Post
    <2>8. QED
      BY <2>2, <2>7 DEF Mail!MailboxNext
  <1>4. ASSUME NEW i \in Live, NEW p \in Pids, Recv(i, p)
        PROVE  Mail!MailboxNext
    <2>1. \E m \in Pending : Mail!Take(p, m)
      BY <1>4, RecvTakes
    <2>2. QED
      BY <2>1 DEF Mail!MailboxNext
  <1>5. ASSUME NEW t \in Threads, NEW n \in Names, RecieveNB(t, n)
        PROVE  Mail!MailboxNext
    BY <1>0, <1>4, <1>5 DEF RecieveNB, Find
  <1>6. ASSUME UNCHANGED intfaceVars, UNCHANGED <<tstate, wait_msg>>
        PROVE  Unseen
    BY <1>6, SameView DEF intfaceVars
  <1>7. ASSUME NEW t \in Threads, RecieveWait(t)
        PROVE  Mail!MailboxNext \/ Unseen
    <2>1. CASE UNCHANGED threadVars
      BY <1>6, <1>7, <2>1 DEF RecieveWait, threadVars
    <2>2. CASE \E i \in Find(callname[t]) :
                 /\ tstate' = [tstate EXCEPT ![t] = "waiting"]
                 /\ wait_msg' = [wait_msg EXCEPT ![t] = i]
      <3>1. PICK i \in Live : /\ tstate' = [tstate EXCEPT ![t] = "waiting"]
                              /\ wait_msg' = [wait_msg EXCEPT ![t] = i]
        BY <2>2 DEF Find
      <3>2. Asleep[t] = NoInterface /\ Asleep' = [Asleep EXCEPT ![t] = i]
        BY <1>0, <1>7, <3>1 DEF Asleep, TypeOK, RecieveWait
      <3>3. UNCHANGED <<creator, Pending, sent>>
        BY <1>7, SameView DEF RecieveWait, intfaceVars
      <3>4. Mail!Sleep(t, i)
        BY <1>0, <3>2, <3>3 DEF Mail!Sleep
      <3>5. QED
        BY <1>0, <3>4 DEF Mail!MailboxNext
    <2>3. QED
      BY <1>7, <2>1, <2>2 DEF RecieveWait
  <1>8. ASSUME NEW t \in Threads, RecieveAgain(t)
        PROVE  Mail!MailboxNext \/ Unseen
    <2>1. CASE \E i \in Find(callname[t]) : Recv(i, Owner[t])
      BY <1>0, <1>4, <2>1 DEF Find
    <2>2. CASE UNCHANGED <<intfaceVars, pstate, threadVars>>
      BY <1>6, <2>2 DEF threadVars
    <2>3. QED
      BY <1>8, <2>1, <2>2 DEF RecieveAgain
  <1>9. ASSUME NEW t \in Threads, Wake(t)
        PROVE  Mail!MailboxNext
    <2>1. wait_msg[t] \in Live /\ Asleep[t] = wait_msg[t]
      BY <1>9 DEF Wake, Asleep, InterfaceInv, NoDanglingWait
    <2>2. PICK k \in 1..Len(messages[wait_msg[t]]) :
            MayTake(wait_msg[t], messages[wait_msg[t]][k], Owner[t])
      <3>1. DOMAIN messages[wait_msg[t]] = 1..Len(messages[wait_msg[t]])
        BY <1>0, <2>1 DEF TypeOK
      <3>2. QED
        BY <1>9, <3>1 DEF Wake, HasMessage
    <2>3. Seen(wait_msg[t], k) \in Pending
      BY <1>0, <2>1, <2>2, PendingIsSeen
    <2>4. Seen(wait_msg[t], k).at = Asleep[t] /\ Mail!Entitled(Owner[t], Seen(wait_msg[t], k))
      BY <2>1, <2>2 DEF Seen, Mail!Entitled, MayTake
    <2>5. Asleep' = [Asleep EXCEPT ![t] = NoInterface]
      BY <1>0, <1>9 DEF Asleep, Wake, TypeOK
    <2>6. UNCHANGED <<creator, Pending, sent>>
      BY <1>9, SameView DEF Wake, intfaceVars
    <2>7. Mail!WakeUp(t)
      BY <2>3, <2>4, <2>5, <2>6 DEF Mail!WakeUp
    <2>8. QED
      BY <2>7 DEF Mail!MailboxNext
  <1>10. ASSUME NEW S \in SUBSET Threads, Die(S)
         PROVE  Mail!MailboxNext
    <2>1. Asleep' = [t \in Threads |-> IF t \in S THEN NoInterface ELSE Asleep[t]]
      BY <1>10 DEF Die, Asleep
    <2>2. UNCHANGED <<creator, Pending, sent>>
      BY <1>10, SameView DEF Die, intfaceVars
    <2>3. Mail!Stop(S)
      BY <2>1, <2>2 DEF Mail!Stop
    <2>4. QED
      BY <2>3 DEF Mail!MailboxNext
  <1>11. ASSUME NEW t \in Threads, ExitThread(t)
         PROVE  Mail!MailboxNext
    BY <1>10, <1>11 DEF ExitThread
  <1>12. ASSUME NEW p \in Pids, NEW kept \in BOOLEAN, ExitProcess(p, kept)
         PROVE  Mail!MailboxNext
    BY <1>10, <1>12 DEF ExitProcess
  <1>13. ASSUME NEW t \in Threads, NEW n \in Names, RecieveTry(t, n)
         PROVE  Unseen
    BY <1>6, <1>13 DEF RecieveTry, threadVars
  <1>14. ASSUME NEW p \in Pids, FreeProcess(p)
         PROVE  Unseen
    BY <1>6, <1>14 DEF FreeProcess, threadVars
  <1>15. CASE UNCHANGED vars
    BY <1>a, <1>6, <1>15 DEF vars, threadVars
  <1> HIDE DEF Unseen
  <1>16. Next => Mail!MailboxNext \/ Unseen
    BY <1>1, <1>2, <1>3, <1>5, <1>7, <1>8, <1>9, <1>11, <1>12, <1>13, <1>14 DEF Next
  <1>17. QED
    BY <1>a, <1>15, <1>16

\* interface.c, with the receive call of the library and with the deaths of
\* threads and processes, implements Mailbox: each message is taken once, by a
\* process entitled to it and oldest first, and a sleeper is woken only by a
\* message for it, by a deletion or by its death.
THEOREM ImplementsMailbox == Spec => MailboxKept
  <1>1. Init => Mail!MailboxInit
    <2>1. ASSUME Init
          PROVE  Pending = {} /\ Asleep = [t \in Threads |-> NoInterface]
      BY <2>1 DEF Init, Pending, Asleep
    <2>2. QED
      BY <2>1 DEF Init, Mail!MailboxInit
  <1>2. InterfaceInv /\ InterfaceInv' /\ [Next]_vars => [Mail!MailboxNext]_(Mail!mailboxVars)
    BY StepRefines
  <1>3. QED
    BY <1>1, <1>2, InterfaceInvariant, PTL DEF Spec, MailboxKept, Mail!MailboxSpec

=============================================================================
