------------------------------ MODULE Mailbox ------------------------------
(***************************************************************************)
(* What interfaces promise to processes, without saying how: an interface  *)
(* has one keeper and holds messages; a process takes the oldest message   *)
(* it is entitled to; a thread sleeps only on an open interface and wakes  *)
(* when there is a message for its process or the interface is closed.     *)
(***************************************************************************)
EXTENDS Integers

CONSTANTS Ids, Pids, Threads, Owner,
          Nobody, Everyone, Keeper, NoInterface

VARIABLES keeper,   \* keeper[i]: the process that opened i, or Nobody
          pending,  \* the messages posted and not taken
          posted,   \* how many messages have been posted
          asleep    \* asleep[t]: the interface t sleeps on, or NoInterface

mailboxVars == <<keeper, pending, posted, asleep>>

MailboxInit ==
  /\ keeper = [i \in Ids |-> Nobody]
  /\ pending = {}
  /\ posted = 0
  /\ asleep = [t \in Threads |-> NoInterface]

Entitled(p, m) ==
  \/ m.to = p
  \/ m.to = Everyone
  \/ m.to = Keeper /\ keeper[m.at] = p

Open(i, p) ==
  /\ keeper[i] = Nobody
  /\ keeper' = [keeper EXCEPT ![i] = p]
  /\ UNCHANGED <<pending, posted, asleep>>

\* Closing wakes whoever sleeps on i and drops what nobody took.
Close(i) ==
  /\ keeper[i] # Nobody
  /\ keeper' = [keeper EXCEPT ![i] = Nobody]
  /\ pending' = {m \in pending : m.at # i}
  /\ asleep' = [t \in Threads |-> IF asleep[t] = i THEN NoInterface ELSE asleep[t]]
  /\ UNCHANGED posted

Post(i, to) ==
  /\ keeper[i] # Nobody
  /\ posted' = posted + 1
  /\ pending' = pending \cup {[at |-> i, to |-> to, stamp |-> posted + 1]}
  /\ UNCHANGED <<keeper, asleep>>

Take(p, m) ==
  /\ Entitled(p, m)
  /\ \A older \in pending :
       older.at = m.at /\ older.stamp < m.stamp => ~Entitled(p, older)
  /\ pending' = pending \ {m}
  /\ UNCHANGED <<keeper, posted, asleep>>

Sleep(t, i) ==
  /\ keeper[i] # Nobody
  /\ asleep[t] = NoInterface
  /\ asleep' = [asleep EXCEPT ![t] = i]
  /\ UNCHANGED <<keeper, pending, posted>>

WakeUp(t) ==
  /\ \E m \in pending : m.at = asleep[t] /\ Entitled(Owner[t], m)
  /\ asleep' = [asleep EXCEPT ![t] = NoInterface]
  /\ UNCHANGED <<keeper, pending, posted>>

\* The threads of S die.
Stop(S) ==
  /\ asleep' = [t \in Threads |-> IF t \in S THEN NoInterface ELSE asleep[t]]
  /\ UNCHANGED <<keeper, pending, posted>>

MailboxNext ==
  \/ \E i \in Ids : Close(i)
  \/ \E i \in Ids, p \in Pids : Open(i, p)
  \/ \E i \in Ids, to \in Pids \cup {Everyone, Keeper} : Post(i, to)
  \/ \E p \in Pids, m \in pending : Take(p, m)
  \/ \E t \in Threads, i \in Ids : Sleep(t, i)
  \/ \E t \in Threads : WakeUp(t)
  \/ \E S \in SUBSET Threads : Stop(S)

MailboxSpec == MailboxInit /\ [][MailboxNext]_mailboxVars

\* A sleeping thread whose process may take a message is woken.
MailboxFairness == \A t \in Threads : WF_mailboxVars(WakeUp(t))

=============================================================================
