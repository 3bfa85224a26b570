----------------------------- MODULE Interface -----------------------------
(***************************************************************************)
(* Message queues between processes: kernel/kernel/sched/interface.c, the  *)
(* interface system calls of kernel/kernel/i386/syscall.c, the wake-up in  *)
(* sched_pick_next, and the receive call of the user library,              *)
(* userland/lib/glcore/ps/intface.c.                                       *)
(*                                                                         *)
(* A system call is one step, as in Sched; between two system calls of a   *)
(* thread any other thread may run.  What the scheduler does is reduced to *)
(* Wake (a popped waiting thread whose interface has a message) and to the *)
(* death of threads and processes.  Calls that return an error and change  *)
(* nothing are not steps.                                                  *)
(***************************************************************************)
EXTENDS Integers, Sequences, FiniteSets, SequencesExt

CONSTANTS Names,            \* interface names
          Pids,             \* user processes
          Threads, Owner,   \* threads and the process each belongs to
          Sizes,            \* sizes of messages
          MaxMessageSize,   \* MAX_INTERFACE_MESSAGE_SIZE
          MaxQueueBytes,    \* MAX_INTERFACE_QUEUE_BYTES
          MaxMessages,      \* MAX_INTERFACE_MESSAGES
          MaxInterfaces,    \* MAX_INTERFACES
          MaxSent           \* bound on the messages of a run

NoName == ""
NoInterface == 0
ToOwner == 0
ToAnyone == -1

ASSUME InterfaceAssumption ==
  /\ NoName \notin Names
  /\ Pids \subseteq Nat \ {0}
  /\ Owner \in [Threads -> Pids]
  /\ Sizes \subseteq Nat
  /\ {MaxMessageSize, MaxQueueBytes, MaxMessages, MaxInterfaces, MaxSent} \subseteq Nat

\* Addresses of struct interface.  kfree makes one available again.
Ids == 1..MaxInterfaces

VARIABLES
  iname,      \* iname[i]: the name of interface i, NoName when i is not in intfaces
  creator,    \* intfaces[i]->creator_pid
  private,    \* INTERFACE_FLAG_PRIVATE in flags
  messages,   \* intfaces[i]->messages, in order
  sent,       \* messages accepted so far; each carries its number
  pstate,     \* "alive", "exited" (kept for a waiter) or "freed" (processes[p] is NULL)
  tstate,     \* "running", "waiting" (on wait_msg) or "dead"
  wait_msg,   \* the interface t waits on, or NoInterface
  call,       \* progress of psInterfaceRecieve: "none", "again" (the first try
              \* returned -EAGAIN), "waited" (psInterfaceWait was called)
  callname    \* the name that call was given

intfaceVars == <<iname, creator, private, messages, sent>>
threadVars  == <<tstate, wait_msg>>
callVars    == <<call, callname>>
vars == <<intfaceVars, pstate, threadVars, callVars>>

Message == [to : Pids \cup {ToOwner, ToAnyone}, sender : Pids, size : Sizes, stamp : Nat]

Init ==
  /\ iname = [i \in Ids |-> NoName]
  /\ creator = [i \in Ids |-> 0]
  /\ private = [i \in Ids |-> FALSE]
  /\ messages = [i \in Ids |-> <<>>]
  /\ sent = 0
  /\ pstate = [p \in Pids |-> "alive"]
  /\ tstate = [t \in Threads |-> "running"]
  /\ wait_msg = [t \in Threads |-> NoInterface]
  /\ call = [t \in Threads |-> "none"]
  /\ callname = [t \in Threads |-> NoName]

-----------------------------------------------------------------------------

Live == {i \in Ids : iname[i] # NoName}

\* interface_find: the interface called n, if there is one.
Find(n) == {i \in Live : iname[i] = n}

\* The test of interface_recv and of interface_has_msg on one message.
MayTake(i, m, p) ==
  \/ m.to = p
  \/ m.to = ToOwner /\ creator[i] = p
  \/ m.to = ToAnyone

\* Faulty variant: only messages that name p are seen.
HasMessageNaming(i, p) == \E k \in DOMAIN messages[i] : messages[i][k].to = p

\* interface_has_msg.
HasMessage(i, p) == \E k \in DOMAIN messages[i] : MayTake(i, messages[i][k], p)

\* Faulty variant: the search does not stop at the first match.
LastFor(i, p) == SelectLastInSeq(messages[i], LAMBDA m : MayTake(i, m, p))

\* The first message for p in queue i, 0 if there is none.
FirstFor(i, p) == SelectInSeq(messages[i], LAMBDA m : MayTake(i, m, p))

QueuedBytes(q) == FoldLeft(LAMBDA bytes, m : bytes + m.size, 0, q)

\* Thread t is in user mode outside psInterfaceRecieve.
Calls(t) == tstate[t] = "running" /\ call[t] = "none"

-----------------------------------------------------------------------------
(* System calls.                                                            *)

\* interface_create.
Create(t, n, flag) ==
  /\ Calls(t)
  /\ Find(n) = {}
  /\ Cardinality(Live) < MaxInterfaces
  /\ \E i \in Ids \ Live :
       /\ iname' = [iname EXCEPT ![i] = n]
       /\ creator' = [creator EXCEPT ![i] = Owner[t]]
       /\ private' = [private EXCEPT ![i] = flag]
       /\ messages' = [messages EXCEPT ![i] = <<>>]
  /\ UNCHANGED <<sent, pstate, threadVars, callVars>>

\* Faulty variant: the waiters are left waiting.
WokenByDeleteNone(i) == {}

\* The threads interface_delete wakes.
WokenByDelete(i) == {s \in Threads : tstate[s] = "waiting" /\ wait_msg[s] = i}

\* interface_delete.
Delete(t, n) ==
  /\ Calls(t)
  /\ \E i \in Find(n) :
       /\ creator[i] = Owner[t]
       /\ iname' = [iname EXCEPT ![i] = NoName]
       /\ creator' = [creator EXCEPT ![i] = 0]
       /\ private' = [private EXCEPT ![i] = FALSE]
       /\ messages' = [messages EXCEPT ![i] = <<>>]
       /\ tstate' = [s \in Threads |-> IF s \in WokenByDelete(i) THEN "running" ELSE tstate[s]]
       /\ wait_msg' = [s \in Threads |-> IF s \in WokenByDelete(i) THEN NoInterface ELSE wait_msg[s]]
  /\ UNCHANGED <<sent, pstate, callVars>>

\* The limits interface_send checks.
Fits(q, size) ==
  /\ size <= MaxMessageSize
  /\ Len(q) < MaxMessages
  /\ QueuedBytes(q) <= MaxQueueBytes /\ size <= MaxQueueBytes - QueuedBytes(q)

\* Faulty variant: the flag is not checked.
MayPostAnything(i, from, to) == TRUE

\* The private interfaces' restriction.
MayPost(i, from, to) == private[i] => from = creator[i] \/ to = ToOwner

\* The struct interface_message that is appended, with its number.
NewMessage(from, to, size) == [to |-> to, sender |-> from, size |-> size, stamp |-> sent + 1]

\* interface_send.
Send(t, n, to, size) ==
  /\ Calls(t)
  /\ sent < MaxSent
  /\ \E i \in Find(n) :
       /\ Fits(messages[i], size)
       /\ MayPost(i, Owner[t], to)
       /\ to = ToOwner => pstate[creator[i]] # "freed"
       /\ messages' = [messages EXCEPT ![i] = Append(@, NewMessage(Owner[t], to, size))]
  /\ sent' = sent + 1
  /\ UNCHANGED <<iname, creator, private, pstate, threadVars, callVars>>

\* The shift loop of interface_recv.
WithoutMessage(q, k) == RemoveAt(q, k)

\* interface_recv finds a message and can copy it to the caller.
Recv(i, p) ==
  /\ FirstFor(i, p) # 0
  /\ messages' = [messages EXCEPT ![i] = WithoutMessage(@, FirstFor(i, p))]
  /\ UNCHANGED <<iname, creator, private, sent, pstate, threadVars>>

\* psInterfaceRecieveNB by itself.
RecieveNB(t, n) ==
  /\ Calls(t)
  /\ \E i \in Find(n) : Recv(i, Owner[t])
  /\ UNCHANGED callVars

\* psInterfaceRecieve: the first try returns -EAGAIN.  (When it succeeds or
\* finds no interface it is RecieveNB or nothing.)
RecieveTry(t, n) ==
  /\ Calls(t)
  /\ \E i \in Find(n) : FirstFor(i, Owner[t]) = 0
  /\ call' = [call EXCEPT ![t] = "again"]
  /\ callname' = [callname EXCEPT ![t] = n]
  /\ UNCHANGED <<intfaceVars, pstate, threadVars>>

\* psInterfaceWait: interface_wait, or -ENOENT, which the caller ignores.
RecieveWait(t) ==
  /\ tstate[t] = "running"
  /\ call[t] = "again"
  /\ call' = [call EXCEPT ![t] = "waited"]
  /\ IF Find(callname[t]) = {}
       THEN UNCHANGED threadVars
       ELSE \E i \in Find(callname[t]) :
              /\ tstate' = [tstate EXCEPT ![t] = "waiting"]
              /\ wait_msg' = [wait_msg EXCEPT ![t] = i]
  /\ UNCHANGED <<intfaceVars, pstate, callname>>

\* The second try, whose result psInterfaceRecieve returns.
RecieveAgain(t) ==
  /\ tstate[t] = "running"
  /\ call[t] = "waited"
  /\ call' = [call EXCEPT ![t] = "none"]
  /\ callname' = [callname EXCEPT ![t] = NoName]
  /\ \/ \E i \in Find(callname[t]) : Recv(i, Owner[t])
     \/ /\ \A i \in Find(callname[t]) : FirstFor(i, Owner[t]) = 0
        /\ UNCHANGED <<intfaceVars, pstate, threadVars>>

-----------------------------------------------------------------------------
(* The scheduler.                                                           *)

\* sched_pick_next pops a waiting thread and interface_has_msg says yes.
Wake(t) ==
  /\ tstate[t] = "waiting"
  /\ HasMessage(wait_msg[t], Owner[t])
  /\ tstate' = [tstate EXCEPT ![t] = "running"]
  /\ wait_msg' = [wait_msg EXCEPT ![t] = NoInterface]
  /\ UNCHANGED <<intfaceVars, pstate, callVars>>

\* Threads of S die: their wait_msg stays, the library call is gone.
Die(S) ==
  /\ tstate' = [t \in Threads |-> IF t \in S THEN "dead" ELSE tstate[t]]
  /\ call' = [t \in Threads |-> IF t \in S THEN "none" ELSE call[t]]
  /\ callname' = [t \in Threads |-> IF t \in S THEN NoName ELSE callname[t]]
  /\ UNCHANGED <<intfaceVars, wait_msg>>

\* sched_exit_thread.
ExitThread(t) ==
  /\ Calls(t)
  /\ Die({t})
  /\ UNCHANGED pstate

\* sched_exit_process or sched_kill_process: p is kept if a thread waits for
\* it, else it is freed.  Its interfaces stay.
ExitProcess(p, kept) ==
  /\ pstate[p] = "alive"
  /\ pstate' = [pstate EXCEPT ![p] = IF kept THEN "exited" ELSE "freed"]
  /\ Die({t \in Threads : Owner[t] = p})

\* The last waiter of p has been resumed.
FreeProcess(p) ==
  /\ pstate[p] = "exited"
  /\ pstate' = [pstate EXCEPT ![p] = "freed"]
  /\ UNCHANGED <<intfaceVars, threadVars, callVars>>

-----------------------------------------------------------------------------

Next ==
  \/ \E t \in Threads, n \in Names :
       \/ \E flag \in BOOLEAN : Create(t, n, flag)
       \/ Delete(t, n)
       \/ \E to \in Pids \cup {ToOwner, ToAnyone}, size \in Sizes : Send(t, n, to, size)
       \/ RecieveNB(t, n)
       \/ RecieveTry(t, n)
  \/ \E t \in Threads : RecieveWait(t) \/ RecieveAgain(t) \/ Wake(t) \/ ExitThread(t)
  \/ \E p \in Pids : FreeProcess(p) \/ \E kept \in BOOLEAN : ExitProcess(p, kept)

Spec == Init /\ [][Next]_vars

\* The scheduler pops every thread again and again and runs the runnable
\* ones (NoStarvation of Sched), and psInterfaceRecieve goes on when it runs.
Fairness ==
  \A t \in Threads : /\ WF_vars(Wake(t))
                     /\ WF_vars(RecieveWait(t))
                     /\ WF_vars(RecieveAgain(t))

FairSpec == Spec /\ Fairness

-----------------------------------------------------------------------------
(* What interfaces must keep true.                                          *)

\* Every variable has its C type.
TypeOK ==
  /\ iname \in [Ids -> Names \cup {NoName}]
  /\ creator \in [Ids -> Pids \cup {0}]
  /\ private \in [Ids -> BOOLEAN]
  /\ messages \in [Ids -> Seq(Message)]
  /\ sent \in Nat
  /\ pstate \in [Pids -> {"alive", "exited", "freed"}]
  /\ tstate \in [Threads -> {"running", "waiting", "dead"}]
  /\ wait_msg \in [Threads -> Ids \cup {NoInterface}]
  /\ call \in [Threads -> {"none", "again", "waited"}]
  /\ callname \in [Threads -> Names \cup {NoName}]

\* sched_pick_next never follows a dangling wait_msg: a waiting thread waits
\* on an interface that has not been deleted.
NoDanglingWait ==
  \A t \in Threads : tstate[t] = "waiting" => wait_msg[t] \in Live

\* What other processes than the creator say on a private interface is for
\* the creator only: no third process ever finds such a message.
PrivateKept ==
  \A i \in Live : private[i] =>
    \A p \in Pids, k \in DOMAIN messages[i] :
      MayTake(i, messages[i][k], p) => creator[i] \in {p, messages[i][k].sender}

\* The messages of all queues, and where each thread waits, as Mailbox sees
\* them.
Pending ==
  UNION {{[at |-> i, to |-> messages[i][k].to, stamp |-> messages[i][k].stamp] :
            k \in DOMAIN messages[i]} : i \in Ids}

Asleep == [t \in Threads |-> IF tstate[t] = "waiting" THEN wait_msg[t] ELSE NoInterface]

\* interface.c keeps the promises of Mailbox: a message is taken once, by a
\* process it is for, the oldest first; sleepers wake only for a message or a
\* deletion, and always on a deletion.
Mail == INSTANCE Mailbox WITH
  Nobody <- 0, Everyone <- ToAnyone, Keeper <- ToOwner,
  keeper <- creator, posted <- sent, pending <- Pending, asleep <- Asleep

MailboxKept == Mail!MailboxSpec

\* No lost wake-up: while there is a message interface_recv would give it, a
\* thread inside psInterfaceRecieve is not left waiting but goes on to take it.
ReceiveCompletes ==
  \A t \in Threads :
    LET ready == call[t] # "none"
                 /\ \E i \in Find(callname[t]) : FirstFor(i, Owner[t]) # 0
    IN  ready ~> ~ready

=============================================================================
