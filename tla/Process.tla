------------------------------- MODULE Process -------------------------------
(***************************************************************************)
(* Processes with their environment and arguments, and what becomes of the  *)
(* faults of their threads (exception_handle and sched_user_fault): the      *)
(* error is put into the process structure, which all its threads share,     *)
(* and taken out again in the same exception to call the handler that the     *)
(* process has set, or to end the process.                                  *)
(***************************************************************************)
EXTENDS Environ

CONSTANTS Tids,          \* threads
          Errors         \* exceptions that are errors

ASSUME ProcessAssumption ==
  /\ Procs \subseteq Nat \ {0} /\ Errors \subseteq Nat
  /\ Tids \subseteq Nat /\ \E t \in Tids : \A u \in Tids : t <= u

VARIABLES
  exitcode, procerr, procerr_unhandled,
  procerrhandler,   \* "none" (NULL), "libc" (crt0's) or "own"
  town,             \* the process of a thread
  frames,           \* per thread: the errors it is handling, and with which handler
  live,             \* the threads that have started and not ended
  raised,           \* ghost: errors the threads of a process have raised
  killed            \* ghost: how an exception ended the process, "killed" by
                    \* another process, or "no"

faultVars == <<exitcode, procerr, procerr_unhandled, procerrhandler, town, frames,
               live, raised, killed>>
vars == <<environVars, faultVars>>

InitThread == CHOOSE t \in Tids : \A u \in Tids : t <= u
NoProc == 0

Init ==
  /\ EnvironInit
  /\ exitcode = [p \in Procs |-> 0] /\ procerr = [p \in Procs |-> 0]
  /\ procerr_unhandled = [p \in Procs |-> FALSE]
  /\ procerrhandler = [p \in Procs |-> "none"]
  /\ town = [t \in Tids |-> IF t = InitThread THEN InitProc ELSE NoProc]
  /\ frames = [t \in Tids |-> <<>>] /\ live = {InitThread}
  /\ raised = [p \in Procs |-> <<>>] /\ killed = [p \in Procs |-> "no"]

Threads(p) == {t \in live : town[t] = p}
Runs(t) == t \in live

\* Thread ids are given out in order and never again.
Free(u) == town[u] = NoProc /\ \A v \in Tids : v < u => town[v] # NoProc

-----------------------------------------------------------------------------
\* sched_exit_process, as far as it matters here: no thread of p runs again, and
\* the scheduler frees what it has once nobody waits for p.
sched_exit_process(p, code) ==
  /\ pstate' = [pstate EXCEPT ![p] = "exited"]
  /\ exitcode' = [exitcode EXCEPT ![p] = code]
  /\ live' = live \ Threads(p)
  /\ frames' = [t \in Tids |-> IF town[t] = p THEN <<>> ELSE frames[t]]
  /\ EnvironFree(p)

KeepProcess == UNCHANGED <<pstate, exitcode, live>> /\ KeepEnviron

\* The numbers of a debug exception, and of a page fault in the stack region,
\* for which a page is mapped.
Debug == 1
StackFault == 14

\* sched_user_fault: what is in procerr after it.
sched_user_fault(p, eno) == IF eno \in Errors THEN eno + 1 ELSE procerr[p]

\* Faulty variant: the error stays in the process structure when the handler is
\* called.
CallHandlerKeepsError(p, t, err) ==
  /\ frames' = [frames EXCEPT ![t] = Append(@, [error |-> err, handler |-> procerrhandler[p]])]
  /\ procerr' = [procerr EXCEPT ![p] = err]
  /\ procerr_unhandled' = [procerr_unhandled EXCEPT ![p] = TRUE]
  /\ KeepProcess /\ UNCHANGED killed

\* The faked call: the address of the fault and the error are on the stack.
CallHandler(p, t, err) ==
  /\ frames' = [frames EXCEPT ![t] = Append(@, [error |-> err, handler |-> procerrhandler[p]])]
  /\ procerr' = [procerr EXCEPT ![p] = 0]
  /\ procerr_unhandled' = [procerr_unhandled EXCEPT ![p] = TRUE]
  /\ KeepProcess /\ UNCHANGED killed

KillFor(p, err, why) ==
  /\ sched_exit_process(p, err)
  /\ procerr' = [procerr EXCEPT ![p] = 0]
  /\ procerr_unhandled' = [procerr_unhandled EXCEPT ![p] = @ /\ why # "double"]
  /\ killed' = [killed EXCEPT ![p] = why]

\* exception_handle, of thread t in user mode.
exception_handle(t, eno) ==
  /\ Runs(t) /\ events < MaxEvents /\ events' = events + 1
  /\ LET p == town[t]
         err == sched_user_fault(p, eno)
     IN  /\ raised' = IF eno \in Errors THEN [raised EXCEPT ![p] = Append(@, eno + 1)]
                      ELSE raised
         /\ \/ /\ err = 0
               /\ KeepProcess
               /\ UNCHANGED <<procerr, procerr_unhandled, frames, killed>>
            \/ err # 0 /\ procerr_unhandled[p] /\ KillFor(p, err, "double")
            \/ /\ err # 0 /\ ~procerr_unhandled[p]
               /\ IF procerrhandler[p] = "none" THEN KillFor(p, err, "no handler")
                  ELSE \/ CallHandler(p, t, err)
                       \/ KillFor(p, err, "bad stack")
  /\ UNCHANGED <<procerrhandler, town>>

\* The libc handler prints and returns -1; a handler of the program's own returns
\* what it likes.  syscall_eret ends the process for a negative value and does
\* nothing for another, and the handler, which may not be set any more, returns to
\* the fault.
syscall_eret(t) ==
  /\ Runs(t) /\ frames[t] # <<>>
  /\ \/ sched_exit_process(town[t], 1)
     \/ /\ Last(frames[t]).handler = "own"
        /\ frames' = [frames EXCEPT ![t] = Front(@)]
        /\ KeepProcess
  /\ UNCHANGED <<procerr, procerr_unhandled, procerrhandler, town, raised, killed, events>>

\* crt0 sets the libc handler after the arguments; a program may set another, or with
\* 0 none.
syscall_ehndlr(t, handler) ==
  /\ Runs(t) /\ setup[town[t]] # "no" /\ handler # procerrhandler[town[t]]
  /\ procerrhandler' = [procerrhandler EXCEPT ![town[t]] = handler]
  /\ UNCHANGED <<environVars, exitcode, procerr, procerr_unhandled, town, frames, live,
                 raised, killed>>

\* syscall_tfork: the new thread has a copy of the stack.
syscall_tfork(t, u) ==
  /\ Runs(t) /\ setup[town[t]] # "no" /\ Free(u)
  /\ town' = [town EXCEPT ![u] = town[t]]
  /\ frames' = [frames EXCEPT ![u] = frames[t]]
  /\ live' = live \cup {u}
  /\ UNCHANGED <<environVars, exitcode, procerr, procerr_unhandled, procerrhandler,
                 raised, killed>>

syscall_texit(t) ==
  /\ Runs(t) /\ live' = live \ {t}
  /\ frames' = [frames EXCEPT ![t] = <<>>]
  /\ UNCHANGED <<environVars, exitcode, procerr, procerr_unhandled, procerrhandler, town,
                 raised, killed>>

syscall_exit(t) ==
  /\ Runs(t) /\ sched_exit_process(town[t], 0)
  /\ UNCHANGED <<procerr, procerr_unhandled, procerrhandler, town, raised, killed, events>>

\* By thread t of another process.  A process that has exited is there, and its exit
\* code replaced, while a thread waits for it.
sched_kill_process(t, q) ==
  /\ Runs(t) /\ setup[town[t]] # "no"
  /\ q # town[t] /\ pstate[q] # "none"
  /\ sched_exit_process(q, town[t] + 255)
  /\ killed' = [killed EXCEPT ![q] = "killed"]
  /\ UNCHANGED <<procerr, procerr_unhandled, procerrhandler, town, raised, events>>

\* A new process has one thread, and no handler yet.
Exec(t, u, q, args) ==
  /\ Runs(t) /\ setup[town[t]] # "no" /\ Free(u)
  /\ syscall_exec(town[t], q, args)
  /\ town' = [town EXCEPT ![u] = q] /\ live' = live \cup {u}
  /\ UNCHANGED <<exitcode, procerr, procerr_unhandled, procerrhandler, frames, raised,
                 killed>>

Setup(t) == Runs(t) /\ syscall_setup(town[t]) /\ UNCHANGED faultVars

Setenv(t) ==
  /\ Runs(t) /\ \E n \in Names, v \in Values : syscall_setenv(town[t], n, v)
  /\ UNCHANGED faultVars

Next ==
  \E t \in Tids :
    \/ \E eno \in Errors \cup {Debug, StackFault} : exception_handle(t, eno)
    \/ syscall_eret(t)
    \/ \E handler \in {"none", "libc", "own"} : syscall_ehndlr(t, handler)
    \/ \E u \in Tids : syscall_tfork(t, u)
    \/ syscall_texit(t) \/ syscall_exit(t) \/ \E q \in Procs : sched_kill_process(t, q)
    \/ \E u \in Tids, q \in Procs, args \in Vectors : Exec(t, u, q, args)
    \/ Setup(t) \/ Setenv(t)

Spec == Init /\ [][Next]_vars

-----------------------------------------------------------------------------
\* An exception ends a process for one of three causes, each with the error that
\* was raised last: it has no handler, the stack has no room for the call, or some
\* thread of it has raised an error before (exceptionx86.c:128-159).  The error of
\* one thread is never charged to a harmless exception of another.  When another
\* process kills it later, its exit code is replaced, and nothing is said.
DiesForCause ==
  \A p \in Procs : killed[p] \in {"no handler", "bad stack", "double"} =>
    /\ pstate[p] = "exited" /\ exitcode[p] = Last(raised[p])
    /\ killed[p] = "no handler" => procerrhandler[p] = "none"
    /\ killed[p] = "double" => Len(raised[p]) >= 2

=============================================================================
