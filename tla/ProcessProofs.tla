---------------------------- MODULE ProcessProofs ----------------------------
(***************************************************************************)
(* Machine-checked proofs about Process, for every set of processes,        *)
(* threads, errors, names, values and argument vectors: an exception never   *)
(* ends a process for another cause than DiesForCause lists, the             *)
(* environment is what was set last, and the arguments that exec accepts     *)
(* reach the stack of the new process.                                       *)
(***************************************************************************)
EXTENDS Process, SequenceTheorems, WellFoundedInduction, TLAPS

FaultTypes ==
  /\ pstate \in [Procs -> {"none", "running", "exited"}]
  /\ exitcode \in [Procs -> Nat]
  /\ procerr \in [Procs -> Nat] /\ procerr_unhandled \in [Procs -> BOOLEAN]
  /\ procerrhandler \in [Procs -> {"none", "libc", "own"}]
  /\ raised \in [Procs -> Seq(Nat)]
  /\ killed \in [Procs -> {"no", "no handler", "bad stack", "double", "killed"}]
  /\ town \in [Tids -> Procs \cup {NoProc}] /\ live \subseteq Tids

\* A thread that can run belongs to a process that has not ended.
LiveThreadsRun == \A t \in live : town[t] \in Procs /\ pstate[town[t]] = "running"

\* Between two exceptions no error is left in a process structure.
NoErrorLeft == \A p \in Procs : procerr[p] = 0

\* A process whose handler was called has raised an error.
UnhandledWasRaised == \A p \in Procs : procerr_unhandled[p] => Len(raised[p]) >= 1

FaultInv ==
  /\ FaultTypes /\ LiveThreadsRun /\ NoErrorLeft /\ UnhandledWasRaised /\ DiesForCause

-----------------------------------------------------------------------------
(* Faults.                                                                 *)

\* At the beginning nobody has raised anything.
LEMMA FaultInit == Init => FaultInv
<1> SUFFICES ASSUME Init PROVE FaultInv
  OBVIOUS
<1>3. InitThread \in Tids
  BY ProcessAssumption DEF InitThread
<1>1. FaultTypes
  BY <1>3, EnvironAssumption DEF Init, EnvironInit, FaultTypes
<1>2. LiveThreadsRun
  BY <1>3, EnvironAssumption DEF Init, EnvironInit, LiveThreadsRun
<1>4. NoErrorLeft /\ UnhandledWasRaised /\ DiesForCause
  BY DEF Init, NoErrorLeft, UnhandledWasRaised, DiesForCause
<1> QED
  BY <1>1, <1>2, <1>4 DEF FaultInv

\* A step that leaves the fault fields alone and starts or ends threads of running
\* processes only, maybe in a process that was not there before.
LEMMA FaultsUntouched ==
  ASSUME FaultInv,
         UNCHANGED <<exitcode, procerr, procerr_unhandled, raised, killed>>,
         pstate' \in [Procs -> {"none", "running", "exited"}],
         \A p \in Procs : pstate[p] # "none" => pstate'[p] = pstate[p],
         procerrhandler' \in [Procs -> {"none", "libc", "own"}],
         \A p \in Procs : pstate[p] = "exited" => procerrhandler'[p] = procerrhandler[p],
         town' \in [Tids -> Procs \cup {NoProc}], live' \subseteq Tids, LiveThreadsRun'
  PROVE  FaultInv'
<1>1. FaultTypes'
  BY DEF FaultInv, FaultTypes
<1>2. NoErrorLeft' /\ UnhandledWasRaised'
  BY DEF FaultInv, NoErrorLeft, UnhandledWasRaised
<1>3. DiesForCause'
  BY DEF FaultInv, DiesForCause
<1> QED
  BY <1>1, <1>2, <1>3 DEF FaultInv

\* No thread of a process that exits is left.
LEMMA ExitEndsThreads ==
  ASSUME FaultInv, NEW p \in Procs, NEW code \in Nat, UNCHANGED town,
         sched_exit_process(p, code)
  PROVE  /\ LiveThreadsRun' /\ live' \subseteq Tids
         /\ pstate' \in [Procs -> {"none", "running", "exited"}]
         /\ exitcode' \in [Procs -> Nat]
         /\ pstate'[p] = "exited" /\ exitcode'[p] = code
         /\ \A q \in Procs \ {p} : pstate'[q] = pstate[q] /\ exitcode'[q] = exitcode[q]
<1>1. pstate' = [pstate EXCEPT ![p] = "exited"] /\ exitcode' = [exitcode EXCEPT ![p] = code]
      /\ live' = live \ Threads(p)
  BY DEF sched_exit_process
<1>2. pstate \in [Procs -> {"none", "running", "exited"}] /\ exitcode \in [Procs -> Nat]
      /\ live \subseteq Tids
  BY DEF FaultInv, FaultTypes
<1>3. LiveThreadsRun'
  BY <1>1, <1>2 DEF FaultInv, LiveThreadsRun, Threads
<1> QED
  BY <1>1, <1>2, <1>3

\* A process that exits by itself or by eret was not ended by an exception.
LEMMA FaultExit ==
  ASSUME FaultInv, NEW p \in Procs, NEW code \in Nat, pstate[p] = "running",
         sched_exit_process(p, code),
         UNCHANGED <<procerr, procerr_unhandled, procerrhandler, town, raised, killed>>
  PROVE  FaultInv'
<1>1. /\ LiveThreadsRun' /\ live' \subseteq Tids
      /\ pstate' \in [Procs -> {"none", "running", "exited"}] /\ exitcode' \in [Procs -> Nat]
      /\ \A q \in Procs \ {p} : pstate'[q] = pstate[q] /\ exitcode'[q] = exitcode[q]
  BY ExitEndsThreads
<1>2. killed[p] \notin {"no handler", "bad stack", "double"}
  BY DEF FaultInv, DiesForCause, FaultTypes
<1>3. DiesForCause'
  BY <1>1, <1>2 DEF FaultInv, DiesForCause
<1> QED
  BY <1>1, <1>3 DEF FaultInv, FaultTypes, NoErrorLeft, UnhandledWasRaised

\* What an exception raises is the error it leaves in procerr, and procerr was
\* clear before: an exception that is no error finds nothing there.
LEMMA ErrorIsRaised ==
  ASSUME FaultInv, NEW p \in Procs, NEW eno \in Nat,
         raised' = IF eno \in Errors THEN [raised EXCEPT ![p] = Append(@, eno + 1)]
                   ELSE raised
  PROVE  /\ raised' \in [Procs -> Seq(Nat)]
         /\ \A q \in Procs \ {p} : raised'[q] = raised[q]
         /\ \A q \in Procs : Len(raised[q]) >= 1 => Len(raised'[q]) >= 1
         /\ sched_user_fault(p, eno) \in Nat
         /\ sched_user_fault(p, eno) # 0 =>
              /\ sched_user_fault(p, eno) = eno + 1
              /\ Len(raised'[p]) >= 1
              /\ Len(raised[p]) >= 1 => Len(raised'[p]) >= 2
              /\ Last(raised'[p]) = eno + 1
         /\ sched_user_fault(p, eno) = 0 => raised' = raised
<1>1. raised \in [Procs -> Seq(Nat)] /\ raised[p] \in Seq(Nat) /\ procerr[p] = 0
  BY DEF FaultInv, FaultTypes, NoErrorLeft
<1>2. CASE eno \in Errors
  <2>1. raised'[p] = Append(raised[p], eno + 1) /\ \A q \in Procs \ {p} : raised'[q] = raised[q]
    BY <1>1, <1>2
  <2>2. /\ Append(raised[p], eno + 1) \in Seq(Nat)
        /\ Len(Append(raised[p], eno + 1)) = Len(raised[p]) + 1
        /\ Append(raised[p], eno + 1)[Len(raised[p]) + 1] = eno + 1
    BY <1>1
  <2>3. raised' \in [Procs -> Seq(Nat)]
    BY <1>1, <1>2, <2>2
  <2> QED
    BY <1>1, <1>2, <2>1, <2>2, <2>3 DEF sched_user_fault, Last
<1>3. CASE eno \notin Errors
  BY <1>1, <1>3 DEF sched_user_fault
<1> QED
  BY <1>2, <1>3

\* An exception that ends the process, with what the code compares.
LEMMA FaultKills ==
  ASSUME FaultInv, NEW p \in Procs, NEW eno \in Nat, NEW why,
         pstate[p] = "running", UNCHANGED <<town, procerrhandler>>,
         raised' = IF eno \in Errors THEN [raised EXCEPT ![p] = Append(@, eno + 1)]
                   ELSE raised,
         sched_user_fault(p, eno) # 0,
         KillFor(p, sched_user_fault(p, eno), why),
         why \in {"no handler", "bad stack", "double"},
         why = "no handler" => procerrhandler[p] = "none",
         why = "double" => procerr_unhandled[p]
  PROVE  FaultInv'
<1> DEFINE err == sched_user_fault(p, eno)
<1>1. /\ raised' \in [Procs -> Seq(Nat)]
      /\ \A q \in Procs \ {p} : raised'[q] = raised[q]
      /\ \A q \in Procs : Len(raised[q]) >= 1 => Len(raised'[q]) >= 1
      /\ err \in Nat
      /\ Len(raised[p]) >= 1 => Len(raised'[p]) >= 2
      /\ Last(raised'[p]) = err
  BY ErrorIsRaised
<1>2. sched_exit_process(p, err)
  BY DEF KillFor
<1>3. /\ LiveThreadsRun' /\ live' \subseteq Tids
      /\ pstate' \in [Procs -> {"none", "running", "exited"}] /\ exitcode' \in [Procs -> Nat]
      /\ pstate'[p] = "exited" /\ exitcode'[p] = err
      /\ \A q \in Procs \ {p} : pstate'[q] = pstate[q] /\ exitcode'[q] = exitcode[q]
  <2> HIDE DEF err
  <2> QED
    BY <1>1, <1>2, ExitEndsThreads
<1>4. /\ procerr' = [procerr EXCEPT ![p] = 0]
      /\ procerr_unhandled' = [procerr_unhandled EXCEPT ![p] = @ /\ why # "double"]
      /\ killed' = [killed EXCEPT ![p] = why]
  BY DEF KillFor
<1> HIDE DEF err
<1>5. FaultTypes'
  BY <1>1, <1>3, <1>4 DEF FaultInv, FaultTypes
<1>6. NoErrorLeft'
  BY <1>4 DEF FaultInv, FaultTypes, NoErrorLeft
<1>7. UnhandledWasRaised'
  <2> SUFFICES ASSUME NEW q \in Procs, procerr_unhandled'[q] PROVE Len(raised'[q]) >= 1
    BY DEF UnhandledWasRaised
  <2>1. procerr_unhandled[q]
    BY <1>4 DEF FaultInv, FaultTypes
  <2>2. Len(raised[q]) >= 1
    BY <2>1 DEF FaultInv, UnhandledWasRaised
  <2> QED
    BY <1>1, <2>2
<1>8. DiesForCause'
  <2> SUFFICES ASSUME NEW q \in Procs, killed'[q] \in {"no handler", "bad stack", "double"}
               PROVE  /\ pstate'[q] = "exited" /\ exitcode'[q] = Last(raised'[q])
                      /\ killed'[q] = "no handler" => procerrhandler'[q] = "none"
                      /\ killed'[q] = "double" => Len(raised'[q]) >= 2
    BY DEF DiesForCause
  <2>1. CASE q = p
    <3>1. killed'[q] = why
      BY <1>4, <2>1 DEF FaultInv, FaultTypes
    <3>2. why = "double" => Len(raised'[q]) >= 2
      BY <1>1, <2>1 DEF FaultInv, UnhandledWasRaised
    <3> QED
      BY <1>1, <1>3, <2>1, <3>1, <3>2
  <2>2. CASE q # p
    <3>1. killed'[q] = killed[q]
      BY <1>4, <2>2 DEF FaultInv, FaultTypes
    <3> QED
      BY <1>1, <1>3, <2>2, <3>1 DEF FaultInv, DiesForCause
  <2> QED
    BY <2>1, <2>2
<1> QED
  BY <1>3, <1>5, <1>6, <1>7, <1>8 DEF FaultInv

\* An exception whose handler is called: the error is on the stack, and its trace in
\* the process structure says that one was raised.
LEMMA FaultHandled ==
  ASSUME FaultInv, NEW p \in Procs, NEW eno \in Nat, NEW t,
         pstate[p] = "running", UNCHANGED <<town, procerrhandler>>,
         raised' = IF eno \in Errors THEN [raised EXCEPT ![p] = Append(@, eno + 1)]
                   ELSE raised,
         sched_user_fault(p, eno) # 0,
         CallHandler(p, t, sched_user_fault(p, eno))
  PROVE  FaultInv'
<1>1. /\ raised' \in [Procs -> Seq(Nat)]
      /\ \A q \in Procs \ {p} : raised'[q] = raised[q]
      /\ Len(raised'[p]) >= 1
  BY ErrorIsRaised
<1>2. /\ procerr' = [procerr EXCEPT ![p] = 0]
      /\ procerr_unhandled' = [procerr_unhandled EXCEPT ![p] = TRUE]
      /\ UNCHANGED <<pstate, exitcode, live, killed>>
  BY DEF CallHandler, KeepProcess
<1>3. FaultTypes' /\ LiveThreadsRun' /\ NoErrorLeft'
  BY <1>1, <1>2 DEF FaultInv, FaultTypes, LiveThreadsRun, NoErrorLeft
<1>4. UnhandledWasRaised'
  BY <1>1, <1>2 DEF FaultInv, FaultTypes, UnhandledWasRaised
<1>5. DiesForCause'
  <2>1. killed[p] \notin {"no handler", "bad stack", "double"}
    BY DEF FaultInv, FaultTypes, DiesForCause
  <2> QED
    BY <1>1, <1>2, <2>1 DEF FaultInv, DiesForCause
<1> QED
  BY <1>3, <1>4, <1>5 DEF FaultInv

\* Every exception.
LEMMA FaultException ==
  ASSUME FaultInv, NEW t \in Tids, NEW eno \in Nat, exception_handle(t, eno)
  PROVE  FaultInv'
<1> DEFINE p == town[t]
           err == sched_user_fault(p, eno)
<1>1. p \in Procs /\ pstate[p] = "running"
  BY DEF exception_handle, Runs, FaultInv, LiveThreadsRun
<1>2. raised' = IF eno \in Errors THEN [raised EXCEPT ![p] = Append(@, eno + 1)] ELSE raised
  BY DEF exception_handle
<1>3. UNCHANGED <<town, procerrhandler>>
  BY DEF exception_handle
<1>4. \/ /\ err = 0 /\ KeepProcess
         /\ UNCHANGED <<procerr, procerr_unhandled, frames, killed>>
      \/ err # 0 /\ procerr_unhandled[p] /\ KillFor(p, err, "double")
      \/ err # 0 /\ procerrhandler[p] = "none" /\ KillFor(p, err, "no handler")
      \/ err # 0 /\ CallHandler(p, t, err)
      \/ err # 0 /\ KillFor(p, err, "bad stack")
  BY DEF exception_handle
<1> HIDE DEF p
<1>5. CASE err = 0 /\ KeepProcess /\ UNCHANGED <<procerr, procerr_unhandled, frames, killed>>
  <2>1. raised' = raised
    BY <1>1, <1>2, <1>5, ErrorIsRaised
  <2>2. UNCHANGED <<pstate, exitcode, live>>
    BY <1>5 DEF KeepProcess
  <2> QED
    BY <1>3, <1>5, <2>1, <2>2
       DEF FaultInv, FaultTypes, LiveThreadsRun, NoErrorLeft, UnhandledWasRaised, DiesForCause
<1>6. CASE err # 0 /\ CallHandler(p, t, err)
  BY <1>1, <1>2, <1>3, <1>6, FaultHandled
<1>7. CASE err # 0 /\ procerr_unhandled[p] /\ KillFor(p, err, "double")
  BY <1>1, <1>2, <1>3, <1>7, FaultKills
<1>8. CASE err # 0 /\ procerrhandler[p] = "none" /\ KillFor(p, err, "no handler")
  BY <1>1, <1>2, <1>3, <1>8, FaultKills
<1>9. CASE err # 0 /\ KillFor(p, err, "bad stack")
  BY <1>1, <1>2, <1>3, <1>9, FaultKills
<1> QED
  BY <1>4, <1>5, <1>6, <1>7, <1>8, <1>9

\* A handler returns, or its process ends.
LEMMA FaultEret ==
  ASSUME FaultInv, NEW t \in Tids, syscall_eret(t)
  PROVE  FaultInv'
<1>1. town[t] \in Procs /\ pstate[town[t]] = "running"
  BY DEF syscall_eret, Runs, FaultInv, LiveThreadsRun
<1>2. UNCHANGED <<procerr, procerr_unhandled, procerrhandler, town, raised, killed>>
  BY DEF syscall_eret
<1>3. CASE sched_exit_process(town[t], 1)
  BY <1>1, <1>2, <1>3, FaultExit
<1>4. CASE KeepProcess
  <2>1. UNCHANGED <<pstate, exitcode, live>>
    BY <1>4 DEF KeepProcess
  <2> QED
    BY <1>2, <2>1
       DEF FaultInv, FaultTypes, LiveThreadsRun, NoErrorLeft, UnhandledWasRaised, DiesForCause
<1> QED
  BY <1>3, <1>4 DEF syscall_eret

\* A process that has set a handler had not ended.
LEMMA FaultHandlerSet ==
  ASSUME FaultInv, NEW t \in Tids, NEW handler \in {"none", "libc", "own"},
         syscall_ehndlr(t, handler)
  PROVE  FaultInv'
<1>1. town[t] \in Procs /\ pstate[town[t]] = "running"
  BY DEF syscall_ehndlr, Runs, FaultInv, LiveThreadsRun
<1>2. procerrhandler' = [procerrhandler EXCEPT ![town[t]] = handler]
      /\ UNCHANGED <<pstate, exitcode, procerr, procerr_unhandled, town, live, raised, killed>>
  BY DEF syscall_ehndlr, environVars
<1>3. LiveThreadsRun'
  BY <1>2 DEF FaultInv, LiveThreadsRun
<1> QED
  BY <1>1, <1>2, <1>3, FaultsUntouched DEF FaultInv, FaultTypes

\* A thread that starts is none of those that live.
LEMMA FreeIsNotLive ==
  ASSUME FaultInv, NEW u, Free(u)
  PROVE  u \notin live
BY ProcessAssumption DEF Free, NoProc, FaultInv, LiveThreadsRun

\* A new thread of a running process.
LEMMA FaultTfork ==
  ASSUME FaultInv, NEW t \in Tids, NEW u \in Tids, syscall_tfork(t, u)
  PROVE  FaultInv'
<1>1. town[t] \in Procs /\ pstate[town[t]] = "running"
  BY DEF syscall_tfork, Runs, FaultInv, LiveThreadsRun
<1>2. /\ town' = [town EXCEPT ![u] = town[t]] /\ live' = live \cup {u}
      /\ UNCHANGED <<pstate, exitcode, procerr, procerr_unhandled, procerrhandler, raised, killed>>
  BY DEF syscall_tfork, environVars
<1>3. LiveThreadsRun' /\ town' \in [Tids -> Procs \cup {NoProc}] /\ live' \subseteq Tids
  BY <1>1, <1>2 DEF FaultInv, FaultTypes, LiveThreadsRun
<1> QED
  BY <1>2, <1>3, FaultsUntouched DEF FaultInv, FaultTypes

\* A thread that ends, and no other.
LEMMA FaultTexit ==
  ASSUME FaultInv, NEW t \in Tids, syscall_texit(t)
  PROVE  FaultInv'
<1>1. /\ live' = live \ {t}
      /\ UNCHANGED <<pstate, exitcode, procerr, procerr_unhandled, procerrhandler, town,
                     raised, killed>>
  BY DEF syscall_texit, environVars
<1>2. LiveThreadsRun' /\ live' \subseteq Tids
  BY <1>1 DEF FaultInv, FaultTypes, LiveThreadsRun
<1> QED
  BY <1>1, <1>2, FaultsUntouched DEF FaultInv, FaultTypes

\* A new process with its first thread.
LEMMA FaultExec ==
  ASSUME FaultInv, NEW t \in Tids, NEW u \in Tids, NEW q \in Procs, NEW args,
         Exec(t, u, q, args)
  PROVE  FaultInv'
<1>1. /\ pstate[q] = "none" /\ pstate' = [pstate EXCEPT ![q] = "running"]
      /\ town' = [town EXCEPT ![u] = q] /\ live' = live \cup {u}
      /\ UNCHANGED <<exitcode, procerr, procerr_unhandled, procerrhandler, raised, killed>>
  BY DEF Exec, syscall_exec
<1>2. pstate' \in [Procs -> {"none", "running", "exited"}]
      /\ \A p \in Procs : pstate[p] # "none" => pstate'[p] = pstate[p]
      /\ pstate'[q] = "running"
  BY <1>1 DEF FaultInv, FaultTypes
<1>3. town' \in [Tids -> Procs \cup {NoProc}] /\ live' \subseteq Tids
  BY <1>1 DEF FaultInv, FaultTypes
<1>4. LiveThreadsRun'
  <2> SUFFICES ASSUME NEW v \in live' PROVE town'[v] \in Procs /\ pstate'[town'[v]] = "running"
    BY DEF LiveThreadsRun
  <2>1. CASE v = u
    BY <1>1, <1>2, <2>1 DEF FaultInv, FaultTypes
  <2>2. CASE v # u
    <3>1. v \in live /\ town'[v] = town[v]
      BY <1>1, <2>2 DEF FaultInv, FaultTypes
    <3> QED
      BY <1>2, <3>1 DEF FaultInv, LiveThreadsRun
  <2> QED
    BY <2>1, <2>2
<1> QED
  BY <1>1, <1>2, <1>3, <1>4, FaultsUntouched DEF FaultInv, FaultTypes

\* A process that another one kills keeps its faults but not its exit code.
LEMMA FaultKill ==
  ASSUME FaultInv, NEW t \in Tids, NEW q \in Procs, sched_kill_process(t, q)
  PROVE  FaultInv'
<1>1. town[t] + 255 \in Nat
  <2>1. town[t] \in Procs
    BY DEF sched_kill_process, Runs, FaultInv, LiveThreadsRun
  <2>2. town[t] \in Nat
    BY <2>1, ProcessAssumption
  <2> QED
    BY <2>2
<1>2. /\ sched_exit_process(q, town[t] + 255) /\ killed' = [killed EXCEPT ![q] = "killed"]
      /\ UNCHANGED <<procerr, procerr_unhandled, procerrhandler, town, raised>>
  BY DEF sched_kill_process
<1>3. /\ LiveThreadsRun' /\ live' \subseteq Tids
      /\ pstate' \in [Procs -> {"none", "running", "exited"}] /\ exitcode' \in [Procs -> Nat]
      /\ \A p \in Procs \ {q} : pstate'[p] = pstate[p] /\ exitcode'[p] = exitcode[p]
  BY <1>1, <1>2, ExitEndsThreads
<1>4. killed'[q] = "killed" /\ \A p \in Procs \ {q} : killed'[p] = killed[p]
  BY <1>2 DEF FaultInv, FaultTypes
<1>5. DiesForCause'
  BY <1>2, <1>3, <1>4 DEF FaultInv, DiesForCause
<1> QED
  BY <1>2, <1>3, <1>5 DEF FaultInv, FaultTypes, NoErrorLeft, UnhandledWasRaised

\* Every step.
LEMMA FaultStep == FaultInv /\ [Next]_vars => FaultInv'
<1> SUFFICES ASSUME FaultInv, [Next]_vars PROVE FaultInv'
  OBVIOUS
<1>1. ASSUME NEW t \in Tids, NEW eno \in Errors \cup {Debug, StackFault},
             exception_handle(t, eno)
      PROVE  FaultInv'
  <2>1. eno \in Nat
    BY ProcessAssumption DEF Debug, StackFault
  <2> QED
    BY <1>1, <2>1, FaultException
<1>2. ASSUME NEW t \in Tids, syscall_exit(t) PROVE FaultInv'
  <2>1. town[t] \in Procs /\ pstate[town[t]] = "running"
    BY <1>2 DEF syscall_exit, Runs, FaultInv, LiveThreadsRun
  <2> QED
    BY <1>2, <2>1, FaultExit DEF syscall_exit
<1>3. ASSUME NEW t \in Tids, Setup(t) \/ Setenv(t) PROVE FaultInv'
  <2>1. UNCHANGED <<pstate, faultVars>>
    BY <1>3 DEF Setup, Setenv, syscall_setup, syscall_setenv
  <2> QED
    BY <2>1 DEF faultVars, FaultInv, FaultTypes, LiveThreadsRun, NoErrorLeft,
                UnhandledWasRaised, DiesForCause
<1>4. CASE UNCHANGED vars
  BY <1>4 DEF vars, faultVars, environVars, FaultInv, FaultTypes, LiveThreadsRun, NoErrorLeft,
              UnhandledWasRaised, DiesForCause
<1> QED
  BY <1>1, <1>2, <1>3, <1>4, FaultEret, FaultHandlerSet, FaultTfork, FaultTexit,
     FaultExec, FaultKill
     DEF Next

\* The strengthened invariant holds in every state.
THEOREM FaultInvariant == Spec => []FaultInv
  BY FaultInit, FaultStep, PTL DEF Spec

\* An exception ends a process for one of the three causes only, with the error that was
\* raised last: whatever the processes, threads and errors are.
THEOREM FaultsHaveCause == Spec => []DiesForCause
<1>1. FaultInv => DiesForCause
  BY DEF FaultInv
<1> QED
  BY <1>1, FaultInvariant, PTL

-----------------------------------------------------------------------------
(* The environment, as a sequence of strings.                              *)

Str == Seq(STRING)

\* No plain name is there twice.
Unique(env) ==
  \A n \in Plain : \A i, j \in 1..Len(env) :
    Matches(env[i], n) /\ Matches(env[j], n) => i = j

\* A name without an equal sign matches by the first part alone.
LEMMA PlainMatch ==
  ASSUME NEW n \in Plain, NEW s \in Str
  PROVE  Matches(s, n) <=> Len(s) >= 2 /\ s[1] = n[1]
<1>1. n \in Str /\ Len(n) = 1
  BY EnvironAssumption DEF Plain, Str
<1>2. CASE Len(s) <= 1
  BY <1>1, <1>2 DEF Matches, Str
<1>3. CASE Len(s) > 1
  <2>1. SubSeq(s, 1, 1) \in Str /\ Len(SubSeq(s, 1, 1)) = 1 /\ SubSeq(s, 1, 1)[1] = s[1]
    BY <1>3 DEF Str
  <2>2. SubSeq(s, 1, 1) = n <=> s[1] = n[1]
    BY <1>1, <2>1 DEF Str
  <2> QED
    BY <1>1, <1>3, <2>2 DEF Matches, Str
<1> QED
  BY <1>2, <1>3 DEF Str

\* The search returns the string that matches, when there is one only.
LEMMA IndexOfMatch ==
  ASSUME NEW env \in Seq(Str), Unique(env), NEW n \in Plain,
         NEW i \in 1..Len(env), Matches(env[i], n)
  PROVE  eindex(env, n) = i
<1> DEFINE I == {k \in 1..Len(env) : Matches(env[k], n)}
<1>1. I = {i}
  BY DEF Unique
<1>2. Min(I) = i
  BY <1>1 DEF Min
<1> QED
  BY <1>1, <1>2 DEF eindex, SelectInSeq

\* A name that no string matches is not found.
LEMMA NoMatch ==
  ASSUME NEW env \in Seq(Str), NEW n \in Plain,
         \A i \in 1..Len(env) : ~Matches(env[i], n)
  PROVE  eindex(env, n) = 0
BY DEF eindex, SelectInSeq

\* What setenv writes for a plain name is found under that name and no other, and
\* what follows the equal sign is the value.
LEMMA NewString ==
  ASSUME NEW n \in Plain, NEW v \in Values
  PROVE  /\ n \o v \in Str
         /\ Matches(n \o v, n)
         /\ \A m \in Plain \ {n} : ~Matches(n \o v, m)
         /\ SubSeq(n \o v, Len(n) + 1, Len(n \o v)) = v
<1>1. n \in Str /\ Len(n) = 1 /\ v \in Str /\ Len(v) >= 1
  BY EnvironAssumption DEF Plain, Str
<1>6. /\ n \o v \in Str /\ Len(n \o v) = Len(n) + Len(v)
      /\ \A k \in 1..(Len(n) + Len(v)) :
           (n \o v)[k] = IF k <= Len(n) THEN n[k] ELSE v[k - Len(n)]
  BY <1>1, ConcatProperties DEF Str
<1>2. /\ n \o v \in Str /\ Len(n \o v) = Len(v) + 1 /\ (n \o v)[1] = n[1]
      /\ \A k \in 1..Len(v) : (n \o v)[k + 1] = v[k]
  BY <1>1, <1>6 DEF Str
<1>3. Matches(n \o v, n)
  <2>1. Len(n \o v) >= 2
    BY <1>1, <1>2 DEF Str
  <2> QED
    BY <1>2, <2>1, PlainMatch
<1>4. ASSUME NEW m \in Plain \ {n} PROVE ~Matches(n \o v, m)
  <2>1. m \in Str /\ Len(m) = 1
    BY EnvironAssumption DEF Plain, Str
  <2>2. m[1] # n[1]
    BY <1>1, <2>1 DEF Str
  <2> QED
    BY <1>2, <2>2, PlainMatch
<1>5. SubSeq(n \o v, 2, Len(n \o v)) = v
  <2>2. /\ SubSeq(n \o v, 2, Len(n \o v)) \in Str
        /\ Len(SubSeq(n \o v, 2, Len(n \o v))) = Len(v)
        /\ \A k \in 1..Len(v) : SubSeq(n \o v, 2, Len(n \o v))[k] = (n \o v)[k + 1]
    BY <1>1, <1>2 DEF Str
  <2> QED
    BY <1>1, <1>2, <2>2 DEF Str
<1> QED
  BY <1>1, <1>2, <1>3, <1>4, <1>5

\* An element is replaced, or nothing happens when the place is not there.
LEMMA ReplacedElement ==
  ASSUME NEW S, NEW s \in Seq(S), NEW k, NEW e \in S
  PROVE  [s EXCEPT ![k] = e] \in Seq(S) /\ Len([s EXCEPT ![k] = e]) = Len(s)
<1>1. CASE k \in 1..Len(s)
  BY <1>1, ExceptSeq
<1>2. CASE k \notin 1..Len(s)
  <2>1. DOMAIN s = 1..Len(s) /\ s = [j \in 1..Len(s) |-> s[j]]
    OBVIOUS
  <2>2. [s EXCEPT ![k] = e] = s
    BY <1>2, <2>1
  <2> QED
    BY <2>2
<1> QED
  BY <1>1, <1>2

\* Whatever the name, the array grows by one string or none.
LEMMA WithStringLength ==
  ASSUME NEW env \in Seq(Str), NEW n \in Names, NEW v \in Values
  PROVE  /\ WithString(env, n, v) \in Seq(Str)
         /\ Len(WithString(env, n, v)) = IF eindex(env, n) = 0 THEN Len(env) + 1 ELSE Len(env)
<1>1. n \in Str /\ v \in Str
  BY EnvironAssumption DEF Str
<1>2. n \o v \in Str
  BY <1>1, ConcatProperties DEF Str
<1>3. CASE eindex(env, n) = 0
  <2>1. WithString(env, n, v) = Append(env, n \o v)
    BY <1>3 DEF WithString
  <2> QED
    BY <1>2, <1>3, <2>1
<1>4. CASE eindex(env, n) # 0
  <2> DEFINE i == eindex(env, n)
  <2>1. WithString(env, n, v) = [env EXCEPT ![i] = n \o v]
    BY <1>4 DEF WithString
  <2>2. ASSUME NEW k PROVE [env EXCEPT ![k] = n \o v] \in Seq(Str)
                           /\ Len([env EXCEPT ![k] = n \o v]) = Len(env)
    BY <1>2, ReplacedElement
  <2>3. WithString(env, n, v) \in Seq(Str) /\ Len(WithString(env, n, v)) = Len(env)
    BY <2>1, <2>2
  <2> QED
    BY <1>4, <2>3
<1> QED
  BY <1>3, <1>4

\* The name is found with its new value and every other as before.
LEMMA WithStringSound ==
  ASSUME NEW env \in Seq(Str), Unique(env), NEW n \in Plain, NEW v \in Values,
         NEW new, new = WithString(env, n, v)
  PROVE  /\ Unique(new) /\ getenv(new, n) = v
         /\ \A m \in Plain \ {n} : getenv(new, m) = getenv(env, m)
<1>1. n \in Names
  BY DEF Plain
<1>2. new \in Seq(Str)
  BY <1>1, WithStringLength
<1>3. /\ n \o v \in Str /\ Matches(n \o v, n) /\ \A m \in Plain \ {n} : ~Matches(n \o v, m)
      /\ SubSeq(n \o v, Len(n) + 1, Len(n \o v)) = v
  BY NewString
\* Where the string is, and that everything else stays as it was.
<1>4. \E i \in 1..Len(new) :
        /\ new[i] = n \o v
        /\ \A j \in (1..Len(new)) \ {i} : j \in 1..Len(env) /\ new[j] = env[j] /\ ~Matches(env[j], n)
        /\ \A j \in (1..Len(env)) \ {i} : j \in 1..Len(new)
        /\ i \in 1..Len(env) => \A m \in Plain \ {n} : ~Matches(env[i], m)
  <2>1. CASE \E i \in 1..Len(env) : Matches(env[i], n)
    <3>1. PICK i \in 1..Len(env) : Matches(env[i], n)
      BY <2>1
    <3>2. eindex(env, n) = i
      BY <3>1, IndexOfMatch
    <3>3. new = [env EXCEPT ![i] = n \o v]
      BY <3>2 DEF WithString
    <3>4. Len(new) = Len(env) /\ new[i] = n \o v /\ \A j \in (1..Len(env)) \ {i} : new[j] = env[j]
      BY <3>3, <1>3
    <3>5. \A j \in (1..Len(env)) \ {i} : ~Matches(env[j], n)
      BY <3>1 DEF Unique
    <3>6. ASSUME NEW m \in Plain \ {n} PROVE ~Matches(env[i], m)
      <4>1. n \in Str /\ m \in Str /\ Len(n) = 1 /\ Len(m) = 1 /\ n # m
        BY EnvironAssumption DEF Plain, Str
      <4>2. n[1] # m[1]
        BY <4>1 DEF Str
      <4>3. env[i] \in Str /\ env[i][1] = n[1]
        BY <3>1, PlainMatch
      <4> QED
        BY <4>2, <4>3, PlainMatch
    <3> QED
      BY <3>4, <3>5, <3>6
  <2>2. CASE \A i \in 1..Len(env) : ~Matches(env[i], n)
    <3>1. new = Append(env, n \o v)
      BY <2>2, NoMatch DEF WithString
    <3>2. /\ Len(new) = Len(env) + 1 /\ new[Len(env) + 1] = n \o v
          /\ \A j \in 1..Len(env) : new[j] = env[j]
          /\ Len(env) \in Nat
      BY <1>3, <3>1
    <3> DEFINE i == Len(env) + 1
    <3>3. /\ i \in 1..Len(new) /\ new[i] = n \o v /\ i \notin 1..Len(env)
          /\ (1..Len(new)) \ {i} = 1..Len(env)
      BY <3>2
    <3> HIDE DEF i
    <3>4. \A j \in (1..Len(env)) \ {i} : j \in 1..Len(new)
      BY <3>3
    <3> QED
      BY <2>2, <3>2, <3>3, <3>4
  <2> QED
    BY <2>1, <2>2
<1>5. PICK i \in 1..Len(new) :
        /\ new[i] = n \o v
        /\ \A j \in (1..Len(new)) \ {i} : j \in 1..Len(env) /\ new[j] = env[j] /\ ~Matches(env[j], n)
        /\ \A j \in (1..Len(env)) \ {i} : j \in 1..Len(new)
        /\ i \in 1..Len(env) => \A m \in Plain \ {n} : ~Matches(env[i], m)
  BY <1>4
<1>6. Unique(new)
  <2> SUFFICES ASSUME NEW m \in Plain, NEW j \in 1..Len(new), NEW k \in 1..Len(new),
                      Matches(new[j], m), Matches(new[k], m)
               PROVE  j = k
    BY DEF Unique
  <2>1. CASE m = n
    BY <1>5, <2>1
  <2>2. CASE m # n
    <3>1. j # i /\ k # i
      BY <1>3, <1>5, <2>2
    <3> QED
      BY <1>5, <3>1 DEF Unique
  <2> QED
    BY <2>1, <2>2
<1>7. getenv(new, n) = v
  <2>1. eindex(new, n) = i
    BY <1>2, <1>3, <1>5, <1>6, IndexOfMatch
  <2>2. i # 0
    OBVIOUS
  <2> QED
    BY <1>3, <1>5, <2>1, <2>2 DEF getenv
<1>8. ASSUME NEW m \in Plain \ {n} PROVE getenv(new, m) = getenv(env, m)
  <2>1. CASE \E k \in 1..Len(env) : Matches(env[k], m)
    <3>1. PICK k \in 1..Len(env) : Matches(env[k], m)
      BY <2>1
    <3>2. k # i
      BY <1>5, <3>1
    <3>3. k \in 1..Len(new) /\ new[k] = env[k]
      BY <1>5, <3>2
    <3>4. eindex(env, m) = k
      BY <3>1, IndexOfMatch
    <3>5. eindex(new, m) = k
      BY <1>2, <1>6, <3>1, <3>3, IndexOfMatch
    <3> QED
      BY <3>3, <3>4, <3>5 DEF getenv
  <2>2. CASE \A k \in 1..Len(env) : ~Matches(env[k], m)
    <3>1. \A k \in 1..Len(new) : ~Matches(new[k], m)
      BY <1>3, <1>5, <2>2
    <3>2. eindex(env, m) = 0 /\ eindex(new, m) = 0
      BY <1>2, <2>2, <3>1, NoMatch
    <3> QED
      BY <3>2 DEF getenv
  <2> QED
    BY <2>1, <2>2
<1> QED
  BY <1>6, <1>7, <1>8

-----------------------------------------------------------------------------
(* The environments of the processes.                                      *)

EnvTypes ==
  /\ environ \in [Procs -> Seq(Str)] /\ environ_size \in [Procs -> Nat]
  /\ latest \in [Procs -> [Plain -> Str]] /\ aliased \in [Procs -> BOOLEAN]

\* What setenv keeps of one process: room for the NULL, one string for a name at the
\* most, and what was set last is found.
Kept(env, size, last, alias) ==
  /\ Len(env) < size
  /\ ~alias => Unique(env) /\ \A n \in Plain : getenv(env, n) = last[n]

EnvInv ==
  /\ EnvTypes
  /\ \A p \in Procs : pstate[p] = "running" =>
       Kept(environ[p], environ_size[p], latest[p], aliased[p])

\* Nothing is found in an environment without strings.
LEMMA NothingIsKept ==
  ASSUME NEW env \in Seq(Str), Len(env) = 0, NEW size \in Nat, size >= 1,
         NEW last \in [Plain -> Str], \A n \in Plain : last[n] = NotSet
  PROVE  Kept(env, size, last, FALSE)
<1>1. Unique(env)
  BY DEF Unique
<1>2. ASSUME NEW n \in Plain PROVE getenv(env, n) = NotSet
  <2>1. 1..Len(env) = {}
    OBVIOUS
  <2>2. \A i \in 1..Len(env) : ~Matches(env[i], n)
    BY ONLY <2>1
  <2>3. eindex(env, n) = 0
    BY <2>2, NoMatch
  <2> QED
    BY <2>3 DEF getenv
<1> QED
  BY <1>1, <1>2 DEF Kept

\* The first process has an empty environment, with room for the NULL.
LEMMA EnvInit == Init => EnvInv
<1> SUFFICES ASSUME Init PROVE EnvInv
  OBVIOUS
<1>1. NotSet \in Str /\ <<>> \in Seq(Str)
  BY DEF NotSet, Str
<1>2. EnvTypes
  BY <1>1 DEF Init, EnvironInit, EnvTypes
<1>3. ASSUME NEW p \in Procs, pstate[p] = "running"
      PROVE  Kept(environ[p], environ_size[p], latest[p], aliased[p])
  <2>1. /\ environ[p] \in Seq(Str) /\ Len(environ[p]) = 0
        /\ environ_size[p] = 1 /\ aliased[p] = FALSE
        /\ latest[p] \in [Plain -> Str] /\ \A n \in Plain : latest[p][n] = NotSet
    BY <1>1, <1>3 DEF Init, EnvironInit
  <2>2. environ_size[p] \in Nat /\ environ_size[p] >= 1
    BY <2>1
  <2>3. Kept(environ[p], environ_size[p], latest[p], FALSE)
    BY <2>1, <2>2, NothingIsKept
  <2> QED
    BY <2>1, <2>3
<1> QED
  BY <1>2, <1>3 DEF EnvInv

\* A step that leaves the environments alone and makes no process run.
LEMMA EnvUntouched ==
  ASSUME EnvInv, UNCHANGED <<pstate, environ, environ_size, latest, aliased>>
  PROVE  EnvInv'
BY DEF EnvInv, EnvTypes

\* The process that exits runs no longer, and the others keep what they have.
LEMMA EnvExit ==
  ASSUME FaultInv, EnvInv, NEW p \in Procs, NEW code, sched_exit_process(p, code)
  PROVE  EnvInv'
<1>1. /\ pstate' = [pstate EXCEPT ![p] = "exited"]
      /\ environ' = [environ EXCEPT ![p] = <<>>]
      /\ environ_size' = [environ_size EXCEPT ![p] = 0]
      /\ latest' = [latest EXCEPT ![p] = [n \in Plain |-> NotSet]]
      /\ aliased' = [aliased EXCEPT ![p] = FALSE]
  BY DEF sched_exit_process, EnvironFree
<1>2. NotSet \in Str /\ <<>> \in Seq(Str)
  BY DEF NotSet, Str
<1>3. EnvTypes'
  BY <1>1, <1>2 DEF EnvInv, EnvTypes
<1>4. pstate'[p] = "exited" /\ \A q \in Procs \ {p} : pstate'[q] = pstate[q]
  BY <1>1 DEF FaultInv, FaultTypes
<1>5. \A q \in Procs \ {p} : /\ environ'[q] = environ[q] /\ environ_size'[q] = environ_size[q]
                             /\ latest'[q] = latest[q] /\ aliased'[q] = aliased[q]
  BY <1>1 DEF EnvInv, EnvTypes
<1> QED
  BY <1>3, <1>4, <1>5 DEF EnvInv

\* setenv, of any name: the array has grown in time, and a plain name is found.
LEMMA KeptBySetenv ==
  ASSUME NEW env \in Seq(Str), NEW size \in Nat, NEW last \in [Plain -> Str],
         NEW alias \in BOOLEAN, NEW n \in Names, NEW v \in Values,
         Kept(env, size, last, alias)
  PROVE  Kept(WithString(env, n, v),
              IF eindex(env, n) = 0 THEN Grown(Len(env), size) ELSE size,
              IF n \in Plain THEN [last EXCEPT ![n] = v] ELSE last,
              alias \/ n \notin Plain)
<1> DEFINE new == WithString(env, n, v)
<1>1. Len(new) < IF eindex(env, n) = 0 THEN Grown(Len(env), size) ELSE size
  <2>1. Len(env) \in Nat /\ Len(env) < size
    BY DEF Kept
  <2>2. Len(env) + 1 < Grown(Len(env), size)
    BY <2>1 DEF Grown
  <2>3. Len(new) = IF eindex(env, n) = 0 THEN Len(env) + 1 ELSE Len(env)
    BY WithStringLength
  <2> QED
    BY <2>1, <2>2, <2>3
<1>2. ASSUME ~alias, n \in Plain
      PROVE  Unique(new) /\ \A m \in Plain : getenv(new, m) = [last EXCEPT ![n] = v][m]
  <2>1. Unique(env) /\ \A m \in Plain : getenv(env, m) = last[m]
    BY <1>2 DEF Kept
  <2>2. Unique(new) /\ getenv(new, n) = v /\ \A m \in Plain \ {n} : getenv(new, m) = getenv(env, m)
    BY <1>2, <2>1, WithStringSound
  <2> HIDE DEF new
  <2> QED
    BY <1>2, <2>1, <2>2
<1> QED
  BY <1>1, <1>2 DEF Kept

\* A call of setenv by a running process.
LEMMA EnvSetenv ==
  ASSUME FaultInv, EnvInv, NEW p \in Procs, NEW n \in Names, NEW v \in Values,
         syscall_setenv(p, n, v)
  PROVE  EnvInv'
<1>1. /\ pstate[p] = "running" /\ UNCHANGED pstate
      /\ environ' = [environ EXCEPT ![p] = WithString(@, n, v)]
      /\ latest' = IF n \in Plain THEN [latest EXCEPT ![p][n] = v] ELSE latest
      /\ aliased' = [aliased EXCEPT ![p] = @ \/ n \notin Plain]
  BY DEF syscall_setenv
<1>2. environ_size' = [environ_size EXCEPT ![p] =
                         IF eindex(environ[p], n) = 0 THEN Grown(Len(environ[p]), @) ELSE @]
  BY DEF syscall_setenv, EnvInv, EnvTypes
<1>3. /\ environ[p] \in Seq(Str) /\ environ_size[p] \in Nat /\ latest[p] \in [Plain -> Str]
      /\ aliased[p] \in BOOLEAN /\ v \in Str
  BY EnvironAssumption DEF EnvInv, EnvTypes, Str
<1>4. Kept(environ[p], environ_size[p], latest[p], aliased[p])
  BY <1>1 DEF EnvInv
<1>5. /\ environ'[p] = WithString(environ[p], n, v)
      /\ environ_size'[p] = IF eindex(environ[p], n) = 0 THEN Grown(Len(environ[p]), environ_size[p])
                            ELSE environ_size[p]
      /\ latest'[p] = IF n \in Plain THEN [latest[p] EXCEPT ![n] = v] ELSE latest[p]
      /\ aliased'[p] = (aliased[p] \/ n \notin Plain)
      /\ \A q \in Procs \ {p} : /\ environ'[q] = environ[q] /\ environ_size'[q] = environ_size[q]
                                /\ latest'[q] = latest[q] /\ aliased'[q] = aliased[q]
  BY <1>1, <1>2 DEF EnvInv, EnvTypes
<1>6. Kept(environ'[p], environ_size'[p], latest'[p], aliased'[p])
  BY <1>3, <1>4, <1>5, KeptBySetenv
<1>7. EnvTypes'
  <2>1. WithString(environ[p], n, v) \in Seq(Str)
    BY <1>3, WithStringLength
  <2>2. Grown(Len(environ[p]), environ_size[p]) \in Nat
    BY <1>3 DEF Grown
  <2>3. environ' \in [Procs -> Seq(Str)]
    BY <1>1, <2>1 DEF EnvInv, EnvTypes
  <2>4. environ_size' \in [Procs -> Nat]
    BY <1>2, <2>2 DEF EnvInv, EnvTypes
  <2>5. latest' \in [Procs -> [Plain -> Str]]
    BY <1>1, <1>3 DEF EnvInv, EnvTypes
  <2>6. aliased' \in [Procs -> BOOLEAN]
    BY <1>1 DEF EnvInv, EnvTypes
  <2> QED
    BY <2>3, <2>4, <2>5, <2>6 DEF EnvTypes
<1> QED
  BY <1>1, <1>5, <1>6, <1>7 DEF EnvInv

\* The child has the strings of its parent, in an array that is just large enough.
LEMMA EnvExec ==
  ASSUME FaultInv, EnvInv, NEW p \in Procs, NEW q \in Procs, NEW args,
         syscall_exec(p, q, args)
  PROVE  EnvInv'
<1>1. /\ pstate[p] = "running" /\ pstate[q] = "none"
      /\ pstate' = [pstate EXCEPT ![q] = "running"]
      /\ environ' = [environ EXCEPT ![q] = environ[p]]
      /\ environ_size' = [environ_size EXCEPT ![q] = Len(environ[p]) + 1]
      /\ latest' = [latest EXCEPT ![q] = latest[p]]
      /\ aliased' = [aliased EXCEPT ![q] = aliased[p]]
  BY DEF syscall_exec, EnvironFor
<1>2. environ[p] \in Seq(Str) /\ Len(environ[p]) \in Nat
  BY DEF EnvInv, EnvTypes
<1>3. EnvTypes'
  BY <1>1, <1>2 DEF EnvInv, EnvTypes
<1>4. Kept(environ[p], Len(environ[p]) + 1, latest[p], aliased[p])
  BY <1>1, <1>2 DEF EnvInv, Kept
<1>5. /\ environ'[q] = environ[p] /\ environ_size'[q] = Len(environ[p]) + 1
      /\ latest'[q] = latest[p] /\ aliased'[q] = aliased[p]
  BY <1>1 DEF EnvInv, EnvTypes
<1>6. \A r \in Procs \ {q} :
        /\ environ'[r] = environ[r] /\ environ_size'[r] = environ_size[r]
        /\ latest'[r] = latest[r] /\ aliased'[r] = aliased[r] /\ pstate'[r] = pstate[r]
  BY <1>1 DEF EnvInv, EnvTypes, FaultInv, FaultTypes
<1> QED
  BY <1>3, <1>4, <1>5, <1>6 DEF EnvInv

\* Every step.
LEMMA EnvStep == FaultInv /\ EnvInv /\ [Next]_vars => EnvInv'
<1> SUFFICES ASSUME FaultInv, EnvInv, [Next]_vars PROVE EnvInv'
  OBVIOUS
<1>1. ASSUME NEW t \in live PROVE town[t] \in Procs
  BY DEF FaultInv, LiveThreadsRun
<1>2. ASSUME NEW t \in Tids, NEW eno, exception_handle(t, eno) PROVE EnvInv'
  <2>1. town[t] \in Procs
    BY <1>1, <1>2 DEF exception_handle, Runs
  <2>2. \/ KeepProcess
        \/ \E err, why : KillFor(town[t], err, why)
        \/ \E err : CallHandler(town[t], t, err)
    BY <1>2 DEF exception_handle
  <2> QED
    BY <2>1, <2>2, EnvExit, EnvUntouched DEF KillFor, CallHandler, KeepProcess, KeepEnviron
<1>3. ASSUME NEW t \in Tids, syscall_eret(t) \/ syscall_exit(t) PROVE EnvInv'
  <2>1. town[t] \in Procs
    BY <1>1, <1>3 DEF syscall_eret, syscall_exit, Runs
  <2>2. KeepProcess \/ \E code : sched_exit_process(town[t], code)
    BY <1>3 DEF syscall_eret, syscall_exit
  <2> QED
    BY <2>1, <2>2, EnvExit, EnvUntouched DEF KeepProcess, KeepEnviron
<1>4. ASSUME NEW t \in Tids, NEW u \in Tids, NEW q \in Procs, NEW args, Exec(t, u, q, args)
      PROVE  EnvInv'
  BY <1>1, <1>4, EnvExec DEF Exec, Runs
<1>5. ASSUME NEW t \in Tids, Setenv(t) PROVE EnvInv'
  BY <1>1, <1>5, EnvSetenv DEF Setenv, Runs
<1>6. ASSUME NEW t \in Tids,
             \/ \E handler \in {"none", "libc", "own"} : syscall_ehndlr(t, handler)
             \/ \E u \in Tids : syscall_tfork(t, u)
             \/ syscall_texit(t)
             \/ Setup(t)
      PROVE  EnvInv'
  BY <1>6, EnvUntouched
     DEF syscall_ehndlr, syscall_tfork, syscall_texit, Setup, syscall_setup, environVars
<1>7. ASSUME NEW t \in Tids, NEW q \in Procs, sched_kill_process(t, q) PROVE EnvInv'
  BY <1>7, EnvExit DEF sched_kill_process
<1>8. CASE UNCHANGED vars
  BY <1>8, EnvUntouched DEF vars, environVars
<1> QED
  BY <1>2, <1>3, <1>4, <1>5, <1>6, <1>7, <1>8 DEF Next

\* The strengthened invariant holds in every state.
THEOREM EnvironInvariant == Spec => []EnvInv
<1>1. Init /\ [][Next]_vars => []EnvInv
  BY EnvInit, EnvStep, FaultInit, FaultStep, PTL
<1> QED
  BY <1>1 DEF Spec

\* A process reads back what was set last, whatever the names, the values and the
\* limits are, and setenv always has room for the NULL behind the strings.
THEOREM EnvironmentAgrees == Spec => []EnvAgrees
<1>1. EnvInv => EnvAgrees
  BY DEF EnvInv, EnvAgrees, Kept
<1> QED
  BY <1>1, EnvironInvariant, PTL

-----------------------------------------------------------------------------
(* Arguments.  kargv_user and syscall_setup go through the same vector: that *)
(* their runs exist, and what they have done after each string, is shown by  *)
(* induction over the number of strings.                                     *)

Arg == [len : Nat, ok : BOOLEAN]

\* Induction, for a set of numbers.
LEMMA AllNumbers ==
  ASSUME NEW T, 0 \in T, \A n \in Nat : n \in T => n + 1 \in T
  PROVE  Nat \subseteq T
<1> SUFFICES ASSUME Nat \ T # {} PROVE FALSE
  OBVIOUS
<1>1. Nat \ T \subseteq Nat
  OBVIOUS
<1>2. PICK x \in Nat \ T : \A y \in Nat \ T : ~(<<y, x>> \in OpToRel(<, Nat))
  BY <1>1, NatLessThanWellFounded, WFMin, Zenon
<1>3. \A y \in Nat \ T : ~(y < x)
  BY <1>2 DEF OpToRel
<1>4. x # 0 /\ x - 1 \in Nat /\ x - 1 < x /\ x = (x - 1) + 1
  OBVIOUS
<1>5. x - 1 \in T
  BY <1>3, <1>4
<1> QED BY <1>4, <1>5

\* What kargv_user has after n strings.
Kargv(f, args, n) == IF n = 0 THEN KargvStart ELSE KargvArg(f[n - 1], args[n])
IsKargv(f, args, m) == f = [n \in 0 .. m |-> Kargv(f, args, n)]

LEMMA KargvExists ==
  ASSUME NEW args, NEW len \in Nat
  PROVE  \E f : IsKargv(f, args, len)
<1> DEFINE T == {m \in Nat : \E f : IsKargv(f, args, m)}
<1>1. 0 \in T
  <2>1. PICK f : f = [n \in 0 .. 0 |-> KargvStart]
    OBVIOUS
  <2>2. \A n \in 0 .. 0 : Kargv(f, args, n) = KargvStart
    BY DEF Kargv
  <2>3. IsKargv(f, args, 0)
    BY <2>1, <2>2 DEF IsKargv
  <2> QED BY <2>3
<1>2. ASSUME NEW m \in Nat, m \in T PROVE m + 1 \in T
  <2>1. PICK f : f = [n \in 0 .. m |-> Kargv(f, args, n)]
    BY <1>2 DEF IsKargv
  <2>2. PICK x : x = Kargv(f, args, m + 1)
    OBVIOUS
  <2>3. PICK g : g = [n \in 0 .. m + 1 |-> IF n = m + 1 THEN x ELSE f[n]]
    OBVIOUS
  <2>4. \A n \in 0 .. m : n \in 0 .. m + 1 /\ n # m + 1 /\ g[n] = f[n]
    BY <2>3
  <2>5. ASSUME NEW n \in 0 .. m + 1 PROVE Kargv(g, args, n) = Kargv(f, args, n)
    <3>1. CASE n = 0
      BY <3>1 DEF Kargv
    <3>2. CASE n # 0
      <4>1. n - 1 \in 0 .. m
        BY <3>2
      <4>2. g[n - 1] = f[n - 1]
        BY <2>4, <4>1
      <4> QED BY <4>2 DEF Kargv
    <3> QED BY <3>1, <3>2
  <2>6. ASSUME NEW n \in 0 .. m + 1 PROVE g[n] = Kargv(g, args, n)
    <3>1. CASE n = m + 1
      BY <2>2, <2>3, <2>5, <3>1
    <3>2. CASE n # m + 1
      <4>1. n \in 0 .. m
        BY <3>2
      <4>2. f[n] = Kargv(f, args, n)
        BY <2>1, <4>1
      <4> QED BY <2>4, <2>5, <4>1, <4>2
    <3> QED BY <3>1, <3>2
  <2>7. IsKargv(g, args, m + 1)
    BY <2>3, <2>6 DEF IsKargv
  <2> QED BY <2>7
<1> HIDE DEF T
<1>3. len \in T
  BY <1>1, <1>2, AllNumbers
<1> QED BY <1>3 DEF T

\* kargv_user is the end of such a run.
LEMMA KargvRun ==
  ASSUME NEW args, Len(args) \in Nat
  PROVE  \E f : IsKargv(f, args, Len(args)) /\ kargv_user(args) = f[Len(args)]
<1> DEFINE f == CHOOSE f : f = [n \in 0 .. Len(args) |->
                                  IF n = 0 THEN KargvStart ELSE KargvArg(f[n - 1], args[n])]
<1>1. \E g : g = [n \in 0 .. Len(args) |->
                    IF n = 0 THEN KargvStart ELSE KargvArg(g[n - 1], args[n])]
  BY KargvExists DEF IsKargv, Kargv
<1>2. f = [n \in 0 .. Len(args) |-> IF n = 0 THEN KargvStart ELSE KargvArg(f[n - 1], args[n])]
  BY <1>1
<1>3. kargv_user(args) = f[Len(args)]
  BY DEF kargv_user
<1>4. IsKargv(f, args, Len(args))
  BY <1>2, Zenon DEF IsKargv, Kargv
<1> QED BY <1>3, <1>4

\* What setup has done after n strings.
Push(f, esp, args, n) ==
  IF n = 0 THEN [esp |-> esp, targv |-> <<>>, failed |-> FALSE]
  ELSE PushArg(f[n - 1], args[n])
IsPush(f, esp, args, m) == f = [n \in 0 .. m |-> Push(f, esp, args, n)]

LEMMA PushExists ==
  ASSUME NEW esp, NEW args, NEW len \in Nat
  PROVE  \E f : IsPush(f, esp, args, len)
<1> DEFINE T == {m \in Nat : \E f : IsPush(f, esp, args, m)}
<1>1. 0 \in T
  <2>1. PICK f : f = [n \in 0 .. 0 |-> [esp |-> esp, targv |-> <<>>, failed |-> FALSE]]
    OBVIOUS
  <2>2. \A n \in 0 .. 0 : Push(f, esp, args, n) = [esp |-> esp, targv |-> <<>>, failed |-> FALSE]
    BY DEF Push
  <2>3. IsPush(f, esp, args, 0)
    BY <2>1, <2>2 DEF IsPush
  <2> QED BY <2>3
<1>2. ASSUME NEW m \in Nat, m \in T PROVE m + 1 \in T
  <2>1. PICK f : f = [n \in 0 .. m |-> Push(f, esp, args, n)]
    BY <1>2 DEF IsPush
  <2>2. PICK x : x = Push(f, esp, args, m + 1)
    OBVIOUS
  <2>3. PICK g : g = [n \in 0 .. m + 1 |-> IF n = m + 1 THEN x ELSE f[n]]
    OBVIOUS
  <2>4. \A n \in 0 .. m : n \in 0 .. m + 1 /\ n # m + 1 /\ g[n] = f[n]
    BY <2>3
  <2>5. ASSUME NEW n \in 0 .. m + 1 PROVE Push(g, esp, args, n) = Push(f, esp, args, n)
    <3>1. CASE n = 0
      BY <3>1 DEF Push
    <3>2. CASE n # 0
      <4>1. n - 1 \in 0 .. m
        BY <3>2
      <4>2. g[n - 1] = f[n - 1]
        BY <2>4, <4>1
      <4> QED BY <4>2 DEF Push
    <3> QED BY <3>1, <3>2
  <2>6. ASSUME NEW n \in 0 .. m + 1 PROVE g[n] = Push(g, esp, args, n)
    <3>1. CASE n = m + 1
      BY <2>2, <2>3, <2>5, <3>1
    <3>2. CASE n # m + 1
      <4>1. n \in 0 .. m
        BY <3>2
      <4>2. f[n] = Push(f, esp, args, n)
        BY <2>1, <4>1
      <4> QED BY <2>4, <2>5, <4>1, <4>2
    <3> QED BY <3>1, <3>2
  <2>7. IsPush(g, esp, args, m + 1)
    BY <2>3, <2>6 DEF IsPush
  <2> QED BY <2>7
<1> HIDE DEF T
<1>3. len \in T
  BY <1>1, <1>2, AllNumbers
<1> QED BY <1>3 DEF T

\* Setup pushes the vector and two words after such a run.
LEMMA PushRun ==
  ASSUME NEW p, NEW esp, NEW args, useresp[p] = esp, argv[p] = args, Len(args) \in Nat
  PROVE  \E f : /\ IsPush(f, esp, args, Len(args))
                /\ Pushed(p) = PushWord(PushWord(f[Len(args)], 4 * (Len(args) + 1)), 8)
<1> DEFINE f == CHOOSE f : f = [n \in 0 .. Len(args) |->
                  IF n = 0 THEN [esp |-> esp, targv |-> <<>>, failed |-> FALSE]
                  ELSE PushArg(f[n - 1], args[n])]
<1>1. \E g : g = [n \in 0 .. Len(args) |->
                  IF n = 0 THEN [esp |-> esp, targv |-> <<>>, failed |-> FALSE]
                  ELSE PushArg(g[n - 1], args[n])]
  <2>1. PICK g : IsPush(g, esp, args, Len(args))
    BY PushExists
  <2> QED BY <2>1, Zenon DEF IsPush, Push
<1>2. f = [n \in 0 .. Len(args) |->
                  IF n = 0 THEN [esp |-> esp, targv |-> <<>>, failed |-> FALSE]
                  ELSE PushArg(f[n - 1], args[n])]
  BY <1>1
<1>3. Pushed(p) = PushWord(PushWord(f[Len(args)], 4 * (Len(args) + 1)), 8)
  BY DEF Pushed
<1>4. IsPush(f, esp, args, Len(args))
  BY <1>2, Zenon DEF IsPush, Push
<1> QED BY <1>3, <1>4

-----------------------------------------------------------------------------
(* What exec accepts, and where setup puts it.                              *)

\* What the run of kargv_user has found when it has read n strings without an error.
KargvSound(k, args, n) ==
  /\ k = [argc |-> k.argc, total |-> k.total, cap |-> k.cap, err |-> k.err]
  /\ k.argc \in Nat /\ k.total \in Nat /\ k.cap \in Nat
  /\ k.argc < k.cap
  /\ k.err = "none" => k.argc = n /\ n <= MAX_EXEC_ARGS /\ k.total <= MAX_EXEC_ARGS_TOTAL

LEMMA KargvStep ==
  ASSUME NEW k, NEW args \in Seq(Arg), NEW n \in Nat, n + 1 <= Len(args), KargvSound(k, args, n),
         NEW next, next = KargvArg(k, args[n + 1])
  PROVE  /\ KargvSound(next, args, n + 1)
         /\ next.err = "none" =>
              k.err = "none" /\ next.total = k.total + args[n + 1].len + 1
<1>1. args[n + 1] \in Arg
  OBVIOUS
<1>2. PICK arg \in Arg : arg = args[n + 1]
  BY <1>1
<1>3. arg.len \in Nat
  BY DEF Arg
<1>4. MAX_EXEC_ARGS \in Nat /\ MAX_EXEC_ARGS_TOTAL \in Nat
  BY EnvironAssumption
<1>5. CASE k.err # "none"
  <2>1. next = k
    BY <1>2, <1>5 DEF KargvArg
  <2> QED BY <1>5, <2>1 DEF KargvSound
<1>6. CASE /\ k.err = "none"
           /\ \/ k.argc >= MAX_EXEC_ARGS \/ ~arg.ok
              \/ arg.len >= MAX_EXEC_ARG_SIZE \/ arg.len + 1 > MAX_EXEC_ARGS_TOTAL - k.total
  <2>1. PICK e \in {"E2BIG", "EFAULT"} : next = [k EXCEPT !.err = e]
    BY <1>2, <1>6 DEF KargvArg
  <2>2. next = [argc |-> k.argc, total |-> k.total, cap |-> k.cap, err |-> e]
    BY <2>1 DEF KargvSound
  <2>3. next.err # "none"
    BY <2>1, <2>2
  <2> QED BY <2>2, <2>3 DEF KargvSound
<1>7. CASE /\ k.err = "none" /\ ~(k.argc >= MAX_EXEC_ARGS) /\ arg.ok
           /\ ~(arg.len >= MAX_EXEC_ARG_SIZE) /\ ~(arg.len + 1 > MAX_EXEC_ARGS_TOTAL - k.total)
  <2>1. next = [argc |-> k.argc + 1, total |-> k.total + arg.len + 1,
                cap |-> CapFor(k.argc, k.cap), err |-> "none"]
    BY <1>2, <1>7 DEF KargvArg
  <2>2. PICK argc \in Nat, cap \in Nat, total \in Nat :
          k.argc = argc /\ k.cap = cap /\ k.total = total
    BY DEF KargvSound
  <2>3. argc < cap /\ argc = n /\ argc < MAX_EXEC_ARGS
    BY <1>4, <1>7, <2>2 DEF KargvSound
  <2>4. CapFor(argc, cap) \in Nat /\ argc + 1 < CapFor(argc, cap)
    BY <1>4, <2>3 DEF CapFor
  <2>5. total + arg.len + 1 <= MAX_EXEC_ARGS_TOTAL
    BY <1>3, <1>4, <1>7, <2>2
  <2>6. next.argc = argc + 1 /\ next.total = total + arg.len + 1
        /\ next.cap = CapFor(argc, cap) /\ next.err = "none"
    BY <2>1, <2>2
  <2>7. next = [argc |-> next.argc, total |-> next.total, cap |-> next.cap, err |-> next.err]
    BY <2>1
  <2> QED BY <1>2, <1>3, <1>4, <1>7, <2>2, <2>3, <2>4, <2>5, <2>6, <2>7 DEF KargvSound
<1> QED BY <1>5, <1>6, <1>7

\* The strings on the stack: each below the one before, none over another, and the last
\* one not below the stack pointer.
Stacked(targv, args, n, esp) ==
  /\ targv \in Seq(Nat) /\ Len(targv) = n
  /\ \A i \in 1 .. n :
       /\ targv[i] >= esp
       /\ targv[i] + args[i].len + 1 <= IF i = 1 THEN USER_STACK_REGION_SIZE ELSE targv[i - 1]

\* What setup has done with n strings, of which kargv_user has counted total bytes.
PushSound(s, args, n, total) ==
  /\ s = [esp |-> s.esp, targv |-> s.targv, failed |-> FALSE]
  /\ s.esp \in Nat /\ Stacked(s.targv, args, n, s.esp)
  /\ s.targv # <<>> => s.targv[n] = s.esp
  /\ n = 0 => s.esp = USER_STACK_REGION_SIZE
  /\ \E words \in Nat : s.esp + 4 * words = USER_STACK_REGION_SIZE /\ 4 * words <= total + 3 * n

LEMMA PushStep ==
  ASSUME NEW s, NEW args \in Seq(Arg), NEW n \in Nat, n + 1 <= Len(args), NEW total \in Nat,
         PushSound(s, args, n, total),
         total + args[n + 1].len + 1 <= MAX_EXEC_ARGS_TOTAL, n + 1 <= MAX_EXEC_ARGS
  PROVE  PushSound(PushArg(s, args[n + 1]), args, n + 1, total + args[n + 1].len + 1)
<1>1. args[n + 1] \in Arg
  OBVIOUS
<1>2. PICK arg \in Arg : arg = args[n + 1]
  BY <1>1
<1>3. PICK len \in Nat : len = arg.len
  BY DEF Arg
<1>4. PICK esp \in Nat, targv \in Seq(Nat) : s = [esp |-> esp, targv |-> targv, failed |-> FALSE]
  BY DEF PushSound, Stacked
<1>5. s.esp = esp /\ s.targv = targv /\ s.failed = FALSE
  BY <1>4
<1>6. PICK words \in Nat : esp + 4 * words = USER_STACK_REGION_SIZE /\ 4 * words <= total + 3 * n
  BY <1>5 DEF PushSound
<1>7. PICK w \in Nat : w = (len + 1 + 3) \div 4
  OBVIOUS
<1>8. 4 * w <= len + 1 + 3 /\ 4 * w >= len + 1
  BY <1>7
<1>9. Aligned(arg) = 4 * w
  BY <1>3, <1>7 DEF Aligned
<1>10. MAX_EXEC_ARGS \in Nat /\ MAX_EXEC_ARGS_TOTAL \in Nat /\ USER_STACK_REGION_SIZE \in Nat
  BY EnvironAssumption
<1>11. 4 * (words + w) <= total + len + 1 + 3 * (n + 1)
  BY <1>6, <1>8
<1>12. 4 * (words + w) <= MAX_EXEC_ARGS_TOTAL + 3 * MAX_EXEC_ARGS
  BY <1>2, <1>3, <1>10, <1>11
<1>13. words + w <= (MAX_EXEC_ARGS_TOTAL + 3 * MAX_EXEC_ARGS) \div 4
  BY <1>10, <1>12
<1>14. 4 * (words + w) <= USER_STACK_REGION_SIZE
  BY <1>10, <1>13, StackAssumption
<1>15. PICK low \in Nat : low = esp - 4 * w
  BY <1>6, <1>10, <1>14
<1>16. PushArg(s, arg) = [esp |-> low, targv |-> Append(targv, low), failed |-> FALSE]
  <2>1. ~(s.failed \/ Aligned(arg) > s.esp)
    BY <1>5, <1>9, <1>15
  <2>2. PushArg(s, arg) = [s EXCEPT !.esp = @ - Aligned(arg), !.targv = Append(@, s.esp - Aligned(arg))]
    BY <2>1 DEF PushArg
  <2> QED BY <1>4, <1>5, <1>9, <1>15, <2>2
<1>17. PICK new \in Seq(Nat) : new = Append(targv, low)
  <2>1. Append(targv, low) \in Seq(Nat)
    BY <1>4, <1>15
  <2> QED BY <2>1
<1>18. Len(targv) = n /\ Len(new) = n + 1 /\ new[n + 1] = low /\ \A i \in 1 .. n : new[i] = targv[i]
  <2>1. Len(targv) = n
    BY <1>5 DEF PushSound, Stacked
  <2> QED BY <1>4, <1>15, <1>17, <2>1
<1>19. Stacked(new, args, n + 1, low)
  <2> SUFFICES ASSUME NEW i \in 1 .. n + 1
               PROVE  /\ new[i] >= low
                      /\ new[i] + args[i].len + 1
                           <= IF i = 1 THEN USER_STACK_REGION_SIZE ELSE new[i - 1]
    BY <1>18 DEF Stacked
  <2>1. CASE i = n + 1
    <3>1. low + len + 1 <= esp
      BY <1>8, <1>15
    <3>2. n = 0 => esp = USER_STACK_REGION_SIZE
      BY <1>5 DEF PushSound
    <3>3. n # 0 => new[n] = esp
      <4> SUFFICES ASSUME n # 0 PROVE new[n] = esp
        OBVIOUS
      <4>1. n \in 1 .. n /\ targv # <<>>
        BY <1>18
      <4> QED BY <1>5, <1>18, <4>1 DEF PushSound
    <3> QED BY <1>2, <1>3, <1>18, <2>1, <3>1, <3>2, <3>3
  <2>2. CASE i \in 1 .. n
    <3>1. targv[i] >= esp
          /\ targv[i] + args[i].len + 1 <= IF i = 1 THEN USER_STACK_REGION_SIZE ELSE targv[i - 1]
      BY <1>5, <2>2 DEF PushSound, Stacked
    <3>2. targv[i] \in Nat
      BY <1>18, <2>2
    <3>3. new[i] = targv[i] /\ (i # 1 => new[i - 1] = targv[i - 1])
      BY <1>18, <2>2
    <3>4. low <= esp
      BY <1>15
    <3> QED BY <3>1, <3>2, <3>3, <3>4
  <2> QED BY <2>1, <2>2
<1>20. PICK r : r = PushArg(s, arg)
  OBVIOUS
<1>21. r = [esp |-> r.esp, targv |-> r.targv, failed |-> FALSE] /\ r.esp = low /\ r.targv = new
  BY <1>16, <1>17, <1>20
<1>22. words + w \in Nat /\ low + 4 * (words + w) = USER_STACK_REGION_SIZE
  BY <1>6, <1>15
<1>23. PushSound(r, args, n + 1, total + len + 1)
  <2>1. new # <<>> /\ n + 1 # 0 /\ new[n + 1] = low
    BY <1>18
  <2>2. total + len + 1 + 3 * (n + 1) = (total + len + 1) + 3 * (n + 1)
    OBVIOUS
  <2>3. \E ws \in Nat : low + 4 * ws = USER_STACK_REGION_SIZE
                      /\ 4 * ws <= (total + len + 1) + 3 * (n + 1)
    BY <1>11, <1>22
  <2> QED BY <1>15, <1>19, <1>21, <2>1, <2>3 DEF PushSound
<1> QED BY <1>2, <1>3, <1>20, <1>23

\* What exec accepts.
Admitted(args) == args \in Seq(Arg) /\ kargv_user(args).err = "none"

\* The array has room for the NULL, and setup puts every string and the vector on the
\* stack, whatever kargv_user has let through.
LEMMA AcceptedFits ==
  ASSUME NEW args \in Seq(Arg)
  PROVE  kargv_user(args).argc < kargv_user(args).cap
<1> DEFINE len == Len(args)
<1>1. len \in Nat
  OBVIOUS
<1>2. PICK f : IsKargv(f, args, len) /\ kargv_user(args) = f[len]
  BY <1>1, KargvRun
<1>3. f = [n \in 0 .. len |-> Kargv(f, args, n)]
  BY <1>2 DEF IsKargv
<1> DEFINE T == {n \in Nat : n <= len => KargvSound(f[n], args, n)}
<1>4. 0 \in T
  <2>1. f[0] = KargvStart
    BY <1>1, <1>3 DEF Kargv
  <2>2. MAX_EXEC_ARGS \in Nat /\ MAX_EXEC_ARGS_TOTAL \in Nat
    BY EnvironAssumption
  <2> QED BY <2>1, <2>2 DEF KargvStart, KargvSound
<1>5. ASSUME NEW n \in Nat, n \in T PROVE n + 1 \in T
  <2> SUFFICES ASSUME n + 1 <= len PROVE KargvSound(f[n + 1], args, n + 1)
    OBVIOUS
  <2>1. KargvSound(f[n], args, n)
    BY <1>1, <1>5
  <2>2. f[n + 1] = KargvArg(f[n], args[n + 1])
    BY <1>1, <1>3 DEF Kargv
  <2> QED BY <2>1, <2>2, KargvStep
<1> HIDE DEF T
<1>6. len \in T
  BY <1>1, <1>4, <1>5, AllNumbers
<1> QED BY <1>1, <1>2, <1>6 DEF T, KargvSound

\* What syscall_setup leaves behind.
SetupDone(s, args) ==
  /\ ~s.failed /\ s.esp \in Nat
  /\ Stacked(s.targv, args, Len(args), s.esp + 8 + 4 * (Len(args) + 1))

LEMMA SetupFits ==
  ASSUME NEW p, NEW args, useresp[p] = USER_STACK_REGION_SIZE, argv[p] = args, Admitted(args)
  PROVE  SetupDone(Pushed(p), args)
<1>1. PICK len \in Nat : len = Len(args)
  BY DEF Admitted
<1>2. args \in Seq(Arg)
  BY DEF Admitted
<1>3. PICK f : IsKargv(f, args, len) /\ kargv_user(args) = f[len]
  BY <1>1, KargvRun
<1>4. f = [n \in 0 .. len |-> Kargv(f, args, n)]
  BY <1>3 DEF IsKargv
<1>5. f[len].err = "none"
  BY <1>3 DEF Admitted
<1>6. PICK g : /\ IsPush(g, USER_STACK_REGION_SIZE, args, len)
               /\ Pushed(p) = PushWord(PushWord(g[len], 4 * (len + 1)), 8)
  BY <1>1, PushRun
<1>7. g = [n \in 0 .. len |-> Push(g, USER_STACK_REGION_SIZE, args, n)]
  BY <1>6 DEF IsPush
<1>8. /\ MAX_EXEC_ARGS \in Nat /\ MAX_EXEC_ARGS_TOTAL \in Nat /\ USER_STACK_REGION_SIZE \in Nat
  BY EnvironAssumption
<1> DEFINE T == {n \in Nat : n <= len =>
                   /\ KargvSound(f[n], args, n)
                   /\ f[n].err = "none" => PushSound(g[n], args, n, f[n].total)}
<1>9. 0 \in T
  <2>1. f[0] = KargvStart
    BY <1>4 DEF Kargv
  <2>2. KargvSound(f[0], args, 0) /\ f[0].total = 0
    BY <1>8, <2>1 DEF KargvStart, KargvSound
  <2>3. PICK r : r = g[0]
    OBVIOUS
  <2>4. r = [esp |-> USER_STACK_REGION_SIZE, targv |-> <<>>, failed |-> FALSE]
    BY <1>7, <2>3 DEF Push
  <2>5. Stacked(<<>>, args, 0, USER_STACK_REGION_SIZE)
    BY DEF Stacked
  <2>6. USER_STACK_REGION_SIZE + 4 * 0 = USER_STACK_REGION_SIZE /\ 4 * 0 <= 0 + 3 * 0
    BY <1>8
  <2>7. PushSound(r, args, 0, 0)
    BY <1>8, <2>4, <2>5, <2>6 DEF PushSound
  <2> QED BY <2>2, <2>3, <2>7
<1>10. ASSUME NEW n \in Nat, n \in T PROVE n + 1 \in T
  <2> SUFFICES ASSUME n + 1 <= len
               PROVE  /\ KargvSound(f[n + 1], args, n + 1)
                      /\ f[n + 1].err = "none" => PushSound(g[n + 1], args, n + 1, f[n + 1].total)
    OBVIOUS
  <2>1. KargvSound(f[n], args, n) /\ (f[n].err = "none" => PushSound(g[n], args, n, f[n].total))
    BY <1>10
  <2>2. f[n + 1] = KargvArg(f[n], args[n + 1])
    BY <1>4 DEF Kargv
  <2>3. /\ KargvSound(f[n + 1], args, n + 1)
        /\ f[n + 1].err = "none" =>
             f[n].err = "none" /\ f[n + 1].total = f[n].total + args[n + 1].len + 1
    BY <1>1, <1>2, <2>1, <2>2, KargvStep
  <2>4. g[n + 1] = PushArg(g[n], args[n + 1])
    <3>1. g[n + 1] = Push(g, USER_STACK_REGION_SIZE, args, n + 1)
      BY <1>7
    <3>2. (n + 1) - 1 = n /\ n + 1 # 0
      OBVIOUS
    <3> QED BY ONLY <3>1, <3>2, Zenon DEF Push
  <2>5. ASSUME f[n + 1].err = "none" PROVE PushSound(g[n + 1], args, n + 1, f[n + 1].total)
    <3>1. n + 1 <= MAX_EXEC_ARGS /\ f[n + 1].total <= MAX_EXEC_ARGS_TOTAL
      BY <2>3, <2>5 DEF KargvSound
    <3>2. PICK total \in Nat : total = f[n].total
      BY <2>1 DEF KargvSound
    <3>3. PushSound(g[n], args, n, total)
      BY <2>1, <2>3, <2>5, <3>2
    <3>4. total + args[n + 1].len + 1 <= MAX_EXEC_ARGS_TOTAL
      BY <2>3, <2>5, <3>1, <3>2
    <3>5. PushSound(PushArg(g[n], args[n + 1]), args, n + 1, total + args[n + 1].len + 1)
      BY <1>1, <1>2, <3>1, <3>3, <3>4, PushStep
    <3> QED BY <2>3, <2>4, <2>5, <3>2, <3>5
  <2> QED BY <2>3, <2>5
<1> HIDE DEF T
<1>11. len \in T
  BY <1>9, <1>10, AllNumbers
<1>12. KargvSound(f[len], args, len) /\ PushSound(g[len], args, len, f[len].total)
  BY <1>5, <1>11 DEF T
<1>13. len <= MAX_EXEC_ARGS /\ f[len].total <= MAX_EXEC_ARGS_TOTAL /\ f[len].total \in Nat
  BY <1>5, <1>12 DEF KargvSound
<1>14. PICK total \in Nat : total = f[len].total
  BY <1>13
<1>15. PICK esp \in Nat, targv \in Seq(Nat) :
          g[len] = [esp |-> esp, targv |-> targv, failed |-> FALSE]
          /\ Stacked(targv, args, len, esp)
  BY <1>12 DEF PushSound, Stacked
<1>16. g[len].esp = esp
  BY <1>15
<1>17. PICK words \in Nat : esp + 4 * words = USER_STACK_REGION_SIZE /\ 4 * words <= total + 3 * len
  BY <1>12, <1>14, <1>16 DEF PushSound
<1>18. words <= (MAX_EXEC_ARGS_TOTAL + 3 * MAX_EXEC_ARGS) \div 4
  BY <1>8, <1>13, <1>14, <1>17
<1>19. 4 * (len + 1) + 8 <= esp
  BY <1>8, <1>13, <1>17, <1>18, StackAssumption
<1>20. PICK low \in Nat : low + 8 + 4 * (len + 1) = esp
  <2>1. esp - (4 * (len + 1) + 8) \in Nat
    BY <1>19
  <2>2. (esp - (4 * (len + 1) + 8)) + 8 + 4 * (len + 1) = esp
    OBVIOUS
  <2> QED BY <2>1, <2>2
<1>21. PushWord(g[len], 4 * (len + 1)) = [esp |-> low + 8, targv |-> targv, failed |-> FALSE]
  <2>1. PICK bytes \in Nat : bytes = 4 * (len + 1)
    OBVIOUS
  <2>2. esp - bytes = low + 8 /\ ~(bytes > esp)
    BY <1>20, <2>1
  <2>3. PICK s : s = g[len]
    OBVIOUS
  <2>4. s = [esp |-> esp, targv |-> targv, failed |-> FALSE]
    BY <1>15, <2>3
  <2>5. s.esp = esp /\ s.failed = FALSE
    BY <2>4
  <2>6. PushWord(s, bytes) = [s EXCEPT !.esp = s.esp - bytes]
    BY <2>2, <2>5 DEF PushWord
  <2>7. PushWord(s, bytes) = [esp |-> low + 8, targv |-> targv, failed |-> FALSE]
    BY <2>2, <2>4, <2>5, <2>6
  <2> QED BY <2>1, <2>3, <2>7
<1>22. Pushed(p) = [esp |-> low, targv |-> targv, failed |-> FALSE]
  <2>1. (low + 8) - 8 = low /\ ~(8 > low + 8)
    OBVIOUS
  <2> QED BY <1>6, <1>21, <2>1 DEF PushWord
<1>23. Stacked(targv, args, Len(args), low + 8 + 4 * (Len(args) + 1))
  BY <1>1, <1>15, <1>20
<1> QED BY <1>22, <1>23 DEF SetupDone

ArgTypes ==
  /\ argv \in [Procs -> Seq(Arg)] /\ setup \in [Procs -> {"no", "done", "failed"}]
  /\ useresp \in [Procs -> Nat] /\ uargv \in [Procs -> Seq(Nat)]

\* Before setup the stack is empty, and what a running process was given is what exec
\* accepts; afterwards everything lies on the stack.
Given(state, phase, args, esp, places) ==
  /\ state = "none" => phase = "no"
  /\ phase = "no" => /\ esp = USER_STACK_REGION_SIZE
                     /\ state = "running" => Admitted(args)
  /\ phase # "failed"
  /\ phase = "done" => Stacked(places, args, Len(args), esp + 8 + 4 * (Len(args) + 1))

ArgInv ==
  /\ ArgTypes
  /\ \A p \in Procs : Given(pstate[p], setup[p], argv[p], useresp[p], uargv[p])

\* The empty string that the first process is started with is something exec would accept.
LEMMA InitAdmitted == Admitted(<<[len |-> 0, ok |-> TRUE]>>)
<1>1. PICK args : args = <<[len |-> 0, ok |-> TRUE]>>
  OBVIOUS
<1>2. args \in Seq(Arg) /\ Len(args) = 1 /\ args[1] = [len |-> 0, ok |-> TRUE]
  BY <1>1 DEF Arg
<1>3. PICK f : IsKargv(f, args, 1) /\ kargv_user(args) = f[1]
  <2>1. PICK len : len = Len(args)
    OBVIOUS
  <2>2. Len(args) \in Nat /\ len = 1
    BY <1>2, <2>1
  <2>3. PICK f : IsKargv(f, args, Len(args)) /\ kargv_user(args) = f[Len(args)]
    BY <2>2, KargvRun
  <2> QED BY <2>1, <2>2, <2>3
<1>4. f = [n \in 0 .. 1 |-> Kargv(f, args, n)]
  BY <1>3 DEF IsKargv
<1>5. f[0] = KargvStart
  BY <1>4 DEF Kargv
<1>6. f[1] = KargvArg(f[0], args[1])
  <2>1. f[1] = Kargv(f, args, 1)
    BY <1>4
  <2> QED BY <2>1 DEF Kargv
<1>7. f[1] = KargvArg(KargvStart, [len |-> 0, ok |-> TRUE])
  BY <1>2, <1>5, <1>6
<1>8. /\ MAX_EXEC_ARGS \in Nat \ {0} /\ MAX_EXEC_ARG_SIZE \in Nat \ {0}
      /\ MAX_EXEC_ARGS_TOTAL \in Nat \ {0}
  BY EnvironAssumption
<1>9. f[1].err = "none"
  BY <1>7, <1>8 DEF KargvArg, KargvStart
<1> QED BY <1>1, <1>2, <1>3, <1>9 DEF Admitted

LEMMA ArgInit == Init => ArgInv
<1> SUFFICES ASSUME Init PROVE ArgInv
  OBVIOUS
<1>1. /\ [len |-> 0, ok |-> TRUE] \in Arg /\ <<>> \in Seq(Arg) /\ <<>> \in Seq(Nat)
      /\ USER_STACK_REGION_SIZE \in Nat
  BY EnvironAssumption DEF Arg
<1>2. PICK args \in Seq(Arg) : args = <<[len |-> 0, ok |-> TRUE]>>
  <2>1. <<[len |-> 0, ok |-> TRUE]>> \in Seq(Arg)
    BY InitAdmitted DEF Admitted
  <2> QED BY ONLY <2>1, Zenon
<1>3. /\ pstate = [p \in Procs |-> IF p = InitProc THEN "running" ELSE "none"]
      /\ argv = [p \in Procs |-> IF p = InitProc THEN args ELSE <<>>]
      /\ setup = [p \in Procs |-> "no"]
      /\ useresp = [p \in Procs |-> USER_STACK_REGION_SIZE]
      /\ uargv = [p \in Procs |-> <<>>]
  BY <1>2 DEF Init, EnvironInit
<1>4. ArgTypes
  BY <1>1, <1>3 DEF ArgTypes
<1>5. Admitted(args)
  BY <1>2, InitAdmitted
<1> QED BY <1>3, <1>4, <1>5 DEF ArgInv, Given

\* A step that leaves arguments and stacks alone.
LEMMA ArgUntouched ==
  ASSUME ArgInv, UNCHANGED <<pstate, argv, setup, useresp, uargv>>
  PROVE  ArgInv'
BY DEF ArgInv, ArgTypes

\* Nothing remains of a process that has ended.
LEMMA ArgExit ==
  ASSUME FaultInv, ArgInv, NEW p \in Procs, NEW code, sched_exit_process(p, code)
  PROVE  ArgInv'
<1>1. /\ pstate' = [pstate EXCEPT ![p] = "exited"]
      /\ argv' = [argv EXCEPT ![p] = <<>>] /\ uargv' = [uargv EXCEPT ![p] = <<>>]
      /\ useresp' = [useresp EXCEPT ![p] = USER_STACK_REGION_SIZE]
      /\ setup' = [setup EXCEPT ![p] = "no"]
  BY DEF sched_exit_process, EnvironFree
<1>2. <<>> \in Seq(Arg) /\ <<>> \in Seq(Nat) /\ USER_STACK_REGION_SIZE \in Nat
  BY EnvironAssumption
<1>3. ArgTypes'
  BY <1>1, <1>2 DEF ArgInv, ArgTypes
<1>4. /\ pstate'[p] = "exited" /\ setup'[p] = "no" /\ useresp'[p] = USER_STACK_REGION_SIZE
      /\ \A q \in Procs \ {p} :
           /\ pstate'[q] = pstate[q] /\ argv'[q] = argv[q] /\ setup'[q] = setup[q]
           /\ useresp'[q] = useresp[q] /\ uargv'[q] = uargv[q]
  BY <1>1 DEF FaultInv, FaultTypes, ArgInv, ArgTypes
<1>5. Given("exited", "no", argv'[p], USER_STACK_REGION_SIZE, uargv'[p])
  BY DEF Given
<1> QED BY <1>3, <1>4, <1>5 DEF ArgInv

\* A child has not been set up, and has what exec accepted.
LEMMA ArgExec ==
  ASSUME FaultInv, ArgInv, NEW p \in Procs, NEW q \in Procs, NEW args, syscall_exec(p, q, args)
  PROVE  ArgInv'
<1>1. /\ pstate[q] = "none" /\ args \in Accepted
      /\ pstate' = [pstate EXCEPT ![q] = "running"]
      /\ argv' = [argv EXCEPT ![q] = args]
      /\ UNCHANGED <<setup, useresp, uargv>>
  BY DEF syscall_exec
<1>2. Admitted(args) /\ args \in Seq(Arg)
  BY <1>1, EnvironAssumption DEF Accepted, Admitted, Arg
<1>3. ArgTypes'
  BY <1>1, <1>2 DEF ArgInv, ArgTypes
<1>4. setup[q] = "no" /\ useresp[q] = USER_STACK_REGION_SIZE
  BY <1>1 DEF ArgInv, Given
<1>5. /\ argv'[q] = args
      /\ \A r \in Procs \ {q} : pstate'[r] = pstate[r] /\ argv'[r] = argv[r]
  BY <1>1 DEF FaultInv, FaultTypes, ArgInv, ArgTypes
<1>6. Given(pstate'[q], "no", args, USER_STACK_REGION_SIZE, uargv[q])
  <2>1. pstate'[q] = "running"
    BY <1>1 DEF FaultInv, FaultTypes
  <2> QED BY <1>2, <2>1 DEF Given
<1> QED BY <1>1, <1>3, <1>4, <1>5, <1>6 DEF ArgInv

\* Setup pushes everything.
LEMMA ArgSetup ==
  ASSUME ArgInv, NEW p \in Procs, syscall_setup(p)
  PROVE  ArgInv'
<1>1. pstate[p] = "running" /\ setup[p] = "no"
  BY DEF syscall_setup
<1>2. PICK args : args = argv[p]
  OBVIOUS
<1>3. Admitted(args) /\ useresp[p] = USER_STACK_REGION_SIZE
  BY <1>1, <1>2 DEF ArgInv, Given
<1>4. PICK s : s = Pushed(p)
  OBVIOUS
<1>5. SetupDone(s, args)
  BY <1>2, <1>3, <1>4, SetupFits
<1>6. /\ ~s.failed /\ s.esp \in Nat /\ s.targv \in Seq(Nat)
      /\ Stacked(s.targv, args, Len(args), s.esp + 8 + 4 * (Len(args) + 1))
  BY <1>5 DEF SetupDone, Stacked
<1>7. /\ useresp' = [useresp EXCEPT ![p] = s.esp] /\ uargv' = [uargv EXCEPT ![p] = s.targv]
      /\ setup' = [setup EXCEPT ![p] = "done"] /\ UNCHANGED <<pstate, argv>>
  BY <1>4, <1>6 DEF syscall_setup
<1>8. ArgTypes'
  BY <1>6, <1>7 DEF ArgInv, ArgTypes
<1>9. /\ useresp'[p] = s.esp /\ uargv'[p] = s.targv /\ setup'[p] = "done"
      /\ \A q \in Procs \ {p} :
           useresp'[q] = useresp[q] /\ uargv'[q] = uargv[q] /\ setup'[q] = setup[q]
  BY <1>7 DEF ArgInv, ArgTypes
<1>10. Given("running", "done", args, s.esp, s.targv)
  BY <1>6 DEF Given
<1> QED BY <1>1, <1>2, <1>7, <1>8, <1>9, <1>10 DEF ArgInv

\* Every step.
LEMMA ArgStep == FaultInv /\ ArgInv /\ [Next]_vars => ArgInv'
<1> SUFFICES ASSUME FaultInv, ArgInv, [Next]_vars PROVE ArgInv'
  OBVIOUS
<1>1. ASSUME NEW t \in live PROVE town[t] \in Procs
  BY DEF FaultInv, LiveThreadsRun
<1>2. ASSUME NEW t \in Tids, NEW eno, exception_handle(t, eno) PROVE ArgInv'
  <2>1. town[t] \in Procs
    BY <1>1, <1>2 DEF exception_handle, Runs
  <2>2. \/ KeepProcess
        \/ \E err, why : KillFor(town[t], err, why)
        \/ \E err : CallHandler(town[t], t, err)
    BY <1>2 DEF exception_handle
  <2> QED
    BY <2>1, <2>2, ArgExit, ArgUntouched DEF KillFor, CallHandler, KeepProcess, KeepEnviron
<1>3. ASSUME NEW t \in Tids, syscall_eret(t) \/ syscall_exit(t) PROVE ArgInv'
  <2>1. town[t] \in Procs
    BY <1>1, <1>3 DEF syscall_eret, syscall_exit, Runs
  <2>2. KeepProcess \/ \E code : sched_exit_process(town[t], code)
    BY <1>3 DEF syscall_eret, syscall_exit
  <2> QED
    BY <2>1, <2>2, ArgExit, ArgUntouched DEF KeepProcess, KeepEnviron
<1>4. ASSUME NEW t \in Tids, NEW u \in Tids, NEW q \in Procs, NEW args, Exec(t, u, q, args)
      PROVE  ArgInv'
  BY <1>1, <1>4, ArgExec DEF Exec, Runs
<1>5. ASSUME NEW t \in Tids, Setup(t) PROVE ArgInv'
  BY <1>1, <1>5, ArgSetup DEF Setup, Runs
<1>6. ASSUME NEW t \in Tids,
             \/ \E handler \in {"none", "libc", "own"} : syscall_ehndlr(t, handler)
             \/ \E u \in Tids : syscall_tfork(t, u)
             \/ syscall_texit(t)
             \/ Setenv(t)
      PROVE  ArgInv'
  BY <1>6, ArgUntouched
     DEF syscall_ehndlr, syscall_tfork, syscall_texit, Setenv, syscall_setenv, environVars
<1>7. ASSUME NEW t \in Tids, NEW q \in Procs, sched_kill_process(t, q) PROVE ArgInv'
  BY <1>7, ArgExit DEF sched_kill_process
<1>8. CASE UNCHANGED vars
  BY <1>8, ArgUntouched DEF vars, environVars
<1> QED
  BY <1>2, <1>3, <1>4, <1>5, <1>6, <1>7, <1>8 DEF Next

\* The strengthened invariant holds in every state.
THEOREM ArgumentInvariant == Spec => []ArgInv
<1>1. Init /\ [][Next]_vars => []ArgInv
  BY ArgInit, ArgStep, FaultInit, FaultStep, PTL
<1> QED
  BY <1>1 DEF Spec

\* What exec lets through, setup can always push, every string in its own place, for
\* every choice of the limits that satisfies StackAssumption.
THEOREM ArgumentsReachStack == Spec => []ArgumentsArrive
<1>1. ArgInv => ArgumentsArrive
  <2> SUFFICES ASSUME ArgInv PROVE ArgumentsArrive
    OBVIOUS
  <2>1. ASSUME NEW args \in Accepted PROVE kargv_user(args).argc < kargv_user(args).cap
    <3>1. args \in Seq(Arg)
      BY EnvironAssumption DEF Accepted, Arg
    <3> QED BY <3>1, AcceptedFits
  <2>2. ASSUME NEW p \in Procs
        PROVE  /\ setup[p] # "failed"
               /\ setup[p] = "done" =>
                    Stacked(uargv[p], argv[p], Len(argv[p]), useresp[p] + 8 + 4 * (Len(argv[p]) + 1))
    BY DEF ArgInv, Given
  <2>3. ASSUME NEW p \in Procs, setup[p] = "done"
        PROVE  /\ Len(uargv[p]) = Len(argv[p])
               /\ \A i \in DOMAIN uargv[p] :
                    /\ uargv[p][i] >= useresp[p] + 8 + 4 * (Len(argv[p]) + 1)
                    /\ uargv[p][i] + argv[p][i].len + 1
                         <= IF i = 1 THEN USER_STACK_REGION_SIZE ELSE uargv[p][i - 1]
    <3>1. Stacked(uargv[p], argv[p], Len(argv[p]), useresp[p] + 8 + 4 * (Len(argv[p]) + 1))
      BY <2>2, <2>3
    <3>2. DOMAIN uargv[p] = 1 .. Len(argv[p])
      BY <3>1 DEF Stacked
    <3> QED BY <3>1, <3>2 DEF Stacked
  <2> QED BY <2>1, <2>2, <2>3 DEF ArgumentsArrive
<1> QED
  BY <1>1, ArgumentInvariant, PTL

=============================================================================
