------------------------------- MODULE Environ -------------------------------
(***************************************************************************)
(* What a process is given: its environment (syscall_setenv and             *)
(* syscall_getenv, copied by the loader) and its arguments (read by         *)
(* kargv_user at exec, kept by the loader, pushed on the new stack by        *)
(* syscall_setup).                                                          *)
(*                                                                          *)
(* A string of the environment is the sequence of its parts between equal    *)
(* signs: "A=x" is <<"A", "x">>.  A name may contain an equal sign too, and  *)
(* is then a sequence of several parts.  An argument is its length, and      *)
(* whether the caller can read it.                                          *)
(***************************************************************************)
EXTENDS Naturals, Sequences, FiniteSets, SequencesExt

CONSTANTS Procs, InitProc,         \* processes; init is the first
          Names, Values,           \* of setenv, as sequences of parts
          MAX_ENVIRON_VARS,
          Vectors,                 \* the argument vectors given to exec
          MAX_EXEC_ARGS, MAX_EXEC_ARG_SIZE, MAX_EXEC_ARGS_TOTAL,
          USER_STACK_REGION_SIZE,
          MaxEvents                \* bound on calls of setenv and exceptions together

ASSUME EnvironAssumption ==
  /\ InitProc \in Procs
  /\ Names \cup Values \subseteq Seq(STRING) \ {<<>>}
  /\ Vectors \subseteq Seq([len : Nat, ok : BOOLEAN])
  /\ {MAX_ENVIRON_VARS, USER_STACK_REGION_SIZE} \subseteq Nat
  /\ {MAX_EXEC_ARGS, MAX_EXEC_ARG_SIZE, MAX_EXEC_ARGS_TOTAL} \subseteq Nat \ {0}

\* A stack region holds what the limits of kargv_user admit: the strings, each rounded
\* up to a multiple of 4, the vector with its NULL, argv and argc.
ASSUME StackAssumption ==
  4 * ((MAX_EXEC_ARGS_TOTAL + 3 * MAX_EXEC_ARGS) \div 4) + 4 * (MAX_EXEC_ARGS + 1) + 8
    <= USER_STACK_REGION_SIZE

VARIABLES
  pstate,         \* "none", "running" or "exited"
  environ,        \* strings
  environ_size,   \* room in the array
  argv,           \* the arguments the loader keeps
  setup,          \* what crt0 has done: "no", "done" or "failed"
  useresp,        \* of the first thread, from the base of its stack region
  uargv,          \* the arguments on the stack: their places, in order
  latest,         \* ghost: the last value given to each plain name, or NotSet
  aliased,        \* ghost: some name with an equal sign was set
  events          \* calls of setenv and exceptions so far

environVars == <<pstate, environ, environ_size, argv, setup, useresp, uargv,
                 latest, aliased, events>>

NotSet == <<>>
Plain == {n \in Names : Len(n) = 1}

EnvironInit ==
  /\ pstate = [p \in Procs |-> IF p = InitProc THEN "running" ELSE "none"]
  /\ environ = [p \in Procs |-> <<>>]
  /\ environ_size = [p \in Procs |-> IF p = InitProc THEN 1 ELSE 0]
  /\ argv = [p \in Procs |-> IF p = InitProc THEN <<[len |-> 0, ok |-> TRUE]>> ELSE <<>>]
  /\ setup = [p \in Procs |-> "no"]
  /\ useresp = [p \in Procs |-> USER_STACK_REGION_SIZE]
  /\ uargv = [p \in Procs |-> <<>>]
  /\ latest = [p \in Procs |-> [n \in Plain |-> NotSet]]
  /\ aliased = [p \in Procs |-> FALSE]
  /\ events = 0

-----------------------------------------------------------------------------
(* The environment.                                                        *)

\* The string is longer than the name and begins with it and an equal sign.
Matches(var, name) == Len(var) > Len(name) /\ SubSeq(var, 1, Len(name)) = name

\* The place of the first string of env that matches, or 0.
eindex(env, name) == SelectInSeq(env, LAMBDA var : Matches(var, name))

\* syscall_getenv, of a buffer that is large enough.
getenv(env, name) ==
  LET i == eindex(env, name)
  IN  IF i = 0 THEN NotSet ELSE SubSeq(env[i], Len(name) + 1, Len(env[i]))

\* The string replaces the one that was found, or is put behind the others.
WithString(env, name, value) ==
  LET i == eindex(env, name)
  IN  IF i = 0 THEN Append(env, name \o value) ELSE [env EXCEPT ![i] = name \o value]

\* The room in the array before a string is added to count of them.
Grown(count, size) ==
  IF count + 1 < size THEN size
  ELSE IF size = 0 THEN 4
  ELSE IF size * 2 <= count THEN count + 4 ELSE size * 2

syscall_setenv(p, name, value) ==
  /\ pstate[p] = "running" /\ setup[p] # "no"
  /\ events < MaxEvents /\ events' = events + 1
  /\ IF eindex(environ[p], name) = 0
     THEN /\ Len(environ[p]) < MAX_ENVIRON_VARS
          /\ environ_size' = [environ_size EXCEPT ![p] = Grown(Len(environ[p]), @)]
     ELSE UNCHANGED environ_size
  /\ environ' = [environ EXCEPT ![p] = WithString(@, name, value)]
  /\ latest' = IF name \in Plain THEN [latest EXCEPT ![p][name] = value] ELSE latest
  /\ aliased' = [aliased EXCEPT ![p] = @ \/ name \notin Plain]
  /\ UNCHANGED <<pstate, argv, setup, useresp, uargv>>

-----------------------------------------------------------------------------
(* Arguments.                                                              *)

KargvStart == [argc |-> 0, total |-> 0, cap |-> 8, err |-> "none"]

\* The array's room before the string number argc is put there.
CapFor(argc, cap) ==
  IF argc + 1 < cap THEN cap
  ELSE IF cap * 2 > MAX_EXEC_ARGS + 1 THEN MAX_EXEC_ARGS + 1 ELSE cap * 2

\* One turn of the loop of kargv_user.
KargvArg(k, arg) ==
  IF k.err # "none" THEN k
  ELSE IF k.argc >= MAX_EXEC_ARGS THEN [k EXCEPT !.err = "E2BIG"]
  ELSE IF ~arg.ok THEN [k EXCEPT !.err = "EFAULT"]
  ELSE IF arg.len >= MAX_EXEC_ARG_SIZE \/ arg.len + 1 > MAX_EXEC_ARGS_TOTAL - k.total
  THEN [k EXCEPT !.err = "E2BIG"]
  ELSE [argc |-> k.argc + 1, total |-> k.total + arg.len + 1,
        cap |-> CapFor(k.argc, k.cap), err |-> "none"]

kargv_user(args) ==
  LET after[n \in 0 .. Len(args)] ==
        IF n = 0 THEN KargvStart ELSE KargvArg(after[n - 1], args[n])
  IN  after[Len(args)]

Accepted == {args \in Vectors : kargv_user(args).err = "none"}

\* Faulty variant: the child starts with an environment of its own.
EnvironOfKernel(p) == <<>>

\* The loader copies the strings of the caller.
EnvironFor(p) == environ[p]

\* syscall_exec, when the file is there: q is the new process.
syscall_exec(p, q, args) ==
  /\ pstate[p] = "running" /\ pstate[q] = "none"
  /\ args \in Accepted
  /\ pstate' = [pstate EXCEPT ![q] = "running"]
  /\ argv' = [argv EXCEPT ![q] = args]
  /\ environ' = [environ EXCEPT ![q] = EnvironFor(p)]
  /\ environ_size' = [environ_size EXCEPT ![q] = Len(environ[p]) + 1]
  /\ latest' = [latest EXCEPT ![q] = latest[p]]
  /\ aliased' = [aliased EXCEPT ![q] = aliased[p]]
  /\ UNCHANGED <<setup, useresp, uargv, events>>

\* Faulty variant: the room is rounded down.
AlignedDown(arg) == ((arg.len + 1) \div 4) * 4

\* Room for a string on the stack, a multiple of 4.
Aligned(arg) == ((arg.len + 1 + 3) \div 4) * 4

\* One string is pushed, if it fits between the stack pointer and the base.
PushArg(s, arg) ==
  IF s.failed \/ Aligned(arg) > s.esp THEN [s EXCEPT !.failed = TRUE]
  ELSE [s EXCEPT !.esp = @ - Aligned(arg), !.targv = Append(@, s.esp - Aligned(arg))]

PushWord(s, bytes) ==
  IF s.failed \/ bytes > s.esp THEN [s EXCEPT !.failed = TRUE]
  ELSE [s EXCEPT !.esp = @ - bytes]

\* syscall_setup: the strings, the vector with its NULL, then argv and argc.
Pushed(p) ==
  LET after[n \in 0 .. Len(argv[p])] ==
        IF n = 0 THEN [esp |-> useresp[p], targv |-> <<>>, failed |-> FALSE]
        ELSE PushArg(after[n - 1], argv[p][n])
  IN  PushWord(PushWord(after[Len(argv[p])], 4 * (Len(argv[p]) + 1)), 8)

\* crt0 calls it first and does not look at what it returns.
syscall_setup(p) ==
  /\ pstate[p] = "running" /\ setup[p] = "no"
  /\ LET s == Pushed(p)
     IN  /\ useresp' = [useresp EXCEPT ![p] = s.esp]
         /\ uargv' = [uargv EXCEPT ![p] = IF s.failed THEN <<>> ELSE s.targv]
         /\ setup' = [setup EXCEPT ![p] = IF s.failed THEN "failed" ELSE "done"]
  /\ UNCHANGED <<pstate, environ, environ_size, argv, latest, aliased, events>>

\* When p has ended nothing of it remains.
EnvironFree(p) ==
  /\ environ' = [environ EXCEPT ![p] = <<>>]
  /\ environ_size' = [environ_size EXCEPT ![p] = 0]
  /\ argv' = [argv EXCEPT ![p] = <<>>] /\ uargv' = [uargv EXCEPT ![p] = <<>>]
  /\ useresp' = [useresp EXCEPT ![p] = USER_STACK_REGION_SIZE]
  /\ setup' = [setup EXCEPT ![p] = "no"]
  /\ latest' = [latest EXCEPT ![p] = [n \in Plain |-> NotSet]]
  /\ aliased' = [aliased EXCEPT ![p] = FALSE]

KeepEnviron ==
  UNCHANGED <<environ, environ_size, argv, setup, useresp, uargv, latest, aliased>>

-----------------------------------------------------------------------------
\* A process reads back what it or, before its exec, its parent gave a name last,
\* whatever others set meanwhile, and the array of strings always has room for the
\* NULL that setenv puts behind them (syscall_getenv and syscall_setenv,
\* syscall.c:292-391; pload.c:80).  Names that contain an equal sign are taken but
\* found under shorter names, and left out.
EnvAgrees ==
  \A p \in Procs : pstate[p] = "running" =>
    /\ Len(environ[p]) < environ_size[p]
    /\ ~aliased[p] => \A n \in Plain : getenv(environ[p], n) = latest[p][n]

\* What exec accepts fits the array of kargv_user with the NULL that ends it, and
\* setup can always push it within the stack region, every string where its
\* pointer says and none over another: nobody looks at the error setup returns
\* (crt0.S:7; the limits are in syscall.c:47-52).
ArgumentsArrive ==
  /\ \A args \in Accepted : kargv_user(args).argc < kargv_user(args).cap
  /\ \A p \in Procs :
       /\ setup[p] # "failed"
       /\ setup[p] = "done" =>
            /\ Len(uargv[p]) = Len(argv[p])
            /\ \A i \in DOMAIN uargv[p] :
                 /\ uargv[p][i] >= useresp[p] + 8 + 4 * (Len(argv[p]) + 1)
                 /\ uargv[p][i] + argv[p][i].len + 1
                      <= IF i = 1 THEN USER_STACK_REGION_SIZE ELSE uargv[p][i - 1]

=============================================================================
