------------------------------ MODULE Console ------------------------------
(***************************************************************************)
(* The way of a character: a key on the PS/2 keyboard, the interrupt, the  *)
(* ring of the driver, the read system call (which suspends the thread     *)
(* until interrupt 1 when there is nothing), the shell's line (gsh), and    *)
(* its echo on the text terminal.                                           *)
(***************************************************************************)
EXTENDS Ps2, Terminal

CONSTANTS MAX_BUF,     \* size of the shell's line; 1024 in the code
          BootScreens, \* the screens that the kernel's log may leave
          Printable    \* the characters that commands print

\* The line of the shell and its prompt fit on the rows above the last one, as
\* 1023 characters do on 24 rows of 80.  The log ends with the cursor on the
\* screen; no command of the repository makes a backspace of its own.
ASSUME ConsoleAssumption ==
  /\ MAX_BUF \in Nat \ {0, 1}
  /\ MAX_BUF - 1 <= (VGA_HEIGHT - 1) * VGA_WIDTH
  /\ \A s \in BootScreens : IsScreen(s)
  /\ "bs" \notin Printable

VARIABLES
  handling,   \* the port whose interrupt is being handled, or 0
  shell,      \* what the shell's thread is about to do, or "suspended"
  wait,       \* the interrupt the thread was suspended for
  ch,         \* the character read
  line,       \* the shell's buffer up to i
  screen

consoleVars == <<handling, shell, wait, ch, line, screen>>
vars == <<ps2Vars, consoleVars>>

Init ==
  /\ Ps2Init
  /\ handling = 0 /\ shell = "prompt" /\ wait = 0 /\ ch = "none" /\ line = <<>>
  /\ screen \in BootScreens

Up == ps2pc = <<"done", 0>>

-----------------------------------------------------------------------------
(* Interrupts.                                                             *)

\* irq_handler up to the call of the handler: the commands of the keyboard, then
\* sched_check_suspended_threads.
EnterIrq(irq) ==
  /\ Up /\ handling = 0
  /\ ps2kb_loop
  /\ shell' = IF shell = "suspended" /\ wait = irq THEN "read" ELSE shell
  /\ UNCHANGED <<plugged, obf, setupVars, queue, decoderVars, typistVars, late,
                 wait, ch, line, screen>>

IrqOf(p) == IF p = 1 THEN 1 ELSE 12

\* A byte that no handler reads stays, and may interrupt again.
KeyboardIrq ==
  /\ obf # Empty
  /\ EnterIrq(IrqOf(obf.port)) /\ handling' = obf.port

TimerIrq == EnterIrq(0) /\ UNCHANGED handling

\* ps2kb_handler is installed for port 1, port 2 or neither.
ps2kb_handler ==
  /\ handling # 0 /\ handling' = 0
  /\ IF port # handling
     THEN UNCHANGED <<wireVars, commandVars, decoderVars, lost, faults>>
     ELSE /\ obf' = Empty
          /\ meant' = IF obf.char = "none" THEN meant
                      ELSE WithChar(meant, obf.char)
          /\ CASE obf.byte = "FA" ->
                    /\ ps2kb_succeed_command
                    /\ UNCHANGED <<outbox, state, keydown, keybuf, lost, faults>>
               [] obf.byte = "FE" ->
                    /\ ps2kb_resend_command
                    /\ UNCHANGED <<queue, state, keydown, keybuf>>
               [] OTHER ->
                    /\ ps2kb_decode(obf.byte)
                    /\ UNCHANGED <<outbox, commandVars, lost, faults>>
  /\ UNCHANGED <<plugged, setupVars, typistVars, late,
                 shell, wait, ch, line, screen>>

-----------------------------------------------------------------------------
(* The shell.  System calls run with interrupts off.                       *)

Runs(pc) == Up /\ handling = 0 /\ shell = pc
KeepPs2 == UNCHANGED ps2Vars

\* The prompt, and a new line.
Prompt ==
  /\ Runs("prompt") /\ KeepPs2
  /\ screen' = terminal_putchar(screen, "$")
  /\ line' = <<>> /\ shell' = "read"
  /\ UNCHANGED <<handling, wait, ch>>

\* Faulty variant: interrupt 12, where a keyboard of port 2 is.
ReadIrqOfPort2 == 12

\* The interrupt sched_suspend_thread is given.
ReadIrq == 1

\* syscall_read of one character: libc asks again when it returns 0.
syscall_read ==
  /\ Runs("read")
  /\ LET got == ps2kb_read_chars(1)
     IN  IF got = <<>>
         THEN /\ shell' = "suspended" /\ wait' = ReadIrq
              /\ UNCHANGED <<keybuf, meant, ch>>
         ELSE /\ shell' = "echo" /\ ch' = Head(got)
              /\ keybuf' = Tail(keybuf)
              /\ meant' = (IF meant = <<>> THEN <<>> ELSE Tail(meant))
              /\ UNCHANGED wait
  /\ UNCHANGED <<wireVars, setupVars, commandVars, state, keydown, typistVars,
                 ghostVars, handling, line, screen>>

\* The shell's loop after a character: the line ends at a newline or when the
\* buffer is full.
Echo ==
  /\ Runs("echo") /\ KeepPs2
  /\ IF ch = "bs" /\ line = <<>>
     THEN shell' = "read" /\ UNCHANGED <<line, screen>>
     ELSE /\ screen' = terminal_putchar(screen, ch)
          /\ line' = CASE ch = "bs" -> Front(line)
                       [] ch = "nl" -> line
                       [] OTHER -> Append(line, ch)
          /\ shell' = IF ch = "nl" \/ Len(line') = MAX_BUF - 1 THEN "run" ELSE "read"
  /\ UNCHANGED <<handling, wait, ch>>

\* The command prints, one character after the other; an empty line is no
\* command.
Output ==
  /\ Runs("run") /\ KeepPs2
  /\ line # <<>>
  /\ \E c \in Printable : screen' = terminal_putchar(screen, c)
  /\ UNCHANGED <<handling, shell, wait, ch, line>>

\* The shell has waited for the command.
Run ==
  /\ Runs("run") /\ KeepPs2
  /\ shell' = "prompt"
  /\ UNCHANGED <<handling, wait, ch, line, screen>>

-----------------------------------------------------------------------------
KeepConsole == UNCHANGED consoleVars

SetUp ==
  /\ KeepConsole
  /\ \/ ps2_controller \/ ps2kb_init
     \/ \E p \in Ports : ps2_reset(p) \/ ps2_identify(p)

Device == KeepConsole /\ \E p \in Ports : DeviceSends(p)

Typist ==
  /\ KeepConsole
  /\ \E p \in Ports, k \in Keys : Press(p, k) \/ Repeat(p, k) \/ Release(p, k)

Shell == Prompt \/ syscall_read \/ Echo \/ Output \/ Run

Next == SetUp \/ Device \/ Typist \/ KeyboardIrq \/ TimerIrq \/ ps2kb_handler \/ Shell

\* The boot goes on, plugged devices send what they have, the timer ticks, an
\* interrupt that has begun ends, and the shell is scheduled.
Spec == /\ Init /\ [][Next]_vars
        /\ WF_vars(SetUp) /\ WF_vars(Device) /\ WF_vars(KeyboardIrq)
        /\ WF_vars(TimerIrq) /\ WF_vars(ps2kb_handler) /\ WF_vars(Shell)

-----------------------------------------------------------------------------
\* The characters in the driver's ring are the ones typed that nobody has read
\* yet, in order, the shift keys and Caps Lock applied, though acknowledgements
\* of commands come between the bytes of a key (ps2kb_handler, ps2kb.c:149).
\* Only a full ring loses any, and then it loses all it has.  What the driver is
\* known not to understand, and devices that answer late, are left aside.
KeysInOrder == odd \/ late \/ keybuf = meant

\* A thread that found no character sleeps until interrupt 1, and it never
\* sleeps over a character when the keyboard is on port 1 (syscall_read,
\* syscall.c:161; irq_handler, irq.c:103).  On port 2 it does.
SleepsOnlyWhenEmpty == shell = "suspended" /\ keybuf # <<>> => port = 2

\* The line the shell will run is what stands on the screen between its prompt
\* and the cursor, over every wrap, scroll and backspace (terminal_putchar,
\* vgatty.c:110; the shell's loop, gsh/main.c:96).
LineIsOnScreen ==
  shell \in {"read", "suspended"} =>
    LET first == Cursor(screen) - Len(line)
    IN  /\ Cursor(screen) \in Cells
        /\ first - 1 \in Cells /\ screen.cells[first - 1] = "$"
        /\ \A i \in DOMAIN line : screen.cells[first + i - 1] = line[i]

\* The commands that set the keyboard up are all sent and acknowledged, keys and
\* garbled commands in between (ps2kb_loop, ps2kb.c:197), when the controller
\* takes each byte, the keyboard is one and every device answered in time.
CommandsComplete ==
  (Up /\ port \in Ports /\ plugged[port] \in Keyboards /\ ~late)
    ~> (queue = <<>> \/ lost)

=============================================================================
