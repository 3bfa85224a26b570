-------------------------------- MODULE Ps2 --------------------------------
(***************************************************************************)
(* The PS/2 controller's set-up (ps2.c) and the keyboard driver (ps2kb.c). *)
(* A device keeps the bytes it wants to send; the controller holds one of  *)
(* them at a time, in a buffer the two ports share.  During ps2_init the   *)
(* buffer is polled, and a poll may give up before a slow device answers;  *)
(* after it every byte raises an interrupt.                                 *)
(***************************************************************************)
EXTENDS Naturals, Sequences, FiniteSets, SequencesExt, TLC

CONSTANTS Plugged,            \* what may be plugged in: pairs from DOMAIN ResetAnswer
          Keys,               \* keys of the keyboard: [code, ext]
          KEYBUF_SIZE,        \* characters in the ring; 1024 in the code
          MaxEvents,          \* bound on presses, repeats and releases
          MaxEarly,           \* ... while commands are queued or after a fault
          MaxFaults           \* bound on late answers and on commands that are
                              \* garbled or not taken

ASSUME KeybufAssumption == KEYBUF_SIZE \in Nat \ {0, 1}

VARIABLES
  plugged,       \* per port: the kind of device that is there
  outbox,        \* per port: the bytes its device has still to send
  obf,           \* the byte in the controller's output buffer, or Empty
  usable,        \* the ports that passed the interface test
  device,        \* port1_device and port2_device
  ps2pc,         \* where ps2_init and ps2kb_init are, and of which port
  port,          \* ps2kb.c's port: 0 none, 1, 2, or 3 both
  queue,         \* the ring command_queue
  is_sending_command,
  state,         \* of the scan code decoder
  keydown,       \* the modifiers among the keys the driver believes down
  keybuf,        \* the ring keybuf, from keybuf_start to keybuf_end
  held, caps,    \* what the typist holds down, and whether capitals are on
  meant,         \* the characters typed that nobody has read
  odd,           \* some byte reached the driver that it does not understand
  late,          \* some device answered after ps2_init had given up on it
  lost,          \* some command was not taken
  events, faults

wireVars == <<plugged, outbox, obf>>
setupVars == <<usable, device, ps2pc, port>>
commandVars == <<queue, is_sending_command>>
decoderVars == <<state, keydown, keybuf, meant>>
typistVars == <<held, caps, odd, events>>
ghostVars == <<late, lost, faults>>
ps2Vars == <<wireVars, setupVars, commandVars, decoderVars, typistVars, ghostVars>>

Ports == 1 .. 2
Empty == [port |-> 0, byte |-> "", char |-> "none"]

\* What a device says when it is told FF.
ResetAnswer ==
  [none     |-> <<>>,
   keyboard |-> <<"FA", "AA">>,
   mf2      |-> <<"FA", "AA", "AB", "83">>,
   mouse    |-> <<"FA", "AA", "00">>,
   broken   |-> <<"FC">>]

Keyboards == {"keyboard", "mf2"}

Shift == "12"
CapsLock == "58"

\* scancodelower and scancodeupper, for the keys of the instances.
scancodelower ==
  [code \in {"1C", "5A", "66", "75", Shift, CapsLock} |->
     CASE code = "1C" -> "a" [] code = "5A" -> "nl" [] code = "66" -> "bs" [] code = "75" -> "8"
       [] OTHER -> "none"]
scancodeupper == [scancodelower EXCEPT !["1C"] = "A"]

\* The devices are of the kinds above and the keys are ones of the tables.
ASSUME KeyboardAssumption ==
  /\ Plugged \subseteq (DOMAIN ResetAnswer) \X (DOMAIN ResetAnswer)
  /\ Keys \subseteq [code : DOMAIN scancodelower, ext : BOOLEAN]

CharOf(code, upper) == IF upper THEN scancodeupper[code] ELSE scancodelower[code]

Say(bytes) == [i \in DOMAIN bytes |-> [byte |-> bytes[i], char |-> "none"]]

Ps2Init ==
  /\ plugged \in Plugged
  /\ outbox = [p \in Ports |-> <<>>] /\ obf = Empty
  /\ usable = {} /\ device = [p \in Ports |-> "none"] /\ ps2pc = <<"controller", 0>>
  /\ port = 0
  /\ queue = <<>> /\ is_sending_command = FALSE
  /\ state = 0 /\ keydown = {} /\ keybuf = <<>> /\ meant = <<>>
  /\ held = {} /\ caps = FALSE /\ odd = FALSE /\ events = 0
  /\ late = FALSE /\ lost = FALSE /\ faults = 0

-----------------------------------------------------------------------------
(* ps2_init and ps2kb_init.                                                *)

\* Self test, dual channel test and interface tests: the controller either
\* leaves some port to use, or it is missing or broken and the kernel halts.
ps2_controller ==
  /\ ps2pc = <<"controller", 0>>
  /\ \/ \E ps \in SUBSET Ports \ {{}} : usable' = ps /\ ps2pc' = <<"reset", 1>>
     \/ ps2pc' = <<"halted", 0>> /\ UNCHANGED usable
  /\ UNCHANGED <<wireVars, device, port, commandVars, decoderVars, typistVars, ghostVars>>

\* After port 1 comes port 2, and after that ps2kb_init.
NextPort(p) == ps2pc' = IF p = 1 THEN <<"reset", 2>> ELSE <<"ps2kb", 0>>

ps2_reset(p) ==
  /\ ps2pc = <<"reset", p>>
  /\ IF p \in usable
     THEN /\ outbox' = [outbox EXCEPT ![p] = @ \o Say(ResetAnswer[plugged[p]])]
          /\ ps2pc' = <<"ack", p>>
     ELSE NextPort(p) /\ UNCHANGED outbox
  /\ UNCHANGED <<plugged, obf, usable, device, port,
                 commandVars, decoderVars, typistVars, ghostVars>>

\* ps2_recieve_data: the byte in the buffer, whoever sent it; or "none", -1 in
\* the code, when none came in PS2_TIMEOUT_CYCLES.
ps2_recieve_data(p, byte) ==
  \/ /\ obf # Empty /\ byte = obf.byte
     /\ obf' = Empty /\ UNCHANGED <<late, faults>>
  \/ /\ obf = Empty /\ byte = "none"
     /\ UNCHANGED obf
     /\ IF outbox[p] = <<>> THEN UNCHANGED <<late, faults>>
        ELSE faults < MaxFaults /\ faults' = faults + 1 /\ late' = TRUE

Identity == "00" :> "mouse" @@ "03" :> "scroll" @@ "04" :> "5 buttons"

\* What a device is by its first byte: nothing but an old keyboard stays silent.
Identified(byte, was) ==
  IF byte = "none" THEN "keyboard" ELSE IF byte \in DOMAIN Identity THEN Identity[byte] ELSE was

ps2_identify(p) ==
  /\ ps2pc[2] = p
  /\ \E byte \in {"none", obf.byte} :
       /\ ps2_recieve_data(p, byte)
       /\ \/ /\ ps2pc[1] = "ack" /\ byte \in {"none", "FC"}
             /\ NextPort(p) /\ UNCHANGED device
          \/ /\ ps2pc[1] = "ack" /\ byte \notin {"none", "FC"}
             /\ ps2pc' = <<"bat", p>> /\ UNCHANGED device
          \/ /\ ps2pc[1] = "bat"
             /\ ps2pc' = <<"id", p>> /\ UNCHANGED device
          \/ /\ ps2pc[1] = "id" /\ byte \in {"AB", "AC"}
             /\ ps2pc' = <<"kind", p>> /\ device' = [device EXCEPT ![p] = "keyboard"]
          \/ /\ ps2pc[1] = "id" /\ byte \notin {"AB", "AC"}
             /\ NextPort(p) /\ device' = [device EXCEPT ![p] = Identified(byte, @)]
          \/ /\ ps2pc[1] = "kind"
             /\ NextPort(p) /\ UNCHANGED device
  /\ UNCHANGED <<plugged, outbox, usable, port, commandVars, decoderVars,
                 typistVars, lost>>

\* ps2kb_init: handlers, and the four bytes that set scan code set 2 and the LEDs.
ps2kb_init ==
  /\ ps2pc = <<"ps2kb", 0>> /\ ps2pc' = <<"done", 0>>
  /\ port' = (IF device[1] = "keyboard" THEN 1 ELSE 0)
             + (IF device[2] = "keyboard" THEN 2 ELSE 0)
  /\ IF port' = 3
     THEN is_sending_command' = TRUE /\ UNCHANGED queue
     ELSE queue' = <<"F0", "02", "ED", "00">> /\ is_sending_command' = FALSE
  /\ UNCHANGED <<wireVars, usable, device, decoderVars, typistVars, ghostVars>>

-----------------------------------------------------------------------------
(* Devices and the typist.                                                 *)

\* The controller takes the next byte of a device when its buffer is free.
DeviceSends(p) ==
  /\ obf = Empty /\ outbox[p] # <<>>
  /\ obf' = [port |-> p, byte |-> Head(outbox[p]).byte, char |-> Head(outbox[p]).char]
  /\ outbox' = [outbox EXCEPT ![p] = Tail(@)]
  /\ UNCHANGED <<plugged, setupVars, commandVars, decoderVars, typistVars, ghostVars>>

\* The bytes of a key that goes down or up; the last one carries the character
\* the typist means.
Make(k, char) ==
  IF k.ext THEN <<[byte |-> "E0", char |-> "none"], [byte |-> k.code, char |-> char]>>
  ELSE <<[byte |-> k.code, char |-> char]>>
Break(k) == Say((IF k.ext THEN <<"E0">> ELSE <<>>) \o <<"F0", k.code>>)

\* The typist is slower than the keyboard.
Types(p, bytes) ==
  /\ ps2pc = <<"done", 0>> /\ plugged[p] \in Keyboards /\ p \in usable
  /\ outbox[p] = <<>>
  /\ events < IF queue = <<>> /\ faults = 0 THEN MaxEvents ELSE MaxEarly
  /\ events' = events + 1
  /\ outbox' = [outbox EXCEPT ![p] = @ \o bytes]
  /\ UNCHANGED <<plugged, obf, setupVars, commandVars, decoderVars, ghostVars>>

IsCaps(k) == k.code = CapsLock /\ ~k.ext
Capitals == caps \/ \E k \in held : k.code = Shift /\ ~k.ext

Meaning(k) == IF k.ext THEN "none" ELSE CharOf(k.code, Capitals)

Press(p, k) ==
  /\ k \notin held /\ held' = held \cup {k}
  /\ caps' = (IF IsCaps(k) THEN ~caps ELSE caps)
  /\ Types(p, Make(k, Meaning(k)))
  /\ UNCHANGED odd

\* A key held down repeats; the driver takes every repetition of Caps Lock for
\* another press.
Repeat(p, k) ==
  /\ k \in held
  /\ Types(p, Make(k, Meaning(k)))
  /\ odd' = (odd \/ IsCaps(k))
  /\ UNCHANGED <<held, caps>>

\* The driver reads E0 F0 75, an arrow that is let go, as the key 75.
Release(p, k) ==
  /\ k \in held /\ held' = held \ {k}
  /\ Types(p, Break(k))
  /\ odd' = (odd \/ k.ext)
  /\ UNCHANGED caps

-----------------------------------------------------------------------------
(* The keyboard driver.  Interrupts run it, so the parts below are terms of *)
(* the interrupts of Console.                                               *)

\* What a device answers to a byte it is sent.
Answer(p, byte) ==
  IF plugged[p] = "none" THEN <<>>
  ELSE IF plugged[p] \in Keyboards \/ byte = "F0" THEN <<"FA">> ELSE <<"FE">>

\* ps2kb_resend_command: the byte reaches the device, which answers before or
\* after what it has to send; or it is garbled on the way; or the controller
\* does not take it, which nobody looks at.
ps2kb_resend_command ==
  IF port \in Ports
  THEN /\ is_sending_command' = TRUE
       /\ \/ /\ \E reply \in {Say(Answer(port, Head(queue)))} :
                  outbox' \in {[outbox EXCEPT ![port] = reply \o @],
                               [outbox EXCEPT ![port] = @ \o reply]}
             /\ UNCHANGED <<lost, faults>>
          \/ /\ faults < MaxFaults /\ faults' = faults + 1
             /\ outbox' = [outbox EXCEPT ![port] = Say(<<"FE">>) \o @]
             /\ UNCHANGED lost
          \/ /\ faults < MaxFaults /\ faults' = faults + 1
             /\ lost' = TRUE /\ UNCHANGED outbox
  ELSE UNCHANGED <<is_sending_command, outbox, lost, faults>>

\* Faulty variant: the acknowledgement leaves the flag.
ps2kb_succeed_keeps_flag ==
  queue' = Tail(queue) /\ UNCHANGED is_sending_command

\* The device has taken the command at the head of the queue.  In these
\* instances the queue is never empty then: only a device that was sent a
\* command, or one that was late at ps2_init, acknowledges.
ps2kb_succeed_command == queue' = Tail(queue) /\ is_sending_command' = FALSE

\* ps2kb_loop
ps2kb_loop ==
  IF queue # <<>> /\ ~is_sending_command
  THEN ps2kb_resend_command
  ELSE UNCHANGED <<is_sending_command, outbox, lost, faults>>

\* The ring of characters after one more: when the end comes round to the start
\* the ring is empty again.
WithChar(buf, char) ==
  IF char = "none" THEN buf
  ELSE IF Len(buf) = KEYBUF_SIZE - 1 THEN <<>>
  ELSE Append(buf, char)

\* A byte that is not a scan code indexes past the table.
Chars(byte, upper) ==
  IF byte \in DOMAIN scancodelower THEN {CharOf(byte, upper)} ELSE {"none", "junk"}

\* Faulty variant: Caps Lock cannot be switched off.
ToggledOn(k) == keydown \cup {k}

Toggled(k) == IF k \in keydown THEN keydown \ {k} ELSE keydown \cup {k}

\* ps2kb_handler, of a scan code.
ps2kb_decode(byte) ==
  \/ /\ state = 0 /\ byte \in {"F0", "E0"}
     /\ state' = (IF byte = "F0" THEN 1 ELSE 2)
     /\ UNCHANGED <<keydown, keybuf>>
  \/ /\ state = 0 /\ byte \notin {"F0", "E0"}
     /\ keydown' = CASE byte = CapsLock -> Toggled(byte)
                     [] byte = Shift -> keydown \cup {byte}
                     [] OTHER -> keydown
     /\ \E char \in Chars(byte, keydown' # {}) : keybuf' = WithChar(keybuf, char)
     /\ UNCHANGED state
  \/ /\ state = 1 /\ state' = 0
     /\ keydown' = (IF byte = CapsLock THEN keydown ELSE keydown \ {byte})
     /\ UNCHANGED keybuf
  \/ /\ state = 2 /\ state' = 0
     /\ UNCHANGED <<keydown, keybuf>>

\* A reader takes up to n characters.
ps2kb_read_chars(n) == SubSeq(keybuf, 1, IF Len(keybuf) < n THEN Len(keybuf) ELSE n)

=============================================================================
