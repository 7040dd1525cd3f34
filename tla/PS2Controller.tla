--------------------------- MODULE PS2Controller ---------------------------
(***************************************************************************)
(* The set-up of the 8042 and of the keyboard behind its first port        *)
(* (src/src/kernel/drivers/ps2/ps2.cpp and initialize of keyboard.cpp), as *)
(* kernel.cpp calls it with interrupts disabled.                           *)
(*                                                                         *)
(* The driver writes commands without a look at the controller, sends data *)
(* after at most four looks at the input buffer and gives up after three   *)
(* looks at the output buffer.  Controller, keyboard and user are external *)
(* and move on their own.  A byte is the set of its bits that are 1.       *)
(***************************************************************************)
EXTENDS Integers, Sequences

CONSTANTS COMMAND_RETRY_COUNT,
          Devices,      \* what may be plugged in
          Configs,      \* configuration bytes that BIOS or self-test leave
          MaxRefusals,  \* bound: how often the device asks for a resend
          MaxTouches    \* bound: how often the user touches a key

ASSUME PS2Assumption ==
  /\ COMMAND_RETRY_COUNT \in Nat \ {0}
  /\ Devices \subseteq {"AT", "MF2", "MF2_TRANSLATED", "MOUSE", "UNKNOWN", "NONE"}
  /\ Configs \subseteq SUBSET (0 .. 7)
  /\ MaxRefusals \in Nat /\ MaxTouches \in Nat

VARIABLES
  todo,        \* what is left of the two functions called initialize
  tries,       \* looks already taken in the loop at hand
  configByte,  \* the local variable of the same name
  outcome,     \* "busy", "ready" (interrupts get enabled) or "stopped"
  inbuf,       \* the controller's input buffer: << >> or <<what was written>>
  outbuf,      \* its output buffer: << >> or <<byte>>
  reply,       \* its answer, while the output buffer is not free for it
  expecting,   \* the next data byte is the configuration byte
  config,      \* the configuration byte
  pending,     \* what the device has yet to send
  scanning,    \* the device reports keys (a mouse: movements)
  device, timely, reopens,  \* the hardware, see below
  refusals, touches, faulty \* history: resends asked for, keys touched, tests failed

driver == <<todo, tries, configByte, outcome>>
controller == <<inbuf, reply, expecting, config>>
hardware == <<device, timely, reopens>>
history == <<refusals, touches, faulty>>
vars == <<driver, controller, outbuf, pending, scanning, hardware, history>>

\* Bits of the configuration byte: interrupt and clock switch of the first port,
\* translation to the scancodes of the XT.
IRQ1 == 0
PORT1_OFF == 4
PORT2_OFF == 5
TRANSLATION == 6

ACK == {1, 3, 4, 5, 6, 7}
RESEND == 1 .. 7
SELF_TEST_OK == {0, 2, 4, 6}   \* 0x55, of the controller
DEVICE_OK == {1, 3, 5, 7}      \* 0xAA, of the device
FAILURE == 2 .. 7              \* 0xFC
xAB == {0, 1, 3, 5, 7}
x83 == {0, 1, 7}
x41 == {0, 6}
Codes == {<<{2, 3, 4}>>, <<4 .. 7, {2, 3, 4}>>}   \* 1C and F0 1C

IsKeyboard == device \in {"AT", "MF2", "MF2_TRANSLATED"}

\* What the device sends behind the acknowledgement of an identify command.
Identity == CASE device = "MF2" -> <<xAB, x83>>
              [] device = "MF2_TRANSLATED" -> <<xAB, x41>>
              [] device = "MOUSE" -> <<{}>>
              [] device = "UNKNOWN" -> <<xAB, {}>>
              [] OTHER -> << >>

-----------------------------------------------------------------------------
(* The driver, as a list of steps.                                         *)

Command(c) == [do |-> "command", c |-> c]     \* a write to the command port
Flush == [do |-> "flush"]                     \* a read of the data port
ReadConfig == [do |-> "read_config"]
WriteConfig(b) == [do |-> "write_config", bits |-> b]  \* newConfigByte | b
Expect(b) == [do |-> "expect", byte |-> b]
Send(c, i) == [do |-> "send", c |-> c, i |-> i]   \* round i of resend_until_...
Answer(c, i) == [do |-> "answer", c |-> c, i |-> i]
Identify == [do |-> "identify"]
Identify2 == [do |-> "identify2"]

resend_until_success_or_timeout(c) == <<Send(c, 0)>>

controller_initialize ==
  <<Command("DISABLE_FIRST"), Command("DISABLE_SECOND"), Flush,
    Command("READ_CONFIG"), ReadConfig,
    Command("WRITE_CONFIG"), WriteConfig({}),
    Command("SELF_TEST"), Expect(SELF_TEST_OK),
    Command("WRITE_CONFIG"), WriteConfig({}),
    Command("TEST_FIRST"), Expect({}),
    Command("ENABLE_FIRST"),
    Command("WRITE_CONFIG"), WriteConfig({IRQ1})>>

get_first_port_device_type == resend_until_success_or_timeout("DISABLE_SCANNING")
                              \o resend_until_success_or_timeout("IDENTIFY")
                              \o <<Identify>>

keyboard_initialize ==
  get_first_port_device_type
  \o resend_until_success_or_timeout("RESET") \o <<Expect(DEVICE_OK)>>
  \o resend_until_success_or_timeout("ENABLE_SCANNING")

Init == /\ todo = controller_initialize \o keyboard_initialize
        /\ tries = 0 /\ configByte = {} /\ outcome = "busy"
        /\ inbuf = << >> /\ outbuf \in {<< >>} \cup {SubSeq(c, 1, 1) : c \in Codes}
        /\ reply = << >> /\ expecting = FALSE
        /\ config \in Configs
        /\ pending = << >>
        /\ device \in Devices /\ timely \in BOOLEAN /\ reopens \in BOOLEAN
        /\ scanning = IsKeyboard
        /\ refusals = 0 /\ touches = 0 /\ faulty = FALSE

Doing(step) == outcome = "busy" /\ todo # << >> /\ Head(todo).do = step

\* Timely hardware has done what it can do before the driver's next access.
Settled == /\ inbuf = << >>
           /\ outbuf = << >> => reply = << >> /\ (pending = << >> \/ PORT1_OFF \in config)
Looks == timely => Settled

Continues(steps) == todo' = steps \o Tail(todo) /\ tries' = 0 /\ UNCHANGED outcome
Stops == outcome' = "stopped" /\ UNCHANGED <<todo, tries>>

\* A command, written whether or not the input buffer is still full.
port_write_command ==
  /\ Doing("command") /\ Looks
  /\ inbuf' = <<Head(todo)>>
  /\ Continues(<< >>)
  /\ UNCHANGED <<configByte, outbuf, reply, expecting, config, pending, scanning>>
  /\ UNCHANGED <<hardware, history>>

\* Mutant: what the BIOS left is not read away.
flush_Missing ==
  /\ Doing("flush") /\ Looks
  /\ Continues(<< >>)
  /\ UNCHANGED <<configByte, controller, outbuf, pending, scanning, hardware, history>>

flush ==
  /\ Doing("flush") /\ Looks
  /\ outbuf' = << >>
  /\ Continues(<< >>)
  /\ UNCHANGED <<configByte, controller, pending, scanning, hardware, history>>

\* Mutant: the interrupt is to be enabled by whoever wrote the byte before.
newConfigByte_KeepsAll(bits) == (configByte \ {3, 7}) \cup bits

\* Bits 0, 1 and 6 are cleared, 3 and 7 must be 0.
newConfigByte(bits) == (configByte \cap {2, PORT1_OFF, PORT2_OFF}) \cup bits

\* What follows a byte that was sent: its answer, if it is for the device.
AfterSending == IF Head(todo).do = "send" THEN <<Answer(Head(todo).c, Head(todo).i)>>
                                          ELSE << >>

\* send_to_device: one look, then COMMAND_RETRY_COUNT more.
send_to_device ==
  /\ Doing("write_config") \/ Doing("send")
  /\ Looks
  /\ IF inbuf = << >>
     THEN /\ inbuf' = <<IF Doing("send") THEN Head(todo)
                        ELSE WriteConfig(newConfigByte(Head(todo).bits))>>
          /\ Continues(AfterSending)
     ELSE /\ IF tries < COMMAND_RETRY_COUNT
             THEN tries' = tries + 1 /\ UNCHANGED <<todo, outcome>>
             ELSE Stops
          /\ UNCHANGED inbuf
  /\ UNCHANGED <<configByte, outbuf, reply, expecting, config, pending, scanning>>
  /\ UNCHANGED <<hardware, history>>

\* Mutant: the loop does not count its looks.
no_response_PollsForever ==
  /\ outbuf = << >>
  /\ IF Doing("identify") THEN Continues(<< >>) ELSE UNCHANGED <<todo, tries, outcome>>

\* Three looks at an empty output buffer: the device is an AT keyboard, or the
\* function fails, and kernel_main stops.
no_response ==
  /\ outbuf = << >>
  /\ IF tries < 2 THEN tries' = tries + 1 /\ UNCHANGED <<todo, outcome>>
     ELSE IF Doing("identify") THEN Continues(<< >>)
     ELSE Stops

\* The byte is a resend request, and the loop has another round.
resend_or_return(b) ==
  IF b # RESEND THEN Continues(<< >>)
  ELSE IF Head(todo).i + 1 < COMMAND_RETRY_COUNT
  THEN Continues(<<Send(Head(todo).c, Head(todo).i + 1)>>)
  ELSE Stops

\* Mutant: whatever is not known to be a mouse is a keyboard.
identified_Default(b) ==
  IF Doing("identify")
  THEN IF b = {} THEN Stops ELSE Continues(<<Identify2>>)
  ELSE Continues(<< >>)

\* The bytes of a keyboard; a mouse or an unknown device ends the set-up.
identified(b) ==
  IF Doing("identify") /\ b = xAB THEN Continues(<<Identify2>>)
  ELSE IF Doing("identify2") /\ b \in {x41, x83} THEN Continues(<< >>)
  ELSE Stops

\* get_response, and what its caller does with the byte.
get_response ==
  /\ \/ Doing("read_config") \/ Doing("expect") \/ Doing("answer")
     \/ Doing("identify") \/ Doing("identify2")
  /\ Looks
  /\ \/ /\ no_response
        /\ UNCHANGED <<configByte, outbuf>>
     \/ /\ outbuf # << >> /\ outbuf' = << >>
        /\ configByte' = IF Doing("read_config") THEN outbuf[1] ELSE configByte
        /\ CASE Doing("read_config") -> Continues(<< >>)
             [] Doing("expect") -> IF outbuf[1] = Head(todo).byte THEN Continues(<< >>) ELSE Stops
             [] Doing("answer") -> resend_or_return(outbuf[1])
             [] OTHER -> identified(outbuf[1])
  /\ UNCHANGED <<controller, pending, scanning, hardware, history>>

\* Both functions returned without an error; kernel_main enables interrupts.
enable_interrupts ==
  /\ outcome = "busy" /\ todo = << >> /\ Looks
  /\ outcome' = "ready"
  /\ UNCHANGED <<todo, tries, configByte, controller, outbuf, pending, scanning>>
  /\ UNCHANGED <<hardware, history>>

Driver == \/ port_write_command \/ flush \/ send_to_device \/ get_response
          \/ enable_interrupts

-----------------------------------------------------------------------------
(* The controller, the device and the user.                                *)

Written == inbuf # << >> /\ inbuf' = << >>
IsCommand == inbuf[1].do = "command"

\* A command, also one that comes where the configuration byte was expected.
Obeys ==
  /\ Written /\ IsCommand /\ reply = << >>
  /\ LET c == inbuf[1].c
     IN /\ expecting' = (c = "WRITE_CONFIG")
        /\ CASE c = "READ_CONFIG" -> reply' = <<config>> /\ UNCHANGED <<config, faulty>>
             [] c = "SELF_TEST" -> /\ \/ reply' = <<SELF_TEST_OK>> /\ UNCHANGED faulty
                                      \/ reply' = <<FAILURE>> /\ faulty' = TRUE
                                   /\ config' \in Configs \cup {config}
             [] c = "TEST_FIRST" -> /\ \/ reply' = <<{}>> /\ UNCHANGED faulty
                                       \/ reply' = <<{0}>> /\ faulty' = TRUE
                                    /\ UNCHANGED config
             [] OTHER -> /\ config' = CASE c = "DISABLE_FIRST" -> config \cup {PORT1_OFF}
                                        [] c = "ENABLE_FIRST" -> config \ {PORT1_OFF}
                                        [] c = "DISABLE_SECOND" -> config \cup {PORT2_OFF}
                                        [] OTHER -> config
                         /\ UNCHANGED <<reply, faulty>>
  /\ UNCHANGED <<driver, outbuf, pending, scanning, hardware, refusals, touches>>

TakesConfig ==
  /\ Written /\ ~IsCommand /\ expecting
  /\ expecting' = FALSE
  /\ config' = inbuf[1].bits   \* only ever a configuration byte, see send_to_device
  /\ UNCHANGED <<driver, reply, outbuf, pending, scanning, hardware, history>>

\* Any other data is for the device.  Some controllers switch the port on for
\* it, from others it is lost while the port is off.
Reaches == device # "NONE" /\ (reopens \/ PORT1_OFF \notin config)

Passes ==
  /\ Written /\ ~IsCommand /\ ~expecting
  /\ config' = IF reopens THEN config \ {PORT1_OFF} ELSE config
  /\ UNCHANGED <<driver, reply, expecting, outbuf, hardware, touches>>

\* The new answer comes instead of what was not sent yet, or behind it.
Answers(bytes) == pending' = bytes \/ (pending # << >> /\ pending' = pending \o bytes)

DeviceIgnores == Passes /\ ~Reaches /\ UNCHANGED <<pending, scanning, refusals, faulty>>

DeviceRefuses ==
  /\ Passes /\ Reaches /\ refusals < MaxRefusals
  /\ refusals' = refusals + 1
  /\ Answers(<<RESEND>>)
  /\ UNCHANGED <<scanning, faulty>>

\* A configuration byte that arrives here is none of its commands.
DeviceObeys ==
  /\ Passes /\ Reaches /\ inbuf[1].do = "send"
  /\ LET c == inbuf[1].c
     IN /\ scanning' = CASE c = "DISABLE_SCANNING" -> FALSE
                         [] c = "ENABLE_SCANNING" -> TRUE
                         [] c = "RESET" -> IsKeyboard
                         [] OTHER -> scanning
        /\ \/ /\ Answers(CASE c = "IDENTIFY" -> <<ACK>> \o Identity
                           [] c = "RESET" -> <<ACK, DEVICE_OK>>
                                             \o (IF device = "MOUSE" THEN <<{}>> ELSE << >>)
                           [] OTHER -> <<ACK>>)
              /\ UNCHANGED faulty
           \/ /\ c = "RESET" /\ faulty' = TRUE
              /\ Answers(<<ACK, FAILURE>>)
  /\ UNCHANGED refusals

Replies == /\ outbuf = << >> /\ reply # << >>
           /\ outbuf' = reply /\ reply' = << >>
           /\ UNCHANGED <<driver, inbuf, expecting, config, pending, scanning>>
           /\ UNCHANGED <<hardware, history>>

DeviceSends == /\ outbuf = << >> /\ reply = << >>
               /\ pending # << >> /\ PORT1_OFF \notin config
               /\ outbuf' = <<Head(pending)>> /\ pending' = Tail(pending)
               /\ UNCHANGED <<driver, controller, scanning, hardware, history>>

UserTouches == /\ scanning /\ touches < MaxTouches
               /\ touches' = touches + 1
               /\ \E c \in Codes : pending' = pending \o c
               /\ UNCHANGED <<driver, controller, outbuf, scanning, hardware>>
               /\ UNCHANGED <<refusals, faulty>>

Hardware == \/ Obeys \/ TakesConfig \/ Replies \/ DeviceSends
            \/ DeviceIgnores \/ DeviceRefuses \/ DeviceObeys

Next == Driver \/ Hardware \/ UserTouches

\* The CPU executes; hardware that is timely does not leave work undone.
Spec == Init /\ [][Next]_vars /\ WF_vars(Driver) /\ WF_vars(timely /\ Hardware)

-----------------------------------------------------------------------------
\* Once interrupts are enabled the keyboard can be used: its interrupt and its
\* port are on, scancodes are not translated and keys are reported, whatever
\* the configuration was before, and also if commands were overwritten in the
\* input buffer, or answers came late and were taken for those to other commands.
UsableWhenReady ==
  outcome = "ready" => /\ IRQ1 \in config
                       /\ {PORT1_OFF, TRANSLATION} \cap config = {}
                       /\ IsKeyboard => scanning

\* A keyboard behind a controller that switches the port on again is found and
\* initialized, if both are in time, pass their tests, nobody types meanwhile
\* and no command is refused COMMAND_RETRY_COUNT times; and no byte is left
\* that the interrupt handler would take for a scancode.
InTimeSucceeds ==
  /\ timely /\ reopens /\ IsKeyboard
  /\ touches = 0 /\ refusals < COMMAND_RETRY_COUNT /\ ~faulty
  => /\ outcome # "stopped"
     /\ outcome = "ready" => outbuf = << >> /\ pending = << >>

\* A device that is in time is initialized only if it is a keyboard, although
\* one that gives no answer to the identify command counts as a keyboard.
OnlyKeyboards == timely /\ outcome = "ready" => IsKeyboard

\* The set-up ends, whatever does not answer.
InitEnds == outcome = "busy" ~> outcome # "busy"
=============================================================================
