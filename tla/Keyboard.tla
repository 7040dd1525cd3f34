------------------------------ MODULE Keyboard ------------------------------
(***************************************************************************)
(* The keyboard driver (src/src/kernel/drivers/ps2/keyboard) between the   *)
(* keyboard that sends scancodes byte by byte and the main loop of         *)
(* kernel.cpp that polls the events decoded from them.                     *)
(*                                                                         *)
(* The interrupt handler polls for every byte of a scancode a bounded      *)
(* number of times, so the keyboard, the one-byte output buffer of the     *)
(* 8042 and the interrupt latch move while it runs; the main loop does     *)
(* not, for the gate clears IF.  The event queue is the FIFO that          *)
(* EventQueue is proved to implement.                                      *)
(***************************************************************************)
EXTENDS Integers, Sequences

CONSTANTS Keys,        \* the keys the user touches
          SEND_COMMAND_RETRY_LIMIT,
          KEYBOARD_EVENT_QUEUE_SIZE,
          MaxActions   \* bound: how often the user presses or releases a key

ASSUME LimitsAssumption ==
  /\ SEND_COMMAND_RETRY_LIMIT \in Nat \ {0}
  /\ KEYBOARD_EVENT_QUEUE_SIZE \in Nat \ {0}
  /\ MaxActions \in Nat

VARIABLES
  typed,     \* history: what the user did, as KeyboardEvents
  prompt,    \* does the next byte follow at once when one is read?
  sending,   \* the bytes in the keyboard's own buffer
  outbuf,    \* the 8042's output buffer: <<>> or <<byte>>
  irr,       \* is interrupt request 1 latched in the PIC?
  handler,   \* how far parse_scancode is; "none" outside the handler
  attempt,   \* i of get_response_unsafe's loop
  event,     \* what parse_scancode returns
  KEYBOARD_KEY_STATE,
  KEYBOARD_EVENT_QUEUE,
  main,      \* the main loop: "polling", "halting" or "halted"
  polled     \* history: the events poll_event has returned

user == <<typed, prompt>>
kernel == <<KEYBOARD_KEY_STATE, KEYBOARD_EVENT_QUEUE, main, polled>>
vars == <<user, sending, outbuf, irr, handler, attempt, event,
          KEYBOARD_KEY_STATE, KEYBOARD_EVENT_QUEUE, main, polled>>

-----------------------------------------------------------------------------
(* The scancodes of generate_table.py and the two maps of keyboard.cpp, for *)
(* a single-byte key, an extended key that shares its last byte with        *)
(* another single-byte key, and the print screen key.                       *)

Keycode == {"A", "KEYPAD_8", "UP_ARROW", "PRINT_SCREEN",
            "LEFT_SHIFT", "KEYPAD_MULTIPLY"}
Byte == {"00", "12", "1C", "75", "7C", "E0", "F0"}

ASSUME KeysAssumption == Keys \subseteq {"A", "KEYPAD_8", "UP_ARROW", "PRINT_SCREEN"}

Scancode(key, ev) ==
  CASE key = "A"        -> IF ev = "PRESSED" THEN <<"1C">> ELSE <<"F0", "1C">>
    [] key = "KEYPAD_8" -> IF ev = "PRESSED" THEN <<"75">> ELSE <<"F0", "75">>
    [] key = "UP_ARROW" -> IF ev = "PRESSED" THEN <<"E0", "75">>
                                             ELSE <<"E0", "F0", "75">>
    [] key = "PRINT_SCREEN" ->
         IF ev = "PRESSED" THEN <<"E0", "12", "E0", "7C">>
                           ELSE <<"E0", "F0", "7C", "E0", "F0", "12">>

SCANCODE_MAP_SINGLE_BYTE ==
  [b \in Byte |-> CASE b = "1C" -> "A"
                    [] b = "75" -> "KEYPAD_8"
                    [] b = "12" -> "LEFT_SHIFT"
                    [] b = "7C" -> "KEYPAD_MULTIPLY"
                    [] OTHER    -> "UNKNOWN"]

\* Mutant: the last byte of an extended code is looked up in the first map.
SCANCODE_MAP_E0_Single == SCANCODE_MAP_SINGLE_BYTE

SCANCODE_MAP_E0 == [b \in Byte |-> IF b = "75" THEN "UP_ARROW" ELSE "UNKNOWN"]

Event(key, ev) == [key |-> key, event |-> ev]

-----------------------------------------------------------------------------
Init == /\ prompt \in BOOLEAN
        /\ typed = << >> /\ sending = << >> /\ outbuf = << >>
        /\ irr \in BOOLEAN
        /\ handler = "none" /\ attempt = 0 /\ event = Event("UNKNOWN", "PRESSED")
        /\ KEYBOARD_KEY_STATE = [k \in Keycode |-> FALSE]
        /\ KEYBOARD_EVENT_QUEUE = << >>
        /\ main = "polling"
        /\ polled = << >>

(* The keyboard and its controller.                                        *)

IsDown(key) == \E i \in 1 .. Len(typed) :
                 /\ typed[i] = Event(key, "PRESSED")
                 /\ \A j \in i + 1 .. Len(typed) : typed[j].key # key

\* The user acts: a key is pressed (again, when it repeats) or a pressed one is
\* released, and the whole scancode is queued in the keyboard.
UserActs(key, ev) ==
  /\ Len(typed) < MaxActions
  /\ ev = "RELEASED" => IsDown(key)
  /\ typed' = Append(typed, Event(key, ev))
  /\ sending' = sending \o Scancode(key, ev)
  /\ UNCHANGED <<prompt, outbuf, irr, handler, attempt, event>>
  /\ UNCHANGED kernel

\* A byte arrives in the empty output buffer and raises the request line.
Transmit ==
  /\ sending # << >> /\ outbuf = << >>
  /\ outbuf' = <<Head(sending)>>
  /\ sending' = Tail(sending)
  /\ irr' = TRUE
  /\ UNCHANGED <<user, handler, attempt, event>>
  /\ UNCHANGED kernel

(* The interrupt handler.                                                  *)

\* The CPU takes the request between two instructions of the main loop.
Interrupt ==
  /\ irr /\ handler = "none"
  /\ irr' = FALSE
  /\ handler' = "b1"
  /\ attempt' = 0
  /\ UNCHANGED <<user, sending, outbuf, event>>
  /\ UNCHANGED kernel

Returns(ev, key) == handler' = "return" /\ event' = Event(key, ev)
Awaits(state) == handler' = state /\ UNCHANGED event

\* What parse_scancode does with the byte get_response_unsafe returned.  E0 F0
\* is followed by a code like any other: the branch for a third byte 0x12 tests
\* the second byte and is never taken.
parse(b) ==
  CASE handler = "b1"   -> IF b = "E0" THEN Awaits("E0")
                           ELSE IF b = "F0" THEN Awaits("F0")
                           ELSE Returns("PRESSED", SCANCODE_MAP_SINGLE_BYTE[b])
    [] handler = "E0"   -> IF b = "12" THEN Awaits("drain")
                           ELSE IF b = "F0" THEN Awaits("E0F0")
                           ELSE Returns("PRESSED", SCANCODE_MAP_E0[b])
    [] handler = "E0F0" -> Returns("RELEASED", SCANCODE_MAP_E0[b])
    [] handler = "F0"   -> Returns("RELEASED", SCANCODE_MAP_SINGLE_BYTE[b])
    [] handler = "drain" -> IF b = "00" THEN Returns("PRESSED", "UNKNOWN")
                                        ELSE Awaits("drain")

Parsing == handler \in {"b1", "E0", "E0F0", "F0", "drain"}

\* The status register reports a byte and it is read.  The line drops, which
\* withdraws a request not yet taken on some PICs.  With prompt the next byte
\* takes its place at once.
ReadByte ==
  /\ Parsing /\ outbuf # << >>
  /\ parse(Head(outbuf))
  /\ attempt' = 0
  /\ IF prompt /\ sending # << >>
     THEN /\ outbuf' = <<Head(sending)>>
          /\ sending' = Tail(sending)
          /\ irr' = TRUE
     ELSE /\ outbuf' = << >>
          /\ UNCHANGED sending
          /\ irr' \in {irr, FALSE}
  /\ UNCHANGED user
  /\ UNCHANGED kernel

\* Mutant: a missing byte is waited for.
FindNothing_Waits == Parsing /\ outbuf = << >> /\ UNCHANGED vars

\* The buffer is empty; after the last attempt the byte counts as 0x00.
FindNothing ==
  /\ Parsing /\ outbuf = << >>
  /\ IF attempt + 1 < SEND_COMMAND_RETRY_LIMIT
     THEN attempt' = attempt + 1 /\ UNCHANGED <<handler, event>>
     ELSE attempt' = 0 /\ parse("00")
  /\ UNCHANGED <<user, sending, outbuf, irr>>
  /\ UNCHANGED kernel

\* The error of a full queue is ignored.
push_back(e) == IF Len(KEYBOARD_EVENT_QUEUE) < KEYBOARD_EVENT_QUEUE_SIZE
                THEN Append(KEYBOARD_EVENT_QUEUE, e)
                ELSE KEYBOARD_EVENT_QUEUE

\* Mutant: every event marks its key as pressed.
key_state_after_Pressed(e) == [KEYBOARD_KEY_STATE EXCEPT ![e.key] = TRUE]

key_state_after(e) == [KEYBOARD_KEY_STATE EXCEPT ![e.key] = e.event = "PRESSED"]

\* Store the event if there is room, update the key state in any case, and
\* return: hlt ends.
keyboard_handler ==
  /\ handler = "return"
  /\ IF event.key # "UNKNOWN"
     THEN /\ KEYBOARD_EVENT_QUEUE' = push_back(event)
          /\ KEYBOARD_KEY_STATE' = key_state_after(event)
     ELSE UNCHANGED <<KEYBOARD_EVENT_QUEUE, KEYBOARD_KEY_STATE>>
  /\ handler' = "none"
  /\ main' = IF main = "halted" THEN "polling" ELSE main
  /\ UNCHANGED <<user, sending, outbuf, irr, attempt, event, polled>>

(* The main loop, and the timer that wakes it.                             *)

poll_event ==
  /\ main = "polling" /\ handler = "none"
  /\ IF KEYBOARD_EVENT_QUEUE # << >>
     THEN /\ polled' = Append(polled, Head(KEYBOARD_EVENT_QUEUE))
          /\ KEYBOARD_EVENT_QUEUE' = Tail(KEYBOARD_EVENT_QUEUE)
          /\ UNCHANGED main
     ELSE main' = "halting" /\ UNCHANGED <<polled, KEYBOARD_EVENT_QUEUE>>
  /\ UNCHANGED <<user, sending, outbuf, irr, handler, attempt, event,
                 KEYBOARD_KEY_STATE>>

\* Nothing keeps an interrupt from coming between the last poll and the hlt.
Halt ==
  /\ main = "halting" /\ handler = "none"
  /\ main' = "halted"
  /\ UNCHANGED <<user, sending, outbuf, irr, handler, attempt, event,
                 KEYBOARD_KEY_STATE, KEYBOARD_EVENT_QUEUE, polled>>

\* Mutant: the timer interrupt does not end the hlt.
Tick_NoWake == UNCHANGED vars

\* The timer interrupts a thousand times a second, which ends the hlt.
Tick ==
  /\ main = "halted" /\ handler = "none"
  /\ main' = "polling"
  /\ UNCHANGED <<user, sending, outbuf, irr, handler, attempt, event,
                 KEYBOARD_KEY_STATE, KEYBOARD_EVENT_QUEUE, polled>>

Handler == Interrupt \/ ReadByte \/ FindNothing \/ keyboard_handler
Main == poll_event \/ Halt

Next == \/ \E key \in Keys, ev \in {"PRESSED", "RELEASED"} : UserActs(key, ev)
        \/ Transmit
        \/ Handler
        \/ Main
        \/ Tick

\* The CPU executes, the timer ticks, and what the keyboard holds is sent.
Spec == /\ Init /\ [][Next]_vars
        /\ WF_vars(Transmit) /\ WF_vars(Handler) /\ WF_vars(Main) /\ WF_vars(Tick)

-----------------------------------------------------------------------------
KeyboardEvent == [key : Keycode, event : {"PRESSED", "RELEASED"}]

\* Everything decoded so far, whether polled already or still queued.
decoded == polled \o KEYBOARD_EVENT_QUEUE

\* s can be obtained from t by leaving elements out: f says where its elements
\* are in t.
IsSubsequence(s, t) ==
  \E f \in [1 .. Len(s) -> 1 .. Len(t)] :
    /\ \A i, j \in 1 .. Len(s) : i < j => f[i] < f[j]
    /\ \A i \in 1 .. Len(s) : t[f[i]] = s[i]

\* parse_scancode invents nothing: the events it reports are things the user
\* did, in the order they were done.  A full queue may leave some out.  (A
\* keyboard that lets the handler's three polls pass between two bytes is
\* misread: behind a late F0 a release is reported as a press.)
NothingInvented == prompt => IsSubsequence(decoded, typed)

\* Once all bytes are decoded, is_key_pressed answers what is physically down,
\* even for keys whose events did not fit into the queue.  The print screen key
\* is "unimplemented"; the bytes behind its first two go with it.
Quiet == sending = << >> /\ outbuf = << >> /\ handler = "none"
Implemented == \A i \in DOMAIN typed : typed[i].key # "PRINT_SCREEN"

KeyStateFollows ==
  prompt /\ Quiet /\ Implemented =>
    \A k \in Keys : KEYBOARD_KEY_STATE[k] <=> IsDown(k)

\* The interrupt handler, which keeps all other interrupts out while it polls
\* for bytes, always returns, also from the drain loop behind E0 12.
HandlerReturns == handler # "none" ~> handler = "none"

\* The main loop eventually polls what was decoded, although an interrupt may
\* come between its last poll and the hlt.
EventsArePolled == KEYBOARD_EVENT_QUEUE # << >> ~> KEYBOARD_EVENT_QUEUE = << >>
=============================================================================
