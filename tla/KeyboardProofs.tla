--------------------------- MODULE KeyboardProofs ---------------------------
(***************************************************************************)
(* The scancode decoder of module Keyboard tells the main loop what the    *)
(* user did: proofs for any keys of the module, any queue and any number   *)
(* of attempts at a byte.                                                  *)
(*                                                                         *)
(* The invariant gives every byte that is on its way to the driver, and    *)
(* the one read last, its place in a scancode: the number of the user's    *)
(* action and the position in its scancode (Tags).  Successive bytes have  *)
(* successive places, and the state of parse_scancode fits the place of    *)
(* the byte read last (Fits).  What was decoded, and the table of pressed  *)
(* keys, belong to the actions up to that place (Embeds, KeyStates).       *)
(***************************************************************************)
EXTENDS Keyboard, SequenceTheorems, TLAPS

-----------------------------------------------------------------------------
(* Places of bytes.                                                        *)

EventType == {"PRESSED", "RELEASED"}
Action == [key : Keys, event : EventType]
Place == [who : Nat, pos : Nat]

\* The scancode of the n-th action of T; no scancode comes before the first.
Code(T, n) == IF n = 0 THEN << >> ELSE Scancode(T[n].key, T[n].event)

Complete(T, c) == c.pos = Len(Code(T, c.who))

Follows(T, c, d) ==
  IF Complete(T, c) THEN d = [who |-> c.who + 1, pos |-> 1]
                    ELSE d = [who |-> c.who, pos |-> c.pos + 1]

\* t[0] is the place of the byte read last, t[j] that of the j-th byte of B; the
\* last byte is the end of what the user did.
Tags(T, B, t) ==
  /\ t \in [0 .. Len(B) -> Place]
  /\ \A j \in 0 .. Len(B) : t[j].who <= Len(T) /\ t[j].pos <= Len(Code(T, t[j].who))
  /\ \A j \in 1 .. Len(B) : /\ t[j].who > 0 /\ t[j].pos > 0
                            /\ B[j] = Code(T, t[j].who)[t[j].pos]
                            /\ Follows(T, t[j - 1], t[j])
  /\ t[Len(B)].who = Len(T) /\ Complete(T, t[Len(B)])

\* The bytes that are on their way.
Bytes == outbuf \o sending

-----------------------------------------------------------------------------
(* The invariant.                                                          *)

TypeOK ==
  /\ typed \in Seq(Action) /\ prompt \in BOOLEAN
  /\ sending \in Seq(Byte) /\ outbuf \in Seq(Byte) /\ Len(outbuf) <= 1
  /\ handler \in {"none", "b1", "E0", "E0F0", "F0", "drain", "return"}
  /\ event \in [key : Keycode \cup {"UNKNOWN"}, event : EventType]
  /\ KEYBOARD_KEY_STATE \in [Keycode -> BOOLEAN]
  /\ KEYBOARD_EVENT_QUEUE \in Seq(KeyboardEvent) /\ polled \in Seq(KeyboardEvent)

\* A prefix of a scancode that parse_scancode has read in state h.
Prefix(h, e, p) ==
  \/ h = "E0" /\ p = 1 /\ e.key \in {"UP_ARROW", "PRINT_SCREEN"}
  \/ h = "E0" /\ p = 4 /\ e.key = "PRINT_SCREEN" /\ e.event = "RELEASED"
  \/ h = "E0F0" /\ p = 2 /\ e.key \in {"UP_ARROW", "PRINT_SCREEN"} /\ e.event = "RELEASED"
  \/ h = "E0F0" /\ p = 5 /\ e.key = "PRINT_SCREEN" /\ e.event = "RELEASED"
  \/ h = "F0" /\ p = 1 /\ e.key \in {"A", "KEYPAD_8"} /\ e.event = "RELEASED"

\* The handler returns once in the middle of a scancode.
Half(T, c) == /\ c.who > 0 /\ c.pos = 3
              /\ T[c.who] = Event("PRINT_SCREEN", "RELEASED")

\* An event waits to be stored.
Known == handler = "return" /\ event.key # "UNKNOWN"

Fits(c) ==
  /\ handler \in {"none", "b1"} \/ (handler = "return" /\ ~Known)
       => Complete(typed, c) \/ Half(typed, c)
  /\ handler \in {"E0", "E0F0", "F0"} => c.who > 0 /\ Prefix(handler, typed[c.who], c.pos)
  /\ Known => c.who > 0 /\ Complete(typed, c) /\ event = typed[c.who]
  /\ handler = "drain" => ~Implemented

\* The actions whose scancodes have been dealt with.
Done(c) == IF Complete(typed, c) /\ ~Known THEN c.who ELSE c.who - 1

\* s can be obtained from the first m elements of T by leaving elements out.
Embeds(s, T, m) ==
  \E f \in [1 .. Len(s) -> 1 .. Len(T)] :
    /\ \A i, j \in 1 .. Len(s) : i < j => f[i] < f[j]
    /\ \A i \in 1 .. Len(s) : T[f[i]] = s[i] /\ f[i] <= m

Down(T, key, m) == \E i \in 1 .. m : /\ T[i] = Event(key, "PRESSED")
                                    /\ \A j \in i + 1 .. m : T[j].key # key

KeyStates(m) == \A k \in Keys : KEYBOARD_KEY_STATE[k] <=> Down(typed, k, m)

Decodes(c) == /\ Fits(c)
              /\ outbuf = << >> => Complete(typed, c)
              /\ Embeds(decoded, typed, Done(c))
              /\ Implemented => KeyStates(Done(c))

InStep == \E t : Tags(typed, Bytes, t) /\ Decodes(t[0])

IInv == TypeOK /\ (prompt => InStep)

-----------------------------------------------------------------------------
(* Types.                                                                  *)

LEMMA Table ==
  /\ Scancode("A", "PRESSED") = <<"1C">>
  /\ Scancode("A", "RELEASED") = <<"F0", "1C">>
  /\ Scancode("KEYPAD_8", "PRESSED") = <<"75">>
  /\ Scancode("KEYPAD_8", "RELEASED") = <<"F0", "75">>
  /\ Scancode("UP_ARROW", "PRESSED") = <<"E0", "75">>
  /\ Scancode("UP_ARROW", "RELEASED") = <<"E0", "F0", "75">>
  /\ Scancode("PRINT_SCREEN", "PRESSED") = <<"E0", "12", "E0", "7C">>
  /\ Scancode("PRINT_SCREEN", "RELEASED") = <<"E0", "F0", "7C", "E0", "F0", "12">>
BY SMT DEF Scancode

LEMMA TupleType ==
  ASSUME NEW a \in Byte, NEW b \in Byte, NEW c \in Byte, NEW d \in Byte
  PROVE  /\ <<a>> \in Seq(Byte) /\ Len(<<a>>) = 1
         /\ <<a, b>> \in Seq(Byte) /\ Len(<<a, b>>) = 2
         /\ <<a, b, c>> \in Seq(Byte) /\ Len(<<a, b, c>>) = 3
         /\ <<a, b, c, d>> \in Seq(Byte) /\ Len(<<a, b, c, d>>) = 4
         /\ <<a, b, c, a, b, d>> \in Seq(Byte) /\ Len(<<a, b, c, a, b, d>>) = 6
OBVIOUS

LEMMA ScancodeType ==
  ASSUME NEW k \in Keys, NEW ev \in EventType
  PROVE  /\ Scancode(k, ev) \in Seq(Byte)
         /\ Len(Scancode(k, ev)) \in 1 .. 6
<1> DEFINE Good(s) == s \in Seq(Byte) /\ Len(s) \in 1 .. 6
<1>1. /\ k \in {"A", "KEYPAD_8", "UP_ARROW", "PRINT_SCREEN"}
      /\ ev \in {"PRESSED", "RELEASED"}
  BY KeysAssumption DEF EventType
<1>2. {"12", "1C", "75", "7C", "E0", "F0"} \subseteq Byte
  BY DEF Byte
<1>3. Good(<<"1C">>) /\ Good(<<"F0", "1C">>)
  BY <1>2, TupleType
<1>4. Good(<<"75">>) /\ Good(<<"F0", "75">>)
  BY <1>2, TupleType
<1>5. Good(<<"E0", "75">>) /\ Good(<<"E0", "F0", "75">>)
  BY <1>2, TupleType
<1>6. Good(<<"E0", "12", "E0", "7C">>)
  BY <1>2, TupleType
<1>7. Good(<<"E0", "F0", "7C", "E0", "F0", "12">>)
  BY <1>2, TupleType
<1> HIDE DEF Good
<1>8. Good(Scancode(k, ev))
  BY <1>1, <1>3, <1>4, <1>5, <1>6, <1>7, Table
<1> QED
  BY <1>8 DEF Good

\* What parse_scancode does with a byte stays within its states and events.
LEMMA ParseType ==
  ASSUME TypeOK, Parsing, NEW b \in Byte, parse(b)
  PROVE  /\ handler' \in {"none", "b1", "E0", "E0F0", "F0", "drain", "return"}
         /\ event' \in [key : Keycode \cup {"UNKNOWN"}, event : EventType]
<1>1. /\ SCANCODE_MAP_SINGLE_BYTE[b] \in Keycode \cup {"UNKNOWN"}
      /\ SCANCODE_MAP_E0[b] \in Keycode \cup {"UNKNOWN"}
  BY DEF SCANCODE_MAP_SINGLE_BYTE, SCANCODE_MAP_E0, Keycode, Byte
<1> DEFINE Good(e) == e \in [key : Keycode \cup {"UNKNOWN"}, event : EventType]
<1>2. \A k \in Keycode \cup {"UNKNOWN"}, ev \in EventType : Good(Event(k, ev))
  BY DEF Event
<1>3. Good(event)
  BY DEF TypeOK
<1>4. /\ \A ev, k : Returns(ev, k) => handler' = "return" /\ event' = Event(k, ev)
      /\ \A h : Awaits(h) => handler' = h /\ event' = event
  BY DEF Returns, Awaits
<1>5. /\ SCANCODE_MAP_SINGLE_BYTE[b] \in Keycode \cup {"UNKNOWN"}
      /\ SCANCODE_MAP_E0[b] \in Keycode \cup {"UNKNOWN"}
      /\ "PRESSED" \in EventType /\ "RELEASED" \in EventType
  BY <1>1 DEF EventType
<1> DEFINE H == {"none", "b1", "E0", "E0F0", "F0", "drain", "return"}
<1> SUFFICES Good(event') /\ handler' \in H
  OBVIOUS
<1> HIDE DEF Good
<1>6. CASE handler = "b1"
  BY <1>2, <1>3, <1>4, <1>5, <1>6 DEF parse
<1>7. CASE handler = "E0"
  BY <1>2, <1>3, <1>4, <1>5, <1>7 DEF parse
<1>8. CASE handler = "E0F0"
  BY <1>2, <1>3, <1>4, <1>5, <1>8 DEF parse
<1>9. CASE handler = "F0"
  BY <1>2, <1>3, <1>4, <1>5, <1>9 DEF parse
<1>10. CASE handler = "drain"
  BY <1>2, <1>3, <1>4, <1>5, <1>10 DEF parse
<1> QED
  BY <1>6, <1>7, <1>8, <1>9, <1>10 DEF Parsing

LEMMA TypeInit == Init => TypeOK
BY SMT DEF Init, TypeOK, EventType, Event, Keycode

LEMMA TypeStep == TypeOK /\ [Next]_vars => TypeOK'
<1> SUFFICES ASSUME TypeOK, [Next]_vars PROVE TypeOK'
  OBVIOUS
<1>1. ASSUME NEW key \in Keys, NEW ev \in EventType, UserActs(key, ev)
      PROVE  TypeOK'
  <2>1. Event(key, ev) \in Action
    BY <1>1 DEF Event, Action
  <2>2. typed' \in Seq(Action)
    BY <1>1, <2>1, AppendProperties DEF UserActs, TypeOK
  <2>3. sending' \in Seq(Byte)
    BY <1>1, ScancodeType, ConcatProperties DEF UserActs, TypeOK
  <2> QED
    BY <1>1, <2>2, <2>3 DEF UserActs, TypeOK, kernel
<1>2. ASSUME Transmit PROVE TypeOK'
  <2>1. Head(sending) \in Byte /\ Tail(sending) \in Seq(Byte)
    BY <1>2, HeadTailProperties DEF Transmit, TypeOK
  <2> QED
    BY <1>2, <2>1 DEF Transmit, TypeOK, user, kernel
<1>3. ASSUME Interrupt PROVE TypeOK'
  BY <1>3 DEF Interrupt, TypeOK, user, kernel
<1>4. ASSUME ReadByte PROVE TypeOK'
  <2>1. Head(outbuf) \in Byte
    BY <1>4, HeadTailProperties DEF ReadByte, TypeOK
  <2>2. /\ handler' \in {"none", "b1", "E0", "E0F0", "F0", "drain", "return"}
        /\ event' \in [key : Keycode \cup {"UNKNOWN"}, event : EventType]
    BY <1>4, <2>1, ParseType DEF ReadByte
  <2>3. outbuf' \in Seq(Byte) /\ Len(outbuf') <= 1 /\ sending' \in Seq(Byte)
    <3>1. outbuf \in Seq(Byte) /\ sending \in Seq(Byte)
      BY DEF TypeOK
    <3>2. CASE prompt /\ sending # << >>
      <4>1. Head(sending) \in Byte /\ Tail(sending) \in Seq(Byte)
        BY <3>1, <3>2, HeadTailProperties
      <4>2. outbuf' = <<Head(sending)>> /\ sending' = Tail(sending)
        BY <1>4, <3>2 DEF ReadByte
      <4> QED
        BY <4>1, <4>2, TupleType
    <3>3. CASE ~(prompt /\ sending # << >>)
      <4>1. outbuf' = << >> /\ sending' = sending
        BY <1>4, <3>3 DEF ReadByte
      <4> QED
        BY <3>1, <4>1
    <3> QED
      BY <3>2, <3>3
  <2> QED
    BY <1>4, <2>2, <2>3 DEF ReadByte, TypeOK, user, kernel
<1>5. ASSUME FindNothing PROVE TypeOK'
  <2>1. /\ handler' \in {"none", "b1", "E0", "E0F0", "F0", "drain", "return"}
        /\ event' \in [key : Keycode \cup {"UNKNOWN"}, event : EventType]
    <3>1. CASE UNCHANGED <<handler, event>>
      BY <3>1 DEF TypeOK
    <3>2. CASE parse("00")
      BY <1>5, <3>2, ParseType DEF FindNothing, Byte
    <3> QED
      BY <1>5, <3>1, <3>2 DEF FindNothing
  <2> QED
    BY <1>5, <2>1 DEF FindNothing, TypeOK, user, kernel
<1>6. ASSUME keyboard_handler PROVE TypeOK'
  <2>1. /\ KEYBOARD_EVENT_QUEUE' \in Seq(KeyboardEvent)
        /\ KEYBOARD_KEY_STATE' \in [Keycode -> BOOLEAN]
    <3>1. CASE event.key = "UNKNOWN"
      BY <1>6, <3>1 DEF keyboard_handler, TypeOK
    <3>2. CASE event.key # "UNKNOWN"
      <4>1. event \in KeyboardEvent
        BY <3>2 DEF TypeOK, KeyboardEvent, EventType
      <4>2. push_back(event) \in Seq(KeyboardEvent)
        BY <4>1, AppendProperties DEF push_back, TypeOK
      <4>3. key_state_after(event) \in [Keycode -> BOOLEAN]
        BY DEF key_state_after, TypeOK
      <4> QED
        BY <1>6, <3>2, <4>2, <4>3 DEF keyboard_handler
    <3> QED
      BY <3>1, <3>2
  <2> QED
    BY <1>6, <2>1 DEF keyboard_handler, TypeOK, user
<1>7. ASSUME poll_event PROVE TypeOK'
  <2>1. /\ KEYBOARD_EVENT_QUEUE' \in Seq(KeyboardEvent)
        /\ polled' \in Seq(KeyboardEvent)
    <3>1. CASE KEYBOARD_EVENT_QUEUE # << >>
      <4>1. /\ Head(KEYBOARD_EVENT_QUEUE) \in KeyboardEvent
            /\ Tail(KEYBOARD_EVENT_QUEUE) \in Seq(KeyboardEvent)
        BY <3>1, HeadTailProperties DEF TypeOK
      <4>2. /\ KEYBOARD_EVENT_QUEUE' = Tail(KEYBOARD_EVENT_QUEUE)
            /\ polled' = Append(polled, Head(KEYBOARD_EVENT_QUEUE))
        BY <1>7, <3>1 DEF poll_event
      <4> QED
        BY <4>1, <4>2, AppendProperties DEF TypeOK
    <3>2. CASE KEYBOARD_EVENT_QUEUE = << >>
      BY <1>7, <3>2 DEF poll_event, TypeOK
    <3> QED
      BY <3>1, <3>2
  <2> QED
    BY <1>7, <2>1 DEF poll_event, TypeOK, user
<1>8. ASSUME Halt PROVE TypeOK'
  BY <1>8 DEF Halt, TypeOK, user
<1>9. ASSUME Tick PROVE TypeOK'
  BY <1>9 DEF Tick, TypeOK, user
<1>10. ASSUME UNCHANGED vars PROVE TypeOK'
  BY <1>10 DEF vars, TypeOK, user
<1> QED
  BY <1>1, <1>2, <1>3, <1>4, <1>5, <1>6, <1>7, <1>8, <1>9, <1>10
     DEF Next, Handler, Main, EventType

-----------------------------------------------------------------------------
(* What the decoder makes of a byte with a place.                          *)

\* The bytes of the scancodes, as far as parse_scancode tells them apart.
LEMMA BytesOfKeys ==
  ASSUME NEW k \in {"A", "KEYPAD_8"}
  PROVE  LET p == Scancode(k, "PRESSED")
             r == Scancode(k, "RELEASED")
         IN  /\ Len(p) = 1 /\ Len(r) = 2
             /\ p[1] \notin {"E0", "F0"} /\ SCANCODE_MAP_SINGLE_BYTE[p[1]] = k
             /\ r[1] = "F0" /\ SCANCODE_MAP_SINGLE_BYTE[r[2]] = k
             /\ p[1] # "00" /\ r[2] # "00"
<1>1. SCANCODE_MAP_SINGLE_BYTE["1C"] = "A" /\ SCANCODE_MAP_SINGLE_BYTE["75"] = "KEYPAD_8"
  BY DEF SCANCODE_MAP_SINGLE_BYTE, Byte
<1>2. CASE k = "A"
  BY <1>1, <1>2, Table
<1>3. CASE k = "KEYPAD_8"
  BY <1>1, <1>3, Table
<1> QED
  BY <1>2, <1>3

LEMMA BytesOfArrow ==
  LET p == Scancode("UP_ARROW", "PRESSED")
      r == Scancode("UP_ARROW", "RELEASED")
  IN  /\ Len(p) = 2 /\ Len(r) = 3
      /\ p[1] = "E0" /\ p[2] = "75" /\ r[1] = "E0" /\ r[2] = "F0" /\ r[3] = "75"
      /\ SCANCODE_MAP_E0["75"] = "UP_ARROW"
BY Table DEF SCANCODE_MAP_E0, Byte

LEMMA BytesOfPrintScreen ==
  LET p == Scancode("PRINT_SCREEN", "PRESSED")
      r == Scancode("PRINT_SCREEN", "RELEASED")
  IN  /\ Len(p) = 4 /\ Len(r) = 6
      /\ p[1] = "E0" /\ p[2] = "12" /\ p[3] = "E0" /\ p[4] = "7C"
      /\ r[1] = "E0" /\ r[2] = "F0" /\ r[3] = "7C"
      /\ r[4] = "E0" /\ r[5] = "F0" /\ r[6] = "12"
      /\ SCANCODE_MAP_E0["7C"] = "UNKNOWN" /\ SCANCODE_MAP_E0["12"] = "UNKNOWN"
BY Table DEF SCANCODE_MAP_E0, Byte

\* No scancode holds the byte that stands for a missing one.
LEMMA NoZero ==
  ASSUME NEW k \in Keys, NEW ev \in EventType, NEW p \in 1 .. Len(Scancode(k, ev))
  PROVE  Scancode(k, ev)[p] # "00"
<1>1. /\ k \in {"A", "KEYPAD_8"} \/ k = "UP_ARROW" \/ k = "PRINT_SCREEN"
      /\ ev \in {"PRESSED", "RELEASED"}
  BY KeysAssumption DEF EventType
<1>2. CASE k \in {"A", "KEYPAD_8"}
  BY <1>1, <1>2, BytesOfKeys
<1>3. CASE k = "UP_ARROW"
  BY <1>1, <1>3, BytesOfArrow
<1>4. CASE k = "PRINT_SCREEN"
  BY <1>1, <1>4, BytesOfPrintScreen
<1> QED
  BY <1>1, <1>2, <1>3, <1>4

\* The scancode of an action.
LEMMA CodeOf ==
  ASSUME NEW T \in Seq(Action), NEW n \in 1 .. Len(T)
  PROVE  /\ T[n].key \in Keys /\ T[n].event \in EventType
         /\ T[n] = Event(T[n].key, T[n].event)
         /\ Code(T, n) = Scancode(T[n].key, T[n].event)
         /\ Code(T, n) \in Seq(Byte) /\ Len(Code(T, n)) \in 1 .. 6
<1>1. T[n] \in Action
  BY ElementOfSeq
<1>2. T[n].key \in Keys /\ T[n].event \in EventType /\ T[n] = Event(T[n].key, T[n].event)
  BY <1>1 DEF Action, Event
<1> QED
  BY <1>2, ScancodeType DEF Code

\* A state of parse_scancode that has read a prefix has more to read.
LEMMA PrefixIncomplete ==
  ASSUME NEW T \in Seq(Action), NEW c \in Place, c.who \in 1 .. Len(T),
         NEW h, Prefix(h, T[c.who], c.pos)
  PROVE  ~Complete(T, c)
<1>1. /\ T[c.who].key \in Keys /\ T[c.who].event \in {"PRESSED", "RELEASED"}
      /\ Code(T, c.who) = Scancode(T[c.who].key, T[c.who].event)
  BY CodeOf DEF EventType
<1>2. CASE T[c.who].key \in {"A", "KEYPAD_8"}
  BY <1>1, <1>2, BytesOfKeys DEF Prefix, Complete
<1>3. CASE T[c.who].key = "UP_ARROW"
  BY <1>1, <1>3, BytesOfArrow DEF Prefix, Complete
<1>4. CASE T[c.who].key = "PRINT_SCREEN"
  BY <1>1, <1>4, BytesOfPrintScreen DEF Prefix, Complete
<1> QED
  BY <1>1, <1>2, <1>3, <1>4, KeysAssumption

\* The byte with the place behind c takes parse_scancode on as its place asks.
LEMMA ParseStep ==
  ASSUME TypeOK, Parsing, typed' = typed,
         NEW c \in Place, NEW d \in Place,
         c.who \in 0 .. Len(typed), d.who \in 1 .. Len(typed),
         d.pos \in 1 .. Len(Code(typed, d.who)), Follows(typed, c, d), Fits(c),
         NEW b, b = Code(typed, d.who)[d.pos], parse(b)
  PROVE  /\ Fits(d)'
         /\ Implemented /\ Complete(typed, d) => Known'
<1> DEFINE k == typed[d.who].key
           ev == typed[d.who].event
<1>1. /\ typed \in Seq(Action)
      /\ handler \in {"none", "b1", "E0", "E0F0", "F0", "drain", "return"}
  BY DEF TypeOK
<1>2. /\ k \in {"A", "KEYPAD_8", "UP_ARROW", "PRINT_SCREEN"}
      /\ k \in Keys
      /\ ev \in {"PRESSED", "RELEASED"} /\ ev \in EventType
      /\ typed[d.who] = Event(k, ev)
      /\ typed[d.who].key = k /\ typed[d.who].event = ev
      /\ Code(typed, d.who) = Scancode(k, ev)
  BY <1>1, CodeOf, KeysAssumption DEF EventType
<1>3. /\ d.pos \in 1 .. Len(Scancode(k, ev))
      /\ b = Scancode(k, ev)[d.pos] /\ b # "00"
      /\ Complete(typed, d) <=> d.pos = Len(Scancode(k, ev))
  BY <1>2, NoZero DEF Complete
<1>4. /\ Complete(typed, c) => d.pos = 1
      /\ ~Complete(typed, c) => c.who = d.who /\ d.pos = c.pos + 1
  BY DEF Follows
<1>5. handler \in {"E0", "E0F0", "F0"} => Prefix(handler, typed[d.who], d.pos - 1)
  <2> SUFFICES ASSUME handler \in {"E0", "E0F0", "F0"}
               PROVE  Prefix(handler, typed[d.who], d.pos - 1)
    OBVIOUS
  <2>1. c.who > 0 /\ Prefix(handler, typed[c.who], c.pos)
    BY DEF Fits
  <2>2. ~Complete(typed, c)
    BY <1>1, <2>1, PrefixIncomplete DEF Place
  <2> QED
    BY <1>4, <2>1, <2>2 DEF Place
<1>6. handler = "b1" => d.pos = 1 \/ (d.pos = 4 /\ k = "PRINT_SCREEN" /\ ev = "RELEASED")
  BY <1>2, <1>4 DEF Fits, Half, Event
<1>7. handler = "drain" => ~Implemented
  BY DEF Fits
<1>8. /\ \A e, key : Returns(e, key) => handler' = "return" /\ event' = Event(key, e)
      /\ \A h : Awaits(h) => handler' = h /\ event' = event
  BY DEF Returns, Awaits
<1>9. k = "PRINT_SCREEN" => ~Implemented
  BY <1>1, LenProperties DEF Implemented
<1> HIDE DEF k, ev
<1> DEFINE Ok == /\ handler' \in {"E0", "E0F0", "F0"} =>
                      Prefix(handler', typed[d.who], d.pos)
                 /\ handler' = "return" /\ event'.key # "UNKNOWN" =>
                      Complete(typed, d) /\ event' = typed[d.who]
                 /\ handler' = "return" /\ event'.key = "UNKNOWN" =>
                      Complete(typed, d) \/ Half(typed, d)
                 /\ handler' = "drain" => ~Implemented
                 /\ handler' \notin {"none", "b1"}
                 /\ Implemented /\ Complete(typed, d) => Known'
<1>10. SUFFICES Ok
  BY DEF Fits, Known, Implemented
<1> DEFINE Stored == /\ handler' = "return" /\ event' = Event(k, ev)
                     /\ d.pos = Len(Scancode(k, ev))
           Unknown == /\ handler' = "return" /\ event'.key = "UNKNOWN" /\ ~Implemented
                      /\ Complete(typed, d) \/ Half(typed, d)
           Reading == /\ handler' \in {"E0", "E0F0", "F0"}
                      /\ Prefix(handler', typed[d.who], d.pos)
                      /\ d.pos # Len(Scancode(k, ev))
           Drained == handler' = "drain" /\ ~Implemented
<1>11. Stored \/ Unknown \/ Reading \/ Drained => Ok
  <2>1. Stored => Ok
    BY <1>2, <1>3 DEF Event, Known
  <2>2. Unknown \/ Drained => Ok
    BY DEF Known
  <2>3. Reading => Ok
    BY <1>3
  <2> QED
    BY <2>1, <2>2, <2>3
<1> HIDE DEF Ok
<1>12. /\ Event(k, ev).key = k /\ Event(k, ev).event = ev
       /\ \A q : Event("UNKNOWN", q).key = "UNKNOWN"
  BY DEF Event
<1>13. CASE handler = "drain"
  BY <1>3, <1>7, <1>8, <1>11, <1>13 DEF parse
<1>14. CASE handler = "b1"
  <2>1. CASE k \in {"A", "KEYPAD_8"}
    <3>1. d.pos = 1
      BY <1>6, <1>14, <2>1
    <3>2. CASE ev = "PRESSED"
      BY <1>3, <1>8, <1>11, <1>14, <2>1, <3>1, <3>2, BytesOfKeys DEF parse
    <3>3. CASE ev = "RELEASED"
      <4>1. b = "F0" /\ Len(Scancode(k, ev)) = 2
        BY <1>3, <2>1, <3>1, <3>3, BytesOfKeys
      <4>2. handler' = "F0"
        BY <1>8, <1>14, <4>1 DEF parse
      <4>3. Prefix("F0", typed[d.who], 1)
        BY <1>2, <2>1, <3>3 DEF Prefix
      <4> QED
        BY <1>11, <3>1, <4>1, <4>2, <4>3
    <3> QED
      BY <1>2, <3>2, <3>3
  <2>2. CASE k = "UP_ARROW"
    <3>1. d.pos = 1
      BY <1>6, <1>14, <2>2
    <3>2. b = "E0" /\ Len(Scancode(k, ev)) # 1
      BY <1>2, <1>3, <2>2, <3>1, BytesOfArrow
    <3>3. handler' = "E0"
      BY <1>8, <1>14, <3>2 DEF parse
    <3> QED
      BY <1>2, <1>11, <1>12, <2>2, <3>1, <3>2, <3>3 DEF Prefix
  <2>3. CASE k = "PRINT_SCREEN"
    <3>1. d.pos = 1 \/ (d.pos = 4 /\ ev = "RELEASED")
      BY <1>6, <1>14
    <3>2. b = "E0"
      BY <1>2, <1>3, <2>3, <3>1, BytesOfPrintScreen
    <3>3. handler' = "E0"
      BY <1>8, <1>14, <3>2 DEF parse
    <3>4. Prefix("E0", typed[d.who], d.pos)
      BY <1>2, <2>3, <3>1 DEF Prefix
    <3>5. d.pos # Len(Scancode(k, ev))
      BY <1>2, <2>3, <3>1, BytesOfPrintScreen
    <3> QED
      BY <1>11, <3>3, <3>4, <3>5
  <2> QED
    BY <1>2, <2>1, <2>2, <2>3
<1>15. CASE handler = "F0"
  <2>1. k \in {"A", "KEYPAD_8"} /\ ev = "RELEASED" /\ d.pos = 2
    BY <1>2, <1>5, <1>12, <1>15 DEF Prefix, Place
  <2>2. SCANCODE_MAP_SINGLE_BYTE[b] = k /\ Len(Scancode(k, ev)) = 2
    BY <1>3, <2>1, BytesOfKeys
  <2>3. handler' = "return" /\ event' = Event(k, ev)
    BY <1>8, <1>15, <2>1, <2>2 DEF parse
  <2> QED
    BY <1>11, <2>1, <2>2, <2>3
<1>16. CASE handler = "E0F0"
  <2>1. ev = "RELEASED"
    BY <1>2, <1>5, <1>12, <1>16 DEF Prefix
  <2>2. handler' = "return" /\ event' = Event(SCANCODE_MAP_E0[b], "RELEASED")
    BY <1>8, <1>16 DEF parse
  <2>3. CASE k = "UP_ARROW"
    <3>1. d.pos = 3
      BY <1>2, <1>5, <1>12, <1>16, <2>3 DEF Prefix, Place
    <3>2. SCANCODE_MAP_E0[b] = k /\ Len(Scancode(k, ev)) = 3
      BY <1>3, <2>1, <2>3, <3>1, BytesOfArrow
    <3> QED
      BY <1>11, <2>1, <2>2, <3>1, <3>2
  <2>4. CASE k = "PRINT_SCREEN"
    <3>1. d.pos = 3 \/ d.pos = 6
      BY <1>2, <1>5, <1>12, <1>16, <2>4 DEF Prefix, Place
    <3>2. SCANCODE_MAP_E0[b] = "UNKNOWN" /\ Len(Scancode(k, ev)) = 6
      BY <1>3, <2>1, <2>4, <3>1, BytesOfPrintScreen
    <3>3. typed[d.who] = Event("PRINT_SCREEN", "RELEASED") /\ d.who > 0
      BY <1>2, <2>1, <2>4
    <3>4. Complete(typed, d) \/ Half(typed, d)
      BY <1>3, <3>1, <3>2, <3>3 DEF Half
    <3> QED
      BY <1>9, <1>11, <1>12, <2>2, <2>4, <3>2, <3>4
  <2>5. k \in {"UP_ARROW", "PRINT_SCREEN"}
    BY <1>2, <1>5, <1>12, <1>16 DEF Prefix
  <2> QED
    BY <2>3, <2>4, <2>5
<1>17. CASE handler = "E0"
  <2>1. CASE k = "UP_ARROW"
    <3>1. d.pos = 2
      BY <1>2, <1>5, <1>12, <1>17, <2>1 DEF Prefix, Place
    <3>2. CASE ev = "PRESSED"
      <4>1. b = "75" /\ SCANCODE_MAP_E0[b] = k /\ Len(Scancode(k, ev)) = 2
        BY <1>3, <2>1, <3>1, <3>2, BytesOfArrow
      <4>2. handler' = "return" /\ event' = Event(k, ev)
        BY <1>8, <1>17, <3>2, <4>1 DEF parse
      <4> QED
        BY <1>11, <3>1, <4>1, <4>2
    <3>3. CASE ev = "RELEASED"
      <4>1. b = "F0" /\ Len(Scancode(k, ev)) = 3
        BY <1>3, <2>1, <3>1, <3>3, BytesOfArrow
      <4>2. handler' = "E0F0"
        BY <1>8, <1>17, <4>1 DEF parse
      <4>3. Prefix("E0F0", typed[d.who], 2)
        BY <1>2, <2>1, <3>3 DEF Prefix
      <4> QED
        BY <1>11, <3>1, <4>1, <4>2, <4>3
    <3> QED
      BY <1>2, <3>2, <3>3
  <2>2. CASE k = "PRINT_SCREEN"
    <3>1. d.pos = 2 \/ (d.pos = 5 /\ ev = "RELEASED")
      BY <1>2, <1>5, <1>12, <1>17, <2>2 DEF Prefix, Place
    <3>2. CASE ev = "PRESSED"
      <4>1. b = "12"
        BY <1>3, <2>2, <3>1, <3>2, BytesOfPrintScreen
      <4> QED
        BY <1>8, <1>9, <1>11, <1>17, <2>2, <4>1 DEF parse
    <3>3. CASE ev = "RELEASED"
      <4>1. b = "F0" /\ Len(Scancode(k, ev)) = 6
        BY <1>3, <2>2, <3>1, <3>3, BytesOfPrintScreen
      <4>2. handler' = "E0F0"
        BY <1>8, <1>17, <4>1 DEF parse
      <4>3. Prefix("E0F0", typed[d.who], d.pos)
        BY <1>2, <2>2, <3>1, <3>3 DEF Prefix
      <4>4. d.pos # Len(Scancode(k, ev))
        BY <3>1, <4>1
      <4> QED
        BY <1>11, <4>2, <4>3, <4>4
    <3> QED
      BY <1>2, <3>2, <3>3
  <2>3. k \in {"UP_ARROW", "PRINT_SCREEN"}
    BY <1>2, <1>5, <1>12, <1>17 DEF Prefix
  <2> QED
    BY <2>1, <2>2, <2>3
<1> QED
  BY <1>13, <1>14, <1>15, <1>16, <1>17 DEF Parsing

-----------------------------------------------------------------------------
(* The places of bytes read and bytes sent.                                *)

\* The first byte of B, behind the place c, has the place d.
Consumed(T, B, c, d) ==
  /\ c \in Place /\ d \in Place
  /\ c.who \in 0 .. Len(T) /\ d.who \in 1 .. Len(T)
  /\ d.pos \in 1 .. Len(Code(T, d.who))
  /\ Head(B) = Code(T, d.who)[d.pos]
  /\ Follows(T, c, d)
  /\ Tail(B) = << >> => Complete(T, d)

\* Reading the first byte leaves the places of the others.
LEMMA ConsumeTags ==
  ASSUME NEW T \in Seq(Action), NEW B \in Seq(Byte), B # << >>,
         NEW t, Tags(T, B, t)
  PROVE  \E u : Tags(T, Tail(B), u) /\ Consumed(T, B, t[0], u[0])
<1> DEFINE u == [j \in 0 .. Len(B) - 1 |-> t[j + 1]]
<1>1. /\ Len(B) \in Nat /\ Len(B) > 0 /\ Head(B) = B[1]
      /\ Len(Tail(B)) = Len(B) - 1
      /\ \A i \in 1 .. Len(B) - 1 : Tail(B)[i] = B[i + 1]
  BY HeadTailProperties, EmptySeq, LenProperties
<1>2. /\ t \in [0 .. Len(B) -> Place]
      /\ \A i \in 0 .. Len(B) : t[i].who <= Len(T) /\ t[i].pos <= Len(Code(T, t[i].who))
      /\ \A i \in 1 .. Len(B) : /\ t[i].who > 0 /\ t[i].pos > 0
                                /\ B[i] = Code(T, t[i].who)[t[i].pos]
                                /\ Follows(T, t[i - 1], t[i])
      /\ t[Len(B)].who = Len(T) /\ Complete(T, t[Len(B)])
  BY DEF Tags
<1>3. /\ u \in [0 .. Len(Tail(B)) -> Place]
      /\ \A i \in 0 .. Len(B) - 1 : u[i] = t[i + 1]
  <2>1. ASSUME NEW i \in 0 .. Len(B) - 1 PROVE t[i + 1] \in Place
    <3>1. i + 1 \in 0 .. Len(B)
      BY <1>1
    <3> QED
      BY <1>2, <3>1
  <2> QED
    BY <1>1, <2>1
<1> HIDE DEF u
<1>4. \A i \in 0 .. Len(Tail(B)) :
        u[i].who <= Len(T) /\ u[i].pos <= Len(Code(T, u[i].who))
  <2>1. ASSUME NEW i \in 0 .. Len(Tail(B))
        PROVE  u[i].who <= Len(T) /\ u[i].pos <= Len(Code(T, u[i].who))
    <3>1. u[i] = t[i + 1] /\ i + 1 \in 0 .. Len(B)
      BY <1>1, <1>3
    <3> QED
      BY <1>2, <3>1
  <2> QED
    BY <2>1
<1>5. ASSUME NEW i \in 1 .. Len(Tail(B))
      PROVE  /\ u[i].who > 0 /\ u[i].pos > 0
             /\ Tail(B)[i] = Code(T, u[i].who)[u[i].pos]
             /\ Follows(T, u[i - 1], u[i])
  <2>1. /\ i + 1 \in 1 .. Len(B) /\ i \in 1 .. Len(B) - 1
        /\ u[i] = t[i + 1] /\ u[i - 1] = t[i] /\ (i + 1) - 1 = i
    BY <1>1, <1>3
  <2>2. Follows(T, t[i], t[i + 1])
    BY <1>2, <2>1
  <2> QED
    BY <1>1, <1>2, <2>1, <2>2
<1>6. u[Len(Tail(B))].who = Len(T) /\ Complete(T, u[Len(Tail(B))])
  <2>1. Len(Tail(B)) \in 0 .. Len(B) - 1 /\ Len(Tail(B)) + 1 = Len(B)
    BY <1>1
  <2> QED
    BY <1>2, <1>3, <2>1
<1>7. Tags(T, Tail(B), u)
  BY <1>3, <1>4, <1>5, <1>6 DEF Tags
<1>8. /\ u[0] = t[1] /\ t[0] \in Place /\ t[1] \in Place
      /\ t[0].who <= Len(T) /\ t[1].who <= Len(T)
      /\ t[1].who > 0 /\ t[1].pos > 0 /\ t[1].pos <= Len(Code(T, t[1].who))
      /\ B[1] = Code(T, t[1].who)[t[1].pos]
  <2>1. /\ 0 \in 0 .. Len(B) - 1 /\ 0 \in 0 .. Len(B) /\ 1 \in 0 .. Len(B)
        /\ 1 \in 1 .. Len(B) /\ 0 + 1 = 1
    BY <1>1
  <2>2. u[0] = t[1]
    BY <1>3, <2>1
  <2> QED
    BY <1>2, <2>1, <2>2
<1>9. Follows(T, t[0], t[1])
  BY <1>1, <1>2
<1>10. t[0].who \in 0 .. Len(T) /\ t[1].who \in 1 .. Len(T)
  BY <1>8, LenProperties DEF Place
<1>11. t[1].pos \in 1 .. Len(Code(T, t[1].who))
  BY <1>8, <1>10, CodeOf DEF Place
<1>12. Tail(B) = << >> => Complete(T, u[0])
  BY <1>1, <1>6
<1>13. Consumed(T, B, t[0], u[0])
  BY <1>1, <1>8, <1>9, <1>10, <1>11, <1>12 DEF Consumed
<1> QED
  BY <1>7, <1>13

\* A further action changes no scancode before it.
LEMMA CodeAppend ==
  ASSUME NEW T \in Seq(Action), NEW a \in Action
  PROVE  /\ Append(T, a) \in Seq(Action) /\ Len(Append(T, a)) = Len(T) + 1
         /\ Len(T) \in Nat
         /\ \A n \in 1 .. Len(T) : Append(T, a)[n] = T[n]
         /\ \A n \in 0 .. Len(T) : Code(Append(T, a), n) = Code(T, n)
         /\ Code(Append(T, a), Len(T) + 1) = Scancode(a.key, a.event)
<1>1. /\ Append(T, a) \in Seq(Action) /\ Len(Append(T, a)) = Len(T) + 1
      /\ Len(T) \in Nat
      /\ \A n \in 1 .. Len(T) : Append(T, a)[n] = T[n]
      /\ Append(T, a)[Len(T) + 1] = a
  BY AppendProperties, LenProperties
<1> QED
  BY <1>1 DEF Code

\* The bytes of a further action get the places of its scancode.
LEMMA AppendTags ==
  ASSUME NEW T \in Seq(Action), NEW B \in Seq(Byte), NEW t, Tags(T, B, t),
         NEW a \in Action
  PROVE  \E u : /\ Tags(Append(T, a), B \o Scancode(a.key, a.event), u)
                /\ u[0] = t[0]
<1> DEFINE S == Scancode(a.key, a.event)
           T2 == Append(T, a)
           B2 == B \o S
           N == Len(T)
           L == Len(B)
           u == [i \in 0 .. Len(B2) |->
                   IF i <= L THEN t[i] ELSE [who |-> N + 1, pos |-> i - L]]
<1>1. /\ S \in Seq(Byte) /\ Len(S) \in 1 .. 6 /\ N \in Nat /\ L \in Nat
  BY ScancodeType, LenProperties DEF Action
<1>2. /\ Len(B2) = L + Len(S) /\ B2 \in Seq(Byte)
      /\ \A i \in 1 .. Len(B2) : B2[i] = IF i <= L THEN B[i] ELSE S[i - L]
  BY <1>1, ConcatProperties
<1>3. /\ Len(T2) = N + 1
      /\ \A n \in 0 .. N : Code(T2, n) = Code(T, n)
      /\ Code(T2, N + 1) = S
  BY CodeAppend
<1>4. /\ t \in [0 .. L -> Place]
      /\ \A i \in 0 .. L : t[i].who <= N /\ t[i].pos <= Len(Code(T, t[i].who))
      /\ \A i \in 1 .. L : /\ t[i].who > 0 /\ t[i].pos > 0
                           /\ B[i] = Code(T, t[i].who)[t[i].pos]
                           /\ Follows(T, t[i - 1], t[i])
      /\ t[L].who = N /\ Complete(T, t[L])
  BY DEF Tags
<1> HIDE DEF S, N, L, T2, B2
<1>5. /\ \A i \in 0 .. L : u[i] = t[i]
      /\ \A i \in L + 1 .. L + Len(S) : u[i] = [who |-> N + 1, pos |-> i - L]
  BY <1>1, <1>2
<1>6. u \in [0 .. Len(B2) -> Place]
  <2>1. ASSUME NEW i \in 0 .. Len(B2)
        PROVE  (IF i <= L THEN t[i] ELSE [who |-> N + 1, pos |-> i - L]) \in Place
    BY <1>1, <1>2, <1>4, <2>1 DEF Place
  <2> QED
    BY <2>1
<1> HIDE DEF u
<1>7. \A i \in 0 .. L : t[i].who \in 0 .. N
  <2>1. ASSUME NEW i \in 0 .. L PROVE t[i].who \in 0 .. N
    <3>1. t[i] \in Place /\ t[i].who <= N
      BY <1>4
    <3> QED
      BY <1>1, <3>1 DEF Place
  <2> QED
    BY <2>1
<1>8. ASSUME NEW i \in 0 .. Len(B2)
      PROVE  u[i].who <= Len(T2) /\ u[i].pos <= Len(Code(T2, u[i].who))
  <2>1. CASE i <= L
    <3>1. i \in 0 .. L /\ u[i] = t[i]
      BY <1>1, <1>5, <2>1
    <3>2. t[i].who \in 0 .. N /\ t[i].pos <= Len(Code(T, t[i].who))
      BY <1>4, <1>7, <3>1
    <3>3. Code(T2, t[i].who) = Code(T, t[i].who)
      BY <1>3, <3>2
    <3> QED
      BY <1>1, <1>3, <3>1, <3>2, <3>3
  <2>2. CASE i > L
    <3>1. u[i] = [who |-> N + 1, pos |-> i - L]
      <4>1. i \in L + 1 .. L + Len(S)
        BY <1>1, <1>2, <2>2
      <4> QED
        BY <1>5, <4>1
    <3> QED
      BY <1>1, <1>2, <1>3, <2>2, <3>1
  <2> QED
    BY <1>1, <2>1, <2>2
<1>9. ASSUME NEW i \in 1 .. Len(B2)
      PROVE  /\ u[i].who > 0 /\ u[i].pos > 0
             /\ B2[i] = Code(T2, u[i].who)[u[i].pos]
             /\ Follows(T2, u[i - 1], u[i])
  <2>1. CASE i <= L
    <3>1. /\ i \in 1 .. L /\ i \in 0 .. L /\ i - 1 \in 0 .. L
          /\ u[i] = t[i] /\ u[i - 1] = t[i - 1]
      BY <1>1, <1>5, <2>1
    <3>2. /\ t[i].who > 0 /\ t[i].pos > 0 /\ B[i] = Code(T, t[i].who)[t[i].pos]
          /\ Follows(T, t[i - 1], t[i])
      BY <1>4, <3>1
    <3>3. /\ Code(T2, t[i].who) = Code(T, t[i].who)
          /\ Code(T2, t[i - 1].who) = Code(T, t[i - 1].who)
      BY <1>3, <1>7, <3>1
    <3>4. Follows(T2, t[i - 1], t[i])
      BY <3>2, <3>3 DEF Follows, Complete
    <3>5. B2[i] = B[i]
      BY <1>2, <2>1
    <3> QED
      BY <3>1, <3>2, <3>3, <3>4, <3>5
  <2>2. CASE i = L + 1
    <3>1. u[i] = [who |-> N + 1, pos |-> 1] /\ u[i - 1] = t[L] /\ B2[i] = S[1]
      <4>1. /\ i \in L + 1 .. L + Len(S) /\ i - 1 \in 0 .. L
            /\ i - L = 1 /\ i - 1 = L /\ ~(i <= L)
        BY <1>1, <1>2, <2>2
      <4> QED
        BY <1>2, <1>5, <4>1
    <3>2. Code(T2, t[L].who) = Code(T, t[L].who)
      BY <1>1, <1>3, <1>4
    <3>3. Complete(T2, t[L])
      BY <1>4, <3>2 DEF Complete
    <3>4. Follows(T2, t[L], u[i])
      BY <1>4, <3>1, <3>3 DEF Follows
    <3> QED
      BY <1>1, <1>3, <3>1, <3>4
  <2>3. CASE i > L + 1
    <3>1. /\ u[i] = [who |-> N + 1, pos |-> i - L]
          /\ u[i - 1] = [who |-> N + 1, pos |-> i - 1 - L] /\ B2[i] = S[i - L]
      <4>1. /\ i \in L + 1 .. L + Len(S) /\ i - 1 \in L + 1 .. L + Len(S)
            /\ ~(i <= L)
        BY <1>1, <1>2, <2>3
      <4>2. u[i - 1] = [who |-> N + 1, pos |-> (i - 1) - L]
        BY <1>5, <4>1
      <4> QED
        BY <1>2, <1>5, <4>1, <4>2
    <3>2. ~Complete(T2, u[i - 1])
      BY <1>1, <1>2, <1>3, <2>3, <3>1 DEF Complete
    <3>3. Follows(T2, u[i - 1], u[i])
      BY <1>1, <1>2, <3>1, <3>2 DEF Follows
    <3> QED
      BY <1>1, <1>2, <1>3, <2>3, <3>1, <3>3
  <2> QED
    BY <1>1, <1>2, <2>1, <2>2, <2>3
<1>10. u[Len(B2)].who = Len(T2) /\ Complete(T2, u[Len(B2)])
  <2>1. Len(B2) \in L + 1 .. L + Len(S) /\ Len(B2) - L = Len(S)
    <3>1. \A x \in Nat, y \in 1 .. 6 : x + y \in x + 1 .. x + y /\ (x + y) - x = y
      OBVIOUS
    <3> QED
      BY <1>1, <1>2, <3>1
  <2>2. u[Len(B2)] = [who |-> N + 1, pos |-> Len(S)]
    BY <1>5, <2>1
  <2> QED
    BY <1>3, <2>2 DEF Complete
<1>11. Tags(T2, B2, u)
  BY <1>6, <1>8, <1>9, <1>10 DEF Tags
<1>12. u[0] = t[0]
  BY <1>1, <1>5
<1> QED
  BY <1>11, <1>12 DEF T2, B2, S

-----------------------------------------------------------------------------
(* What was decoded, and what the user did.                                *)

LEMMA EmbedsMonotone ==
  ASSUME NEW s \in Seq(KeyboardEvent), NEW T \in Seq(Action),
         NEW m \in Int, NEW n \in Int, m <= n, Embeds(s, T, m)
  PROVE  Embeds(s, T, n)
<1>1. PICK f \in [1 .. Len(s) -> 1 .. Len(T)] :
        /\ \A i, j \in 1 .. Len(s) : i < j => f[i] < f[j]
        /\ \A i \in 1 .. Len(s) : T[f[i]] = s[i] /\ f[i] <= m
  BY DEF Embeds
<1>2. \A i \in 1 .. Len(s) : T[f[i]] = s[i] /\ f[i] <= n
  BY <1>1, LenProperties
<1> QED
  BY <1>1, <1>2 DEF Embeds

LEMMA EmbedsAppend ==
  ASSUME NEW s \in Seq(KeyboardEvent), NEW T \in Seq(Action), NEW a \in Action,
         NEW m \in Int, Embeds(s, T, m)
  PROVE  Embeds(s, Append(T, a), m)
<1>1. PICK f \in [1 .. Len(s) -> 1 .. Len(T)] :
        /\ \A i, j \in 1 .. Len(s) : i < j => f[i] < f[j]
        /\ \A i \in 1 .. Len(s) : T[f[i]] = s[i] /\ f[i] <= m
  BY DEF Embeds
<1>2. f \in [1 .. Len(s) -> 1 .. Len(Append(T, a))]
  BY <1>1, CodeAppend
<1>3. \A i \in 1 .. Len(s) : Append(T, a)[f[i]] = s[i] /\ f[i] <= m
  BY <1>1, CodeAppend
<1> QED
  BY <1>1, <1>2, <1>3 DEF Embeds

LEMMA EmbedsNext ==
  ASSUME NEW s \in Seq(KeyboardEvent), NEW T \in Seq(Action),
         NEW m \in 1 .. Len(T), T[m] \in KeyboardEvent, Embeds(s, T, m - 1)
  PROVE  Embeds(Append(s, T[m]), T, m)
<1>1. PICK f \in [1 .. Len(s) -> 1 .. Len(T)] :
        /\ \A i, j \in 1 .. Len(s) : i < j => f[i] < f[j]
        /\ \A i \in 1 .. Len(s) : T[f[i]] = s[i] /\ f[i] <= m - 1
  BY DEF Embeds
<1> DEFINE L == Len(s)
           r == Append(s, T[m])
           g == [i \in 1 .. L + 1 |-> IF i = L + 1 THEN m ELSE f[i]]
<1>2. /\ L \in Nat /\ Len(T) \in Nat /\ Len(r) = L + 1
      /\ \A i \in 1 .. L : r[i] = s[i]
      /\ r[L + 1] = T[m]
  BY AppendProperties, LenProperties
<1> HIDE DEF L, r
<1>3. /\ \A i \in 1 .. L : g[i] = f[i] /\ g[i] \in 1 .. Len(T) /\ g[i] < m /\ T[g[i]] = r[i]
      /\ g[L + 1] = m
  <2>1. g[L + 1] = m
    BY <1>2
  <2>2. ASSUME NEW i \in 1 .. L
        PROVE  g[i] = f[i] /\ g[i] \in 1 .. Len(T) /\ g[i] < m /\ T[g[i]] = r[i]
    <3>1. i \in 1 .. L + 1 /\ i # L + 1 /\ i \in 1 .. Len(s)
      BY <1>2 DEF L
    <3>2. g[i] = f[i]
      BY <3>1
    <3>3. f[i] \in 1 .. Len(T) /\ T[f[i]] = s[i] /\ f[i] <= m - 1
      BY <1>1, <3>1
    <3> QED
      BY <1>2, <3>2, <3>3
  <2> QED
    BY <2>1, <2>2
<1>4. g \in [1 .. Len(r) -> 1 .. Len(T)]
  BY <1>1, <1>2 DEF L
<1> HIDE DEF g
<1>5. ASSUME NEW i \in 1 .. Len(r), NEW j \in 1 .. Len(r), i < j
      PROVE  g[i] < g[j]
  <2>1. i \in 1 .. L
    BY <1>2, <1>5
  <2>2. CASE j = L + 1
    BY <1>3, <2>1, <2>2
  <2>3. CASE j # L + 1
    <3>1. j \in 1 .. L
      BY <1>2, <2>3
    <3>2. f[i] < f[j]
      BY <1>1, <1>5, <2>1, <3>1 DEF L
    <3> QED
      BY <1>3, <2>1, <3>1, <3>2
  <2> QED
    BY <2>2, <2>3
<1>6. ASSUME NEW i \in 1 .. Len(r)
      PROVE  T[g[i]] = r[i] /\ g[i] <= m
  <2>1. CASE i = L + 1
    BY <1>2, <1>3, <2>1
  <2>2. CASE i # L + 1
    <3>1. i \in 1 .. L
      BY <1>2, <2>2
    <3> QED
      BY <1>3, <3>1
  <2> QED
    BY <2>1, <2>2
<1> QED
  BY <1>4, <1>5, <1>6 DEF Embeds, r

LEMMA DownAppend ==
  ASSUME NEW T \in Seq(Action), NEW a \in Action, NEW k, NEW m \in 0 .. Len(T)
  PROVE  Down(Append(T, a), k, m) <=> Down(T, k, m)
<1>1. \A n \in 1 .. m : Append(T, a)[n] = T[n]
  BY CodeAppend
<1>2. ASSUME NEW i \in 1 .. m, NEW j \in i + 1 .. m
      PROVE  Append(T, a)[j] = T[j]
  BY <1>1
<1> QED
  BY <1>1, <1>2 DEF Down

\* A key is down when the last action on it was to press it.
LEMMA DownNext ==
  ASSUME NEW T \in Seq(Action), NEW k, NEW m \in 1 .. Len(T)
  PROVE  Down(T, k, m) <=>
           IF T[m].key = k THEN T[m] = Event(k, "PRESSED") ELSE Down(T, k, m - 1)
<1>1. m \in Nat /\ m > 0
  BY LenProperties
<1>2. CASE T[m].key = k
  <2>1. ASSUME T[m] = Event(k, "PRESSED") PROVE Down(T, k, m)
    <3>1. m \in 1 .. m /\ \A j \in m + 1 .. m : T[j].key # k
      BY <1>1
    <3> QED
      BY <2>1, <3>1 DEF Down
  <2>2. ASSUME Down(T, k, m) PROVE T[m] = Event(k, "PRESSED")
    <3>1. PICK i \in 1 .. m : T[i] = Event(k, "PRESSED") /\ \A j \in i + 1 .. m : T[j].key # k
      BY <2>2 DEF Down
    <3>2. i = m
      BY <1>1, <1>2, <3>1
    <3> QED
      BY <3>1, <3>2
  <2> QED
    BY <1>2, <2>1, <2>2
<1>3. CASE T[m].key # k
  <2>1. ASSUME Down(T, k, m) PROVE Down(T, k, m - 1)
    <3>1. PICK i \in 1 .. m : T[i] = Event(k, "PRESSED") /\ \A j \in i + 1 .. m : T[j].key # k
      BY <2>1 DEF Down
    <3>2. i # m
      BY <1>3, <3>1 DEF Event
    <3>3. i \in 1 .. m - 1 /\ \A j \in i + 1 .. m - 1 : T[j].key # k
      BY <1>1, <3>1, <3>2
    <3> QED
      BY <3>1, <3>3 DEF Down
  <2>2. ASSUME Down(T, k, m - 1) PROVE Down(T, k, m)
    <3>1. PICK i \in 1 .. m - 1 :
            T[i] = Event(k, "PRESSED") /\ \A j \in i + 1 .. m - 1 : T[j].key # k
      BY <2>2 DEF Down
    <3>2. i \in 1 .. m /\ \A j \in i + 1 .. m : T[j].key # k
      BY <1>1, <1>3, <3>1
    <3> QED
      BY <3>1, <3>2 DEF Down
  <2> QED
    BY <1>3, <2>1, <2>2
<1> QED
  BY <1>2, <1>3

LEMMA PollKeeps ==
  ASSUME NEW S, NEW p \in Seq(S), NEW q \in Seq(S), q # << >>
  PROVE  Append(p, Head(q)) \o Tail(q) = p \o q
<1>1. Head(q) \in S /\ Tail(q) \in Seq(S) /\ Len(Tail(q)) = Len(q) - 1
      /\ (\A i \in 1 .. Len(q) - 1 : Tail(q)[i] = q[i + 1]) /\ Len(q) \in Nat \ {0}
      /\ Head(q) = q[1]
  BY HeadTailProperties, EmptySeq
<1>2. PICK r : r = Append(p, Head(q))
  OBVIOUS
<1>3. /\ r \in Seq(S) /\ Len(r) = Len(p) + 1 /\ Len(p) \in Nat
      /\ \A i \in 1 .. Len(p) : r[i] = p[i]
      /\ r[Len(p) + 1] = Head(q)
  BY <1>1, <1>2, AppendProperties, LenProperties
<1>4. PICK u : u = r \o Tail(q)
  OBVIOUS
<1>5. /\ u \in Seq(S) /\ Len(u) = Len(r) + Len(Tail(q))
      /\ \A i \in 1 .. Len(r) + Len(Tail(q)) :
           u[i] = IF i <= Len(r) THEN r[i] ELSE Tail(q)[i - Len(r)]
  BY <1>1, <1>3, <1>4, ConcatProperties
<1>6. PICK v : v = p \o q
  OBVIOUS
<1>7. /\ v \in Seq(S) /\ Len(v) = Len(p) + Len(q)
      /\ \A i \in 1 .. Len(p) + Len(q) :
           v[i] = IF i <= Len(p) THEN p[i] ELSE q[i - Len(p)]
  BY <1>6, ConcatProperties
<1>8. Len(u) = Len(v)
  BY <1>1, <1>3, <1>5, <1>7
<1>9. ASSUME NEW i \in 1 .. Len(u) PROVE u[i] = v[i]
  <2>1. CASE i <= Len(p)
    BY <1>1, <1>3, <1>5, <1>7, <1>8, <2>1
  <2>2. CASE i = Len(p) + 1
    BY <1>1, <1>3, <1>5, <1>7, <1>8, <2>2
  <2>3. CASE i > Len(p) + 1
    <3>1. u[i] = Tail(q)[i - Len(p) - 1] /\ v[i] = q[i - Len(p)]
      BY <1>1, <1>3, <1>5, <1>7, <1>8, <2>3
    <3> QED
      BY <1>1, <1>3, <1>5, <2>3, <3>1
  <2> QED
    BY <1>1, <1>3, <1>5, <2>1, <2>2, <2>3
<1>10. u = v
  BY <1>5, <1>7, <1>8, <1>9, SeqEqual
<1> QED
  BY <1>2, <1>4, <1>6, <1>10

-----------------------------------------------------------------------------
(* The invariant of the decoder.                                           *)

LEMMA BytesType ==
  TypeOK => Bytes \in Seq(Byte) /\ decoded \in Seq(KeyboardEvent)
BY ConcatProperties DEF TypeOK, Bytes, decoded

LEMMA StepInit == Init => InStep
<1> SUFFICES ASSUME Init PROVE InStep
  OBVIOUS
<1> DEFINE c == [who |-> 0, pos |-> 0]
           t == [j \in 0 .. 0 |-> c]
<1>1. Bytes = << >> /\ decoded = << >> /\ typed = << >>
  BY ConcatEmptySeq, EmptySeq DEF Init, Bytes, decoded
<1>2. Complete(typed, c)
  BY DEF Complete, Code
<1>3. Tags(typed, Bytes, t)
  <2>1. Len(typed) = 0 /\ Len(Bytes) = 0 /\ Code(typed, 0) = << >> /\ t[0] = c
    BY <1>1 DEF Code
  <2>2. t \in [0 .. 0 -> Place]
    BY DEF Place
  <2> QED
    BY <1>2, <2>1, <2>2 DEF Tags
<1>4. Fits(c) /\ Done(c) = 0
  BY <1>2 DEF Init, Fits, Known, Event, Done
<1>5. Embeds(decoded, typed, 0)
  <2>1. Len(decoded) = 0
    BY <1>1
  <2>2. PICK f : f = [i \in 1 .. 0 |-> i]
    OBVIOUS
  <2>3. f \in [1 .. Len(decoded) -> 1 .. Len(typed)]
    BY <2>1, <2>2
  <2>4. \A i \in 1 .. Len(decoded) : FALSE
    BY <2>1
  <2> QED
    BY <2>3, <2>4 DEF Embeds
<1>6. KeyStates(0)
  BY KeysAssumption DEF KeyStates, Down, Init, Keycode
<1>7. Decodes(t[0])
  BY <1>2, <1>4, <1>5, <1>6 DEF Decodes
<1> QED
  BY <1>3, <1>7 DEF InStep

\* A step that reads, decodes and does nothing leaves everything in place.
LEMMA DecodesKept ==
  ASSUME NEW c, Decodes(c), typed' = typed, decoded' = decoded,
         KEYBOARD_KEY_STATE' = KEYBOARD_KEY_STATE, Known' <=> Known,
         Fits(c)', outbuf' = << >> => Complete(typed, c)
  PROVE  Decodes(c)'
<1>1. Done(c)' = Done(c)
  BY DEF Done
<1>2. Implemented' <=> Implemented
  BY DEF Implemented
<1>3. KeyStates(Done(c))' <=> KeyStates(Done(c))
  BY <1>1 DEF KeyStates
<1> QED
  BY <1>1, <1>2, <1>3 DEF Decodes

LEMMA DecodesUserActs ==
  ASSUME TypeOK, NEW key \in Keys, NEW ev \in EventType, UserActs(key, ev),
         NEW c \in Place, c.who \in 0 .. Len(typed), Decodes(c)
  PROVE  Decodes(c)'
<1> DEFINE a == Event(key, ev)
<1>1. /\ typed \in Seq(Action) /\ a \in Action /\ decoded \in Seq(KeyboardEvent)
      /\ typed' = Append(typed, a)
  BY BytesType DEF TypeOK, Action, Event, UserActs
<1> HIDE DEF a
<1>2. /\ Code(typed', c.who) = Code(typed, c.who)
      /\ c.who > 0 => typed'[c.who] = typed[c.who]
      /\ Len(typed) \in Nat /\ Len(typed') = Len(typed) + 1
      /\ \A n \in 1 .. Len(typed) : typed'[n] = typed[n]
  BY <1>1, CodeAppend
<1>3. /\ outbuf' = outbuf /\ handler' = handler /\ event' = event
      /\ decoded' = decoded /\ KEYBOARD_KEY_STATE' = KEYBOARD_KEY_STATE
  BY DEF UserActs, kernel, decoded
<1>4. /\ Complete(typed', c) <=> Complete(typed, c)
      /\ Half(typed', c) <=> Half(typed, c)
      /\ Known' <=> Known
  BY <1>2, <1>3 DEF Complete, Half, Known
<1>5. Implemented' => Implemented
  <2>1. DOMAIN typed = 1 .. Len(typed) /\ DOMAIN typed' = 1 .. Len(typed')
    BY <1>1, CodeAppend, LenProperties
  <2> QED
    BY <1>2, <2>1 DEF Implemented
<1>6. Fits(c)'
  <2>1. handler' \in {"none", "b1"} \/ (handler' = "return" /\ ~Known')
          => Complete(typed', c) \/ Half(typed', c)
    BY <1>3, <1>4 DEF Decodes, Fits
  <2>2. handler' \in {"E0", "E0F0", "F0"} =>
          c.who > 0 /\ Prefix(handler', typed'[c.who], c.pos)
    BY <1>2, <1>3 DEF Decodes, Fits
  <2>3. Known' => c.who > 0 /\ Complete(typed', c) /\ event' = typed'[c.who]
    BY <1>2, <1>3, <1>4 DEF Decodes, Fits
  <2>4. handler' = "drain" => ~Implemented'
    BY <1>3, <1>5 DEF Decodes, Fits
  <2> QED
    BY <2>1, <2>2, <2>3, <2>4 DEF Fits
<1>7. Done(c)' = Done(c) /\ Done(c) \in Int /\ Done(c) <= Len(typed)
  BY <1>2, <1>4 DEF Done
<1>8. Embeds(decoded, typed', Done(c))
  BY <1>1, <1>7, EmbedsAppend DEF Decodes
<1>9. Implemented' => KeyStates(Done(c))'
  <2> SUFFICES ASSUME Implemented', NEW k \in Keys
               PROVE  KEYBOARD_KEY_STATE[k] <=> Down(typed', k, Done(c))
    BY <1>3, <1>7 DEF KeyStates
  <2>1. KEYBOARD_KEY_STATE[k] <=> Down(typed, k, Done(c))
    BY <1>5 DEF Decodes, KeyStates
  <2>2. Down(typed', k, Done(c)) <=> Down(typed, k, Done(c))
    <3>1. CASE Done(c) \in 0 .. Len(typed)
      BY <1>1, <3>1, DownAppend
    <3>2. CASE Done(c) = -1
      BY <3>2 DEF Down
    <3> QED
      BY <1>2, <1>7, <3>1, <3>2 DEF Done
  <2> QED
    BY <2>1, <2>2
<1> QED
  BY <1>3, <1>4, <1>6, <1>7, <1>8, <1>9 DEF Decodes

\* Reading a byte takes the first of those on their way; sending one takes none.
LEMMA HeadFirst ==
  ASSUME NEW S, NEW s \in Seq(S), s # << >>
  PROVE  <<Head(s)>> \o Tail(s) = s
<1>1. << >> \in Seq(S) /\ << >> \o s = s /\ Head(s) \in S
  BY EmptySeq, ConcatEmptySeq, HeadTailProperties
<1>2. Append(<< >>, Head(s)) \o Tail(s) = << >> \o s
  BY <1>1, PollKeeps
<1>3. Append(<< >>, Head(s)) = << >> \o <<Head(s)>>
  BY <1>1, AppendIsConcat
<1>4. << >> \o <<Head(s)>> = <<Head(s)>>
  BY <1>1, ConcatEmptySeq
<1> QED
  BY <1>1, <1>2, <1>3, <1>4

LEMMA BytesTransmit ==
  ASSUME TypeOK, Transmit
  PROVE  Bytes' = Bytes
<1>1. Bytes = sending
  BY ConcatEmptySeq DEF TypeOK, Transmit, Bytes
<1>2. <<Head(sending)>> \o Tail(sending) = sending
  BY HeadFirst DEF TypeOK, Transmit
<1> QED
  BY <1>1, <1>2 DEF Transmit, Bytes

LEMMA BytesReadByte ==
  ASSUME TypeOK, prompt, ReadByte
  PROVE  /\ Bytes # << >> /\ Head(Bytes) = Head(outbuf)
         /\ Bytes' = Tail(Bytes)
         /\ outbuf' = << >> => Bytes' = << >>
<1>1. /\ outbuf \in Seq(Byte) /\ sending \in Seq(Byte) /\ outbuf # << >>
      /\ Len(outbuf) <= 1
  BY DEF TypeOK, ReadByte
<1>2. Len(outbuf) = 1 /\ Head(outbuf) \in Byte
  <2>1. Len(outbuf) \in Nat \ {0} /\ Head(outbuf) \in Byte
    BY <1>1, EmptySeq, HeadTailProperties
  <2>2. \A n \in Nat \ {0} : n <= 1 => n = 1
    OBVIOUS
  <2> QED
    BY <1>1, <2>1, <2>2
<1>3. outbuf = <<Head(outbuf)>>
  BY <1>1, <1>2
<1>4. PICK b : b = Head(outbuf)
  OBVIOUS
<1>5. Bytes = <<b>> \o sending /\ b \in Byte
  BY <1>2, <1>3, <1>4 DEF Bytes
<1>6. PICK B : B = Bytes
  OBVIOUS
<1>7. /\ <<b>> \in Seq(Byte) /\ Len(<<b>>) = 1 /\ <<b>>[1] = b
  BY <1>5
<1>8. /\ B \in Seq(Byte) /\ Len(B) = 1 + Len(sending) /\ Len(sending) \in Nat
      /\ \A i \in 1 .. 1 + Len(sending) :
           B[i] = IF i <= 1 THEN <<b>>[i] ELSE sending[i - 1]
  BY <1>1, <1>5, <1>6, <1>7, ConcatProperties, LenProperties
<1>9. B # << >> /\ Head(B) = b
  BY <1>7, <1>8
<1>10. /\ Tail(B) \in Seq(Byte) /\ Len(Tail(B)) = Len(sending)
       /\ \A i \in 1 .. Len(sending) : Tail(B)[i] = sending[i]
  BY <1>8, <1>9, HeadTailProperties
<1>11. Tail(B) = sending
  BY <1>1, <1>10, SeqEqual
<1>12. CASE sending # << >>
  <2>1. outbuf' = <<Head(sending)>> /\ sending' = Tail(sending)
    BY <1>12 DEF ReadByte
  <2>2. Bytes' = sending
    BY <1>1, <1>12, <2>1, HeadFirst DEF Bytes
  <2>3. outbuf' # << >>
    BY <2>1
  <2> QED
    BY <1>4, <1>6, <1>9, <1>11, <2>2, <2>3
<1>13. CASE sending = << >>
  <2>1. outbuf' = << >> /\ sending' = << >>
    BY <1>13 DEF ReadByte
  <2>2. Bytes' = << >>
    BY <2>1, ConcatEmptySeq, EmptySeq DEF Bytes
  <2> QED
    BY <1>4, <1>6, <1>9, <1>11, <1>13, <2>2
<1> QED
  BY <1>12, <1>13

LEMMA StepReadByte ==
  ASSUME TypeOK, prompt, InStep, ReadByte
  PROVE  InStep'
<1>1. PICK t : Tags(typed, Bytes, t) /\ Decodes(t[0])
  BY DEF InStep
<1>2. /\ Bytes \in Seq(Byte) /\ typed \in Seq(Action) /\ decoded \in Seq(KeyboardEvent)
  BY BytesType DEF TypeOK
<1>3. /\ Bytes # << >> /\ Head(Bytes) = Head(outbuf) /\ Bytes' = Tail(Bytes)
      /\ outbuf' = << >> => Bytes' = << >>
  BY BytesReadByte
<1>4. PICK u : Tags(typed, Tail(Bytes), u) /\ Consumed(typed, Bytes, t[0], u[0])
  BY <1>1, <1>2, <1>3, ConsumeTags
<1>5. PICK c, d : c = t[0] /\ d = u[0]
  OBVIOUS
<1>6. /\ c \in Place /\ d \in Place
      /\ c.who \in 0 .. Len(typed) /\ d.who \in 1 .. Len(typed)
      /\ d.pos \in 1 .. Len(Code(typed, d.who))
      /\ Head(Bytes) = Code(typed, d.who)[d.pos]
      /\ Follows(typed, c, d)
      /\ Tail(Bytes) = << >> => Complete(typed, d)
  BY <1>4, <1>5 DEF Consumed
<1>7. /\ typed' = typed /\ Parsing /\ parse(Head(outbuf))
      /\ decoded' = decoded /\ KEYBOARD_KEY_STATE' = KEYBOARD_KEY_STATE
  BY DEF ReadByte, user, kernel, decoded
<1>8. Decodes(c)
  BY <1>1, <1>5
<1>9. Fits(d)' /\ (Implemented /\ Complete(typed, d) => Known')
  BY <1>3, <1>6, <1>7, <1>8, ParseStep DEF Decodes
<1>10. ~Known
  BY <1>7 DEF Parsing, Known
<1>11. Done(c) = d.who - 1
  BY <1>6, <1>10 DEF Done, Follows, Place
<1>12. /\ Done(d)' \in Int /\ d.who - 1 <= Done(d)'
       /\ Implemented => Done(d)' = d.who - 1
  BY <1>6, <1>7, <1>9 DEF Done
<1>13. Embeds(decoded, typed, Done(d)')
  BY <1>2, <1>6, <1>8, <1>11, <1>12, EmbedsMonotone DEF Decodes
<1>14. Implemented' => KeyStates(Done(d))'
  <2>1. Implemented' <=> Implemented
    BY <1>7 DEF Implemented
  <2> QED
    BY <1>7, <1>8, <1>11, <1>12, <2>1 DEF Decodes, KeyStates
<1>15. outbuf' = << >> => Complete(typed', d)
  BY <1>3, <1>6, <1>7
<1>16. Decodes(d)'
  BY <1>7, <1>9, <1>13, <1>14, <1>15 DEF Decodes
<1>17. Tags(typed', Bytes', u)
  BY <1>3, <1>4, <1>7
<1> QED
  BY <1>5, <1>16, <1>17 DEF InStep

LEMMA AppendRight ==
  ASSUME NEW S, NEW p \in Seq(S), NEW q \in Seq(S), NEW e \in S
  PROVE  p \o Append(q, e) = Append(p \o q, e)
<1>1. <<e>> \in Seq(S) /\ p \o q \in Seq(S)
  BY ConcatProperties
<1>2. Append(q, e) = q \o <<e>> /\ Append(p \o q, e) = (p \o q) \o <<e>>
  BY <1>1, AppendIsConcat
<1> QED
  BY <1>1, <1>2, ConcatAssociative

\* The place of the byte read last belongs to an action, or to none yet.
LEMMA FirstPlace ==
  ASSUME TypeOK, NEW t, Tags(typed, Bytes, t)
  PROVE  t[0] \in Place /\ t[0].who \in 0 .. Len(typed) /\ Len(typed) \in Nat
<1>1. Len(Bytes) \in Nat /\ Len(typed) \in Nat
  BY BytesType, LenProperties DEF TypeOK
<1>2. t[0] \in Place /\ t[0].who <= Len(typed)
  BY <1>1 DEF Tags
<1> QED
  BY <1>1, <1>2 DEF Place

LEMMA StepFindNothing ==
  ASSUME TypeOK, InStep, FindNothing
  PROVE  InStep'
<1>1. PICK t : Tags(typed, Bytes, t) /\ Decodes(t[0])
  BY DEF InStep
<1>2. PICK c : c = t[0]
  OBVIOUS
<1>3. c \in Place /\ c.who \in 0 .. Len(typed) /\ Decodes(c)
  BY <1>1, <1>2, FirstPlace
<1>4. /\ typed' = typed /\ Bytes' = Bytes /\ outbuf' = outbuf /\ outbuf = << >>
      /\ decoded' = decoded /\ KEYBOARD_KEY_STATE' = KEYBOARD_KEY_STATE
      /\ Parsing
  BY DEF FindNothing, user, kernel, decoded, Bytes
<1>5. Complete(typed, c) /\ Fits(c)
  BY <1>3, <1>4 DEF Decodes
<1>6. ~Known
  BY <1>4 DEF Parsing, Known
<1>7. CASE UNCHANGED <<handler, event>>
  <2>1. Fits(c)' /\ ~Known'
    BY <1>4, <1>5, <1>6, <1>7 DEF Fits, Known, Implemented
  <2> QED
    BY <1>1, <1>2, <1>3, <1>4, <1>5, <1>6, <2>1, DecodesKept DEF InStep
<1>8. CASE parse("00")
  <2>1. handler \in {"b1", "drain"}
    <3>1. ASSUME handler \in {"E0", "E0F0", "F0"} PROVE FALSE
      <4>1. c.who > 0 /\ Prefix(handler, typed[c.who], c.pos)
        BY <1>5, <3>1 DEF Fits
      <4>2. ~Complete(typed, c)
        <5>1. c.who \in 1 .. Len(typed)
          BY <1>3, <4>1
        <5>2. typed \in Seq(Action)
          BY DEF TypeOK
        <5> QED
          BY <1>3, <4>1, <5>1, <5>2, PrefixIncomplete
      <4> QED
        BY <1>5, <4>2
    <3> QED
      BY <1>4, <3>1 DEF Parsing
  <2>2. SCANCODE_MAP_SINGLE_BYTE["00"] = "UNKNOWN"
    BY DEF SCANCODE_MAP_SINGLE_BYTE, Byte
  <2>3. handler' = "return" /\ event' = Event("UNKNOWN", "PRESSED")
    <3>1. CASE handler = "b1"
      BY <1>8, <2>2, <3>1 DEF parse, Returns
    <3>2. CASE handler = "drain"
      BY <1>8, <3>2 DEF parse, Returns
    <3> QED
      BY <2>1, <3>1, <3>2
  <2>4. Fits(c)' /\ ~Known'
    BY <1>4, <1>5, <2>3 DEF Fits, Known, Event
  <2> QED
    BY <1>1, <1>2, <1>3, <1>4, <1>5, <1>6, <2>4, DecodesKept DEF InStep
<1> QED
  BY <1>7, <1>8 DEF FindNothing

LEMMA StepKeyboardHandler ==
  ASSUME TypeOK, InStep, keyboard_handler
  PROVE  InStep'
<1>1. PICK t : Tags(typed, Bytes, t) /\ Decodes(t[0])
  BY DEF InStep
<1>2. PICK c : c = t[0]
  OBVIOUS
<1>3. c \in Place /\ c.who \in 0 .. Len(typed) /\ Decodes(c) /\ Len(typed) \in Nat
  BY <1>1, <1>2, FirstPlace
<1>4. /\ typed' = typed /\ Bytes' = Bytes /\ outbuf' = outbuf
      /\ handler = "return" /\ handler' = "none" /\ polled' = polled
      /\ Implemented' <=> Implemented
  BY DEF keyboard_handler, user, Bytes, Implemented
<1>5. Known <=> event.key # "UNKNOWN"
  BY <1>4 DEF Known
<1>6. Complete(typed, c) \/ Half(typed, c)
  BY <1>3, <1>4 DEF Decodes, Fits
<1>7. Fits(c)' /\ ~Known'
  BY <1>4, <1>6 DEF Fits, Known
<1>8. CASE ~Known
  <2>1. decoded' = decoded /\ KEYBOARD_KEY_STATE' = KEYBOARD_KEY_STATE
    BY <1>4, <1>5, <1>8 DEF keyboard_handler, decoded
  <2> QED
    BY <1>1, <1>2, <1>3, <1>4, <1>7, <1>8, <2>1, DecodesKept DEF InStep, Decodes
<1>9. CASE Known
  <2>1. c.who \in 1 .. Len(typed) /\ Complete(typed, c) /\ event = typed[c.who]
    BY <1>3, <1>9 DEF Decodes, Fits
  <2>2. Done(c) = c.who - 1 /\ Done(c)' = c.who
    BY <1>4, <1>7, <1>9, <2>1 DEF Done
  <2>3. event \in KeyboardEvent
    BY <1>5, <1>9 DEF TypeOK, KeyboardEvent, EventType
  <2>4. decoded \in Seq(KeyboardEvent) /\ typed \in Seq(Action)
    BY BytesType DEF TypeOK
  <2>5. Embeds(decoded, typed, c.who - 1)
    BY <1>3, <2>2 DEF Decodes
  <2>6. Embeds(decoded', typed, c.who)
    <3>1. CASE decoded' = decoded
      BY <2>1, <2>4, <2>5, <3>1, EmbedsMonotone
    <3>2. CASE decoded' = Append(decoded, event)
      BY <2>1, <2>3, <2>4, <2>5, <3>2, EmbedsNext
    <3>3. decoded' = decoded \/ decoded' = Append(decoded, event)
      <4>1. /\ polled \in Seq(KeyboardEvent) /\ KEYBOARD_EVENT_QUEUE \in Seq(KeyboardEvent)
        BY DEF TypeOK
      <4>2. polled \o Append(KEYBOARD_EVENT_QUEUE, event)
              = Append(polled \o KEYBOARD_EVENT_QUEUE, event)
        BY <2>3, <4>1, AppendRight
      <4>3. KEYBOARD_EVENT_QUEUE' \in
              {KEYBOARD_EVENT_QUEUE, Append(KEYBOARD_EVENT_QUEUE, event)}
        BY <1>5, <1>9 DEF keyboard_handler, push_back
      <4> QED
        BY <1>4, <4>2, <4>3 DEF decoded
    <3> QED
      BY <3>1, <3>2, <3>3
  <2>7. ASSUME Implemented, NEW k \in Keys
        PROVE  KEYBOARD_KEY_STATE'[k] <=> Down(typed, k, c.who)
    <3>1. KEYBOARD_KEY_STATE[k] <=> Down(typed, k, c.who - 1)
      BY <1>3, <2>2, <2>7 DEF Decodes, KeyStates
    <3>2. Down(typed, k, c.who) <=>
            IF event.key = k THEN event = Event(k, "PRESSED") ELSE Down(typed, k, c.who - 1)
      BY <2>1, <2>4, DownNext
    <3>3. KEYBOARD_KEY_STATE' =
            [KEYBOARD_KEY_STATE EXCEPT ![event.key] = event.event = "PRESSED"]
      BY <1>5, <1>9 DEF keyboard_handler, key_state_after
    <3>4. k \in Keycode /\ KEYBOARD_KEY_STATE \in [Keycode -> BOOLEAN]
      BY KeysAssumption DEF TypeOK, Keycode
    <3>5. CASE event.key = k
      <4>1. KEYBOARD_KEY_STATE'[k] = (event.event = "PRESSED")
        BY <3>3, <3>4, <3>5
      <4>2. event = Event(k, "PRESSED") <=> event.event = "PRESSED"
        BY <2>3, <3>5 DEF Event, KeyboardEvent
      <4> QED
        BY <3>2, <3>5, <4>1, <4>2
    <3>6. CASE event.key # k
      <4>1. KEYBOARD_KEY_STATE'[k] = KEYBOARD_KEY_STATE[k]
        BY <3>3, <3>4, <3>6
      <4> QED
        BY <3>1, <3>2, <3>6, <4>1
    <3> QED
      BY <3>5, <3>6
  <2>8. Implemented' => KeyStates(Done(c))'
    BY <1>4, <2>2, <2>7 DEF KeyStates
  <2>9. Decodes(c)'
    BY <1>4, <1>7, <2>1, <2>2, <2>6, <2>8 DEF Decodes
  <2> QED
    BY <1>1, <1>2, <1>4, <2>9 DEF InStep
<1> QED
  BY <1>8, <1>9

LEMMA StepUserActs ==
  ASSUME TypeOK, InStep, NEW key \in Keys, NEW ev \in EventType, UserActs(key, ev)
  PROVE  InStep'
<1>1. PICK t : Tags(typed, Bytes, t) /\ Decodes(t[0])
  BY DEF InStep
<1>2. PICK a : a = Event(key, ev)
  OBVIOUS
<1>3. /\ a \in Action /\ a.key = key /\ a.event = ev
      /\ typed \in Seq(Action) /\ Bytes \in Seq(Byte)
  BY <1>2, BytesType DEF Action, Event, TypeOK
<1>4. typed' = Append(typed, a)
  BY <1>2 DEF UserActs
<1>5. Bytes' = Bytes \o Scancode(a.key, a.event)
  <2>1. /\ outbuf \in Seq(Byte) /\ sending \in Seq(Byte)
        /\ Scancode(key, ev) \in Seq(Byte)
    BY ScancodeType DEF TypeOK
  <2>2. Bytes' = outbuf \o (sending \o Scancode(key, ev))
    BY DEF UserActs, Bytes
  <2> QED
    BY <1>3, <2>1, <2>2, ConcatAssociative DEF Bytes
<1>6. PICK u : Tags(typed', Bytes', u) /\ u[0] = t[0]
  BY <1>1, <1>3, <1>4, <1>5, AppendTags
<1>7. t[0] \in Place /\ t[0].who \in 0 .. Len(typed)
  BY <1>1, FirstPlace
<1>8. Decodes(t[0])'
  <2>1. PICK c : c = t[0]
    OBVIOUS
  <2>2. Decodes(c)'
    BY <1>1, <1>7, <2>1, DecodesUserActs
  <2> QED
    BY <2>1, <2>2
<1> QED
  BY <1>6, <1>8 DEF InStep

\* The steps that decode nothing.
LEMMA StepOther ==
  ASSUME TypeOK, InStep,
         Transmit \/ Interrupt \/ poll_event \/ Halt \/ Tick \/ UNCHANGED vars
  PROVE  InStep'
<1>1. PICK t : Tags(typed, Bytes, t) /\ Decodes(t[0])
  BY DEF InStep
<1>2. PICK c : c = t[0] /\ Decodes(c)
  BY <1>1
<1>3. typed' = typed /\ KEYBOARD_KEY_STATE' = KEYBOARD_KEY_STATE /\ event' = event
  BY DEF Transmit, Interrupt, poll_event, Halt, Tick, vars, user, kernel
<1>4. Bytes' = Bytes
  <2>1. CASE Transmit
    BY <2>1, BytesTransmit
  <2>2. CASE Interrupt \/ poll_event \/ Halt \/ Tick \/ UNCHANGED vars
    BY <2>2 DEF Interrupt, poll_event, Halt, Tick, vars, user, Bytes
  <2> QED
    BY <2>1, <2>2
<1>5. outbuf' = << >> => outbuf = << >>
  BY DEF Transmit, Interrupt, poll_event, Halt, Tick, vars, user
<1>6. decoded' = decoded
  <2>1. CASE poll_event
    <3>1. /\ polled \in Seq(KeyboardEvent) /\ KEYBOARD_EVENT_QUEUE \in Seq(KeyboardEvent)
      BY DEF TypeOK
    <3>2. CASE KEYBOARD_EVENT_QUEUE # << >>
      <4>1. /\ polled' = Append(polled, Head(KEYBOARD_EVENT_QUEUE))
            /\ KEYBOARD_EVENT_QUEUE' = Tail(KEYBOARD_EVENT_QUEUE)
        BY <2>1, <3>2 DEF poll_event
      <4> QED
        BY <3>1, <3>2, <4>1, PollKeeps DEF decoded
    <3>3. CASE KEYBOARD_EVENT_QUEUE = << >>
      BY <2>1, <3>3 DEF poll_event, decoded
    <3> QED
      BY <3>2, <3>3
  <2>2. CASE Transmit \/ Interrupt \/ Halt \/ Tick \/ UNCHANGED vars
    BY <2>2 DEF Transmit, Interrupt, Halt, Tick, vars, kernel, decoded
  <2> QED
    BY <2>1, <2>2
<1>7. handler' = handler \/ (handler = "none" /\ handler' = "b1")
  BY DEF Transmit, Interrupt, poll_event, Halt, Tick, vars
<1>8. Fits(c)' /\ (Known' <=> Known)
  <2>1. CASE handler' = handler
    BY <1>2, <1>3, <2>1 DEF Decodes, Fits, Known, Implemented
  <2>2. CASE handler = "none" /\ handler' = "b1"
    BY <1>2, <1>3, <2>2 DEF Decodes, Fits, Known
  <2> QED
    BY <1>7, <2>1, <2>2
<1>9. Decodes(c)'
  BY <1>2, <1>3, <1>5, <1>6, <1>8, DecodesKept DEF Decodes
<1> QED
  BY <1>1, <1>2, <1>3, <1>4, <1>9 DEF InStep

-----------------------------------------------------------------------------
(* The theorems.                                                           *)

\* The invariant above holds: every byte keeps its place, and the decoder its
\* step with the user.
THEOREM KeepsStep == Spec => []IInv
<1>1. Init => IInv
  BY TypeInit, StepInit DEF IInv
<1>2. IInv /\ [Next]_vars => IInv'
  <2> SUFFICES ASSUME TypeOK, prompt => InStep, [Next]_vars
               PROVE  TypeOK' /\ (prompt' => InStep')
    BY DEF IInv
  <2>1. TypeOK'
    BY TypeStep
  <2>2. prompt' = prompt
    BY DEF Next, UserActs, Transmit, Handler, Interrupt, ReadByte, FindNothing,
           keyboard_handler, Main, poll_event, Halt, Tick, vars, user
  <2>3. ASSUME prompt PROVE InStep'
    <3>1. InStep
      BY <2>3
    <3>2. ASSUME NEW key \in Keys, NEW ev \in EventType, UserActs(key, ev)
          PROVE  InStep'
      BY <3>1, <3>2, StepUserActs
    <3>3. CASE ReadByte
      BY <2>3, <3>1, <3>3, StepReadByte
    <3>4. CASE FindNothing
      BY <3>1, <3>4, StepFindNothing
    <3>5. CASE keyboard_handler
      BY <3>1, <3>5, StepKeyboardHandler
    <3>6. CASE Transmit \/ Interrupt \/ poll_event \/ Halt \/ Tick \/ UNCHANGED vars
      BY <3>1, <3>6, StepOther
    <3> QED
      BY <3>2, <3>3, <3>4, <3>5, <3>6 DEF Next, Handler, Main, EventType
  <2> QED
    BY <2>1, <2>2, <2>3
<1> QED
  BY <1>1, <1>2, PTL DEF Spec

\* With a keyboard that has its next byte ready whenever one is read, the events
\* polled and queued are things the user did, in the order they were done.
THEOREM InventsNothing == Spec => []NothingInvented
<1>1. IInv => NothingInvented
  <2> SUFFICES ASSUME prompt, InStep PROVE IsSubsequence(decoded, typed)
    BY DEF IInv, NothingInvented
  <2>1. PICK t : Decodes(t[0])
    BY DEF InStep
  <2> QED
    BY <2>1 DEF Decodes, Embeds, IsSubsequence
<1> QED
  BY <1>1, KeepsStep, PTL

\* Once every byte is decoded, the key table answers which keys are down, also
\* for the keys whose events found the queue full.
THEOREM KeyTableRight == Spec => []KeyStateFollows
<1>1. IInv => KeyStateFollows
  <2> SUFFICES ASSUME TypeOK, InStep, Quiet, Implemented, NEW k \in Keys
               PROVE  KEYBOARD_KEY_STATE[k] <=> IsDown(k)
    BY DEF IInv, KeyStateFollows
  <2>1. PICK t : Tags(typed, Bytes, t) /\ Decodes(t[0])
    BY DEF InStep
  <2>2. Bytes = << >> /\ Len(Bytes) = 0
    BY ConcatEmptySeq, EmptySeq DEF Quiet, Bytes
  <2>3. t[0].who = Len(typed) /\ Complete(typed, t[0])
    BY <2>1, <2>2 DEF Tags
  <2>4. Done(t[0]) = Len(typed)
    BY <2>3 DEF Done, Known, Quiet
  <2>5. KEYBOARD_KEY_STATE[k] <=> Down(typed, k, Len(typed))
    BY <2>1, <2>4 DEF Decodes, KeyStates
  <2> QED
    BY <2>5 DEF Down, IsDown
<1> QED
  BY <1>1, KeepsStep, PTL

=============================================================================
