-------------------------- MODULE EventQueueProofs --------------------------
(***************************************************************************)
(* Machine-checked proofs about module EventQueue, for every queue         *)
(* capacity and every set of key codes: the type invariant, that an        *)
(* element is never overwritten while it is being copied out, and that the *)
(* interrupted ring buffer implements the atomic bounded FIFO.             *)
(***************************************************************************)
EXTENDS EventQueue, SequenceTheorems, TLAPS

\* next_position without the modulus: the form the other proofs use.
LEMMA NextPosition ==
  ASSUME NEW p \in Slot
  PROVE  next_position(p) = IF p = SIZE THEN 0 ELSE p + 1
<1>1. CASE p = SIZE
  BY <1>1, SizeAssumption DEF next_position, Slot
<1>2. CASE p # SIZE
  BY <1>2, SizeAssumption DEF next_position, Slot
<1> QED BY <1>1, <1>2

LEMMA NextPositionInSlot ==
  ASSUME NEW p \in Slot
  PROVE  next_position(p) \in Slot
BY NextPosition, SizeAssumption DEF Slot

-----------------------------------------------------------------------------
\* The inductive invariant: well-typed indices and no torn copy.
IInv == TypeOK /\ NoTornRead

\* Every step of the handler and of the interrupted pop_front keeps IInv.
LEMMA IInvStep == IInv /\ [Next]_vars => IInv'
<1> SUFFICES ASSUME IInv, [Next]_vars PROVE IInv'
  OBVIOUS
<1> USE SizeAssumption DEF IInv
<1>0. next_position(m_startIndex) \in Slot /\ next_position(m_endIndex) \in Slot
  BY NextPositionInSlot DEF TypeOK
<1>1. ASSUME NEW e \in Element, push_back(e) PROVE IInv'
  <2>1. TypeOK'
    BY <1>0, <1>1 DEF push_back, TypeOK
  <2>2. CASE is_full
    BY <1>1, <2>1, <2>2 DEF push_back, NoTornRead, is_empty
  <2>3. CASE ~is_full
    <3>1. next_position(m_endIndex) # m_startIndex
      BY <2>3 DEF is_full
    <3>2. pc # "idle" => m_endIndex # m_startIndex
      BY DEF NoTornRead, is_empty
    <3>3. pc # "idle" => m_data'[m_startIndex] = m_data[m_startIndex]
      BY <1>1, <2>3, <3>2 DEF push_back, TypeOK
    <3> QED BY <1>1, <2>1, <2>3, <3>1, <3>3 DEF push_back, NoTornRead, is_empty
  <2> QED BY <2>2, <2>3
<1>2. CASE pop_front_test
  <2>1. TypeOK'
    BY <1>2 DEF pop_front_test, TypeOK
  <2>2. NoTornRead'
    BY <1>2 DEF pop_front_test, NoTornRead, is_empty
  <2> QED BY <2>1, <2>2
<1>3. CASE pop_front_copy_key
  <2>1. m_data[m_startIndex] \in Element
    BY DEF TypeOK
  <2>2. TypeOK'
    BY <1>3, <2>1 DEF pop_front_copy_key, TypeOK, Element
  <2>3. NoTornRead'
    BY <1>3, <2>1 DEF pop_front_copy_key, NoTornRead, is_empty, TypeOK, Element
  <2> QED BY <2>2, <2>3
<1>4. CASE pop_front_copy_event
  <2>1. m_data[m_startIndex] \in Element
    BY DEF TypeOK
  <2>2. TypeOK'
    BY <1>4, <2>1 DEF pop_front_copy_event, TypeOK, Element
  <2>3. NoTornRead'
    BY <1>4, <2>1 DEF pop_front_copy_event, NoTornRead, is_empty, TypeOK, Element
  <2> QED BY <2>2, <2>3
<1>5. CASE pop_front_advance
  <2>1. TypeOK'
    BY <1>0, <1>5 DEF pop_front_advance, TypeOK
  <2>2. NoTornRead'
    BY <1>5 DEF pop_front_advance, NoTornRead
  <2> QED BY <2>1, <2>2
<1>6. CASE UNCHANGED vars
  BY <1>6 DEF vars, TypeOK, NoTornRead, is_empty
<1> QED BY <1>1, <1>2, <1>3, <1>4, <1>5, <1>6 DEF Next

LEMMA IInvInit == Init => IInv
BY SizeAssumption DEF Init, IInv, TypeOK, NoTornRead, Slot

\* IInv holds in every reachable state.
THEOREM Invariance == Spec => []IInv
<1> QED BY IInvInit, IInvStep, PTL DEF Spec

\* Every index stays inside m_data and every variable keeps its type,
\* for every capacity of queue.hpp's ring buffer.
THEOREM TypeCorrect == Spec => []TypeOK
<1>1. IInv => TypeOK
  BY DEF IInv
<1> QED BY <1>1, Invariance, PTL

\* push_back in the interrupt handler never overwrites the slot pop_front is
\* copying, whatever the capacity.
THEOREM NeverTorn == Spec => []NoTornRead
<1>1. IInv => NoTornRead
  BY DEF IInv
<1> QED BY <1>1, Invariance, PTL

-----------------------------------------------------------------------------
LEMMA CountType ==
  ASSUME TypeOK
  PROVE  /\ Count \in 0 .. SIZE
         /\ \A i \in 1 .. Count : SlotOf(i) \in Slot
         /\ (Count = 0) <=> is_empty
         /\ (Count = SIZE) <=> is_full
<1>1. next_position(m_endIndex) = IF m_endIndex = SIZE THEN 0 ELSE m_endIndex + 1
  BY NextPosition DEF TypeOK
<1>2. m_startIndex \in Nat /\ m_endIndex \in Nat /\ m_startIndex <= SIZE /\ m_endIndex <= SIZE
  BY SizeAssumption DEF TypeOK, Slot
<1>3. Count \in 0 .. SIZE
  BY <1>2, SizeAssumption DEF Count
<1>4. \A i \in 1 .. Count : SlotOf(i) \in Slot
  BY <1>2, <1>3, SizeAssumption DEF Count, SlotOf, Slot
<1>5. (Count = 0) <=> is_empty
  BY <1>2, SizeAssumption DEF Count, is_empty
<1>6. (Count = SIZE) <=> is_full
  BY <1>1, <1>2, SizeAssumption DEF Count, is_full
<1> QED BY <1>3, <1>4, <1>5, <1>6

LEMMA ContentsType ==
  ASSUME TypeOK
  PROVE  /\ Contents \in Seq(Element)
         /\ Len(Contents) = Count
         /\ (Contents = << >>) <=> is_empty
<1>1. Count \in Nat /\ \A i \in 1 .. Count : m_data[SlotOf(i)] \in Element
  BY CountType, SizeAssumption DEF TypeOK
<1>2. Contents \in Seq(Element) /\ Len(Contents) = Count
  BY <1>1 DEF Contents
<1>3. (Contents = << >>) <=> (Count = 0)
  BY <1>1, <1>2
<1> QED BY <1>2, <1>3, CountType

\* push_back is Put: it appends to the contents, or drops when SIZE are stored.
LEMMA PushIsPut ==
  ASSUME IInv, NEW e \in Element, push_back(e)
  PROVE  Fifo!Put(e)
<1> USE SizeAssumption
<1>0. TypeOK /\ TypeOK'
  BY IInvStep DEF IInv, Next
<1>1. CASE is_full
  <2>1. Contents' = Contents
    BY <1>1 DEF push_back, Contents, Count, SlotOf
  <2>2. Len(Contents) = SIZE
    BY <1>0, <1>1, CountType, ContentsType
  <2> QED BY <2>1, <2>2, <1>1 DEF Fifo!Put, push_back
<1>2. CASE ~is_full
  <2>0. /\ m_startIndex \in 0 .. SIZE
        /\ m_endIndex \in 0 .. SIZE
        /\ m_startIndex' = m_startIndex
        /\ m_endIndex' = IF m_endIndex = SIZE THEN 0 ELSE m_endIndex + 1
        /\ m_endIndex' # m_startIndex
        /\ m_data' = [m_data EXCEPT ![m_endIndex] = e]
        /\ m_data \in [Slot -> Element]
    BY <1>0, <1>2, NextPosition DEF push_back, is_full, TypeOK, Slot
  <2>1. Count' = Count + 1 /\ Count \in 0 .. SIZE /\ Count' \in 0 .. SIZE
    BY <2>0 DEF Count
  <2>2. Contents' = Append(Contents, e)
    <3>0. PICK n \in 0 .. SIZE : n = Count /\ Count' = n + 1
      BY <2>1
    <3>1. \A i \in 1 .. n + 1 : SlotOf(i)' = SlotOf(i)
      BY <2>0 DEF SlotOf
    <3>2. SlotOf(n + 1) = m_endIndex
      BY <2>0, <3>0 DEF SlotOf, Count
    <3>3. \A i \in 1 .. n : SlotOf(i) \in Slot /\ SlotOf(i) # m_endIndex
      BY <2>0, <3>0 DEF SlotOf, Count, Slot
    <3>4. \A i \in 1 .. n : m_data'[SlotOf(i)'] = m_data[SlotOf(i)]
      BY <2>0, <3>1, <3>3
    <3>5. m_data'[SlotOf(n + 1)'] = e
      BY <2>0, <3>1, <3>2 DEF Slot
    <3>6. Contents' = [i \in 1 .. n + 1 |-> IF i = n + 1 THEN e ELSE m_data[SlotOf(i)]]
      BY <3>0, <3>4, <3>5 DEF Contents
    <3>7. Contents = [i \in 1 .. n |-> m_data[SlotOf(i)]] /\ Len(Contents) = n
      BY <1>0, <3>0, ContentsType DEF Contents
    <3>8. \A i \in 1 .. n : m_data[SlotOf(i)] \in Element
      BY <2>0, <3>3
    <3> QED BY <3>6, <3>7, <3>8
  <2>3. Len(Contents) < SIZE
    BY <1>0, <2>1, ContentsType
  <2> QED BY <2>2, <2>3, <1>2 DEF Fifo!Put, push_back
<1> QED BY <1>1, <1>2

\* The last step of pop_front is Take: it removes and returns the head.
LEMMA AdvanceIsTake ==
  ASSUME IInv, pop_front_advance
  PROVE  Fifo!Take
<1> USE SizeAssumption
<1>0. TypeOK /\ NoTornRead
  BY DEF IInv
<1>1. ~is_empty /\ result = m_data[m_startIndex]
  <2>1. result \in Element /\ m_data[m_startIndex] \in Element
    BY <1>0 DEF TypeOK
  <2> QED BY <1>0, <2>1 DEF NoTornRead, pop_front_advance, Element
<1>2. /\ m_startIndex \in 0 .. SIZE
      /\ m_endIndex \in 0 .. SIZE
      /\ m_endIndex # m_startIndex
      /\ m_startIndex' = IF m_startIndex = SIZE THEN 0 ELSE m_startIndex + 1
      /\ m_endIndex' = m_endIndex
      /\ m_data' = m_data
  BY <1>0, <1>1, NextPosition DEF pop_front_advance, is_empty, TypeOK, Slot
<1>3. Count' = Count - 1 /\ Count \in 1 .. SIZE
  BY <1>2 DEF Count
<1>4. \A i \in 1 .. Count - 1 : SlotOf(i)' = SlotOf(i + 1)
  BY <1>2, <1>3 DEF SlotOf
<1>5. Contents \in Seq(Element) /\ Len(Contents) = Count /\ Contents # << >>
  BY <1>0, <1>1, ContentsType
<1>6. Contents' = Tail(Contents)
  <2>1. Contents' = [i \in 1 .. Count - 1 |-> m_data[SlotOf(i + 1)]]
    BY <1>2, <1>3, <1>4 DEF Contents
  <2>2. Tail(Contents) = [i \in 1 .. Count - 1 |-> Contents[i + 1]]
    <3>1. /\ Len(Tail(Contents)) = Count - 1
          /\ Tail(Contents) \in Seq(Element)
          /\ \A i \in 1 .. Count - 1 : Tail(Contents)[i] = Contents[i + 1]
      BY <1>5, HeadTailProperties
    <3> QED BY <1>3, <3>1, LenProperties
  <2>3. \A i \in 1 .. Count - 1 : Contents[i + 1] = m_data[SlotOf(i + 1)]
    BY <1>3 DEF Contents
  <2> QED BY <2>1, <2>2, <2>3
<1>7. Head(Contents) = m_data[m_startIndex]
  <2>1. Contents[1] = m_data[SlotOf(1)]
    BY <1>3 DEF Contents
  <2>2. SlotOf(1) = m_startIndex
    BY <1>2 DEF SlotOf
  <2> QED BY <1>5, <2>1, <2>2
<1> QED BY <1>1, <1>5, <1>6, <1>7 DEF Fifo!Take, pop_front_advance

\* The ring buffer of queue.hpp, with pop_front interrupted anywhere, is an
\* atomic bounded FIFO of SIZE elements.
THEOREM Refinement == Spec => ImplementsFifo
<1>1. Init => Fifo!Init
  BY DEF Init, Fifo!Init, Contents, Count
<1>2. IInv /\ [Next]_vars => [Fifo!Next]_<<Contents, offered, polled>>
  <2> SUFFICES ASSUME IInv, [Next]_vars
               PROVE  [Fifo!Next]_<<Contents, offered, polled>>
    OBVIOUS
  <2>1. ASSUME NEW e \in Element, push_back(e) PROVE Fifo!Next
    BY <2>1, PushIsPut DEF Fifo!Next
  <2>2. CASE pop_front_test
    <3>1. Contents' = Contents
      BY <2>2 DEF pop_front_test, Contents, Count, SlotOf
    <3>2. CASE is_empty
      <4>1. Contents = << >>
        BY <3>2, ContentsType DEF IInv
      <4> QED BY <2>2, <3>1, <3>2, <4>1 DEF pop_front_test, Fifo!Next, Fifo!TakeNothing
    <3>3. CASE ~is_empty
      BY <2>2, <3>1, <3>3 DEF pop_front_test
    <3> QED BY <3>2, <3>3
  <2>3. CASE pop_front_copy_key
    BY <2>3 DEF pop_front_copy_key, Contents, Count, SlotOf
  <2>4. CASE pop_front_copy_event
    BY <2>4 DEF pop_front_copy_event, Contents, Count, SlotOf
  <2>5. CASE pop_front_advance
    BY <2>5, AdvanceIsTake DEF Fifo!Next
  <2>6. CASE UNCHANGED vars
    BY <2>6 DEF vars, Contents, Count, SlotOf
  <2> QED BY <2>1, <2>2, <2>3, <2>4, <2>5, <2>6 DEF Next
<1> QED BY <1>1, <1>2, Invariance, PTL DEF Spec, ImplementsFifo, Fifo!Spec

-----------------------------------------------------------------------------
\* size() counts every queue whose elements do not wrap around the end of the
\* array, and is one short of all others.
THEOREM SizeMayBeShort == Spec => []SizeShortIfWrapped
<1>1. TypeOK => SizeShortIfWrapped
  BY SizeAssumption DEF TypeOK, Slot, SizeShortIfWrapped, size, Count
<1> QED BY <1>1, TypeCorrect, PTL
=============================================================================
