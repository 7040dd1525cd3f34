----------------------------- MODULE EventQueue -----------------------------
(***************************************************************************)
(* Data::Queue (src/src/kernel/data/queue.hpp) as the keyboard driver uses *)
(* it: one ring buffer shared, without any lock, by an interrupt handler   *)
(* and by the main loop it interrupts.                                     *)
(*                                                                         *)
(* keyboard_handler runs behind an interrupt gate, so on the single CPU a  *)
(* whole push_back is one step.  The main loop's pop_front can be          *)
(* interrupted between any two of its memory accesses, so it is four: the  *)
(* is_empty test, the two words of the element copied out of m_data, and   *)
(* the store to m_startIndex.                                              *)
(***************************************************************************)
EXTENDS Integers, Sequences

CONSTANTS Keycode,   \* KeyboardEvent::key
          SIZE,      \* template argument SIZE (KEYBOARD_EVENT_QUEUE_SIZE)
          NoElement  \* Error::CONTAINER_IS_EMPTY

Element == [key : Keycode, event : {"PRESSED", "RELEASED"}]

ASSUME SizeAssumption == SIZE \in Nat \ {0}
ASSUME NoElementAssumption == NoElement \notin Element

VARIABLES m_data,        \* T m_data[SIZE + 1]
          m_startIndex,  \* slot of the oldest element
          m_endIndex,    \* slot the next element goes to
          pc,            \* where the main loop is inside pop_front
          result,        \* pop_front's local, filled word by word
          offered,       \* history: what push_back was last called with
          polled         \* what pop_front last returned to poll_event

vars == <<m_data, m_startIndex, m_endIndex, pc, result, offered, polled>>

Slot == 0 .. SIZE

next_position(t_pos) == (t_pos + 1) % (SIZE + 1)

is_empty == m_endIndex = m_startIndex

\* Mutant: the oldest element's slot is taken for a free one.
is_full_Never == FALSE

is_full == next_position(m_endIndex) = m_startIndex

\* size() as queue.hpp computes it: a wrapped queue adds SIZE, not SIZE + 1.
size == IF m_endIndex < m_startIndex
        THEN (m_endIndex + SIZE) - m_startIndex
        ELSE m_endIndex - m_startIndex

-----------------------------------------------------------------------------
\* The constructor leaves m_data as it finds it.
Init == /\ m_data \in [Slot -> Element]
        /\ m_startIndex = 0
        /\ m_endIndex = 0
        /\ pc = "idle"
        /\ result \in Element
        /\ offered = NoElement
        /\ polled = NoElement

\* Mutant: m_endIndex moves before the store instead of after it.
push_back_MoveFirst(e) ==
  /\ IF is_full
     THEN UNCHANGED <<m_data, m_endIndex>>
     ELSE /\ m_endIndex' = next_position(m_endIndex)
          /\ m_data' = [m_data EXCEPT ![m_endIndex'] = e]
  /\ offered' = e
  /\ UNCHANGED <<m_startIndex, pc, result, polled>>

\* The interrupt handler stores an event; the error of a full queue is ignored.
push_back(e) ==
  /\ IF is_full
     THEN UNCHANGED <<m_data, m_endIndex>>
     ELSE /\ m_data' = [m_data EXCEPT ![m_endIndex] = e]
          /\ m_endIndex' = next_position(m_endIndex)
  /\ offered' = e
  /\ UNCHANGED <<m_startIndex, pc, result, polled>>

\* if (is_empty()) return CONTAINER_IS_EMPTY;
pop_front_test ==
  /\ pc = "idle"
  /\ IF is_empty
     THEN polled' = NoElement /\ UNCHANGED pc
     ELSE pc' = "copy_key" /\ UNCHANGED polled
  /\ UNCHANGED <<m_data, m_startIndex, m_endIndex, result, offered>>

\* const T result = m_data[m_startIndex]; a two-word copy
pop_front_copy_key ==
  /\ pc = "copy_key"
  /\ result' = [result EXCEPT !.key = m_data[m_startIndex].key]
  /\ pc' = "copy_event"
  /\ UNCHANGED <<m_data, m_startIndex, m_endIndex, offered, polled>>

pop_front_copy_event ==
  /\ pc = "copy_event"
  /\ result' = [result EXCEPT !.event = m_data[m_startIndex].event]
  /\ pc' = "advance"
  /\ UNCHANGED <<m_data, m_startIndex, m_endIndex, offered, polled>>

\* m_startIndex = next_position(m_startIndex); return result;
pop_front_advance ==
  /\ pc = "advance"
  /\ m_startIndex' = next_position(m_startIndex)
  /\ polled' = result
  /\ pc' = "idle"
  /\ UNCHANGED <<m_data, m_endIndex, result, offered>>

Next == \/ \E e \in Element : push_back(e)
        \/ pop_front_test
        \/ pop_front_copy_key
        \/ pop_front_copy_event
        \/ pop_front_advance

Spec == Init /\ [][Next]_vars

-----------------------------------------------------------------------------
TypeOK == /\ m_data \in [Slot -> Element]
          /\ m_startIndex \in Slot
          /\ m_endIndex \in Slot
          /\ pc \in {"idle", "copy_key", "copy_event", "advance"}
          /\ result \in Element
          /\ offered \in Element \cup {NoElement}
          /\ polled \in Element \cup {NoElement}

\* The slot that holds the i-th oldest element, and how many elements there are.
SlotOf(i) == IF m_startIndex + i - 1 <= SIZE
             THEN m_startIndex + i - 1
             ELSE m_startIndex + i - 1 - (SIZE + 1)

Count == IF m_startIndex <= m_endIndex
         THEN m_endIndex - m_startIndex
         ELSE m_endIndex - m_startIndex + (SIZE + 1)

Contents == [i \in 1 .. Count |-> m_data[SlotOf(i)]]

\* An element the main loop is copying out of queue.hpp's m_data is never
\* overwritten by the interrupt handler before m_startIndex has moved past it:
\* the words copied so far are those of the oldest element.
NoTornRead ==
  /\ pc # "idle" => ~is_empty
  /\ pc \in {"copy_event", "advance"} => result.key = m_data[m_startIndex].key
  /\ pc = "advance" => result.event = m_data[m_startIndex].event

\* The lock-free ring buffer, interrupted anywhere inside pop_front, still
\* behaves as an atomic bounded FIFO: nothing is lost, duplicated or reordered,
\* and an element is refused only when SIZE elements are stored.
Fifo == INSTANCE BoundedFifo WITH queue <- Contents, Capacity <- SIZE

ImplementsFifo == Fifo!Spec

\* Queue::size() is one short of the number of elements when they wrap around
\* the end of the array: it adds SIZE where the array has SIZE + 1 slots.
SizeShortIfWrapped == size = IF m_startIndex <= m_endIndex THEN Count ELSE Count - 1
=============================================================================
