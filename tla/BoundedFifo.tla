---------------------------- MODULE BoundedFifo ----------------------------
(***************************************************************************)
(* What Data::Queue (src/src/kernel/data/queue.hpp) promises its two       *)
(* users: a first-in first-out queue of at most Capacity elements that     *)
(* drops what is put into it while it is full.  The ring buffer            *)
(* of module EventQueue is shown to implement this specification, and      *)
(* module Keyboard uses the queue at this level.                           *)
(***************************************************************************)
EXTENDS Naturals, Sequences

CONSTANTS Element,   \* what the queue holds
          Capacity,  \* Queue::capacity()
          NoElement  \* the answer CONTAINER_IS_EMPTY

VARIABLES queue,     \* the elements, oldest first
          offered,   \* history: what was last given to push_back
          polled     \* the answer of the last completed pop_front

Init == /\ queue = << >>
        /\ offered = NoElement
        /\ polled = NoElement

\* push_back: stored while there is room, refused (and lost) otherwise.
Put(e) == /\ queue' = IF Len(queue) < Capacity THEN Append(queue, e) ELSE queue
          /\ offered' = e
          /\ UNCHANGED polled

\* pop_front of a non-empty queue hands out the oldest element.
Take == /\ queue # << >>
        /\ polled' = Head(queue)
        /\ queue' = Tail(queue)
        /\ UNCHANGED offered

\* pop_front of an empty queue answers CONTAINER_IS_EMPTY.
TakeNothing == /\ queue = << >>
               /\ polled' = NoElement
               /\ UNCHANGED <<queue, offered>>

Next == \/ \E e \in Element : Put(e)
        \/ Take
        \/ TakeNothing

Spec == Init /\ [][Next]_<<queue, offered, polled>>
=============================================================================
