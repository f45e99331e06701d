--------------------------------- MODULE Fifo ---------------------------------
(***************************************************************************)
(* What header/ring_buffer.h promises: a bounded first-in first-out queue. *)
(***************************************************************************)
EXTENDS Naturals, Sequences

CONSTANTS Elems, NULL

VARIABLES queue,   \* the elements, oldest first
          max,     \* how many it can hold
          ret      \* the last answer: the call, a flag, an element, a number

Answer(o, b, e, n) == [op |-> o, ok |-> b, elem |-> e, num |-> n]

Init == queue = <<>> /\ max = 0 /\ ret = Answer("none", FALSE, NULL, 0)

(* A new queue is empty, whatever it will hold.                            *)
Create == /\ queue' = <<>> /\ max' \in Nat
          /\ ret' = Answer("init", TRUE, NULL, 0)

CreateFails == ret' = Answer("init", FALSE, NULL, 0) /\ UNCHANGED <<queue, max>>

Destroy == queue' = <<>> /\ max' = 0 /\ ret' = Answer("free", TRUE, NULL, 0)

Clear == queue' = <<>> /\ ret' = Answer("clear", TRUE, NULL, 0) /\ UNCHANGED max

Offer(e) ==
  \/ /\ Len(queue) < max
     /\ queue' = Append(queue, e) /\ ret' = Answer("offer", TRUE, e, 0)
     /\ UNCHANGED max
  \/ /\ Len(queue) = max
     /\ ret' = Answer("offer", FALSE, e, 0) /\ UNCHANGED <<queue, max>>

Poll ==
  \/ /\ queue # <<>>
     /\ queue' = Tail(queue) /\ ret' = Answer("poll", TRUE, Head(queue), 0)
     /\ UNCHANGED max
  \/ /\ queue = <<>>
     /\ ret' = Answer("poll", FALSE, NULL, 0) /\ UNCHANGED <<queue, max>>

(* Size, emptiness and the next element to be polled.                      *)
Observe ==
  /\ ret' = Answer("observe", queue = <<>>,
                   IF queue = <<>> THEN NULL ELSE Head(queue), Len(queue))
  /\ UNCHANGED <<queue, max>>

Next == \/ Create \/ CreateFails \/ Destroy \/ Clear \/ Poll \/ Observe
        \/ \E e \in Elems : Offer(e)

vars == <<queue, max, ret>>

Spec == Init /\ [][Next]_vars
===============================================================================
