---------------------------------- MODULE Fifo ----------------------------------
(***************************************************************************)
(* What a buffer promises: a queue that gives back what was put into it,   *)
(* once and in order.  The ring buffer of the XBT client implements it on  *)
(* bytes (RingBuffer), a link between two clients on messages (PeerWire).  *)
(***************************************************************************)
EXTENDS Integers, Sequences

CONSTANTS
  Capacity, \* what fits
  Item

VARIABLE q  \* what is in the queue, the oldest first

\* What is put in goes behind what is there already.
Put == /\ q' \in Seq(Item) /\ Len(q') \in Len(q)..Capacity
       /\ q = SubSeq(q', 1, Len(q))
Get(k) == q' = SubSeq(q, k + 1, Len(q))
Discard == q' = <<>>

Init == q = <<>>
Next == Put \/ (\E k \in 0..Len(q) : Get(k)) \/ Discard
Spec == Init /\ [][Next]_q
===============================================================================
