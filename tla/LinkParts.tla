------------------------------- MODULE LinkParts --------------------------------
(***************************************************************************)
(* What lies between sockets and the rest: the ring buffer, and beside it,  *)
(* each an instance with variables of its own, one direction of a link      *)
(* between two clients, and an HTTP connection of the tracker.              *)
(***************************************************************************)
EXTENDS RingBuffer

CONSTANTS
  BufferSize, Header, Handshake, PeerId, MaxMessage, Lengths, Asked, Quotas, Network, MaxMessages, \* PeerWire
  Requests, Buffer, HeadSize, BodySize, Timeout                                                    \* Connection

VARIABLES
  write_b, haves, requests, choked, can_send, quota, sent, net, \* PeerWire
  in_open, in_d, in_r, in_w, can_recv, state, rpc, got,
  todo, request, answer_got, arrived, fin, room, edge,          \* Connection
  phase, conn_state, used, unsent, conn_r, failed, age, elapsed, turn

\* A length takes bytes, and so does what comes before the first message.
ASSUME WireAssumption ==
  /\ BufferSize \in Nat \ {0} /\ Header \in Nat \ {0} /\ Handshake \in Nat \ {0} /\ PeerId \in Nat \ {0}
  /\ MaxMessage \in Nat /\ Lengths \subseteq Nat /\ Asked \subseteq Int /\ Quotas \subseteq Nat
  /\ Network \in Nat /\ MaxMessages \in Nat
ASSUME ConnectionAssumption ==
  /\ \A q \in Requests : q.bytes \in Seq({"x", "r", "n"}) /\ q.ok \in BOOLEAN
  /\ Buffer \in Nat /\ HeadSize \in Nat /\ BodySize \in Nat /\ Timeout \in Nat

Wire == INSTANCE PeerWire WITH
  Size <- BufferSize, Requests <- Asked, open <- in_open, d <- in_d, r <- in_r, w <- in_w
Served == INSTANCE Connection WITH
  got <- answer_got, state <- conn_state, write_b <- unsent, r <- conn_r

\* What is read was written, in the order it was; each request is answered once and whole.
AnswersFaithful ==
  /\ Wire!InOrder /\ Wire!ClosedByLong
  /\ Served!AnsweredOnce /\ Served!AnsweredWhole /\ Served!NothingAwaited
================================================================================
