------------------------------- MODULE MCLinks --------------------------------
(* Small instances of what lies between sockets and the rest, in one run of    *)
(* TLC.  Which one it is, is chosen at the start.                              *)
EXTENDS LinkParts

VARIABLE part

\* One of the requests of a peer is for no bytes, and the reading of one fails.
Blocks == {0, 2, -1}

\* Requests whose lines end in CR LF or in LF, one with a byte behind its end, one longer than
\* the buffer, and one that is not answered.
Lines == {<<"x", "r", "n", "x", "r", "n", "r", "n">>, <<"x", "n", "x", "n", "n">>,
          <<"x", "r", "n", "r", "n", "x">>, [i \in 1..9 |-> "x"]}
Announces ==
  {[bytes |-> b, ok |-> TRUE] : b \in Lines} \cup {[bytes |-> <<"x", "r", "n", "r", "n">>, ok |-> FALSE]}

wire == <<write_b, haves, requests, choked, can_send, quota, sent, net,
          in_open, in_d, in_r, in_w, can_recv, state, rpc, got>>
served == <<todo, request, answer_got, arrived, fin, room, edge, phase, conn_state, used, unsent,
            conn_r, failed, age, elapsed, turn>>
all == <<part, vars, wire, served>>

\* All instances start; those that are not chosen never move.
Idle == d = [j \in 0..Size |-> CHOOSE b \in Byte : TRUE]
InitLinks ==
  /\ part \in {"ring", "wire", "served"}
  /\ Init /\ (part = "ring" \/ Idle)
  /\ Wire!Init
  /\ Served!Init /\ (part = "served" \/ request.bytes = [i \in 1..9 |-> "x"])
wiring(A) == part = "wire" /\ A /\ UNCHANGED <<part, vars, served>>
serving(A) == part = "served" /\ A /\ UNCHANGED <<part, vars, wire>>
NextLinks ==
  \/ part = "ring" /\ Next /\ UNCHANGED <<part, wire, served>>
  \/ wiring(Wire!Next)
  \/ serving(Served!Next)

\* The fairness of PeerWire and of Connection.
SpecLinks ==
  /\ InitLinks /\ [][NextLinks]_all
  /\ WF_all(wiring(Wire!Send)) /\ WF_all(wiring(Wire!Receive))
  /\ WF_all(serving(Served!wait \/ Served!sweep)) /\ WF_all(serving(Served!second))

\* Every message that was written arrives, and every connection of the tracker is released.
NothingLeft ==
  /\ part = "wire" => Wire!Delivered
  /\ part = "served" => Served!Released
===============================================================================
