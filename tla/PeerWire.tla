-------------------------------- MODULE PeerWire --------------------------------
(***************************************************************************)
(* One direction of a connection between two XBT clients: the sending half *)
(* of a Cbt_peer_link, the network, and the receiving half of the other's  *)
(* (src/BT Test/bt_peer_link.cpp).  A message is its length: Header bytes  *)
(* that tell it and as many more; every byte knows the message it is of.   *)
(*                                                                         *)
(* Each half runs in its own client.  A turn of a half is a loop of the    *)
(* code; rpc and quota say where in it the half is.                        *)
(***************************************************************************)
EXTENDS Integers, Sequences, SequencesExt

CONSTANTS
  Size,       \* of the receiver's ring buffer (33 KB)
  Header,     \* bytes of a length (4)
  Handshake,  \* bytes before the peer id, and of the peer id (48 and 20)
  PeerId,
  MaxMessage, \* a longer message closes the link (32 KB)
  Lengths,    \* of the messages that are written
  Requests,   \* sizes a peer may request; a negative one stands for a read that fails
  Quotas,     \* what a turn may be given to send, in bytes
  Network,    \* bytes the network holds
  MaxMessages \* bound

VARIABLES
  write_b, haves, requests, choked, can_send, \* the sending half
  quota,                                      \* what its loop may still send
  sent,                                       \* history: the lengths of the messages written
  net,                                        \* bytes on their way
  open, d, r, w, can_recv, state,             \* the receiving half with its ring buffer
  rpc,                                        \* where its loop is
  got                                         \* history: the messages it handled

sender == <<write_b, haves, requests, choked, can_send, quota, sent>>
ring == <<open, d, r, w>>
receiver == <<ring, can_recv, state, rpc, got>>
vars == <<sender, net, receiver>>

\* The m-th message's i-th byte; message 0 is the handshake and the peer id.
WireByte == (0..MaxMessages) \X Nat
bytes(m, from, to) == [i \in 1..to - from + 1 |-> <<m, from + i - 1>>]
Read == INSTANCE RingBuffer WITH Byte <- WireByte

-----------------------------------------------------------------------------
(* The sending half.  (Operators named after a bug are wrong on purpose,   *)
(* like everywhere: nothing of the specification uses them.)               *)

\* write(s): what is to be sent, and the messages it adds.
written(wb, n, len) == Append(wb, bytes(n, 1, Header + len))
piece(wb, n, size) ==
  wb \o <<bytes(n, 1, Header + 1), bytes(n, Header + 2, Header + 1 + size)>>

\* Everything that is written is behind what is there.
between == quota = 0 /\ Len(sent) + haves + Len(requests) < MaxMessages
write_message(len) ==
  /\ between
  /\ write_b' = written(write_b, Len(sent) + 1, len) /\ sent' = Append(sent, len)
  /\ UNCHANGED <<haves, requests, choked, can_send, quota, net, receiver>>
queue_have ==
  /\ between /\ haves' = haves + 1
  /\ UNCHANGED <<write_b, requests, choked, can_send, quota, sent, net, receiver>>
\* A request of the peer; those of a choked peer are ignored.
remote_requests(size) ==
  /\ between /\ ~choked /\ requests' = Append(requests, size)
  /\ UNCHANGED <<write_b, haves, choked, can_send, quota, sent, net, receiver>>
write_choke ==
  /\ between /\ choked' = ~choked
  /\ requests' = IF choked' THEN <<>> ELSE requests
  /\ write_b' = written(write_b, Len(sent) + 1, 1) /\ sent' = Append(sent, 1)
  /\ UNCHANGED <<haves, can_send, quota, net, receiver>>

\* select reports that the socket takes bytes again; Cserver::post_select lets the link send.
writable ==
  /\ ~can_send /\ quota = 0 /\ Len(net) < Network /\ can_send' = TRUE
  /\ UNCHANGED <<write_b, haves, requests, choked, quota, sent, net, receiver>>
call_send ==
  /\ can_send /\ quota = 0 /\ (write_b # <<>> \/ requests # <<>>)
  /\ quota' \in Quotas
  /\ UNCHANGED <<write_b, haves, requests, choked, can_send, sent, net, receiver>>

\* The front request is served when all is sent; one whose read fails gets no answer.
served ==
  LET size == Head(requests)
  IN IF write_b # <<>> \/ choked \/ requests = <<>> THEN [wb |-> write_b, sent |-> sent, requests |-> requests]
     ELSE IF size < 0 THEN [wb |-> write_b, sent |-> sent, requests |-> Tail(requests)]
     ELSE [wb |-> piece(write_b, Len(sent) + 1, size), sent |-> Append(sent, 1 + size),
           requests |-> Tail(requests)]

\* write_haves, one message of length 1 each, before what is sent next.
with_haves_first(s) ==
  [s EXCEPT !.wb = [i \in 1..haves |-> bytes(Len(s.sent) + i, 1, Header + 1)] \o s.wb,
            !.sent = @ \o [i \in 1..haves |-> 1]]
with_haves(s) ==
  [s EXCEPT !.wb = @ \o [i \in 1..haves |-> bytes(Len(s.sent) + i, 1, Header + 1)],
            !.sent = @ \o [i \in 1..haves |-> 1]]

\* What is left when the socket took k bytes of the front.
unsent(wb, k) ==
  IF k = Len(Head(wb)) THEN Tail(wb) ELSE <<SubSeq(Head(wb), k + 1, Len(Head(wb)))>> \o Tail(wb)

\* One round of the loop in send(send_quota).  A socket that takes less than it was offered is
\* not asked again before select says so.
send ==
  /\ quota > 0
  /\ IF served.wb = <<>>
     THEN requests' = served.requests /\ quota' = 0 /\ UNCHANGED <<write_b, haves, can_send, sent, net>>
     ELSE LET s == with_haves(served)
              offer == Read!Least(Len(Head(s.wb)), quota)
              room == Read!Least(offer, Network - Len(net))
          IN /\ sent' = s.sent /\ haves' = 0 /\ requests' = s.requests
             /\ \/ /\ room > 0
                   /\ \E k \in 1..room :
                        /\ net' = net \o SubSeq(Head(s.wb), 1, k)
                        /\ write_b' = unsent(s.wb, k)
                        /\ can_send' = (k = offer)
                        /\ quota' = IF k = offer THEN quota - k ELSE 0
                \/ /\ room = 0 /\ write_b' = s.wb /\ quota' = 0 /\ UNCHANGED net
                   /\ can_send' = (offer = 0) \* of an empty front send takes nothing, and returns
  /\ UNCHANGED <<choked, receiver>>

-----------------------------------------------------------------------------
(* The receiving half: post_select in states 2, 4 and 3.                   *)

\* select, or what is left of the last turn, makes the link read; recv starts with a buffer.
wake ==
  /\ rpc = "select" /\ state # -1 /\ (can_recv \/ net # <<>>)
  /\ can_recv' = TRUE /\ rpc' = "recv"
  /\ IF open THEN UNCHANGED ring ELSE Read!allocate
  /\ UNCHANGED <<sender, net, state, got>>

\* The loop of recv: until the buffer is full, or the socket has given less than it might.
would_block == Read!cb_w > 0 /\ net = <<>>
recv ==
  /\ rpc = "recv"
  /\ \/ /\ Read!cb_w = 0 /\ rpc' = "parse" /\ UNCHANGED <<can_recv, ring, net>>
     \/ /\ would_block /\ rpc' = "parse" /\ can_recv' = FALSE /\ UNCHANGED <<ring, net>>
     \/ \E k \in 1..Read!Least(Len(net), Read!cb_w) :
          /\ Read!receive(SubSeq(net, 1, k)) /\ net' = SubSeq(net, k + 1, Len(net))
          /\ can_recv' = (k = Read!cb_w)
          /\ rpc' = IF k = Read!cb_w THEN "recv" ELSE "parse"
  /\ UNCHANGED <<sender, state, got>>

\* The bytes of r().  A length is what the Header bytes of a message say; other bytes are read
\* as a length no message has.
front(n) == [i \in 1..n |-> d[r + i - 1]]
length ==
  LET m == d[r][1]
  IN IF m > 0 /\ front(Header) = bytes(m, 1, Header) THEN sent[m] ELSE MaxMessage + 1
handled(len) == IF front(Header + len) = bytes(d[r][1], 1, Header + len) THEN d[r][1] ELSE 0

handshake ==
  /\ rpc = "parse" /\ state \in {2, 4}
  /\ LET n == IF state = 2 THEN Handshake ELSE PeerId
     IN IF Read!cb_r < n THEN rpc' = "select" /\ UNCHANGED <<ring, state>>
        ELSE Read!take(n) /\ state' = (IF state = 2 THEN 4 ELSE 3) /\ UNCHANGED rpc
  /\ UNCHANGED <<sender, net, can_recv, got>>

close == state' = -1 /\ rpc' = "select" /\ Read!release
whole == Read!cb_r >= Header /\ Read!cb_r >= Header + length
read_message ==
  /\ rpc = "parse" /\ state = 3
  /\ IF Read!cb_r >= Header /\ length > MaxMessage THEN close /\ UNCHANGED got
     ELSE IF whole THEN /\ Read!take(Header + length)
                        /\ got' = Append(got, handled(length)) /\ UNCHANGED <<rpc, state>>
     ELSE rpc' = "rest" /\ UNCHANGED <<ring, got, state>>
  /\ UNCHANGED <<sender, net, can_recv>>

\* What is in two parts is put together and parsed again; an empty buffer is given back.
rest_taken ==
  IF Read!cb_r # Read!cb_read THEN Read!combine /\ rpc' = "parse"
  ELSE rpc' = "select" /\ IF Read!cb_r = 0 THEN Read!release ELSE UNCHANGED ring
rest == rpc = "rest" /\ rest_taken /\ UNCHANGED <<sender, net, can_recv, state, got>>

-----------------------------------------------------------------------------
Init ==
  /\ write_b = <<bytes(0, 1, Handshake), bytes(0, Handshake + 1, Handshake + PeerId)>>
  /\ haves = 0 /\ requests = <<>> /\ choked = TRUE /\ can_send = FALSE /\ quota = 0 /\ sent = <<>>
  /\ net = <<>>
  /\ open = FALSE /\ d = [j \in 0..Size |-> <<0, 0>>] /\ r = 0 /\ w = 0
  /\ can_recv = FALSE /\ state = 2 /\ rpc = "select" /\ got = <<>>

Write == (\E len \in Lengths : write_message(len)) \/ queue_have \/ write_choke
         \/ \E size \in Requests : remote_requests(size)
Send == writable \/ call_send \/ send
Receive == wake \/ recv \/ handshake \/ read_message \/ rest
Next == Write \/ Send \/ Receive

\* The select loops of both clients go on, and the network delivers.
Fairness == WF_vars(Send) /\ WF_vars(Receive)
Spec == Init /\ [][Next]_vars /\ Fairness

-----------------------------------------------------------------------------
(* Properties.                                                             *)

\* The messages are handled whole, once and in the order they were written, however sends are
\* cut short, the quota runs out, reads end in the middle of a length and the buffer wraps.
InOrder == got = [i \in 1..Len(got) |-> i]

\* A client closes the link on the length of a message only when the other did write one that
\* long (as it does for the info of a torrent above 32 KB), and then at that message.
ClosedByLong ==
  state = -1 => Len(got) < Len(sent) /\ sent[Len(got) + 1] > MaxMessage

\* Whatever was written is handled in the end, as long as the link is not closed and no empty
\* block waits to be sent: such a block, the answer to a request of no bytes, is never sent
\* and nothing behind it is.
stuck == state = -1 \/ (write_b # <<>> /\ Head(write_b) = <<>>)
Delivered == \A n \in 1..MaxMessages : Len(sent) >= n ~> Len(got) >= n \/ stuck
===============================================================================
