------------------------------- MODULE Connection -------------------------------
(***************************************************************************)
(* An HTTP connection of the XBT tracker (src/Tracker/connection.cpp) in   *)
(* the tracker's epoll loop (tracker.cpp, srv_run and accept), with the    *)
(* client at its other end.  One buffer takes the request, whose first     *)
(* line is answered at once and whose end, an empty line, closes the       *)
(* connection.  The connection is edge-triggered: an event that comes      *)
(* while there is something to read or to send comes once.                 *)
(*                                                                         *)
(* A request is a sequence over "x" (any character), "r" and "n" (the line *)
(* ends).  Its answer is a head of HeadSize bytes and a body of BodySize bytes.    *)
(***************************************************************************)
EXTENDS Integers, Sequences

CONSTANTS
  Requests, \* what the client may send
  Buffer,   \* bytes of read_b_ (4 KB)
  HeadSize, BodySize,
  Timeout   \* seconds a connection may last (10)

VARIABLES
  todo, request, \* the client: what it has still to send, of what
  got,           \* and the bytes of the answer it got
  arrived,       \* the socket: bytes to read
  fin,           \*   "open", or as the client has ended it "closed" or "reset"
  room,          \*   whether it takes bytes of the answer
  edge,          \*   something has become ready that epoll has not reported yet
  phase,         \* "none", "backlog", "open" (in g_connections), "closed" (there, its socket closed), "gone"
  state, used,   \* state_; the bytes of read_b_ behind w_
  write_b, r,    \* write_b_ and the part of it that is not sent
  failed,        \* history: a send failed
  age,           \* srv_time() - ctime_, up to Timeout + 1
  elapsed,       \* seconds since g_time was set, up to Timeout + 1
  turn           \* "wait", or in a turn of the loop: "same" or "later", as g_time has changed

client == <<todo, request, got>>
socket == <<arrived, fin, room, edge>>
connection == <<phase, state, used, write_b, r, failed>>
clock == <<age, elapsed, turn>>
vars == <<client, socket, connection, clock>>

AtMost(a, b) == IF a < b THEN a ELSE b
Answer == [i \in 1..HeadSize + BodySize |-> i]

-----------------------------------------------------------------------------
(* The loop of recv over the bytes of one read.                            *)

\* A character sets state_ to 1 unless it is of the first line.
after_char(s) == IF s = 0 THEN 0 ELSE 1
after_end(s, b) ==
  CASE s \in {0, 1} -> IF b = "n" THEN 3 ELSE 2
    [] s = 3 -> IF b = "n" THEN 5 ELSE 4
    [] s \in {2, 4} -> s + 1
    [] OTHER -> s

\* One round takes the bytes up to a line end, and that; the rounds end when one has not
\* changed state_, whether or not there are bytes left.
round(s, bytes) ==
  LET ends == {i \in 1..Len(bytes) : bytes[i] # "x"}
      n == IF ends = {} THEN Len(bytes) + 1 ELSE CHOOSE i \in ends : \A j \in ends : i <= j
      s1 == IF n > 1 THEN after_char(s) ELSE s
  IN [state |-> IF ends = {} THEN s1 ELSE after_end(s1, bytes[n]),
      rest |-> SubSeq(bytes, n + 1, Len(bytes))]
rounds(s, bytes) ==
  LET after[k \in 0..Len(bytes) + 1] ==
        IF k = 0 THEN [state |-> s, rest |-> bytes, more |-> TRUE]
        ELSE IF ~after[k - 1].more THEN after[k - 1]
        ELSE LET one == round(after[k - 1].state, after[k - 1].rest)
             IN [state |-> one.state, rest |-> one.rest, more |-> one.state # after[k - 1].state]
  IN after[Len(bytes) + 1].state
has_line(bytes) == \E i \in 1..Len(bytes) : bytes[i] # "x"

-----------------------------------------------------------------------------
(* The handlers, as sets of outcomes: c is the record of the connection's  *)
(* members, with what the socket still holds and what the client has got.  *)

members == [state |-> state, used |-> used, write_b |-> write_b, r |-> r, failed |-> failed,
            arrived |-> arrived, got |-> got, room |-> room, close |-> FALSE]

\* read: the answer is given to the socket at once.  What it does not take waits in write_b_,
\* all of it or, when the head is gone, the body; an answer it refuses is lost.
rest_of(k) ==
  LET kept == IF k < HeadSize THEN Answer ELSE SubSeq(Answer, HeadSize + 1, Len(Answer))
  IN SubSeq(kept, (IF k < HeadSize THEN k ELSE k - HeadSize) + 1, Len(kept))
read(c) ==
  IF ~request.ok THEN {c}
  ELSE {[c EXCEPT !.failed = TRUE]} \cup
       {[c EXCEPT !.write_b = (k < Len(Answer)), !.r = rest_of(k),
                  !.got = SubSeq(Answer, 1, k), !.room = (k = Len(Answer))] : k \in 1..Len(Answer)}

\* recv reads once, into what is left of the buffer.  A full buffer reads nothing, which looks
\* like the client's close; after the end of the request what is read is ignored.
recv(c) ==
  LET n == AtMost(Len(c.arrived), Buffer - c.used)
      bytes == SubSeq(c.arrived, 1, n)
      next == [c EXCEPT !.used = @ + n, !.arrived = SubSeq(@, n + 1, Len(@))]
  IN IF fin = "reset" THEN {[c EXCEPT !.close = TRUE]}
     ELSE IF c.used = Buffer \/ (c.arrived = <<>> /\ fin = "closed") THEN {[c EXCEPT !.state = 5]}
     ELSE IF c.arrived = <<>> THEN {c}
     ELSE IF c.state = 5 THEN {[next EXCEPT !.used = c.used]}
     ELSE {[e EXCEPT !.state = rounds(c.state, bytes)] :
             e \in IF c.state = 0 /\ has_line(bytes) THEN read(next) ELSE {next}}

\* send: part of what is left, or an error.
send(c) ==
  IF c.r = <<>> THEN {c}
  ELSE {[c EXCEPT !.failed = TRUE, !.close = TRUE]} \cup
       {[c EXCEPT !.r = SubSeq(@, k + 1, Len(@)), !.got = @ \o SubSeq(c.r, 1, k),
                  !.write_b = (k < Len(c.r)), !.room = (k = Len(c.r))] : k \in 1..Len(c.r)}

\* A connection is closed at the end of the request, when its answer is sent.
finished(c) == c.state = 5 /\ ~c.write_b
process_events(events) ==
  LET received == IF "in" \in events THEN recv(members) ELSE {members}
      sent == UNION {IF "out" \in events /\ ~c.close THEN send(c) ELSE {c} : c \in received}
  IN {[c EXCEPT !.close = @ \/ finished(c)] : c \in sent}

becomes(c) ==
  /\ state' = c.state /\ used' = c.used /\ write_b' = c.write_b /\ r' = c.r /\ failed' = c.failed
  /\ arrived' = c.arrived /\ got' = c.got /\ room' = c.room

-----------------------------------------------------------------------------
(* The loop.                                                               *)

\* epoll_wait returns, with events or after five seconds.
wait ==
  /\ turn = "wait"
  /\ turn' = (IF elapsed > 0 THEN "later" ELSE "same") /\ elapsed' = 0
  /\ age' = AtMost(age + elapsed, Timeout + 1)
  /\ UNCHANGED <<client, socket, connection>>

\* accept reads at once.  Adding the socket to epoll reports what is ready by then.
accept ==
  /\ turn # "wait" /\ phase = "backlog" /\ age' = 0
  /\ \E c \in process_events({"in"}) :
       /\ becomes(c) /\ phase' = (IF c.close THEN "gone" ELSE "open")
       /\ edge' = (c.room \/ c.arrived # <<>> \/ fin # "open")
  /\ UNCHANGED <<todo, request, fin, elapsed, turn>>

\* An edge is reported with all that is ready.
event ==
  /\ turn # "wait" /\ phase = "open" /\ edge /\ edge' = FALSE
  /\ \E c \in process_events((IF arrived # <<>> \/ fin # "open" THEN {"in"} ELSE {})
                             \cup IF room THEN {"out"} ELSE {}) :
       becomes(c) /\ phase' = IF c.close THEN "closed" ELSE "open"
  /\ UNCHANGED <<todo, request, fin, clock>>

\* The connections are swept when g_time has changed.
expired_closed == phase = "closed"
expired == phase = "closed" \/ age > Timeout
sweep ==
  /\ turn # "wait" /\ turn' = "wait"
  /\ phase' = IF turn = "later" /\ phase \in {"open", "closed"} /\ expired THEN "gone" ELSE phase
  /\ UNCHANGED <<client, socket, state, used, write_b, r, failed, age, elapsed>>

second ==
  /\ elapsed <= Timeout /\ elapsed' = elapsed + 1
  /\ UNCHANGED <<client, socket, connection, age, turn>>

-----------------------------------------------------------------------------
(* The client and the network.                                             *)

reachable == phase \in {"backlog", "open"} /\ fin = "open"
connect ==
  /\ phase = "none" /\ phase' = "backlog"
  /\ UNCHANGED <<client, socket, state, used, write_b, r, failed, clock>>
transmit ==
  /\ reachable /\ todo # <<>>
  /\ \E k \in 1..Len(todo) :
       arrived' = arrived \o SubSeq(todo, 1, k) /\ todo' = SubSeq(todo, k + 1, Len(todo))
  /\ edge' = TRUE /\ UNCHANGED <<request, got, fin, room, connection, clock>>
end ==
  /\ reachable /\ fin' \in {"closed", "reset"} /\ edge' = TRUE
  /\ UNCHANGED <<client, arrived, room, connection, clock>>
take_more ==
  /\ reachable /\ ~room /\ room' = TRUE /\ edge' = TRUE
  /\ UNCHANGED <<client, arrived, fin, connection, clock>>

Init ==
  /\ request \in Requests /\ todo = request.bytes /\ got = <<>>
  /\ arrived = <<>> /\ fin = "open" /\ room = TRUE /\ edge = FALSE
  /\ phase = "none" /\ state = 0 /\ used = 0 /\ write_b = FALSE /\ r = <<>> /\ failed = FALSE
  /\ age = 0 /\ elapsed = 0 /\ turn = "wait"
Loop == wait \/ accept \/ event \/ sweep
Next == Loop \/ second \/ connect \/ transmit \/ end \/ take_more

\* The loop goes on, and time passes.
Fairness == WF_vars(wait \/ sweep) /\ WF_vars(second)
Spec == Init /\ [][Next]_vars /\ Fairness

-----------------------------------------------------------------------------
(* Properties.                                                             *)

\* The client gets the answer's bytes once and in order, however the socket takes them.  When
\* the tracker closes a connection whose client neither reset it nor let a send fail, the
\* client has got all of the answer or, when the request had no end of a line the tracker saw,
\* nothing.
AnsweredOnce == Len(got) <= Len(Answer) /\ got = SubSeq(Answer, 1, Len(got))
AnsweredWhole ==
  phase = "closed" /\ ~failed /\ fin # "reset" => got \in {<<>>, Answer}

\* A request that ends with an empty line, its lines ended by CR LF and nothing behind it, is
\* closed as soon as it is read and answered, however it was cut: the client of HTTP/1.0, who
\* takes the close for the end of the answer, never waits for the time-out.  (With lines that
\* end in LF alone, or bytes behind the end, he may: recv stops looking at the first line whose
\* end leaves state_ as it was.)
ends(bytes) ==
  /\ Len(bytes) <= Buffer
  /\ \E n \in 4..Len(bytes) : SubSeq(bytes, n - 3, n) = <<"r", "n", "r", "n">> /\ n = Len(bytes)
  /\ \A i \in 1..Len(bytes) : bytes[i] = "n" <=> (i > 1 /\ bytes[i - 1] = "r")
NothingAwaited ==
  phase = "open" /\ todo = <<>> /\ arrived = <<>> /\ r = <<>> => ~ends(request.bytes)

\* Every connection is dropped in the end, whatever its client does or leaves undone.
Released == phase = "open" ~> phase = "gone"
===============================================================================
