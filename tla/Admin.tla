---------------------------------- MODULE Admin ----------------------------------
(***************************************************************************)
(* The admin interface of the XBT Client (src/BT Test/bt_admin_link.cpp,     *)
(* Cserver::admin_request) with a controller at the other end of the link:   *)
(* the command line program (src/Client Command Line Interface), which waits *)
(* for each answer, or one that sends its requests one behind the other.     *)
(*                                                                         *)
(* Requests and answers are messages with their length in front.  A byte of  *)
(* a request is the request's number, one of an answer is the answer.  Both  *)
(* ring buffers are queues (module RingBuffer); a torrent's state is what    *)
(* was asked for last (module Commands has the rest).                       *)
(***************************************************************************)
EXTENDS Integers, SequencesExt, FiniteSetsExt, Functions

CONSTANTS
  Hashes,
  Requests,   \* what a controller may ask for
  MaxAsked,   \* bound: requests of a controller that does not wait
  ReadSize, WriteSize  \* bytes m_read_b and m_write_b take (512 KB)

VARIABLES
  plan, waits,         \* the controller: its requests, and whether it waits for their answers
  asked, ended, got,   \*   how many it has sent, whether it has closed, and the bytes it got
  net,                 \* bytes on their way to the server
  link,                \* "open" or "gone"
  m_read_b, m_write_b,
  m_admin_pass,        \* "short", or "long" enough to be used
  options, torrents,   \* of the server
  read                 \* history: the answer each request that was read is entitled to

vars == <<plan, waits, asked, ended, got, net, link, m_read_b, m_write_b, m_admin_pass, options, torrents, read>>
controller == <<plan, waits, asked, ended>>
server == <<link, m_read_b, m_write_b, options, torrents, read>>

-----------------------------------------------------------------------------
(* The server's answers.                                                   *)

admin_authenticate(s) == s.authentic /\ m_admin_pass = "long"

\* The setters.
upload_rate(v) == Max({0, v})
seeding_ratio(v) == IF v = 0 THEN 0 ELSE Max({100, v})
peer_limit(v) == v
set_options(o, v) ==
  [o EXCEPT !.upload_rate = IF "upload_rate" \in DOMAIN v THEN upload_rate(v.upload_rate) ELSE @,
            !.seeding_ratio = IF "seeding_ratio" \in DOMAIN v THEN seeding_ratio(v.seeding_ratio) ELSE @,
            !.peer_limit = IF "peer_limit" \in DOMAIN v THEN peer_limit(v.peer_limit) ELSE @]

told(c, kind, of) == [c EXCEPT !.d = [kind |-> kind, of |-> of]]
done(c) == told(c, "done", <<>>)
failure(c, reason) == told(c, reason, <<>>)
known(c, s) == s.hash \in DOMAIN c.torrents
without(ts, h) == Restrict(ts, DOMAIN ts \ {h})
with(ts, h, t) == [k \in DOMAIN ts \cup {h} |-> IF k = h THEN t ELSE ts[k]]
\* c: the options and torrents, and d, the answer.
admin_request(c, s) ==
  CASE ~admin_authenticate(s) -> failure(c, "access denied")
    [] s.action \in {"close torrent", "erase torrent"} ->
         IF known(c, s) THEN done([c EXCEPT !.torrents = without(@, s.hash)]) ELSE failure(c, "unable")
    [] s.action = "open torrent" ->
         IF known(c, s) THEN failure(c, "unable")
         ELSE done([c EXCEPT !.torrents = with(@, s.hash, [state |-> "queued", priority |-> 0])])
    [] s.action = "set priority" ->
         IF known(c, s) THEN done([c EXCEPT !.torrents[s.hash].priority = s.value]) ELSE failure(c, "unable")
    [] s.action = "set state" ->
         IF known(c, s) THEN done([c EXCEPT !.torrents[s.hash].state = s.value]) ELSE failure(c, "unable")
    [] s.action = "set options" -> done([c EXCEPT !.options = set_options(@, s.value)])
    [] s.action = "get options" -> told(c, "options", c.options)
    [] s.action = "get status" -> told(c, "status", c.torrents)
    [] OTHER -> done(c)
\* The bytes of an answer: its head, and what it says.
size(d) == 2 + IF d.kind = "status" THEN Cardinality(DOMAIN d.of) ELSE 0
answer(k, d) == [i \in 1..size(d) |-> [to |-> k, d |-> d]]

-----------------------------------------------------------------------------
(* The link.                                                               *)

\* A message that is no bvalue, or of another type or of no length, gets no answer; nor does one
\* whose answer does not fit behind those that wait.
fits(w, a) == Len(w) + Len(a) <= WriteSize
read_message(c, k) ==
  LET e == admin_request(c, plan[k])
      a == answer(k, e.d)
  IN IF ~plan[k].bvalue THEN [c EXCEPT !.read = Append(@, <<>>)]
     ELSE [e EXCEPT !.write_b = IF fits(@, a) THEN @ \o a ELSE @, !.read = Append(@, a)]

\* All messages that are there as a whole, in their order.
whole(b) ==
  SetToSortSeq({k \in ToSet(b) : Len(SelectSeq(b, LAMBDA u : u = k)) = plan[k].length}, <)
rest(b) == SelectSeq(b, LAMBDA u : u \notin ToSet(whole(b)))
members == [options |-> options, torrents |-> torrents, write_b |-> m_write_b, read |-> read, d |-> <<>>]

\* n bytes have arrived.  Bytes are taken until there are none or the buffer is full, which looks
\* like the end of the controller; m of the answers' bytes are sent, if some waited before select.
\* A link that is to close is closed at once, whatever it has still to send.
post_select(n, m) ==
  LET b == m_read_b \o SubSeq(net, 1, n)
      m_close == Len(b) = ReadSize \/ (ended /\ n = Len(net))
      c == FoldLeft(read_message, members, whole(b))
  IN /\ link = "open" /\ (n > 0 \/ ended \/ m > 0)
     /\ n <= ReadSize - Len(m_read_b) /\ m <= Len(c.write_b) /\ (m_write_b = <<>> => m = 0)
     /\ IF n > 0 \/ ended
        THEN /\ m_read_b' = rest(b) /\ net' = SubSeq(net, n + 1, Len(net))
             /\ link' = IF m_close THEN "gone" ELSE "open"
        ELSE UNCHANGED <<m_read_b, net, link>>
     /\ m_write_b' = SubSeq(c.write_b, m + 1, Len(c.write_b)) /\ got' = got \o SubSeq(c.write_b, 1, m)
     /\ options' = c.options /\ torrents' = c.torrents /\ read' = c.read
     /\ UNCHANGED <<controller, m_admin_pass>>
\* The connection is reset.
recv_failed ==
  /\ link = "open" /\ link' = "gone"
  /\ UNCHANGED <<controller, got, net, m_read_b, m_write_b, m_admin_pass, options, torrents, read>>

-----------------------------------------------------------------------------
(* The controller.                                                         *)

\* The command line program asks for one thing to be done, for the options and for the status, each
\* when its arguments say so, in this order and as one user.  It sets one option, no priorities.
commands ==
  {r \in Requests : r.action \in {"close torrent", "erase torrent", "open torrent", "set state"}
                    \/ (r.action = "set options" /\ DOMAIN r.value = {"upload_rate"})}
asks(requests) == {<<>>} \cup {<<r>> : r \in requests}
main ==
  LET plans == {c \o o \o s : c \in asks(commands),
                  o \in asks({r \in Requests : r.action = "get options"}),
                  s \in asks({r \in Requests : r.action = "get status"})}
  IN {p \in plans \ {<<>>} : Cardinality({p[i].authentic : i \in DOMAIN p}) = 1}

\* It takes an answer for the one to what it asked last, and gives up on a failure.
recv(k) == \E i \in DOMAIN got : /\ got[i].to = k
                                 /\ Cardinality({j \in DOMAIN got : got[j].to = k}) = size(got[i].d)
failed == \E i \in DOMAIN got : got[i].d.kind \in {"access denied", "unable"}
send ==
  /\ link = "open" /\ ~ended /\ asked < Len(plan) /\ (waits => asked = 0 \/ (recv(asked) /\ ~failed))
  /\ asked' = asked + 1 /\ net' = net \o [i \in 1..plan[asked + 1].length |-> asked + 1]
  /\ UNCHANGED <<plan, waits, ended, got, m_admin_pass, server>>
end ==
  /\ ~ended /\ ended' = TRUE
  /\ UNCHANGED <<plan, waits, asked, got, net, m_admin_pass, server>>

Init ==
  /\ waits \in BOOLEAN /\ plan \in IF waits THEN main ELSE UNION {[1..n -> Requests] : n \in 1..MaxAsked}
  /\ asked = 0 /\ ended = FALSE /\ got = <<>> /\ net = <<>> /\ link = "open"
  /\ m_read_b = <<>> /\ m_write_b = <<>> /\ m_admin_pass \in {"short", "long"}
  /\ options = [upload_rate |-> 0, seeding_ratio |-> 0, peer_limit |-> 0]
  /\ torrents \in {[k \in {h} |-> [state |-> "running", priority |-> 0]] : h \in Hashes}
  /\ read = <<>>
Next == (\E n \in 0..Len(net), m \in 0..WriteSize : post_select(n, m)) \/ recv_failed \/ send \/ end
Spec == Init /\ [][Next]_vars

-----------------------------------------------------------------------------
(* Properties.                                                             *)

\* However requests and answers are cut, a controller gets whole answers in the order of its
\* requests, each once and what it is entitled to; one is left out only where it does not fit, which
\* never is so for a controller that waits, unless it is too long for the buffer by itself.
answers == FoldLeft(LAMBDA all, a : all \o a, <<>>, read)
AnswersInTurn ==
  /\ Len(m_write_b) <= WriteSize
  /\ \A i, j \in DOMAIN got : i < j => got[i].to <= got[j].to
  /\ \A k \in DOMAIN read :
       LET all == SelectSeq(got \o m_write_b, LAMBDA u : u.to = k)
       IN all = read[k] \/ (all = <<>> /\ (waits => Len(read[k]) > WriteSize))
  /\ \A i \in DOMAIN got : got[i].to \in DOMAIN read
  /\ waits => got \o m_write_b = SelectSeq(answers, LAMBDA u : Len(read[u.to]) <= WriteSize)

\* A link on which nothing is under way has read all its controller sent: who waits then waits for
\* an answer there is none of.
NothingStuck ==
  link = "open" /\ net = <<>> => m_read_b = <<>> /\ Len(read) = asked
===============================================================================
