------------------------------ MODULE InfoExchange ------------------------------
(***************************************************************************)
(* A torrent the XBT Client knows by its hash only (src/BT Test/            *)
(* bt_peer_link.cpp and bt_file.cpp): its links shake hands, ask for the    *)
(* info and are told what their peers have, in any order, and the torrent    *)
(* gets its pieces when an info with the right hash arrives.                *)
(***************************************************************************)
EXTENDS Integers, Sequences, FiniteSets

CONSTANTS
  Peers,     \* the other ends
  Old,       \* those whose handshake has the get_info bit; this client's own does not
  Pieces,    \* the number of pieces the info tells
  ByteBits   \* bits of a byte of a bitfield

VARIABLES
  m_info,    \* it is known
  m_pieces,  \* how many there are
  link,      \* what is known of each peer
  in         \* the messages that are on their way from it

vars == <<m_info, m_pieces, link, in>>

NoLink == [state |-> "none", bits |-> <<>>, counted |-> {}, due |-> FALSE]
bit(b, v) == v <= Len(b) /\ b[v]
\* vector::resize keeps what was there.
resize(b, n) == [v \in 1..n |-> bit(b, v)]
bytes(n) == (n + ByteBits - 1) \div ByteBits

\* remote_has: a piece the torrent does not have is ignored.  The bit is read and written
\* without a look at the size of m_remote_pieces: beyond it anything may be read.
remote_has(l, v) ==
  IF v > m_pieces THEN {l}
  ELSE IF v <= Len(l.bits) THEN {[l EXCEPT !.bits[v] = TRUE, !.counted = @ \cup {v}]}
  ELSE {l, [l EXCEPT !.counted = @ \cup {v}]}
bitfield(l, has) ==
  LET sized == IF m_info THEN l.bits ELSE resize(l.bits, ByteBits * bytes(Pieces))
      known == {v \in has : v <= m_pieces}
  IN [l EXCEPT !.bits = [v \in 1..Len(sized) |-> sized[v] \/ v \in known], !.counted = @ \cup known]

\* The handshake: a bit for every piece known by then.  The peer sends its bitfield, if it has
\* a piece, behind its own handshake, and answers get_info.
shake(p) ==
  /\ link[p].state = "none"
  /\ link' = [link EXCEPT ![p] = [NoLink EXCEPT !.state = "ready", !.bits = resize(<<>>, m_pieces)]]
  /\ \E has \in SUBSET (1..Pieces) :
       in' = [in EXCEPT ![p] =
         (IF has = {} THEN <<>> ELSE <<[type |-> "bitfield", has |-> has]>>)
         \o (IF m_info \/ p \notin Old THEN <<>> ELSE <<[type |-> "info", has |-> {}]>>)]
  /\ UNCHANGED <<m_info, m_pieces>>

has_more(p) ==
  /\ link[p].state = "ready" /\ Len(in[p]) < 2
  /\ \E v \in 1..Pieces : in' = [in EXCEPT ![p] = Append(@, [type |-> "have", has |-> {v}])]
  /\ UNCHANGED <<m_info, m_pieces, link>>

read_message(p) ==
  /\ in[p] # <<>> /\ in' = [in EXCEPT ![p] = Tail(@)]
  /\ LET e == Head(in[p]) IN
     \/ /\ e.type = "bitfield" /\ link' = [link EXCEPT ![p] = bitfield(@, e.has)]
        /\ Len(link[p].bits) >= m_pieces /\ UNCHANGED <<m_info, m_pieces>>
     \/ /\ e.type = "have"
        /\ \E l \in remote_has(link[p], CHOOSE v \in e.has : TRUE) : link' = [link EXCEPT ![p] = l]
        /\ UNCHANGED <<m_info, m_pieces>>
     \* read_info: an info that is known already is ignored.
     \/ /\ e.type = "info" /\ m_info' = TRUE /\ m_pieces' = Pieces /\ UNCHANGED link

\* The timer that checks the pieces of a link, and looks for one to ask for.
timer(p) ==
  /\ link[p].state = "ready" /\ link' = [link EXCEPT ![p].due = TRUE]
  /\ UNCHANGED <<m_info, m_pieces, in>>

\* close counts back the pieces of the link, for which the torrent must have them all.
close(p) ==
  /\ link[p].state = "ready" /\ Len(link[p].bits) <= m_pieces
  /\ link' = [link EXCEPT ![p] = NoLink] /\ in' = [in EXCEPT ![p] = <<>>]
  /\ UNCHANGED <<m_info, m_pieces>>

Init ==
  /\ m_info = FALSE /\ m_pieces = 0
  /\ link = [p \in Peers |-> NoLink] /\ in = [p \in Peers |-> <<>>]
Next == \E p \in Peers : shake(p) \/ has_more(p) \/ read_message(p) \/ timer(p) \/ close(p)
Spec == Init /\ [][Next]_vars

-----------------------------------------------------------------------------
\* The assertion of next_invalid_piece, when a piece is looked for: there is a bit of the peer
\* for each piece of the torrent.
OneBitPerPiece ==
  \A p \in Peers : link[p].state = "ready" /\ link[p].due => Len(link[p].bits) = m_pieces
===============================================================================
