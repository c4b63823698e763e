------------------------------- MODULE Download -------------------------------
(***************************************************************************)
(* One torrent of the XBT client while it downloads: its pieces            *)
(* (src/BT Test/bt_piece.cpp), the links to its peers as far as they fetch *)
(* data (bt_peer_link.cpp), the file that ties them together               *)
(* (bt_file.cpp, bt_hasher.cpp) and the state saved over a restart.        *)
(*                                                                         *)
(* The client is one loop around select.  In one turn of the loop a link   *)
(* first handles the messages that have come in, then sends what it can;   *)
(* nothing else runs in between, so "turn" names the link whose turn is    *)
(* not over.  A sub-piece is 16 KB; sizes count sub-pieces.                *)
(* Only torrents with piece hashes are modelled, not merkle torrents, and  *)
(* only what a peer sends us, not what it asks of us.                      *)
(***************************************************************************)
EXTENDS Integers, FiniteSets

CONSTANTS
  Link,        \* the peers there may be a link to
  Reliable,    \* those that connect and answer, as far as progress depends on it
  Pieces,      \* the number of pieces
  SubPieces,   \* sub-pieces of each piece; the last piece may have fewer
  Priority,    \* the pieces' priorities (-10: do not download)
  BeginPieces, \* begin mode lasts until so many pieces are valid (4)
  Window,      \* requests pending per link outside begin and end mode (8)
  Budget       \* bounds on what peers, disk, user and the machine may do to us

Piece == 1..Pieces
Kind == {"choke", "bad", "odd", "write", "drop", "command", "save", "crash", "lose"}
ASSUME DownloadAssumption ==
  /\ Pieces \in Nat \ {0} /\ BeginPieces \in Nat /\ Window \in Nat \ {0}
  /\ SubPieces \in [Piece -> Nat \ {0}] /\ Priority \in [Piece -> -128..127]
  /\ \A a \in Piece : SubPieces[a] <= SubPieces[1] /\ (a < Pieces => SubPieces[a] = SubPieces[1])
  /\ Budget \in [Kind -> Nat] /\ IsFiniteSet(Link) /\ Reliable \subseteq Link

Chunk == {c \in Piece \X (1..SubPieces[1]) : c[2] <= SubPieces[c[1]]}
State == {"queued", "hashing", "running", "paused", "stopped"}
NoHasher == -1

VARIABLES
  torrent, \* the Cbt_file in memory
  disk,    \* what the torrent's file holds; no file when it holds nothing
  saved,   \* state.bin
  up,      \* the process runs
  turn,    \* {l} when link l has read messages and its turn is not over, else {}
  budget   \* what is left of Budget

vars == <<torrent, disk, saved, up, turn, budget>>

AtMost(m, n) == IF m < n THEN m ELSE n

-----------------------------------------------------------------------------
(* Cbt_piece.                                                              *)

NoSubs == [b \in {} |-> 0]
new_piece(a) ==
  [valid |-> FALSE, subs |-> NoSubs, left |-> SubPieces[a], unrequested |-> SubPieces[a],
   peers |-> 0]

\* Cbt_piece::valid(v).  A piece that is not valid keeps the sub-pieces it has.
piece_valid(piece, a, v) ==
  IF v THEN [piece EXCEPT !.valid = TRUE, !.left = 0, !.unrequested = 0, !.subs = NoSubs]
  ELSE IF piece.subs = NoSubs
       THEN [piece EXCEPT !.valid = FALSE, !.left = SubPieces[a], !.unrequested = SubPieces[a]]
       ELSE [piece EXCEPT !.valid = FALSE]

open_subs(piece, a) ==
  IF piece.subs = NoSubs THEN [b \in 1..SubPieces[a] |-> [valid |-> FALSE, peers |-> {}]]
  ELSE piece.subs
requestable(subs) == {b \in DOMAIN subs : ~subs[b].valid /\ subs[b].peers = {}}

\* n calls of next_invalid_sub_piece: link l reserves the n first sub-pieces nobody has.
first_free(subs, n) ==
  {b \in requestable(subs) : Cardinality({c \in requestable(subs) : c < b}) < n}
reserve(piece, a, l, taken) ==
  [piece EXCEPT !.subs = [b \in DOMAIN open_subs(piece, a) |->
                            IF b \in taken THEN [valid |-> FALSE, peers |-> {l}]
                            ELSE open_subs(piece, a)[b]],
                !.unrequested = @ - Cardinality(taken)]

held(piece, l) == {b \in DOMAIN piece.subs : l \in piece.subs[b].peers}
released(subs, l, gone) ==
  [b \in DOMAIN subs |-> IF b \in gone THEN [subs[b] EXCEPT !.peers = @ \ {l}] ELSE subs[b]]

\* erase_peer for each pair <<l, b>> of asked: link l, which closes, has a request for b.
erase_peers(piece, asked) ==
  LET gone == {r \in asked : r[2] \in held(piece, r[1])}
  IN IF piece.valid THEN piece
     ELSE [piece EXCEPT
             !.subs = [b \in DOMAIN @ |-> [valid |-> @[b].valid, peers |-> {l \in @[b].peers : <<l, b>> \notin gone}]],
             !.unrequested = @ + Cardinality(gone)]

\* check_peer: the reservations of l in expired have timed out.
check_peer_never(piece, l, expired) == piece
check_peer(piece, l, expired) ==
  LET gone == held(piece, l) \cap expired
  IN [piece EXCEPT
        !.subs = released(@, l, gone),
        !.unrequested = @ + Cardinality({b \in gone : piece.subs[b].peers = {l}})]

accepts(piece, b) == ~piece.valid /\ b \in DOMAIN piece.subs /\ ~piece.subs[b].valid
piece_write_counted(piece, b) ==
  [piece EXCEPT
     !.subs = IF piece.left = 1 THEN NoSubs
              ELSE [piece.subs EXCEPT ![b] = [valid |-> TRUE, peers |-> {}]],
     !.left = @ - 1]
piece_write(piece, b) ==
  [piece EXCEPT
     !.subs = IF piece.left = 1 THEN NoSubs
              ELSE [piece.subs EXCEPT ![b] = [valid |-> TRUE, peers |-> {}]],
     !.left = @ - 1,
     !.unrequested = IF piece.subs[b].peers = {} THEN @ - 1 ELSE @]

more_peers(piece, n) == [piece EXCEPT !.peers = @ + n]

rank(piece, a) ==
  1000000 * (IF 9 - Priority[a] < 0 THEN 0 ELSE AtMost(9 - Priority[a], 19))
  + 100000 * AtMost(piece.peers, 3)
  + 100 * (IF piece.subs = NoSubs THEN 999 ELSE AtMost(piece.left, 999))
  + AtMost(piece.peers, 99)

-----------------------------------------------------------------------------
(* Links and the file.                                                     *)

NoLink ==
  [state |-> "none", has |-> {}, choked |-> TRUE, interested |-> FALSE, goal |-> FALSE,
   asked |-> [c \in Chunk |-> 0], pending |-> 0, haves |-> {}, told |-> {}]
new_link == [NoLink EXCEPT !.state = "handshake"]

\* A torrent the user has just added; a torrent of a process that does not run.
new_torrent ==
  [state |-> "queued", pieces |-> [a \in Piece |-> new_piece(a)], left |-> -1,
   end_mode |-> FALSE, validate |-> TRUE, hashed |-> NoHasher, links |-> [l \in Link |-> NoLink]]

is_open(t) == t.state \in {"hashing", "running", "paused"}
valid_among(pieces) == {a \in Piece : pieces[a].valid}
valid_pieces(t) == valid_among(t.pieces)
Size == Cardinality(Chunk)
invalid_size(pieces) == Cardinality({c \in Chunk : ~pieces[c[1]].valid})
c_valid_pieces(t) == (Size - t.left + SubPieces[1] - 1) \div SubPieces[1]
good(content, a) == \A b \in 1..SubPieces[a] : content[<<a, b>>] = "good"

asked_of(link, a) == {b \in 1..SubPieces[a] : link.asked[<<a, b>>] > 0}

\* Cbt_peer_link::close of every link in ls.  (close_links_keeping, load_piece_empty and the
\* like, here and elsewhere, are wrong on purpose: what a plausible bug would do.  Nothing of
\* the specification uses them.)
without(t, ls) == [l \in Link |-> IF l \in ls THEN NoLink ELSE t.links[l]]
owners(t, ls, a) == Cardinality({l \in ls : a \in t.links[l].has})
requests(t, ls, a) == {r \in ls \X (1..SubPieces[a]) : t.links[r[1]].asked[<<a, r[2]>>] > 0}
close_links_keeping(t, ls) ==
  [t EXCEPT !.links = without(t, ls),
            !.pieces = [a \in Piece |-> more_peers(@[a], -owners(t, ls, a))]]
close_links(t, ls) ==
  [t EXCEPT !.links = without(t, ls),
            !.pieces = [a \in Piece |->
                          more_peers(erase_peers(@[a], requests(t, ls, a)), -owners(t, ls, a))]]
close_link(t, l) == close_links(t, {l})

\* Cbt_file::open.  Without a file no piece is valid; what a validating hasher finds
\* comes later, otherwise the pieces are taken as they are.
found(pieces) ==
  IF \A c \in Chunk : disk[c] = "none" THEN [a \in Piece |-> piece_valid(pieces[a], a, FALSE)] ELSE pieces
open_blind(t) ==
  IF is_open(t) THEN t
  ELSE IF t.validate THEN [t EXCEPT !.left = 0, !.hashed = 0, !.state = "hashing"]
  ELSE [t EXCEPT !.left = invalid_size(t.pieces), !.state = "running"]
open(t) ==
  IF is_open(t) THEN t
  ELSE LET pieces == found(t.pieces)
       IN IF t.validate
          THEN [t EXCEPT !.pieces = pieces, !.left = 0, !.hashed = 0, !.state = "hashing"]
          ELSE [t EXCEPT !.pieces = pieces, !.left = invalid_size(pieces), !.state = "running"]

\* Cbt_file::close: every link goes.
close(t) ==
  IF ~is_open(t) THEN t
  ELSE [close_links(t, Link)
          EXCEPT !.state = "stopped", !.validate = t.hashed # NoHasher, !.hashed = NoHasher]

begin_mode(t) == c_valid_pieces(t) < BeginPieces

\* next_invalid_piece: the pieces of least rank the peer has, of those with a sub-piece to
\* request.  With none at all to request from anybody, end mode begins and never ends.
wanted(t) == {a \in Piece : /\ ~t.pieces[a].valid /\ Priority[a] # -10
                            /\ t.pieces[a].unrequested # 0}
next_invalid_pieces(t, l) ==
  LET offered == wanted(t) \cap t.links[l].has
  IN IF t.left = 0 THEN {}
     ELSE {a \in offered : \A c \in offered : rank(t.pieces[a], a) <= rank(t.pieces[c], c)}
looked(t) == IF t.left # 0 /\ wanted(t) = {} THEN [t EXCEPT !.end_mode = TRUE] ELSE t

-----------------------------------------------------------------------------
(* A link's turn: Cbt_peer_link::post_select.                              *)

spend(kind) == budget[kind] > 0 /\ budget' = [budget EXCEPT ![kind] = @ - 1]
at_turn(l) == up /\ torrent.hashed = NoHasher /\ turn \subseteq {l}
ready(l) == at_turn(l) /\ torrent.links[l].state = "ready"
in_turn(l) == turn' = {l} /\ UNCHANGED <<saved, up>>

\* The peer's handshake is complete; it is told what we have if that is anything.
read_handshake(l) ==
  /\ at_turn(l) /\ torrent.links[l].state = "handshake"
  /\ torrent' = [torrent EXCEPT
       !.links[l].state = "ready",
       !.links[l].told = IF c_valid_pieces(torrent) = 0 THEN {} ELSE valid_pieces(torrent)]
  /\ in_turn(l) /\ UNCHANGED <<disk, budget>>

read_choke(l) ==
  /\ ready(l) /\ spend("choke")
  /\ torrent' = [torrent EXCEPT !.links[l].choked = TRUE, !.links[l].pending = 0]
  /\ in_turn(l) /\ UNCHANGED disk
read_unchoke(l) ==
  /\ ready(l) /\ torrent.links[l].choked
  /\ torrent' = [torrent EXCEPT !.links[l].choked = FALSE]
  /\ in_turn(l) /\ UNCHANGED <<disk, budget>>

\* A have, or the bits of a bitfield that are new.
remote_has(l, new) ==
  /\ ready(l) /\ new \cap torrent.links[l].has = {}
  /\ torrent' = [torrent EXCEPT
       !.pieces = [a \in Piece |-> IF a \in new THEN more_peers(@[a], 1) ELSE @[a]],
       !.links[l].has = @ \cup new,
       !.links[l].goal = @ \/ (/\ ~torrent.links[l].interested
                               /\ ~(new \subseteq valid_pieces(torrent)))]
  /\ in_turn(l) /\ UNCHANGED <<disk, budget>>

\* Cbt_file::write_data of sub-piece c; content is what the file then holds.  A failing write
\* pauses the torrent.  The last sub-piece of a piece decides whether the piece is valid.
hash_ok(content, c) == good(content, c[1])
queue_have_last(link, a) == IF link.state = "none" THEN link ELSE [link EXCEPT !.haves = {a}]
queue_have(link, a) == IF link.state = "none" THEN link ELSE [link EXCEPT !.haves = @ \cup {a}]
write_data(t, c, content, wrote) ==
  LET a == c[1]
      piece == piece_write(t.pieces[a], c[2])
      written == [t EXCEPT !.state = IF wrote THEN @ ELSE "paused", !.pieces[a] = piece]
      judged == [written EXCEPT !.pieces[a] = piece_valid(piece, a, hash_ok(content, c))]
  IN IF piece.left > 0 THEN written
     ELSE IF ~hash_ok(content, c) THEN judged
     ELSE [judged EXCEPT !.left = @ - SubPieces[a],
                         !.links = [l \in Link |-> queue_have(@[l], a)]]

\* read_piece: the answer to a request.  (One that no request matches closes the link: drop.)
answered(l, c) ==
  [torrent EXCEPT !.links[l].asked[c] = @ - 1, !.links[l].pending = @ - 1]
read_piece(l, c) ==
  /\ ready(l) /\ torrent.links[l].asked[c] > 0
  /\ \/ /\ ~accepts(torrent.pieces[c[1]], c[2])
        /\ torrent' = answered(l, c) /\ UNCHANGED <<disk, budget>>
     \/ /\ accepts(torrent.pieces[c[1]], c[2])
        /\ disk' = [disk EXCEPT ![c] = "good"]
        /\ torrent' = write_data(answered(l, c), c, disk', TRUE) /\ UNCHANGED budget
     \/ /\ accepts(torrent.pieces[c[1]], c[2]) /\ spend("bad")
        /\ disk' = [disk EXCEPT ![c] = "bad"]
        /\ torrent' = write_data(answered(l, c), c, disk', TRUE)
     \/ /\ accepts(torrent.pieces[c[1]], c[2]) /\ spend("write")
        /\ torrent' = write_data(answered(l, c), c, disk, FALSE) /\ UNCHANGED disk
     \/ /\ spend("odd")   \* a chunk that is not as long as the one requested
        /\ torrent' = answered(l, c) /\ UNCHANGED disk
  /\ in_turn(l)

\* The timer, every 30 s (5 s in end mode): reservations older than 600 s (15 s) are given
\* up, in the pieces l has requests for, and interest is renewed.
expirable(t, l) ==
  {c \in Chunk : c[2] \in held(t.pieces[c[1]], l) /\ asked_of(t.links[l], c[1]) # {}}
check_pieces(t, l, expired) ==
  LET checked == [t EXCEPT !.pieces = [a \in Piece |->
                    check_peer(@[a], l, {b \in 1..SubPieces[a] : <<a, b>> \in expired})]]
      useful == next_invalid_pieces(checked, l) # {}
  IN IF t.links[l].interested THEN checked
     ELSE [looked(checked) EXCEPT !.links[l].goal = @ \/ useful]

write_interested(t, l) == [t EXCEPT !.links[l].interested = t.links[l].goal]

\* window stands for mc_max_requests_pending, which follows the latency of the answers.
c_max_requests_pending(t, window) ==
  IF begin_mode(t) \/ t.end_mode THEN 1 ELSE window
may_ask(t, l, window) ==
  /\ t.links[l].interested /\ t.state = "running" /\ ~t.links[l].choked
  /\ t.links[l].pending < c_max_requests_pending(t, window)

\* The inner loop: request sub-pieces of piece a until the window or the piece is full.
ask(t, l, a, window) ==
  LET n == AtMost(c_max_requests_pending(t, window) - t.links[l].pending, t.pieces[a].unrequested)
      taken == first_free(open_subs(t.pieces[a], a), n)
  IN [t EXCEPT
        !.pieces[a] = reserve(t.pieces[a], a, l, taken),
        !.links[l].asked = [c \in Chunk |-> IF c[1] = a /\ c[2] \in taken THEN @[c] + 1 ELSE @[c]],
        !.links[l].pending = @ + Cardinality(taken)]

\* The outer loop, once round: the torrents that may result.
ask_round(t, l, window) ==
  IF ~may_ask(t, l, window) THEN {t}
  ELSE IF next_invalid_pieces(t, l) = {} THEN {[looked(t) EXCEPT !.links[l].goal = FALSE]}
  ELSE {ask(looked(t), l, a, window) : a \in next_invalid_pieces(t, l)}
\* Every round but the last two requests a sub-piece, so these are enough.
Rounds == Cardinality(Chunk) + 1
ask_all(t, l, window) ==
  LET after[n \in 0..Rounds] ==
        IF n = 0 THEN {t} ELSE UNION {ask_round(s, l, window) : s \in after[n - 1]}
  IN after[Rounds]

is_seeder(t, l) == t.links[l].has = Piece
sent(t, l) == IF is_seeder(t, l) /\ t.left = 0 THEN close_link(t, l) ELSE t

\* What post_select does once the messages are read; t is the torrent after the timer.
finish(l, t) ==
  \E window \in 1..Window : \E asked \in ask_all(write_interested(t, l), l, window) :
    torrent' = sent(asked, l)
finish_turn(l) ==
  /\ ready(l) /\ finish(l, torrent)
  /\ turn' = {} /\ UNCHANGED <<disk, saved, up, budget>>
timer_turn(l, expired) ==
  /\ ready(l) /\ finish(l, check_pieces(torrent, l, expired))
  /\ turn' = {} /\ UNCHANGED <<disk, saved, up, budget>>

\* A failing or closed connection, or a message the link does not accept, ends the turn
\* and the link.
drop(l) ==
  /\ at_turn(l) /\ torrent.links[l].state # "none" /\ spend("drop")
  /\ torrent' = close_link(torrent, l)
  /\ turn' = {} /\ UNCHANGED <<disk, saved, up>>

-----------------------------------------------------------------------------
(* What happens between turns.                                             *)

idle == up /\ turn = {}
elsewhere == UNCHANGED <<disk, saved, up, turn>>

\* A link we make (Cbt_file::pre_select) or accept (insert_peer).
connect(l) ==
  /\ idle /\ torrent.links[l].state = "none"
  /\ torrent.state \in {"running", "paused"}
  /\ torrent' = [torrent EXCEPT !.links[l] = new_link]
  /\ elsewhere /\ UNCHANGED budget

\* Cbt_peer_link::send writes the haves before the next byte; before the handshake is
\* complete they are dropped.
write_haves(l) ==
  /\ idle /\ torrent.links[l].haves # {}
  /\ torrent' = [torrent EXCEPT
       !.links[l].haves = {},
       !.links[l].told = IF torrent.links[l].state = "ready"
                         THEN @ \cup (torrent.links[l].haves \ torrent.links[l].has) ELSE @]
  /\ elsewhere /\ UNCHANGED budget

\* Cbt_hasher::run for one piece, and the end of Cbt_file::hash.
hash_piece ==
  /\ idle /\ torrent.hashed \in 0..(Pieces - 1)
  /\ LET a == torrent.hashed + 1
     IN torrent' = [torrent EXCEPT
          !.pieces[a] = piece_valid(torrent.pieces[a], a, good(disk, a)),
          !.left = IF good(disk, a) THEN @ ELSE @ + SubPieces[a],
          !.hashed = a]
  /\ elsewhere /\ UNCHANGED budget
hash_done ==
  /\ idle /\ torrent.hashed = Pieces
  /\ torrent' = [torrent EXCEPT !.hashed = NoHasher, !.validate = FALSE, !.state = "running"]
  /\ elsewhere /\ UNCHANGED budget

\* Cbt_file::state, on the user's command.
set_state_unopened(v) ==
  IF v \in {"queued", "stopped"} THEN [close(torrent) EXCEPT !.state = v]
  ELSE [torrent EXCEPT !.state = v]
set_state(v) ==
  IF v \in {"queued", "stopped"} THEN [close(torrent) EXCEPT !.state = v]
  ELSE IF is_open(torrent) THEN [torrent EXCEPT !.state = v]
  ELSE open(torrent)
state(v) ==
  /\ idle /\ spend("command")
  /\ torrent' = set_state(v)
  /\ elsewhere

\* Cserver::update_states; the seeding ratio is reached.
update_states ==
  /\ idle /\ torrent.state = "queued"
  /\ torrent' = open(torrent)
  /\ elsewhere /\ UNCHANGED budget
seeding_ratio_reached ==
  /\ idle /\ torrent.hashed = NoHasher /\ torrent.state = "running" /\ torrent.left = 0
  /\ spend("command")
  /\ torrent' = close(torrent)
  /\ elsewhere

\* state.bin: links and reservations are not in it.
saved_state(intermediate) ==
  [state |-> torrent.state, validate |-> (intermediate /\ torrent.left # 0) \/ torrent.validate,
   valid |-> valid_pieces(torrent),
   subs |-> [a \in Piece |-> [b \in DOMAIN torrent.pieces[a].subs |-> torrent.pieces[a].subs[b].valid]]]
save ==
  /\ idle /\ spend("save")
  /\ saved' = saved_state(TRUE)
  /\ UNCHANGED <<torrent, disk, up, turn>>

\* Cbt_piece::load_state and Cbt_file::load_state.  The counters of a valid piece are not set.
load_piece_empty(a) ==
  [valid |-> a \in saved.valid,
   subs |-> [b \in DOMAIN saved.subs[a] |-> [valid |-> saved.subs[a][b], peers |-> {}]],
   left |-> SubPieces[a], unrequested |-> SubPieces[a], peers |-> 0]
load_piece(a) ==
  LET here == {b \in DOMAIN saved.subs[a] : saved.subs[a][b]}
  IN [valid |-> a \in saved.valid,
      subs |-> [b \in DOMAIN saved.subs[a] |-> [valid |-> saved.subs[a][b], peers |-> {}]],
      left |-> SubPieces[a] - Cardinality(here), unrequested |-> SubPieces[a] - Cardinality(here),
      peers |-> 0]
load_state ==
  LET t == [new_torrent EXCEPT !.pieces = [a \in Piece |-> load_piece(a)],
                               !.validate = saved.validate, !.state = saved.state]
  IN IF is_open(t) THEN open([t EXCEPT !.state = "stopped"]) ELSE t

stop ==
  /\ idle /\ spend("command")
  /\ saved' = saved_state(FALSE)
  /\ up' = FALSE /\ torrent' = new_torrent /\ UNCHANGED <<disk, turn>>
crash ==
  /\ up /\ spend("crash")
  /\ up' = FALSE /\ torrent' = new_torrent /\ turn' = {} /\ UNCHANGED <<disk, saved>>
start ==
  /\ ~up /\ up' = TRUE
  /\ torrent' = load_state
  /\ UNCHANGED <<disk, saved, turn, budget>>

\* Somebody removes the file while the client does not have it open.
lose_file ==
  /\ ~up \/ ~is_open(torrent)
  /\ spend("lose")
  /\ disk' = [c \in Chunk |-> "none"]
  /\ UNCHANGED <<torrent, saved, up, turn>>

-----------------------------------------------------------------------------
Init ==
  /\ torrent = new_torrent
  /\ \E there \in SUBSET Piece : disk = [c \in Chunk |-> IF c[1] \in there THEN "good" ELSE "none"]
  /\ saved = [state |-> "queued", validate |-> TRUE, valid |-> {}, subs |-> [a \in Piece |-> NoSubs]]
  /\ up = TRUE /\ turn = {} /\ budget = Budget

Turn(l) ==
  \/ read_handshake(l) \/ read_choke(l) \/ read_unchoke(l) \/ drop(l) \/ finish_turn(l)
  \/ \E new \in SUBSET Piece \ {{}} : remote_has(l, new)
  \/ \E c \in Chunk : read_piece(l, c)
  \/ \E expired \in SUBSET expirable(torrent, l) : timer_turn(l, expired)
Between ==
  \/ hash_piece \/ hash_done \/ update_states \/ seeding_ratio_reached
  \/ save \/ stop \/ crash \/ start \/ lose_file
  \/ \E v \in {"running", "paused", "stopped", "queued"} : state(v)
  \/ \E l \in Link : connect(l) \/ write_haves(l)
Next == Between \/ \E l \in Link : Turn(l)
Spec == Init /\ [][Next]_vars

\* Some peers are reliable: they connect, have everything, unchoke us and answer.  Of the
\* others nothing is assumed.  A link's turn comes round whenever its socket is ready, its
\* timer runs every 30 seconds, and the hasher runs in every turn of the loop.
has_everything(l) == remote_has(l, Piece \ torrent.links[l].has) /\ torrent.links[l].has # Piece
answers(l) == \E c \in Chunk : read_piece(l, c)
timer(l) == timer_turn(l, expirable(torrent, l))
FairSpec ==
  /\ Spec /\ WF_vars(hash_piece) /\ WF_vars(hash_done) /\ WF_vars(update_states) /\ WF_vars(start)
  /\ \A l \in Link : WF_vars(finish_turn(l)) /\ SF_vars(timer(l))
  /\ \A l \in Reliable :
       /\ WF_vars(connect(l)) /\ SF_vars(read_handshake(l)) /\ SF_vars(read_unchoke(l))
       /\ SF_vars(has_everything(l)) /\ SF_vars(answers(l))

-----------------------------------------------------------------------------
(* Properties.                                                             *)

\* Every variable has its type.
SubPiece == [valid: BOOLEAN, peers: SUBSET Link]
PieceRecord(n) ==
  [valid: BOOLEAN, subs: {NoSubs} \cup [1..n -> SubPiece], left: 0..n, unrequested: 0..n, peers: Nat]
LinkRecord ==
  [state: {"none", "handshake", "ready"}, has: SUBSET Piece, choked: BOOLEAN, interested: BOOLEAN,
   goal: BOOLEAN, asked: [Chunk -> Nat], pending: Int, haves: SUBSET Piece, told: SUBSET Piece]
TorrentRecord ==
  [state: State, pieces: [Piece -> PieceRecord(SubPieces[1]) \cup PieceRecord(SubPieces[Pieces])],
   left: -1..Size, end_mode: BOOLEAN, validate: BOOLEAN, hashed: {NoHasher} \cup 0..Pieces,
   links: [Link -> LinkRecord]]
TypeOK ==
  /\ torrent \in TorrentRecord
  /\ \A a \in Piece : torrent.pieces[a] \in PieceRecord(SubPieces[a])
  /\ disk \in [Chunk -> {"none", "good", "bad"}]
  /\ up \in BOOLEAN /\ turn \in SUBSET Link /\ budget \in [Kind -> Nat]

\* The two counters of a piece that is not valid count its sub-pieces: those still missing,
\* and those nobody has been asked for.  next_invalid_sub_piece asserts it (bt_piece.cpp:43),
\* erase_peer, check_peer, write, valid and load_state each keep their share of it, and a
\* counter that drifts leaves a piece that is never requested or never completed.
PieceCounts(p, a) ==
  LET subs == open_subs(p, a)
  IN IF p.valid THEN p.subs = NoSubs
     ELSE /\ p.left = Cardinality({b \in DOMAIN subs : ~subs[b].valid}) /\ p.left > 0
          /\ p.unrequested = Cardinality(requestable(subs))
CountsMatch == \A a \in Piece : PieceCounts(torrent.pieces[a], a)

\* A reserved sub-piece is reserved by one link, which is there and still has the request, so
\* that its close or its timer gives the sub-piece back.  Holds as long as no peer answers
\* with a chunk of the wrong length: read_piece forgets the request before write refuses the
\* chunk (bt_peer_link.cpp:658), and the reservation outlives the link.
ReservedByLive ==
  budget["odd"] = Budget["odd"] =>
    \A a \in Piece : \A b \in DOMAIN torrent.pieces[a].subs :
      LET peers == torrent.pieces[a].subs[b].peers
      IN /\ Cardinality(peers) <= 1
         /\ \A l \in peers : torrent.links[l].state = "ready" /\ torrent.links[l].asked[<<a, b>>] > 0

\* Once the hasher is done, a piece that counts as valid is on disk and has its hash: after
\* bad data, failed writes, pauses, crashes and restarts from an older state.bin, and after
\* somebody removed the file.  Not after both a removal and a crash: state.bin may then still
\* call valid, and not to be validated, what the file that was begun anew does not hold.
ValidIsGood ==
  /\ budget["lose"] = Budget["lose"] \/ budget["crash"] = Budget["crash"]
  /\ is_open(torrent) /\ torrent.hashed = NoHasher
  => \A a \in valid_pieces(torrent) : good(disk, a)

\* Once the hasher is done, m_left, which decides between downloading and seeding, is the
\* size of the pieces that are not valid.
LeftIsMissing ==
  is_open(torrent) /\ torrent.hashed = NoHasher => torrent.left = invalid_size(torrent.pieces)

\* The availability of a piece, which ranks it, is the number of links whose peer has it.
PeerCounts == \A a \in Piece : torrent.pieces[a].peers = owners(torrent, Link, a)

\* A peer is told of every piece we have that it has not got, or will be with the next
\* byte sent: by the bitfield or by a have, whichever of the handshake and the piece is first.
HavesTold ==
  \A l \in Link :
    torrent.links[l].state = "ready" =>
      valid_pieces(torrent) \subseteq
        torrent.links[l].told \cup torrent.links[l].haves \cup torrent.links[l].has

\* The counts of the pieces are true, and after a bad chunk, a failed write and the pause it
\* makes, so are the pieces that are called valid and what is called left.
PiecesKept == CountsMatch /\ ValidIsGood /\ LeftIsMissing
\* What the pieces keep of the links is true of the links.
LinksAccounted == ReservedByLive /\ PeerCounts
\* The torrent is what it should be at any time, also while it is hashed.
TorrentKept == TypeOK /\ CountsMatch

\* Every piece that is to be downloaded is in the end, if one reliable peer has it: whatever
\* the other peers reserved and never sent, and through chokes, bad data and closed links.
Completes ==
  <>[](\A a \in Piece : Priority[a] # -10 => a \in valid_pieces(torrent))
=============================================================================
