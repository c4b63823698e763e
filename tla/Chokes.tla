-------------------------------- MODULE Chokes --------------------------------
(***************************************************************************)
(* Which peers the XBT client uploads to: Cserver::update_chokes           *)
(* (src/BT Test/server.cpp) decides every ten seconds, each link           *)
(* (bt_peer_link.cpp) tells its peer at its next turn and serves the       *)
(* requests of a peer that is not choked.                                  *)
(*                                                                         *)
(* One turn of the select loop visits every link, then sends, then looks   *)
(* at the timers; "todo" are the links the turn has yet to visit.  Sending *)
(* is as of a client without a limit on its upload rate.                   *)
(***************************************************************************)
EXTENDS Integers, FiniteSets, Sequences, SequencesExt

CONSTANTS
  Peer, File,
  FileOf,       \* the torrent each peer shares
  Slots,        \* m_upload_slots, 0 for no limit
  SlotFloor,    \* there are at least so many slots (4)
  MinSlots,     \* slots a torrent has before others get more, Cbt_file::upload_slots_min()
  MaxSlots,     \* slots after which others go first, 0 for none, upload_slots_max()
  Traits,       \* what a link may be like, as far as update_chokes looks at it
  RequestLimit, \* requests a link keeps (256)
  NoLink        \* a peer there is no link to

\* rate: 0 up to 256 bytes/s from the peer, above that classes of rates; interested: the
\* peer in us; local: we in the peer; seed: the peer has everything.
Trait == [rate : Nat, interested : BOOLEAN, local : BOOLEAN, seed : BOOLEAN]
ASSUME ChokesAssumption ==
  /\ FileOf \in [Peer -> File] /\ IsFiniteSet(Peer) /\ IsFiniteSet(File)
  /\ Slots \in Nat /\ SlotFloor \in Nat \ {0} /\ RequestLimit \in Nat
  /\ MinSlots \in [File -> Nat] /\ MaxSlots \in [File -> Nat] /\ Traits \subseteq Trait

VARIABLES
  link,    \* the links in state 3, for the other peers NoLink
  running, \* the torrents in state s_running
  todo,    \* links the turn has yet to visit
  timers   \* everything is sent, the timers are next

vars == <<link, running, todo, timers>>

Link == [trait : Traits, goal : BOOLEAN, choked : BOOLEAN, requests : 0..RequestLimit]
up(p) == link[p] # NoLink
AtLeast(m, n) == IF m > n THEN m ELSE n
AtMost(m, n) == IF m < n THEN m ELSE n

-----------------------------------------------------------------------------
(* A link's turn: Cbt_peer_link::post_select.  (write_choke_asked and _late, and below
   remote_requests_all, before_by_rate, slots_least and skipped_by_maximum, are wrong on
   purpose: what a plausible bug would do.  Nothing of the specification uses them.)      *)

\* write_choke(v): a peer that is choked has its requests dropped.
write_choke_asked(l, v) == IF l.choked = v THEN l ELSE [l EXCEPT !.choked = v]
write_choke_late(l, v) ==
  IF l.choked = v \/ l.requests # 0 THEN l ELSE [l EXCEPT !.choked = v]
write_choke(l, v) ==
  IF l.choked = v THEN l
  ELSE [l EXCEPT !.choked = v, !.requests = IF v THEN 0 ELSE @]

\* remote_requests, n times; what a choked peer requests is ignored.
remote_requests(l, n) ==
  IF l.choked THEN l ELSE [l EXCEPT !.requests = AtMost(@ + n, RequestLimit)]

write_handshake(trait) == [trait |-> trait, goal |-> TRUE, choked |-> TRUE, requests |-> 0]

in_turn(p) == ~timers /\ p \in todo /\ todo' = todo \ {p} /\ UNCHANGED <<running, timers>>

visit(p) ==
  /\ in_turn(p) /\ up(p)
  /\ \E trait \in Traits, n \in 0..RequestLimit :
       /\ link[p].trait.seed => trait.seed
       /\ link' = [link EXCEPT ![p] =
                     write_choke(remote_requests([@ EXCEPT !.trait = trait], n), @.goal)]
join(p) ==
  /\ in_turn(p) /\ ~up(p)
  /\ \E trait \in Traits : link' = [link EXCEPT ![p] = write_handshake(trait)]
pass_over(p) == in_turn(p) /\ ~up(p) /\ UNCHANGED link
leave(p) == in_turn(p) /\ up(p) /\ link' = [link EXCEPT ![p] = NoLink]

\* Cserver::post_select sends: a peer that is not choked is served as far as its socket takes
\* the answers; a socket that fails closes the link.
send ==
  /\ ~timers /\ todo = {}
  /\ \E served \in [Peer -> 0..RequestLimit], broken \in SUBSET Peer :
       /\ \A p \in Peer : served[p] # 0 => up(p) /\ ~link[p].choked /\ served[p] <= link[p].requests
       /\ link' = [p \in Peer |->
            IF ~up(p) \/ p \in broken THEN NoLink
            ELSE [link[p] EXCEPT !.requests = @ - served[p]]]
  /\ timers' = TRUE /\ UNCHANGED <<running, todo>>

-----------------------------------------------------------------------------
(* update_chokes.                                                          *)

wanting(p) == up(p) /\ FileOf[p] \in running /\ ~link[p].trait.seed
fast(p) == wanting(p) /\ link[p].trait.rate # 0
interested(p) == wanting(p) /\ link[p].trait.interested
contenders == {p \in Peer : fast(p) \/ interested(p)}

\* links0 by rate, the lowest first, then links1 and links2, each shuffled.
before(p, q) ==
  \/ fast(p) /\ fast(q) /\ link[p].trait.rate < link[q].trait.rate
  \/ fast(p) /\ ~fast(q)
  \/ ~fast(p) /\ ~fast(q) /\ link[p].trait.local /\ ~link[q].trait.local
orders ==
  {order \in SetToSeqs(contenders) :
     \A i, j \in 1..Len(order) : i < j => ~before(order[j], order[i])}

slots_least == AtMost(SlotFloor, Slots)
slots == AtLeast(SlotFloor, Slots)

\* One link in pass a; s holds what is left of the slots and of each torrent's limits.  A
\* fast peer that is not interested costs nothing.
skipped(s, p, a) ==
  \/ s.left = 0 \/ p \in s.granted
  \/ a = 0 /\ s.used[FileOf[p]] >= MinSlots[FileOf[p]]
  \/ a = 1 /\ MaxSlots[FileOf[p]] # 0 /\ s.used[FileOf[p]] >= MaxSlots[FileOf[p]]
consider(s, p, a) ==
  IF skipped(s, p, a) THEN s
  ELSE LET cost == IF link[p].trait.interested THEN 1 ELSE 0
       IN [left |-> s.left - cost, used |-> [s.used EXCEPT ![FileOf[p]] = @ + cost],
           granted |-> s.granted \cup {p}]
one_pass(s, order, a) ==
  LET t[n \in 0..Len(order)] == IF n = 0 THEN s ELSE consider(t[n - 1], order[n], a)
  IN t[Len(order)]

granted(order) ==
  LET start == [left |-> slots, used |-> [f \in File |-> 0], granted |-> {}]
  IN one_pass(one_pass(one_pass(start, order, 0), order, 1), order, 2).granted
unchoked == IF Slots = 0 THEN {{p \in Peer : wanting(p)}} ELSE {granted(order) : order \in orders}

update_chokes ==
  /\ timers /\ timers' = FALSE /\ todo' = Peer
  /\ \E chosen \in unchoked :
       link' = [p \in Peer |-> IF up(p) THEN [link[p] EXCEPT !.goal = p \notin chosen] ELSE NoLink]
  /\ UNCHANGED running
other_timers == timers /\ timers' = FALSE /\ todo' = Peer /\ UNCHANGED <<link, running>>

\* The user pauses and resumes a torrent, which keeps its links, or stops it.
between == ~timers /\ todo = Peer /\ UNCHANGED <<todo, timers>>
resume(f) == between /\ f \notin running /\ running' = running \cup {f} /\ UNCHANGED link
pause(f) == between /\ f \in running /\ running' = running \ {f} /\ UNCHANGED link
stop(f) ==
  /\ between /\ running' = running \ {f}
  /\ link' = [p \in Peer |-> IF FileOf[p] = f THEN NoLink ELSE link[p]]

-----------------------------------------------------------------------------
Init ==
  link = [p \in Peer |-> NoLink] /\ running = {} /\ todo = Peer /\ timers = FALSE
Next ==
  \/ \E p \in Peer : visit(p) \/ join(p) \/ pass_over(p) \/ leave(p)
  \/ send \/ update_chokes \/ other_timers
  \/ \E f \in File : resume(f) \/ pause(f) \/ stop(f)
Spec == Init /\ [][Next]_vars

-----------------------------------------------------------------------------
(* Properties.                                                             *)

TypeOK ==
  /\ link \in [Peer -> Link \cup {NoLink}] /\ running \subseteq File
  /\ todo \subseteq Peer /\ timers \in BOOLEAN

\* Of a peer that is choked no request is kept, so that none of before the choke is answered
\* after the next unchoke.
ChokedAsksNothing == \A p \in Peer : up(p) /\ link[p].choked => link[p].requests = 0

\* When the client sends, each link has told its peer what the last update decided: a peer
\* that lost its slot is served no more, even if the peer that got it is visited later.
AppliedBeforeSend == todo = {} => \A p \in Peer : up(p) => link[p].choked = link[p].goal

\* What an update gives: who is unchoked, and who of them has taken a slot.
given == {p \in contenders : ~link'[p].goal}
holders(f) == {p \in given : FileOf[p] = f /\ interested(p)}
taken == Cardinality({p \in given : interested(p)})
seeking(f) == {p \in contenders : FileOf[p] = f /\ interested(p)}

\* An update hands out no more slots than there are, and it leaves nobody choked while a
\* slot is free, through three passes that skip peers for different reasons.
SlotsRespected ==
  [][update_chokes /\ Slots # 0 =>
       /\ taken <= AtLeast(SlotFloor, Slots)
       /\ given # contenders => taken = AtLeast(SlotFloor, Slots)]_vars

\* No torrent gets more than its minimum while another is short of its own, and none gets
\* more than its maximum while a peer of a torrent below its maximum is left choked.
TorrentsShare ==
  [][update_chokes /\ Slots # 0 =>
       \A f, g \in File :
         /\ Cardinality(holders(f)) < AtMost(MinSlots[f], Cardinality(seeking(f)))
              => Cardinality(holders(g)) <= MinSlots[g]
         /\ (/\ MaxSlots[f] # 0
             /\ Cardinality(holders(f)) > AtLeast(MinSlots[f], MaxSlots[f])
             /\ \E p \in contenders \ given : FileOf[p] = g)
              => MaxSlots[g] # 0 /\ Cardinality(holders(g)) >= MaxSlots[g]]_vars

\* Within a torrent no peer keeps a slot from one that gives us more: first come those that
\* send to us, then those we want something from, then the others.
GiversFirst ==
  [][update_chokes /\ Slots # 0 =>
       \A p \in given, q \in contenders \ given :
         FileOf[p] = FileOf[q] /\ interested(p) =>
           /\ fast(q) => fast(p)
           /\ link[q].trait.local => fast(p) \/ link[p].trait.local]_vars

\* How an update shares the slots, among torrents and among the peers of one.
SlotsShared == SlotsRespected /\ TorrentsShare /\ GiversFirst

\* The client's manual: at most m_upload_slots peers are unchoked at once.
AtMostSlotsUnchoked ==
  timers /\ Slots # 0 => Cardinality({p \in Peer : up(p) /\ ~link[p].choked}) <= Slots
===============================================================================
