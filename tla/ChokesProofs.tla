---------------------------- MODULE ChokesProofs ----------------------------
(***************************************************************************)
(* Proofs about Chokes for any peers, torrents, limits and traits: how what *)
(* update_chokes chooses reaches the links, whatever it is, and then how it *)
(* chooses.                                                                *)
(***************************************************************************)
EXTENDS Chokes, FiniteSetTheorems, NatInduction

\* A link the turn has been at does what the last update decided.  AppliedBeforeSend is this
\* at the end of the turn; it is not inductive alone, since a turn visits link by link.
VisitedApplied == \A p \in Peer \ todo : up(p) => link[p].choked = link[p].goal
Inv == TypeOK /\ ChokedAsksNothing /\ VisitedApplied

\* One link is good: typed, and without requests while its peer is choked.
GoodLink(l) == l \in Link /\ (l.choked => l.requests = 0)

LEMMA GoodLinks ==
  ASSUME Inv, NEW p \in Peer, up(p)
  PROVE  GoodLink(link[p])
BY DEF Inv, TypeOK, ChokedAsksNothing, up, GoodLink

\* The next state is good if each of its links is.
LEMMA FromLinks ==
  ASSUME link' = [p \in Peer |-> link'[p]],
         \A p \in Peer : link'[p] = NoLink \/ GoodLink(link'[p])
  PROVE  (link \in [Peer -> Link \cup {NoLink}])' /\ ChokedAsksNothing'
BY DEF GoodLink, ChokedAsksNothing, up

\* A new link has its peer choked.
LEMMA HandshakeGood ==
  ASSUME NEW trait \in Traits
  PROVE  GoodLink(write_handshake(trait))
BY ChokesAssumption DEF GoodLink, Link, write_handshake

\* Reading messages and telling the peer keeps a link good, and then it is as decided.
LEMMA VisitGood ==
  ASSUME NEW l, GoodLink(l), NEW trait \in Traits, NEW n \in 0..RequestLimit
  PROVE  LET after == write_choke(remote_requests([l EXCEPT !.trait = trait], n), l.goal)
         IN GoodLink(after) /\ after.choked = after.goal
<1> DEFINE read == [l EXCEPT !.trait = trait]
           asked == remote_requests(read, n)
           after == write_choke(asked, l.goal)
<1>1. read \in Link /\ read.goal = l.goal /\ read.choked = l.choked /\ read.requests = l.requests
  BY DEF GoodLink, Link
<1>2. asked \in Link /\ asked.goal = l.goal /\ asked.choked = l.choked
      /\ (asked.choked => asked.requests = 0)
  <2>1. CASE read.choked
    BY <1>1, <2>1 DEF remote_requests, GoodLink
  <2>2. CASE ~read.choked
    <3>1. AtMost(read.requests + n, RequestLimit) \in 0..RequestLimit
      BY <1>1, ChokesAssumption DEF AtMost, Link
    <3>2. asked = [read EXCEPT !.requests = AtMost(read.requests + n, RequestLimit)]
      BY <2>2 DEF remote_requests
    <3> HIDE DEF read, asked
    <3> QED BY <1>1, <2>2, <3>1, <3>2 DEF Link
  <2> QED BY <2>1, <2>2
<1> HIDE DEF read, asked
<1>3. l.goal \in BOOLEAN BY DEF GoodLink, Link
<1>4. after \in Link /\ after.choked = after.goal /\ (after.choked => after.requests = 0)
  <2>1. CASE asked.choked = l.goal
    BY <1>2, <2>1 DEF write_choke
  <2>2. CASE asked.choked # l.goal
    <3>1. after = [asked EXCEPT !.choked = l.goal, !.requests = IF l.goal THEN 0 ELSE asked.requests]
      BY <2>2 DEF write_choke
    <3>2. 0 \in 0..RequestLimit BY ChokesAssumption
    <3> QED BY <1>2, <1>3, <3>1, <3>2 DEF Link
  <2> QED BY <2>1, <2>2
<1> QED BY <1>4 DEF GoodLink, read, asked

LEMMA InitInv == Init => Inv
BY DEF Init, Inv, TypeOK, ChokedAsksNothing, VisitedApplied, up

\* A step that changes one link, which the turn then has been at.
LEMMA OneLink ==
  ASSUME Inv, NEW p \in Peer, NEW l, in_turn(p), link' = [link EXCEPT ![p] = l],
         l = NoLink \/ (GoodLink(l) /\ l.choked = l.goal)
  PROVE  Inv'
<1>1. link \in [Peer -> Link \cup {NoLink}] BY DEF Inv, TypeOK
<1>2. link' = [q \in Peer |-> link'[q]] /\ link'[p] = l /\ \A q \in Peer \ {p} : link'[q] = link[q]
  BY <1>1
<1>3. \A q \in Peer : link'[q] = NoLink \/ GoodLink(link'[q])
  BY <1>2, GoodLinks DEF up
<1>4. (link \in [Peer -> Link \cup {NoLink}])' /\ ChokedAsksNothing'
  BY <1>2, <1>3, FromLinks
<1>5. TypeOK' BY <1>4 DEF Inv, TypeOK, in_turn
<1>6. VisitedApplied' BY <1>2 DEF Inv, VisitedApplied, in_turn, up
<1> QED BY <1>4, <1>5, <1>6 DEF Inv

LEMMA NextInv == Inv /\ [Next]_vars => Inv'
<1> SUFFICES ASSUME Inv, [Next]_vars PROVE Inv'
  OBVIOUS
<1>t. link \in [Peer -> Link \cup {NoLink}] BY DEF Inv, TypeOK
<1>1. ASSUME NEW p \in Peer, visit(p) PROVE Inv'
  <2>1. GoodLink(link[p]) BY <1>1, GoodLinks DEF visit
  <2>2. PICK trait \in Traits, n \in 0..RequestLimit :
          link' = [link EXCEPT ![p] =
                     write_choke(remote_requests([@ EXCEPT !.trait = trait], n), @.goal)]
    BY <1>1 DEF visit
  <2> DEFINE after == write_choke(remote_requests([link[p] EXCEPT !.trait = trait], n), link[p].goal)
  <2>3. GoodLink(after) /\ after.choked = after.goal BY <2>1, VisitGood
  <2>4. link' = [link EXCEPT ![p] = after] BY <2>2
  <2>5. in_turn(p) BY <1>1 DEF visit
  <2> HIDE DEF after
  <2> QED BY <2>3, <2>4, <2>5, OneLink
<1>2. ASSUME NEW p \in Peer, join(p) PROVE Inv'
  <2>1. PICK trait \in Traits : link' = [link EXCEPT ![p] = write_handshake(trait)]
    BY <1>2 DEF join
  <2>2. GoodLink(write_handshake(trait)) BY HandshakeGood
  <2>3. write_handshake(trait).choked = write_handshake(trait).goal BY DEF write_handshake
  <2>4. in_turn(p) BY <1>2 DEF join
  <2> QED BY <2>1, <2>2, <2>3, <2>4, OneLink
<1>3. ASSUME NEW p \in Peer, pass_over(p) PROVE Inv'
  BY <1>3 DEF pass_over, in_turn, Inv, TypeOK, ChokedAsksNothing, VisitedApplied, up
<1>4. ASSUME NEW p \in Peer, leave(p) PROVE Inv'
  <2>1. link' = [link EXCEPT ![p] = NoLink] /\ in_turn(p) BY <1>4 DEF leave
  <2> QED BY <2>1, OneLink
<1>5. CASE send
  <2>1. PICK served \in [Peer -> 0..RequestLimit], broken \in SUBSET Peer :
          /\ \A p \in Peer : served[p] # 0 => up(p) /\ ~link[p].choked /\ served[p] <= link[p].requests
          /\ link' = [p \in Peer |->
               IF ~up(p) \/ p \in broken THEN NoLink
               ELSE [link[p] EXCEPT !.requests = @ - served[p]]]
    BY <1>5 DEF send
  <2>2. ASSUME NEW p \in Peer, link'[p] # NoLink
        PROVE  GoodLink(link'[p]) /\ up(p)
               /\ link'[p].choked = link[p].choked /\ link'[p].goal = link[p].goal
    <3>1. up(p) /\ link'[p] = [link[p] EXCEPT !.requests = @ - served[p]] BY <2>1, <2>2
    <3>2. GoodLink(link[p]) BY <3>1, GoodLinks
    <3>3. link[p].requests \in 0..RequestLimit /\ served[p] \in 0..RequestLimit
      BY <3>2, <2>1 DEF GoodLink, Link
    <3>4. link[p].requests - served[p] \in 0..RequestLimit
      <4>1. CASE served[p] = 0 BY <4>1, <3>3
      <4>2. CASE served[p] # 0 BY <4>2, <3>3, <2>1, ChokesAssumption
      <4> QED BY <4>1, <4>2
    <3>5. link[p].choked => link[p].requests - served[p] = 0
      BY <2>1, <3>2, <3>3 DEF GoodLink
    <3> QED BY <3>1, <3>2, <3>4, <3>5 DEF GoodLink, Link
  <2>3. link' = [p \in Peer |-> link'[p]] BY <2>1
  <2>4. (link \in [Peer -> Link \cup {NoLink}])' /\ ChokedAsksNothing'
    BY <2>2, <2>3, FromLinks
  <2>5. TypeOK' BY <1>5, <2>4 DEF send, Inv, TypeOK
  <2>6. VisitedApplied' BY <1>5, <2>2 DEF send, Inv, VisitedApplied, up
  <2> QED BY <2>4, <2>5, <2>6 DEF Inv
<1>6. CASE update_chokes
  <2>1. PICK chosen \in unchoked :
          link' = [p \in Peer |-> IF up(p) THEN [link[p] EXCEPT !.goal = p \notin chosen] ELSE NoLink]
    BY <1>6 DEF update_chokes
  <2>2. ASSUME NEW p \in Peer, link'[p] # NoLink
        PROVE  GoodLink(link'[p])
    <3>1. up(p) /\ link'[p] = [link[p] EXCEPT !.goal = p \notin chosen] BY <2>1, <2>2
    <3>2. GoodLink(link[p]) BY <3>1, GoodLinks
    <3> QED BY <3>1, <3>2 DEF GoodLink, Link
  <2>3. link' = [p \in Peer |-> link'[p]] BY <2>1
  <2>4. (link \in [Peer -> Link \cup {NoLink}])' /\ ChokedAsksNothing'
    BY <2>2, <2>3, FromLinks
  <2>5. TypeOK' BY <1>6, <2>4 DEF update_chokes, Inv, TypeOK
  <2>6. VisitedApplied' BY <1>6 DEF update_chokes, VisitedApplied
  <2> QED BY <2>4, <2>5, <2>6 DEF Inv
<1>7. CASE other_timers
  BY <1>7 DEF other_timers, Inv, TypeOK, ChokedAsksNothing, VisitedApplied, up
<1>8. ASSUME NEW f \in File, resume(f) \/ pause(f) PROVE Inv'
  BY <1>8 DEF resume, pause, between, Inv, TypeOK, ChokedAsksNothing, VisitedApplied, up
<1>9. ASSUME NEW f \in File, stop(f) PROVE Inv'
  <2>1. link' = [p \in Peer |-> IF FileOf[p] = f THEN NoLink ELSE link[p]] BY <1>9 DEF stop
  <2>2. \A p \in Peer : link'[p] # NoLink => link'[p] = link[p] BY <2>1
  <2>3. \A p \in Peer : link'[p] = NoLink \/ GoodLink(link'[p]) BY <2>2, GoodLinks DEF up
  <2>4. link' = [p \in Peer |-> link'[p]] BY <2>1
  <2>5. (link \in [Peer -> Link \cup {NoLink}])' /\ ChokedAsksNothing'
    BY <2>3, <2>4, FromLinks
  <2>6. TypeOK' BY <1>9, <2>5 DEF stop, between, Inv, TypeOK
  <2>7. VisitedApplied' BY <1>9 DEF stop, between, VisitedApplied
  <2> QED BY <2>5, <2>6, <2>7 DEF Inv
<1>10. CASE UNCHANGED vars
  BY <1>10 DEF vars, Inv, TypeOK, ChokedAsksNothing, VisitedApplied, up
<1> QED BY <1>1, <1>2, <1>3, <1>4, <1>5, <1>6, <1>7, <1>8, <1>9, <1>10 DEF Next

\* Inv is an invariant of every client.
LEMMA SpecInv == Spec => []Inv
<1> QED BY InitInv, NextInv, PTL DEF Spec

\* The links and the turn keep their types: no link ever keeps more requests than the limit.
THEOREM ChokesTypeCorrect == Spec => []TypeOK
<1>1. Inv => TypeOK BY DEF Inv
<1> QED BY <1>1, SpecInv, PTL

\* No request of before a choke is left to be answered after it (write_choke, send).
THEOREM ChokedForgotten == Spec => []ChokedAsksNothing
<1>1. Inv => ChokedAsksNothing BY DEF Inv
<1> QED BY <1>1, SpecInv, PTL

\* What update_chokes decided has reached every link before the client sends again.
THEOREM DecisionApplied == Spec => []AppliedBeforeSend
<1>1. Inv => AppliedBeforeSend BY DEF Inv, VisitedApplied, AppliedBeforeSend
<1> QED BY <1>1, SpecInv, PTL

-----------------------------------------------------------------------------
(* How update_chokes shares the slots.  A pass goes through the links in    *)
(* their order; what is true of the links it has been at is Passed.        *)

\* Of peers, those that take a slot when they are unchoked, and those of them of a torrent.
takers(G) == {p \in G : link[p].trait.interested}
of(G, f) == {p \in takers(G) : FileOf[p] = f}

\* What is left is what was not handed out.
State(s) ==
  /\ s = [left |-> s.left, used |-> s.used, granted |-> s.granted]
  /\ s.left \in Nat /\ s.used \in [File -> Nat] /\ s.granted \subseteq contenders
  /\ s.left + Cardinality(takers(s.granted)) = slots
  /\ \A f \in File : s.used[f] = Cardinality(of(s.granted, f))

\* A torrent is where pass a gives it no more.
reached(s, f, a) ==
  \/ a = 0 /\ s.used[f] >= MinSlots[f]
  \/ a = 1 /\ MaxSlots[f] # 0 /\ s.used[f] >= MaxSlots[f]

\* Nothing is taken back, and without slots nothing happens.
Grown(s, r) ==
  /\ s.granted \subseteq r.granted /\ r.left <= s.left
  /\ \A f \in File : s.used[f] <= r.used[f]
  /\ s.left = 0 => r = s

\* The limit of a pass.
Within(s, a) ==
  \A f \in File :
    /\ a = 0 => s.used[f] <= MinSlots[f]
    /\ a = 1 /\ MaxSlots[f] # 0 => s.used[f] <= AtLeast(MinSlots[f], MaxSlots[f])

\* After n links of pass a, which began with s.
Passed(s, r, order, a, n) ==
  /\ State(r) /\ Grown(s, r)
  /\ r.granted \subseteq s.granted \cup {order[i] : i \in 1..n}
  /\ Within(s, a) => Within(r, a)
  /\ \A i \in 1..n : order[i] \in r.granted \/ r.left = 0 \/ reached(r, FileOf[order[i]], a)
  /\ \A i, j \in 1..n :
       i < j /\ order[j] \in r.granted \ s.granted /\ FileOf[order[i]] = FileOf[order[j]]
         => order[i] \in r.granted

LEMMA Contenders ==
  ASSUME TypeOK
  PROVE  /\ IsFiniteSet(contenders) /\ contenders \subseteq Peer
         /\ \A p \in contenders : /\ up(p) /\ link[p] \in Link /\ FileOf[p] \in File
                                  /\ link[p].trait.interested \in BOOLEAN
                                  /\ interested(p) <=> link[p].trait.interested
<1>1. contenders \subseteq Peer BY DEF contenders
<1>2. IsFiniteSet(contenders) BY <1>1, FS_Subset, ChokesAssumption
<1>3. ASSUME NEW p \in contenders
      PROVE  /\ up(p) /\ link[p] \in Link /\ FileOf[p] \in File
             /\ link[p].trait.interested \in BOOLEAN
             /\ interested(p) <=> link[p].trait.interested
  <2>1. p \in Peer /\ wanting(p) BY DEF contenders, fast, interested
  <2>2. up(p) /\ link[p] \in Link BY <2>1 DEF wanting, up, TypeOK
  <2>3. link[p].trait \in Trait BY <2>2, ChokesAssumption DEF Link
  <2>4. link[p].trait.interested \in BOOLEAN BY <2>3 DEF Trait
  <2> QED BY <2>1, <2>2, <2>4, ChokesAssumption DEF interested
<1> QED BY <1>1, <1>2, <1>3

LEMMA SlotsNat == slots \in Nat /\ slots = AtLeast(SlotFloor, Slots)
BY ChokesAssumption DEF slots, AtLeast

\* One more peer, of which one slot is taken or none.
LEMMA OneMore ==
  ASSUME TypeOK, NEW G \in SUBSET contenders, NEW p \in contenders, p \notin G
  PROVE  LET cost == IF link[p].trait.interested THEN 1 ELSE 0
         IN /\ Cardinality(takers(G)) \in Nat
            /\ Cardinality(takers(G \cup {p})) = Cardinality(takers(G)) + cost
            /\ \A f \in File : /\ Cardinality(of(G, f)) \in Nat
                               /\ Cardinality(of(G \cup {p}, f)) =
                                    IF f = FileOf[p] THEN Cardinality(of(G, f)) + cost ELSE Cardinality(of(G, f))
<1> DEFINE cost == IF link[p].trait.interested THEN 1 ELSE 0
<1>1. IsFiniteSet(G) BY Contenders, FS_Subset
<1>2. IsFiniteSet(takers(G)) /\ Cardinality(takers(G)) \in Nat
  <2>1. takers(G) \subseteq G BY DEF takers
  <2> QED BY <1>1, <2>1, FS_Subset, FS_CardinalityType
<1>3. \A f \in File : IsFiniteSet(of(G, f)) /\ Cardinality(of(G, f)) \in Nat
  <2>1. \A f : of(G, f) \subseteq takers(G) BY DEF of
  <2> QED BY <1>2, <2>1, FS_Subset, FS_CardinalityType
<1>4. link[p].trait.interested \in BOOLEAN BY Contenders
<1>5. CASE link[p].trait.interested
  <2>1. takers(G \cup {p}) = takers(G) \cup {p} /\ p \notin takers(G) BY <1>5 DEF takers
  <2>2. Cardinality(takers(G) \cup {p}) = Cardinality(takers(G)) + 1 BY <1>2, <2>1, FS_AddElement
  <2>3. ASSUME NEW f \in File
        PROVE  Cardinality(of(G \cup {p}, f)) = IF f = FileOf[p] THEN Cardinality(of(G, f)) + 1 ELSE Cardinality(of(G, f))
    <3>1. CASE f = FileOf[p]
      <4>1. of(G \cup {p}, f) = of(G, f) \cup {p} /\ p \notin of(G, f) BY <2>1, <3>1 DEF of
      <4>2. Cardinality(of(G, f) \cup {p}) = Cardinality(of(G, f)) + 1 BY <1>3, <4>1, FS_AddElement
      <4> QED BY <3>1, <4>1, <4>2
    <3>2. CASE f # FileOf[p]
      <4>1. of(G \cup {p}, f) = of(G, f) BY <2>1, <3>2 DEF of
      <4> QED BY <3>2, <4>1
    <3> QED BY <3>1, <3>2
  <2>4. cost = 1 BY <1>5
  <2>5. Cardinality(takers(G \cup {p})) = Cardinality(takers(G)) + 1 BY <2>1, <2>2
  <2> HIDE DEF cost
  <2>6. /\ Cardinality(takers(G \cup {p})) = Cardinality(takers(G)) + cost
        /\ \A f \in File : Cardinality(of(G \cup {p}, f)) =
             IF f = FileOf[p] THEN Cardinality(of(G, f)) + cost ELSE Cardinality(of(G, f))
    BY <2>3, <2>4, <2>5
  <2> QED BY <1>2, <1>3, <2>6 DEF cost
<1>6. CASE ~link[p].trait.interested
  <2>1. takers(G \cup {p}) = takers(G) BY <1>6 DEF takers
  <2>2. \A f \in File : of(G \cup {p}, f) = of(G, f) BY <2>1 DEF of
  <2> QED BY <1>2, <1>3, <1>6, <2>1, <2>2
<1> QED BY <1>4, <1>5, <1>6

\* A link that is not skipped gets what it costs.
LEMMA ConsiderOne ==
  ASSUME TypeOK, NEW s, State(s), NEW p \in contenders, NEW a \in 0..2
  PROVE  LET r == consider(s, p, a)
         IN /\ State(r) /\ Grown(s, r) /\ (Within(s, a) => Within(r, a))
            /\ skipped(s, p, a) <=> (s.left = 0 \/ p \in s.granted \/ reached(s, FileOf[p], a))
            /\ skipped(s, p, a) => r = s
            /\ ~skipped(s, p, a) => r.granted = s.granted \cup {p}
<1> DEFINE r == consider(s, p, a)
           cost == IF link[p].trait.interested THEN 1 ELSE 0
<1>0. skipped(s, p, a) <=> (s.left = 0 \/ p \in s.granted \/ reached(s, FileOf[p], a))
  BY DEF skipped, reached
<1>1. CASE skipped(s, p, a)
  <2>1. r = s BY <1>1 DEF consider
  <2>2. Grown(s, s) BY DEF Grown, State
  <2> QED BY <1>0, <1>1, <2>1, <2>2
<1>2. CASE ~skipped(s, p, a)
  <2>1. r = [left |-> s.left - cost, used |-> [s.used EXCEPT ![FileOf[p]] = @ + cost],
             granted |-> s.granted \cup {p}]
    BY <1>2 DEF consider
  <2>2. s.left # 0 /\ p \notin s.granted /\ ~reached(s, FileOf[p], a) BY <1>0, <1>2
  <2>3. cost \in {0, 1} OBVIOUS
  <2>4. FileOf[p] \in File BY Contenders
  <2>5. /\ s.left \in Nat /\ s.used \in [File -> Nat] /\ s.granted \subseteq contenders
        /\ s.left + Cardinality(takers(s.granted)) = slots
        /\ \A f \in File : s.used[f] = Cardinality(of(s.granted, f))
    BY DEF State
  <2>6. /\ r.left = s.left - cost /\ r.granted = s.granted \cup {p}
        /\ r.used = [s.used EXCEPT ![FileOf[p]] = @ + cost]
    BY <2>1
  <2>7. /\ Cardinality(takers(s.granted)) \in Nat
        /\ Cardinality(takers(s.granted \cup {p})) = Cardinality(takers(s.granted)) + cost
        /\ \A f \in File : /\ Cardinality(of(s.granted, f)) \in Nat
                           /\ Cardinality(of(s.granted \cup {p}, f)) =
                                IF f = FileOf[p] THEN Cardinality(of(s.granted, f)) + cost ELSE Cardinality(of(s.granted, f))
    BY <2>2, <2>5, OneMore
  <2>8. \A f \in File : r.used[f] = IF f = FileOf[p] THEN s.used[f] + cost ELSE s.used[f]
    BY <2>4, <2>5, <2>6
  <2>9. r.used \in [File -> Nat]
    <3> HIDE DEF cost
    <3> QED BY <2>3, <2>4, <2>5, <2>6
  <2>10. State(r)
    <3>1. r = [left |-> r.left, used |-> r.used, granted |-> r.granted] BY <2>1
    <3>2. r.left \in Nat /\ r.left + Cardinality(takers(r.granted)) = slots
      <4> HIDE DEF r, cost
      <4> QED BY <2>2, <2>3, <2>5, <2>6, <2>7, SlotsNat
    <3>3. \A f \in File : r.used[f] = Cardinality(of(r.granted, f))
      <4> HIDE DEF r, cost
      <4> QED BY <2>5, <2>6, <2>7, <2>8
    <3>4. r.granted \subseteq contenders BY <2>5, <2>6
    <3> HIDE DEF r
    <3> QED BY <2>9, <3>1, <3>2, <3>3, <3>4 DEF State
  <2>11. Grown(s, r)
    <3> HIDE DEF r, cost
    <3>1. \A f \in File : s.used[f] \in Nat BY <2>5
    <3> QED BY <2>2, <2>3, <2>5, <2>6, <2>8, <3>1 DEF Grown
  <2>12. Within(s, a) => Within(r, a)
    <3> SUFFICES ASSUME Within(s, a), NEW f \in File
                 PROVE  /\ a = 0 => r.used[f] <= MinSlots[f]
                        /\ a = 1 /\ MaxSlots[f] # 0 => r.used[f] <= AtLeast(MinSlots[f], MaxSlots[f])
      BY DEF Within
    <3> HIDE DEF r, cost
    <3>1. s.used[f] \in Nat /\ MinSlots[f] \in Nat /\ MaxSlots[f] \in Nat BY <2>5, ChokesAssumption
    <3>2. CASE f # FileOf[p] BY <2>8, <3>2 DEF Within
    <3>3. CASE f = FileOf[p]
      <4>1. r.used[f] = s.used[f] + cost BY <2>8, <3>3
      <4> QED BY <2>2, <2>3, <3>1, <3>3, <4>1 DEF reached, AtLeast
    <3> QED BY <3>2, <3>3
  <2> QED BY <1>0, <1>2, <2>6, <2>10, <2>11, <2>12
<1> QED BY <1>1, <1>2

\* What an order of links is.
Listed(order) ==
  /\ Len(order) \in Nat /\ DOMAIN order = 1..Len(order)
  /\ \A i \in 1..Len(order) : order[i] \in contenders
  /\ \A i, j \in 1..Len(order) : i # j => order[i] # order[j]
  /\ \A p \in contenders : \E i \in 1..Len(order) : order[i] = p
  /\ \A i, j \in 1..Len(order) : i < j => ~before(order[j], order[i])

LEMMA OrdersListed ==
  ASSUME TypeOK, NEW order \in orders
  PROVE  Listed(order)
<1> DEFINE n == Cardinality(contenders)
<1>1. IsFiniteSet(contenders) /\ n \in Nat BY Contenders, FS_CardinalityType
<1>2. /\ order \in [1..n -> contenders] /\ \A i, j \in 1..n : i # j => order[i] # order[j]
      /\ \A i, j \in 1..Len(order) : i < j => ~before(order[j], order[i])
  BY DEF orders, SetToSeqs
<1> HIDE DEF n
<1>3. Len(order) = n
  <2>1. order \in Seq(contenders) BY <1>1, <1>2
  <2> QED BY <1>1, <1>2, <2>1
<1>4. order \in Injection(1..n, contenders) BY <1>2 DEF Injection, IsInjective
<1>5. IsFiniteSet(1..n) /\ Cardinality(1..n) = n BY <1>1, FS_Interval
<1>6. order \in Surjection(1..n, contenders)
  <2>1. Cardinality(1..n) = Cardinality(contenders) BY <1>5 DEF n
  <2> QED BY <1>1, <1>4, <2>1, FS_Injection
<1>7. \A p \in contenders : \E i \in 1..n : order[i] = p BY <1>6 DEF Surjection
<1> QED BY <1>1, <1>2, <1>3, <1>7 DEF Listed

LEMMA PassBegins ==
  ASSUME NEW s, State(s), NEW order, NEW a
  PROVE  Passed(s, s, order, a, 0)
<1>1. Grown(s, s) BY DEF Grown, State
<1> QED BY <1>1 DEF Passed

\* The next link.
LEMMA PassGoesOn ==
  ASSUME TypeOK, NEW order, Listed(order), NEW a \in 0..2, NEW n \in Nat, n + 1 <= Len(order),
         NEW s, NEW r, State(s), Passed(s, r, order, a, n)
  PROVE  Passed(s, consider(r, order[n + 1], a), order, a, n + 1)
<1> DEFINE p == order[n + 1]
           x == consider(r, p, a)
<1>1. n + 1 \in 1..Len(order) /\ p \in contenders BY DEF Listed
<1>2. /\ State(r) /\ Grown(s, r) /\ (Within(s, a) => Within(r, a))
      /\ r.granted \subseteq s.granted \cup {order[i] : i \in 1..n}
      /\ \A i \in 1..n : order[i] \in r.granted \/ r.left = 0 \/ reached(r, FileOf[order[i]], a)
      /\ \A i, j \in 1..n :
           i < j /\ order[j] \in r.granted \ s.granted /\ FileOf[order[i]] = FileOf[order[j]]
             => order[i] \in r.granted
  BY DEF Passed
<1>3. /\ State(x) /\ Grown(r, x) /\ (Within(r, a) => Within(x, a))
      /\ skipped(r, p, a) <=> (r.left = 0 \/ p \in r.granted \/ reached(r, FileOf[p], a))
      /\ skipped(r, p, a) => x = r
      /\ ~skipped(r, p, a) => x.granted = r.granted \cup {p}
  BY <1>1, <1>2, ConsiderOne
<1> HIDE DEF x
<1>4. /\ s.left \in Nat /\ r.left \in Nat /\ x.left \in Nat
      /\ \A f \in File : s.used[f] \in Nat /\ r.used[f] \in Nat /\ x.used[f] \in Nat
  BY <1>2, <1>3 DEF State
<1>5. Grown(s, x) BY <1>2, <1>3, <1>4 DEF Grown
<1>6. \A f \in File : reached(r, f, a) => reached(x, f, a)
  <2> SUFFICES ASSUME NEW f \in File, reached(r, f, a) PROVE reached(x, f, a)
    OBVIOUS
  <2>1. r.used[f] <= x.used[f] BY <1>3 DEF Grown
  <2>2. MinSlots[f] \in Nat /\ MaxSlots[f] \in Nat BY ChokesAssumption
  <2> QED BY <1>4, <2>1, <2>2 DEF reached
<1>7. \A i \in 1..Len(order) : FileOf[order[i]] \in File BY Contenders DEF Listed
<1>8. x.granted \subseteq s.granted \cup {order[i] : i \in 1..(n + 1)}
  <2>1. x.granted \subseteq r.granted \cup {p} BY <1>3
  <2>2. \A i \in 1..n : i \in 1..(n + 1) OBVIOUS
  <2>3. n + 1 \in 1..(n + 1) OBVIOUS
  <2> QED BY <1>2, <2>1, <2>2, <2>3
<1>9. ASSUME NEW i \in 1..(n + 1)
      PROVE  order[i] \in x.granted \/ x.left = 0 \/ reached(x, FileOf[order[i]], a)
  <2>1. CASE i = n + 1
    <3>1. CASE skipped(r, p, a) BY <1>3, <2>1, <3>1
    <3>2. CASE ~skipped(r, p, a) BY <1>3, <2>1, <3>2
    <3> QED BY <3>1, <3>2
  <2>2. CASE i # n + 1
    <3>1. i \in 1..n /\ i \in 1..Len(order) BY <2>2
    <3>2. order[i] \in r.granted \/ r.left = 0 \/ reached(r, FileOf[order[i]], a) BY <1>2, <3>1
    <3>3. r.left = 0 => x = r BY <1>3 DEF Grown
    <3>4. r.granted \subseteq x.granted BY <1>3 DEF Grown
    <3> QED BY <1>6, <1>7, <3>1, <3>2, <3>3, <3>4
  <2> QED BY <2>1, <2>2
<1>10. ASSUME NEW i \in 1..(n + 1), NEW j \in 1..(n + 1), i < j,
              order[j] \in x.granted \ s.granted, FileOf[order[i]] = FileOf[order[j]]
       PROVE  order[i] \in x.granted
  <2>0. i \in 1..n /\ i \in 1..Len(order) /\ j \in 1..Len(order)
    <3>1. Len(order) \in Nat BY DEF Listed
    <3> QED BY <1>10, <3>1
  <2>1. CASE j = n + 1
    \* The link was not granted before it was its turn; so it was not skipped.
    <3>1. p \notin r.granted
      <4>1. \A k \in 1..n : order[k] # p
        <5>1. \A k \in 1..n : k \in 1..Len(order) /\ k # n + 1 BY <1>1
        <5> QED BY <1>1, <5>1 DEF Listed
      <4> QED BY <1>2, <1>10, <2>1, <4>1
    <3>2. ~skipped(r, p, a) BY <1>3, <1>10, <2>1, <3>1
    <3>3. r.left # 0 /\ ~reached(r, FileOf[order[i]], a) BY <1>3, <1>10, <2>1, <3>2
    <3>4. order[i] \in r.granted BY <1>2, <2>0, <3>3
    <3> QED BY <1>3, <3>4 DEF Grown
  <2>2. CASE j # n + 1
    <3>1. j \in 1..n BY <2>2
    <3>2. order[j] # p BY <1>1, <2>0, <2>2 DEF Listed
    <3>3. order[j] \in r.granted BY <1>3, <1>10, <3>2
    <3>4. order[i] \in r.granted BY <1>2, <1>10, <2>0, <3>1, <3>3
    <3> QED BY <1>3, <3>4 DEF Grown
  <2> QED BY <2>1, <2>2
<1>11. Within(s, a) => Within(x, a) BY <1>2, <1>3
<1>12. Passed(s, x, order, a, n + 1) BY <1>3, <1>5, <1>8, <1>9, <1>10, <1>11 DEF Passed
<1> QED BY <1>12 DEF x

\* The states a pass goes through are what the recursion says.
steps(t, s, order, a, n) ==
  t = [k \in 0..n |-> IF k = 0 THEN s ELSE consider(t[k - 1], order[k], a)]

LEMMA StepsExist ==
  ASSUME NEW s, NEW order, NEW a, Len(order) \in Nat
  PROVE  \E t : steps(t, s, order, a, Len(order)) /\ one_pass(s, order, a) = t[Len(order)]
<1> DEFINE S == {k \in Nat : \E t : steps(t, s, order, a, k)}
<1>1. 0 \in S
  <2> DEFINE t == [i \in 0..0 |-> s]
  <2>1. steps(t, s, order, a, 0) BY DEF steps
  <2> QED BY <2>1
<1>2. ASSUME NEW k \in Nat, k \in S PROVE k + 1 \in S
  <2>1. PICK t : steps(t, s, order, a, k) BY <1>2
  <2> DEFINE g == [i \in 0..(k + 1) |-> IF i = k + 1 THEN consider(t[k], order[k + 1], a) ELSE t[i]]
  <2>2. ASSUME NEW i \in 0..(k + 1) PROVE g[i] = IF i = 0 THEN s ELSE consider(g[i - 1], order[i], a)
    <3>1. CASE i = 0 BY <2>1, <3>1 DEF steps
    <3>2. CASE i # 0 /\ i # k + 1
      <4>1. i \in 0..k /\ i - 1 \in 0..k BY <3>2
      <4>2. g[i] = t[i] /\ g[i - 1] = t[i - 1] BY <4>1
      <4>3. t[i] = consider(t[i - 1], order[i], a) BY <2>1, <3>2, <4>1 DEF steps
      <4> QED BY <3>2, <4>2, <4>3
    <3>3. CASE i = k + 1
      <4>1. g[i] = consider(t[k], order[k + 1], a) /\ g[i - 1] = t[k] BY <3>3
      <4> QED BY <3>3, <4>1
    <3> QED BY <3>1, <3>2, <3>3
  <2>3. steps(g, s, order, a, k + 1) BY <2>2 DEF steps
  <2>4. k + 1 \in Nat OBVIOUS
  <2> HIDE DEF g
  <2> QED BY <2>3, <2>4
<1>3. Len(order) \in S BY <1>1, <1>2, Induct
<1>4. \E t : steps(t, s, order, a, Len(order)) BY <1>3
<1> DEFINE t == CHOOSE g : g = [n \in 0..Len(order) |-> IF n = 0 THEN s ELSE consider(g[n - 1], order[n], a)]
<1>5. steps(t, s, order, a, Len(order)) BY <1>4 DEF steps
<1>6. one_pass(s, order, a) = t[Len(order)] BY DEF one_pass
<1> QED BY <1>5, <1>6

\* A whole pass.
LEMMA PassEnds ==
  ASSUME TypeOK, NEW order, Listed(order), NEW a \in 0..2, NEW s, State(s)
  PROVE  Passed(s, one_pass(s, order, a), order, a, Len(order))
<1> DEFINE m == Len(order)
<1>1. m \in Nat BY DEF Listed
<1>2. PICK t : steps(t, s, order, a, m) /\ one_pass(s, order, a) = t[m] BY <1>1, StepsExist
<1> HIDE DEF m
<1> DEFINE S == {k \in Nat : k <= m => Passed(s, t[k], order, a, k)}
<1>3. 0 \in S
  <2>1. t[0] = s BY <1>1, <1>2 DEF steps
  <2> QED BY <2>1, PassBegins
<1>4. ASSUME NEW k \in Nat, k \in S PROVE k + 1 \in S
  <2> SUFFICES ASSUME k + 1 <= m PROVE Passed(s, t[k + 1], order, a, k + 1)
    OBVIOUS
  <2>1. Passed(s, t[k], order, a, k) BY <1>1, <1>4
  <2>2. t[k + 1] = consider(t[k], order[k + 1], a)
    <3>1. k + 1 \in 0..m /\ k + 1 # 0 /\ (k + 1) - 1 = k BY <1>1
    <3>2. t[k + 1] = IF k + 1 = 0 THEN s ELSE consider(t[(k + 1) - 1], order[k + 1], a) BY <1>2, <3>1 DEF steps
    <3> QED BY <3>1, <3>2
  <2>3. k + 1 <= Len(order) BY DEF m
  <2> QED BY <2>1, <2>2, <2>3, PassGoesOn
<1>5. m \in S BY <1>1, <1>3, <1>4, Induct
<1> QED BY <1>1, <1>2, <1>5 DEF m

-----------------------------------------------------------------------------
(* The three passes.                                                       *)

start == [left |-> slots, used |-> [f \in File |-> 0], granted |-> {}]
LEMMA StartState == State(start) /\ Within(start, 0)
<1>1. takers({}) = {} /\ \A f \in File : of({}, f) = {} BY DEF takers, of
<1>2. Cardinality({}) = 0 BY FS_EmptySet
<1>3. State(start)
  <2>1. /\ start = [left |-> start.left, used |-> start.used, granted |-> start.granted]
        /\ start.left = slots /\ start.used \in [File -> Nat] /\ start.granted = {}
        /\ \A f \in File : start.used[f] = 0
    BY DEF start
  <2>2. start.left + Cardinality(takers(start.granted)) = slots BY <1>1, <1>2, <2>1, SlotsNat
  <2>3. \A f \in File : start.used[f] = Cardinality(of(start.granted, f)) BY <1>1, <1>2, <2>1
  <2>4. start.left \in Nat /\ start.granted \subseteq contenders BY <2>1, SlotsNat
  <2> HIDE DEF start
  <2> QED BY <2>1, <2>2, <2>3, <2>4 DEF State
<1>4. Within(start, 0) BY ChokesAssumption DEF Within, start
<1> QED BY <1>3, <1>4

\* What is known when an update has gone through the links three times.
Shared(order, s1, s2, s3) ==
  /\ State(s1) /\ State(s2) /\ State(s3) /\ Grown(s1, s2) /\ Grown(s2, s3)
  /\ Within(s1, 0) /\ Within(s2, 1)
  /\ \A p \in contenders \ s3.granted :
       /\ s1.left = 0 \/ reached(s1, FileOf[p], 0)
       /\ s2.left = 0 \/ reached(s2, FileOf[p], 1)
       /\ s3.left = 0
  /\ \A p \in s3.granted, q \in contenders \ s3.granted : FileOf[p] = FileOf[q] => ~before(q, p)

LEMMA Passes ==
  ASSUME TypeOK, NEW order \in orders
  PROVE  \E s1, s2, s3 : Shared(order, s1, s2, s3) /\ granted(order) = s3.granted
<1> DEFINE s1 == one_pass(start, order, 0)
           s2 == one_pass(s1, order, 1)
           s3 == one_pass(s2, order, 2)
           n == Len(order)
<1>1. granted(order) = s3.granted BY DEF granted, start
<1>2. Listed(order) BY OrdersListed
<1>3. Passed(start, s1, order, 0, n) BY <1>2, PassEnds, StartState
<1> HIDE DEF s1
<1>4. State(s1) /\ Within(s1, 0) BY <1>3, StartState DEF Passed
<1>5. Passed(s1, s2, order, 1, n) BY <1>2, <1>4, PassEnds
<1> HIDE DEF s2
<1>6. State(s2) BY <1>5 DEF Passed
<1>7. Passed(s2, s3, order, 2, n) BY <1>2, <1>6, PassEnds
<1> HIDE DEF s3
<1>8. State(s3) /\ Grown(s1, s2) /\ Grown(s2, s3) BY <1>5, <1>7 DEF Passed
<1>9. Within(s2, 1)
  <2>1. ASSUME NEW f \in File PROVE s1.used[f] <= AtLeast(MinSlots[f], MaxSlots[f])
    <3>1. s1.used[f] \in Nat /\ MinSlots[f] \in Nat /\ MaxSlots[f] \in Nat BY <1>4, ChokesAssumption DEF State
    <3>2. s1.used[f] <= MinSlots[f] BY <1>4 DEF Within
    <3> QED BY <3>1, <3>2 DEF AtLeast
  <2>2. Within(s1, 1) BY <2>1 DEF Within
  <2> QED BY <1>5, <2>2 DEF Passed
<1>10. s1.granted \subseteq s2.granted /\ s2.granted \subseteq s3.granted BY <1>8 DEF Grown
<1>11. ASSUME NEW p \in contenders \ s3.granted
       PROVE  /\ s1.left = 0 \/ reached(s1, FileOf[p], 0)
              /\ s2.left = 0 \/ reached(s2, FileOf[p], 1)
              /\ s3.left = 0
  <2>1. PICK i \in 1..n : order[i] = p BY <1>2 DEF Listed
  <2>2. p \notin s1.granted /\ p \notin s2.granted BY <1>10
  <2>3. s1.left = 0 \/ reached(s1, FileOf[p], 0) BY <1>3, <2>1, <2>2 DEF Passed
  <2>4. s2.left = 0 \/ reached(s2, FileOf[p], 1) BY <1>5, <2>1, <2>2 DEF Passed
  <2>5. s3.left = 0 \/ reached(s3, FileOf[p], 2) BY <1>7, <2>1 DEF Passed
  <2> QED BY <2>3, <2>4, <2>5 DEF reached
<1>12. ASSUME NEW p \in s3.granted, NEW q \in contenders \ s3.granted, FileOf[p] = FileOf[q], before(q, p)
       PROVE  FALSE
  <2>1. p \in contenders BY <1>8 DEF State
  <2>2. PICK j \in 1..n : order[j] = p BY <1>2, <2>1 DEF Listed
  <2>3. PICK i \in 1..n : order[i] = q BY <1>2 DEF Listed
  <2>4. n \in Nat BY <1>2 DEF Listed
  <2>5. i < j
    <3>1. j < i => ~before(q, p) BY <1>2, <2>2, <2>3 DEF Listed
    <3>2. i # j BY <2>2, <2>3
    <3> QED BY <1>12, <2>2, <2>3, <2>4, <3>1, <3>2
  <2>6. q \notin s1.granted /\ q \notin s2.granted /\ q \notin s3.granted BY <1>10
  <2>7. start.granted = {} BY DEF start
  <2>8. p \notin s1.granted BY <1>3, <1>12, <2>2, <2>3, <2>5, <2>6, <2>7 DEF Passed
  <2>9. p \notin s2.granted BY <1>5, <1>12, <2>2, <2>3, <2>5, <2>6, <2>8 DEF Passed
  <2>10. p \notin s3.granted BY <1>7, <1>12, <2>2, <2>3, <2>5, <2>6, <2>9 DEF Passed
  <2> QED BY <2>10
<1>13. Shared(order, s1, s2, s3) BY <1>4, <1>6, <1>8, <1>9, <1>11, <1>12 DEF Shared
<1> QED BY <1>1, <1>13

\* What of it SlotsShared is about.
LEMMA SharedWell ==
  ASSUME TypeOK, NEW order, NEW s1, NEW s2, NEW s3, Shared(order, s1, s2, s3)
  PROVE  LET G == s3.granted
         IN /\ G \subseteq contenders
            /\ Cardinality(takers(G)) <= slots
            /\ G # contenders => Cardinality(takers(G)) = slots
            /\ \A f, g \in File :
                 /\ Cardinality(of(G, f)) < AtMost(MinSlots[f], Cardinality(of(contenders, f)))
                      => Cardinality(of(G, g)) <= MinSlots[g]
                 /\ (/\ MaxSlots[f] # 0
                     /\ Cardinality(of(G, f)) > AtLeast(MinSlots[f], MaxSlots[f])
                     /\ \E p \in contenders \ G : FileOf[p] = g)
                      => MaxSlots[g] # 0 /\ Cardinality(of(G, g)) >= MaxSlots[g]
<1> DEFINE G == s3.granted
<1>1. State(s1) /\ State(s2) /\ State(s3) /\ Grown(s1, s2) /\ Grown(s2, s3) /\ Within(s1, 0) /\ Within(s2, 1)
  BY DEF Shared
<1>2. \A p \in contenders \ G :
        /\ s1.left = 0 \/ reached(s1, FileOf[p], 0)
        /\ s2.left = 0 \/ reached(s2, FileOf[p], 1)
        /\ s3.left = 0
  BY DEF Shared
<1>3. /\ s3.left \in Nat /\ G \subseteq contenders
      /\ s3.left + Cardinality(takers(G)) = slots
      /\ \A f \in File : s3.used[f] = Cardinality(of(G, f))
  BY <1>1 DEF State
<1>4. \A f \in File : /\ s1.used[f] \in Nat /\ s2.used[f] \in Nat /\ s3.used[f] \in Nat
                      /\ MinSlots[f] \in Nat /\ MaxSlots[f] \in Nat
  BY <1>1, ChokesAssumption DEF State
<1>5. \A f \in File : s1.used[f] <= s2.used[f] /\ s2.used[f] <= s3.used[f] BY <1>1 DEF Grown
<1>6. Cardinality(takers(G)) \in Nat
  <2>1. takers(G) \subseteq contenders BY <1>3 DEF takers
  <2> QED BY <2>1, Contenders, FS_Subset, FS_CardinalityType
<1>7. Cardinality(takers(G)) <= slots /\ (G # contenders => Cardinality(takers(G)) = slots)
  <2>1. G # contenders => s3.left = 0 BY <1>2, <1>3
  <2> HIDE DEF G
  <2> QED BY <1>3, <1>6, <2>1, SlotsNat
<1>8. ASSUME NEW f \in File, NEW g \in File,
             Cardinality(of(G, f)) < AtMost(MinSlots[f], Cardinality(of(contenders, f)))
      PROVE  Cardinality(of(G, g)) <= MinSlots[g]
  <2>1. Cardinality(of(contenders, f)) \in Nat
    <3>1. of(contenders, f) \subseteq contenders BY DEF of, takers
    <3> QED BY <3>1, Contenders, FS_Subset, FS_CardinalityType
  <2>2. s3.used[f] < MinSlots[f] /\ s3.used[f] < Cardinality(of(contenders, f))
    BY <1>3, <1>4, <1>8, <2>1 DEF AtMost
  <2>3. of(G, f) # of(contenders, f) BY <1>3, <1>4, <2>1, <2>2
  <2>4. PICK p \in contenders \ G : FileOf[p] = f BY <1>3, <2>3 DEF of, takers
  <2>5. ~reached(s1, f, 0) BY <1>4, <1>5, <2>2 DEF reached
  <2>6. s1.left = 0 BY <1>2, <2>4, <2>5
  <2>7. s3 = s1
    <3>1. s2 = s1 BY <1>1, <2>6 DEF Grown
    <3> QED BY <1>1, <2>6, <3>1 DEF Grown
  <2> QED BY <1>1, <1>3, <2>7 DEF Within
<1>9. ASSUME NEW f \in File, NEW g \in File, MaxSlots[f] # 0,
             Cardinality(of(G, f)) > AtLeast(MinSlots[f], MaxSlots[f]),
             NEW p \in contenders \ G, FileOf[p] = g
      PROVE  MaxSlots[g] # 0 /\ Cardinality(of(G, g)) >= MaxSlots[g]
  <2>1. s2.used[f] <= AtLeast(MinSlots[f], MaxSlots[f]) BY <1>1, <1>9 DEF Within
  <2>2. AtLeast(MinSlots[f], MaxSlots[f]) \in Nat BY <1>4 DEF AtLeast
  <2>3. s3.used[f] # s2.used[f] BY <1>3, <1>4, <1>9, <2>1, <2>2
  <2>4. s2.left # 0 BY <1>1, <2>3 DEF Grown
  <2>5. reached(s2, g, 1) BY <1>2, <1>9, <2>4
  <2> QED BY <1>3, <1>4, <1>5, <2>5 DEF reached
<1> QED BY <1>3, <1>7, <1>8, <1>9

\* An update takes an order, and the links hold what it gives in it.
LEMMA UpdateGives ==
  ASSUME TypeOK, update_chokes, Slots # 0
  PROVE  \E order \in orders : given = granted(order)
<1>1. PICK order \in orders :
        link' = [p \in Peer |-> IF up(p) THEN [link[p] EXCEPT !.goal = p \notin granted(order)] ELSE NoLink]
  <2>1. unchoked = {granted(order) : order \in orders} BY DEF unchoked
  <2>2. PICK chosen \in unchoked :
          link' = [p \in Peer |-> IF up(p) THEN [link[p] EXCEPT !.goal = p \notin chosen] ELSE NoLink]
    BY DEF update_chokes
  <2> QED BY <2>1, <2>2
<1>2. granted(order) \subseteq contenders
  <2>1. PICK s1, s2, s3 : Shared(order, s1, s2, s3) /\ granted(order) = s3.granted BY Passes
  <2> QED BY <2>1 DEF Shared, State
<1>3. ASSUME NEW p \in contenders PROVE link'[p].goal = (p \notin granted(order))
  <2>1. up(p) /\ link[p] \in Link /\ p \in Peer BY Contenders
  <2>2. link'[p] = [link[p] EXCEPT !.goal = p \notin granted(order)] BY <1>1, <2>1
  <2> QED BY <2>1, <2>2 DEF Link
<1>4. given = granted(order) BY <1>2, <1>3 DEF given
<1> QED BY <1>4

LEMMA UpdateShares ==
  ASSUME TypeOK, update_chokes, Slots # 0
  PROVE  /\ taken <= AtLeast(SlotFloor, Slots)
         /\ given # contenders => taken = AtLeast(SlotFloor, Slots)
         /\ \A f, g \in File :
              /\ Cardinality(holders(f)) < AtMost(MinSlots[f], Cardinality(seeking(f)))
                   => Cardinality(holders(g)) <= MinSlots[g]
              /\ (/\ MaxSlots[f] # 0
                  /\ Cardinality(holders(f)) > AtLeast(MinSlots[f], MaxSlots[f])
                  /\ \E p \in contenders \ given : FileOf[p] = g)
                   => MaxSlots[g] # 0 /\ Cardinality(holders(g)) >= MaxSlots[g]
         /\ \A p \in given, q \in contenders \ given :
              FileOf[p] = FileOf[q] => ~before(q, p)
<1>1. PICK order \in orders : given = granted(order) BY UpdateGives
<1>2. PICK s1, s2, s3 : Shared(order, s1, s2, s3) /\ granted(order) = s3.granted BY Passes
<1>3. given = s3.granted BY <1>1, <1>2
<1>4. given \subseteq contenders BY DEF given
<1>5. \A p \in contenders : interested(p) <=> link[p].trait.interested BY Contenders
<1>6. taken = Cardinality(takers(given)) BY <1>4, <1>5 DEF taken, takers
<1>7. \A f \in File : holders(f) = of(given, f) BY <1>4, <1>5 DEF holders, of, takers
<1>8. \A f \in File : seeking(f) = of(contenders, f) BY <1>5 DEF seeking, of, takers
<1>9. \A p \in given, q \in contenders \ given : FileOf[p] = FileOf[q] => ~before(q, p)
  BY <1>2, <1>3 DEF Shared
<1>10. /\ Cardinality(takers(given)) <= slots
       /\ given # contenders => Cardinality(takers(given)) = slots
       /\ \A f, g \in File :
            /\ Cardinality(of(given, f)) < AtMost(MinSlots[f], Cardinality(of(contenders, f)))
                 => Cardinality(of(given, g)) <= MinSlots[g]
            /\ (/\ MaxSlots[f] # 0
                /\ Cardinality(of(given, f)) > AtLeast(MinSlots[f], MaxSlots[f])
                /\ \E p \in contenders \ given : FileOf[p] = g)
                 => MaxSlots[g] # 0 /\ Cardinality(of(given, g)) >= MaxSlots[g]
  BY <1>2, <1>3, SharedWell
<1> QED BY <1>6, <1>7, <1>8, <1>9, <1>10, SlotsNat

LEMMA UpdateOrdered ==
  ASSUME TypeOK, update_chokes, Slots # 0, NEW p \in given, NEW q \in contenders \ given,
         FileOf[p] = FileOf[q]
  PROVE  /\ fast(q) => fast(p)
         /\ link[q].trait.local => fast(p) \/ link[p].trait.local
<1>1. ~before(q, p) BY UpdateShares
<1> QED BY <1>1 DEF before

\* However the shuffled links lie, an update hands out no more slots than there are and none is left
\* over; no torrent gets more than its minimum while one is short of its own, and none more than
\* its maximum while one below its maximum is short; and within a torrent those that send to us come
\* first (Cserver::update_chokes).
THEOREM SlotsAreShared == Spec => SlotsShared
<1>1. Inv /\ [Next]_vars =>
        [update_chokes /\ Slots # 0 =>
           /\ taken <= AtLeast(SlotFloor, Slots)
           /\ given # contenders => taken = AtLeast(SlotFloor, Slots)]_vars
  BY UpdateShares DEF Inv
<1>2. Inv /\ [Next]_vars =>
        [update_chokes /\ Slots # 0 =>
           \A f, g \in File :
             /\ Cardinality(holders(f)) < AtMost(MinSlots[f], Cardinality(seeking(f)))
                  => Cardinality(holders(g)) <= MinSlots[g]
             /\ (/\ MaxSlots[f] # 0
                 /\ Cardinality(holders(f)) > AtLeast(MinSlots[f], MaxSlots[f])
                 /\ \E p \in contenders \ given : FileOf[p] = g)
                  => MaxSlots[g] # 0 /\ Cardinality(holders(g)) >= MaxSlots[g]]_vars
  BY UpdateShares DEF Inv
<1>3. Inv /\ [Next]_vars =>
        [update_chokes /\ Slots # 0 =>
           \A p \in given, q \in contenders \ given :
             FileOf[p] = FileOf[q] /\ interested(p) =>
               /\ fast(q) => fast(p)
               /\ link[q].trait.local => fast(p) \/ link[p].trait.local]_vars
  BY UpdateOrdered DEF Inv
<1>4. Spec => SlotsRespected BY <1>1, SpecInv, PTL DEF Spec, SlotsRespected
<1>5. Spec => TorrentsShare BY <1>2, SpecInv, PTL DEF Spec, TorrentsShare
<1>6. Spec => GiversFirst BY <1>3, SpecInv, PTL DEF Spec, GiversFirst
<1> QED BY <1>4, <1>5, <1>6, PTL DEF SlotsShared
=============================================================================
