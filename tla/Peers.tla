---------------------------------- MODULE Peers ----------------------------------
(***************************************************************************)
(* Which peers the XBT Client has links with (src/BT Test/server.cpp,        *)
(* bt_file.cpp, bt_link.cpp): those trackers, other peers and the user name, *)
(* as long as there are fewer than the peer limit, and those that connect,   *)
(* once their handshake has said for which torrent.  In between, the user's  *)
(* thread disconnects and blocks peers, changes the limit, and stops         *)
(* torrents.                                                               *)
(*                                                                         *)
(* One turn of the loop is pre_select, select, and what select reports; the  *)
(* server is unlocked during select.  What a link does once it is there is   *)
(* in other modules.                                                       *)
(***************************************************************************)
EXTENDS Integers, SequencesExt, FiniteSetsExt

CONSTANTS
  Torrents,
  Addresses,  \* numbered in the order m_new_peers has them
  LinkTime,   \* seconds a connection has to send its handshake (5)
  Limits,     \* values of the peer limit, 0 for none
  MaxBacklog, \* bound: connections without a handshake, accepted or not
  MaxOps      \* bound: actions of the user

VARIABLES
  turn,         \* "between" turns, "select", or "post"
  listens,      \* select is told of new connections
  state,        \* of each torrent: "running", "paused", or "closed" (stopped, queued, hashing)
  m_new_peers,
  m_peers,      \* of each torrent: its links, with their m_state
  m_links,      \* connections without a handshake, with their age
  backlog,      \* the listening socket's
  m_block_list,
  m_peer_limit,
  ops,
  excused       \* history: addresses that had a connection in m_links when they were blocked

vars == <<turn, listens, state, m_new_peers, m_peers, m_links, backlog, m_block_list, m_peer_limit, ops, excused>>
config == <<m_block_list, m_peer_limit, excused>>

-----------------------------------------------------------------------------

\* The elements of s at the places I, in their order.
at(s, I) ==
  LET passed[i \in 0..Len(s)] ==
        IF i = 0 THEN <<>> ELSE IF i \in I THEN Append(passed[i - 1], s[i]) ELSE passed[i - 1]
  IN passed[Len(s)]

\* What find_peer would be if a link that is to be erased no longer counted, and what it is.
find_live_peer(links, a) == \E i \in DOMAIN links : links[i].a = a /\ links[i].state # -1
find_peer(links, a) == \E i \in DOMAIN links : links[i].a = a
block_list_has(a) == a \in m_block_list
c_peers(peers) == Cardinality(UNION {{f} \X DOMAIN peers[f] : f \in Torrents})
below_peer_limit(peers) == m_peer_limit = 0 \/ c_peers(peers) < m_peer_limit

\* The first of the new peers is tried while there is room; one that is there already, or blocked,
\* is forgotten.
try(f, c) ==
  LET a == Min(c.new[f])
  IN IF c.new[f] = {} \/ ~below_peer_limit(c.peers) THEN c
     ELSE [new |-> [c.new EXCEPT ![f] = @ \ {a}],
           peers |-> IF find_peer(c.peers[f], a) \/ block_list_has(a) THEN c.peers
                     ELSE [c.peers EXCEPT ![f] = Append(@, [a |-> a, local |-> TRUE, state |-> 1])]]
tried(f, c) ==
  LET after[k \in 0..Cardinality(c.new[f])] == IF k = 0 THEN c ELSE try(f, after[k - 1])
  IN after[Cardinality(c.new[f])]
\* Then links are connected, which may fail, and those that were closed are erased.
connected(links, unreachable) ==
  LET kept == at(links, {i \in DOMAIN links :
                           ~(links[i].state = -1 \/ (links[i].state = 1 /\ links[i].a \in unreachable))})
  IN [i \in DOMAIN kept |-> [kept[i] EXCEPT !.state = IF @ = 1 THEN 2 ELSE @]]
file_pre_select(f, c, unreachable) ==
  LET d == IF state[f] = "running" THEN tried(f, c) ELSE c
  IN [d EXCEPT !.peers[f] = connected(@, unreachable)]
all_pre_select(c, unreachable) ==
  LET fs == SetToSeq(Torrents)
      after[k \in 0..Cardinality(Torrents)] ==
        IF k = 0 THEN c ELSE file_pre_select(fs[k], after[k - 1], unreachable)
  IN after[Cardinality(Torrents)]
pre_select ==
  /\ turn = "between" /\ turn' = "select"
  /\ \E unreachable \in SUBSET Addresses :
       LET c == all_pre_select([new |-> m_new_peers, peers |-> m_peers], unreachable)
       IN m_new_peers' = c.new /\ m_peers' = c.peers
  /\ listens' = below_peer_limit(m_peers')
  /\ UNCHANGED <<state, m_links, backlog, config, ops>>

\* All connections that wait are accepted, but those of who is blocked.
taken == at(backlog, {i \in DOMAIN backlog : ~block_list_has(backlog[i])})
accept ==
  /\ turn = "select" /\ turn' = "post"
  /\ IF listens
     THEN /\ m_links' = m_links \o [i \in DOMAIN taken |-> [a |-> taken[i], age |-> 0]]
          /\ backlog' = <<>>
     ELSE UNCHANGED <<m_links, backlog>>
  /\ UNCHANGED <<listens, state, m_new_peers, m_peers, config, ops>>

\* A connection has sent its handshake: its torrent takes it when it runs or is paused and has no
\* link to that address.
insert_peer(f, a) ==
  m_peers' = IF state[f] = "closed" \/ find_peer(m_peers[f], a) THEN m_peers
             ELSE [m_peers EXCEPT ![f] = Append(@, [a |-> a, local |-> FALSE, state |-> 4])]
recv_handshake(i) ==
  /\ turn = "post" /\ m_links' = RemoveAt(m_links, i)
  /\ (\E f \in Torrents : insert_peer(f, m_links[i].a)) \/ UNCHANGED m_peers
  /\ UNCHANGED <<turn, listens, state, m_new_peers, backlog, config, ops>>

\* A link is shaken, or is lost.
peer_post_select(f, i) ==
  /\ turn = "post" /\ m_peers[f][i].state # -1
  /\ \/ m_peers[f][i].state # 3 /\ m_peers' = [m_peers EXCEPT ![f][i].state = 3]
     \/ m_peers' = [m_peers EXCEPT ![f] = RemoveAt(@, i)]
  /\ UNCHANGED <<turn, listens, state, m_new_peers, m_links, backlog, config, ops>>
end_of_turn ==
  /\ turn = "post" /\ turn' = "between"
  /\ m_links' = at(m_links, {i \in DOMAIN m_links : m_links[i].age <= LinkTime})
  /\ UNCHANGED <<listens, state, m_new_peers, m_peers, backlog, config, ops>>

-----------------------------------------------------------------------------
(* The user's thread, trackers and other peers.                            *)

unlocked == turn # "post" /\ ops < MaxOps /\ ops' = ops + 1
peer_connect(f, a) ==
  /\ unlocked /\ m_new_peers' = [m_new_peers EXCEPT ![f] = @ \cup {a}]
  /\ UNCHANGED <<turn, listens, state, m_peers, m_links, backlog, config>>
\* The first of the address is closed; it stays until the next turn.
disconnected(links, a) ==
  LET found == {i \in DOMAIN links : links[i].a = a}
  IN IF found = {} THEN links ELSE [links EXCEPT ![Min(found)].state = -1]
peer_disconnect(f, a) ==
  /\ unlocked /\ m_peers' = [m_peers EXCEPT ![f] = disconnected(@, a)]
  /\ UNCHANGED <<turn, listens, state, m_new_peers, m_links, backlog, config>>
\* Connections without a handshake are left alone.
peer_block(a) ==
  /\ unlocked /\ m_peers' = [f \in Torrents |-> disconnected(m_peers[f], a)]
  /\ m_block_list' = m_block_list \cup {a}
  /\ excused' = IF block_list_has(a) \/ ~(\E i \in DOMAIN m_links : m_links[i].a = a)
                THEN excused ELSE excused \cup {a}
  /\ UNCHANGED <<turn, listens, state, m_new_peers, m_links, backlog, m_peer_limit>>
\* The dialog only takes addresses from the list.
set_block_list(s) ==
  /\ unlocked /\ m_block_list' = s /\ excused' = excused \cap s
  /\ UNCHANGED <<turn, listens, state, m_new_peers, m_peers, m_links, backlog, m_peer_limit>>
peer_limit(v) ==
  /\ unlocked /\ m_peer_limit' = v
  /\ UNCHANGED <<turn, listens, state, m_new_peers, m_peers, m_links, backlog, m_block_list, excused>>
file_state(f, s) ==
  /\ unlocked /\ state[f] # s /\ state' = [state EXCEPT ![f] = s]
  /\ m_peers' = IF s = "closed" THEN [m_peers EXCEPT ![f] = <<>>] ELSE m_peers
  /\ UNCHANGED <<turn, listens, m_new_peers, m_links, backlog, config>>

connects(a) ==
  /\ turn = "select" /\ Len(backlog) + Len(m_links) < MaxBacklog /\ backlog' = Append(backlog, a)
  /\ UNCHANGED <<turn, listens, state, m_new_peers, m_peers, m_links, config, ops>>
second ==
  /\ turn = "select" /\ (\E i \in DOMAIN m_links : m_links[i].age <= LinkTime)
  /\ m_links' = [i \in DOMAIN m_links |-> [m_links[i] EXCEPT !.age = Min({@ + 1, LinkTime + 1})]]
  /\ UNCHANGED <<turn, listens, state, m_new_peers, m_peers, backlog, config, ops>>

Init ==
  /\ turn = "between" /\ listens = FALSE /\ state = [f \in Torrents |-> "running"]
  /\ m_new_peers = [f \in Torrents |-> {}] /\ m_peers = [f \in Torrents |-> <<>>]
  /\ m_links = <<>> /\ backlog = <<>> /\ m_block_list = {} /\ m_peer_limit \in Limits
  /\ ops = 0 /\ excused = {}
Next ==
  \/ pre_select \/ accept \/ end_of_turn \/ second
  \/ \E i \in DOMAIN m_links : recv_handshake(i)
  \/ \E f \in Torrents : \E i \in DOMAIN m_peers[f] : peer_post_select(f, i)
  \/ \E f \in Torrents, a \in Addresses : peer_connect(f, a) \/ peer_disconnect(f, a)
  \/ \E a \in Addresses : peer_block(a) \/ connects(a)
  \/ \E s \in SUBSET m_block_list : set_block_list(s)
  \/ \E v \in Limits : peer_limit(v)
  \/ \E f \in Torrents, s \in {"running", "paused", "closed"} : file_state(f, s)
Spec == Init /\ [][Next]_vars

-----------------------------------------------------------------------------
(* Properties.                                                             *)

\* A torrent has one link with an address at most, whether we or the peer connected and however both
\* cross, and none when it is closed.
OneLinkEach == \A f \in Torrents :
  /\ \A i, j \in DOMAIN m_peers[f] : i # j => m_peers[f][i].a # m_peers[f][j].a
  /\ state[f] = "closed" => m_peers[f] = <<>>

\* Who is blocked has no link with any torrent, but for one that had connected and not sent its
\* handshake: that is let in.
BlockedOut == \A f \in Torrents : \A i \in DOMAIN m_peers[f] :
  LET l == m_peers[f][i] IN
    l.state # -1 /\ block_list_has(l.a) => ~l.local /\ l.a \in excused

\* A link of our own is made only within the limit, that of all torrents together.
locals(peers) ==
  {t \in Torrents \X Addresses : \E i \in DOMAIN peers[t[1]] : peers[t[1]][i].local /\ peers[t[1]][i].a = t[2]}
OwnWithinLimit ==
  [][locals(m_peers') \subseteq locals(m_peers) \/ m_peer_limit = 0 \/ c_peers(m_peers') <= m_peer_limit]_vars
===============================================================================
