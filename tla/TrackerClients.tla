---------------------------- MODULE TrackerClients ----------------------------
(***************************************************************************)
(* The tracker with the clients that announce to it.  A client counts, for *)
(* each of its torrents (Cbt_file), the bytes it really moved              *)
(* (m_downloaded and m_uploaded) and sends them in announces, which the    *)
(* network delivers in the order of sending or loses.  The tracker credits *)
(* users from those announces, and keeps what it credits in two tables,    *)
(* per user and per torrent and user.                                      *)
(***************************************************************************)
EXTENDS Tracker, Sequences, FiniteSetsExt

CONSTANTS
  Block,       \* the byte counts one step of a client may add
  MaxMoved,    \* bound on the bytes all clients together ever move
  MaxInFlight  \* announces of one Cbt_file under way

ASSUME ClientBoundsAssumption ==
  Block \subseteq Bytes /\ MaxMoved \in Nat /\ MaxInFlight \in Nat

\* One torrent of one client.
Cbt_file == PeerId \X Hash

VARIABLES
  client,  \* per Cbt_file: the user whose torrent_pass it announces with, its byte counters
  flight,  \* per Cbt_file: its announces under way
  moved    \* per user: what its clients really moved

clientVars == <<client, flight, moved>>
allVars == <<vars, clientVars>>

all_moved == FoldSet(LAMBDA u, acc : Plus(moved[u], acc), NoBytes, Uid)

Session(u) == [uid |-> u, downloaded |-> 0, uploaded |-> 0]

InitClients ==
  /\ Init
  /\ client \in [Cbt_file -> {Session(u) : u \in Uid}]
  /\ flight = [f \in Cbt_file |-> <<>>]
  /\ moved = [u \in Uid |-> NoBytes]

\* A block goes in or out: Cbt_peer_link counts it in the file's counters.
move(f, n) ==
  LET u == client[f].uid
      c == Plus(client[f], n)
  IN /\ all_moved.downloaded + all_moved.uploaded < MaxMoved
     /\ c.downloaded <= MaxBytes /\ c.uploaded <= MaxBytes
     /\ moved' = [moved EXCEPT ![u] = Plus(@, n)]
     /\ client' = [client EXCEPT ![f] = [uid |-> u, downloaded |-> c.downloaded,
                                         uploaded |-> c.uploaded]]
     /\ UNCHANGED <<vars, flight>>

\* http_request puts the counters of that moment into the announce.
announce_of(f, event) ==
  [in |-> [info_hash |-> f[2], peer_id |-> f[1], event |-> event, left |-> TRUE,
           downloaded |-> client[f].downloaded, uploaded |-> client[f].uploaded],
   uid |-> client[f].uid]

send(f) ==
  /\ Len(flight[f]) < MaxInFlight
  /\ flight' = [flight EXCEPT ![f] = Append(@, announce_of(f, "none"))]
  /\ UNCHANGED <<vars, client, moved>>

\* Cbt_file::close sends "stopped" and resets the counters; the next session may be another user's.
close(f, next) ==
  /\ Len(flight[f]) < MaxInFlight
  /\ flight' = [flight EXCEPT ![f] = Append(@, announce_of(f, "stopped"))]
  /\ client' = [client EXCEPT ![f] = Session(next)]
  /\ UNCHANGED <<vars, moved>>

\* A client that dies takes its torrents with it: they start again from the counters zero,
\* and nothing is said.
die(p, next) ==
  /\ client' = [f \in Cbt_file |-> IF f[1] = p THEN Session(next[f[2]]) ELSE client[f]]
  /\ UNCHANGED <<vars, flight, moved>>

\* An announce over UDP is anonymous, and so is one whose user the tracker has not loaded.
deliver(f, udp) ==
  LET a == Head(flight[f])
      uid == IF udp THEN 0 ELSE find_user_by_torrent_pass("none", a.uid, 0)
  IN /\ up /\ flight[f] # <<>>
     /\ \/ IF udp THEN announce_udp(a.in) ELSE announce_http(a.in, "none", a.uid, 0)
        \/ refused(a.in, uid) /\ UNCHANGED vars
     /\ flight' = [flight EXCEPT ![f] = Tail(@)]
     /\ UNCHANGED <<client, moved>>

lose(f) ==
  /\ flight[f] # <<>>
  /\ flight' = [flight EXCEPT ![f] = Tail(@)]
  /\ UNCHANGED <<vars, client, moved>>

NextClients ==
  \/ \E f \in Cbt_file :
       \/ \E n \in Block : move(f, n)
       \/ send(f) \/ \E u \in Uid : close(f, u)
       \/ \E udp \in BOOLEAN : deliver(f, udp)
       \/ lose(f)
  \/ \E p \in PeerId, next \in [Hash -> Uid] : die(p, next)
  \/ (Housekeeping \/ start \/ stop \/ crash \/ tick) /\ UNCHANGED clientVars

SpecClients == InitClients /\ [][NextClients]_allVars

-----------------------------------------------------------------------------
(* Properties.                                                             *)

\* Clients, what they sent and what they moved have their types; an announce is about the
\* Cbt_file that sent it.
Announced == [in: Input, uid: Uid]
TypeOKClients ==
  /\ client \in [Cbt_file -> [uid: Uid, downloaded: 0..MaxBytes, uploaded: 0..MaxBytes]]
  /\ flight \in [Cbt_file -> Seq(Announced)]
  /\ \A f \in Cbt_file :
       /\ Len(flight[f]) <= MaxInFlight
       /\ \A i \in 1..Len(flight[f]) : <<flight[f][i].in.peer_id, flight[f][i].in.info_hash>> = f
  /\ moved \in [Uid -> Bytes]

AtMost(a, b) == a.downloaded <= b.downloaded /\ a.uploaded <= b.uploaded

\* What a user is credited with, in the table or in the buffer.
credit(u) == Plus(dbUsers[u].bytes, Get(owedUsers, u))

\* A user's rows of a table or buffer of <<tid, uid>>, added up.
rows_of(rows, u) ==
  LET sum[i \in 0..MaxTid] == IF i = 0 THEN NoBytes ELSE Plus(sum[i - 1], Get(rows, <<i, u>>))
  IN sum[MaxTid]

\* A user is never credited with more than its clients moved: across lost announces, timeouts,
\* restarts of client and tracker, counters that start again, several users behind one
\* peer id, and announces over UDP.
NoOverCredit == \A u \in DOMAIN dbUsers : AtMost(credit(u), moved[u])

\* As long as no query failed, a user's totals in xbt_users are the sum of that user's
\* rows of xbt_peers, counting what is still buffered for either.
AccountsAgree ==
  faults = 0 =>
    \A u \in DOMAIN dbUsers : credit(u) = Plus(rows_of(dbPeers, u), rows_of(owedPeers, u))

\* No user is credited with bytes twice, and the totals of users are the sums of their peers' rows.
ClientsCredited == NoOverCredit /\ AccountsAgree
=============================================================================
