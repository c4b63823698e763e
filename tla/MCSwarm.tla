-------------------------------- MODULE MCSwarm --------------------------------
(* Two small instances in one run of TLC: swarms of the tracker by itself, and *)
(* the tracker with clients that count the bytes they move.  Which one it is,  *)
(* is chosen at the start.                                                     *)
EXTENDS TrackerClients

VARIABLE part

Configured(auto) == {[auto_register |-> b, anonymous_announce |-> TRUE, offline |-> FALSE] : b \in auto}
Auto == Configured({TRUE})
Registered == Configured({FALSE})
Either == Configured(BOOLEAN)
Row(pass, limit, wait, leech) ==
  [pass |-> pass, version |-> 0, can_leech |-> leech, peers_limit |-> limit, wait_time |-> wait]
NoRows == {Row("none", 0, 0, TRUE)}
WaitRows == {Row("a", 1, 0, TRUE), Row("a", 1, 1, TRUE)}
OneWay == {[downloaded |-> 0, uploaded |-> 1]}

Swarm == INSTANCE Tracker WITH Uid <- {1}, Config <- Auto, MaxBytes <- 0, MaxFaults <- 0
Credit == INSTANCE TrackerClients WITH
  PeerId <- {CHOOSE p \in PeerId : TRUE}, Pass <- {}, Config <- Registered, UserRow <- NoRows,
  MaxTime <- 2, MaxCompleted <- 0

all == <<allVars, part>>
InitSwarm ==
  \/ /\ part = "swarm" /\ Swarm!Init
     /\ client = Empty /\ flight = Empty /\ moved = [u \in Uid |-> NoBytes]
  \/ part = "credit" /\ Credit!InitClients
swarm(A) == part = "swarm" /\ A /\ UNCHANGED <<clientVars, part>>
NextSwarm == swarm(Swarm!Next) \/ (part = "credit" /\ Credit!NextClients /\ UNCHANGED part)

\* What is needed of the first instance's FairSpec.
SpecSwarm ==
  /\ InitSwarm /\ [][NextSwarm]_all
  /\ WF_all(swarm(Swarm!clean_up)) /\ WF_all(swarm(Swarm!start))

\* A peer that no longer announces is dropped from the swarm.
SwarmSilentPeerDropped == part = "swarm" => Swarm!SilentPeerDropped
=============================================================================
