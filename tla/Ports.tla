---------------------------------- MODULE Ports ----------------------------------
(***************************************************************************)
(* The port the XBT Client listens on (src/BT Test/server.cpp, Cserver::run): *)
(* the configured one, or the first above it no other program has; while it  *)
(* is another one, each turn of the loop tries the configured one again.     *)
(* Trackers are told m_peer_port.  The port of the admin interface is kept    *)
(* likewise.                                                               *)
(***************************************************************************)
EXTENDS Integers

CONSTANTS
  LowPort, HighPort,  \* ports, the last of which stands for 0xffff
  MaxChanges    \* bound: changes of the configuration and of the ports others have

VARIABLES
  is_up,
  config_port,  \* m_config.m_peer_port, 0 for none
  m_peer_port,
  l,            \* the port the socket listens on: 0 when it is closed, Any when the system chose it
  others,        \* the ports other programs have
  changes,
  turned        \* history: nothing has changed since the last turn

vars == <<is_up, config_port, m_peer_port, l, others, changes, turned>>
Numbers == LowPort..HighPort
Any == -1
free(p, mine) == p \in Numbers \ others /\ p # mine

\* The first port not in use.  With none left the socket is not bound, and the system chooses.
first_free(from) ==
  CHOOSE p \in from..(HighPort + 1) : p \notin others /\ \A q \in from..(p - 1) : q \in others
run ==
  /\ ~is_up /\ is_up' = TRUE
  /\ IF config_port = 0 THEN m_peer_port' = 0 /\ l' = 0
     ELSE /\ m_peer_port' = first_free(config_port)
          /\ l' = IF m_peer_port' \in Numbers THEN m_peer_port' ELSE Any
  /\ turned' = FALSE /\ UNCHANGED <<config_port, others, changes>>

\* The new socket takes the place of the old one when it listens.
rebound == config_port # m_peer_port
turn ==
  /\ is_up /\ turned' = TRUE
  /\ IF ~rebound THEN UNCHANGED <<m_peer_port, l>>
     ELSE IF config_port = 0 THEN m_peer_port' = 0 /\ l' = 0
     ELSE IF free(config_port, l) THEN m_peer_port' = config_port /\ l' = config_port
     ELSE UNCHANGED <<m_peer_port, l>>
  /\ UNCHANGED <<is_up, config_port, others, changes>>

stop ==
  /\ is_up /\ is_up' = FALSE /\ l' = 0 /\ turned' = FALSE
  /\ UNCHANGED <<config_port, m_peer_port, others, changes>>

one_more == changes < MaxChanges /\ changes' = changes + 1 /\ turned' = FALSE
peer_port(v) == one_more /\ config_port' = v /\ UNCHANGED <<is_up, m_peer_port, l, others>>
others_take(p) == one_more /\ free(p, l) /\ others' = others \cup {p} /\ UNCHANGED <<is_up, config_port, m_peer_port, l>>
others_give(p) == one_more /\ p \in others /\ others' = others \ {p} /\ UNCHANGED <<is_up, config_port, m_peer_port, l>>

Init ==
  /\ is_up = FALSE /\ config_port \in {0} \cup Numbers /\ m_peer_port = 0 /\ l = 0
  /\ others \in SUBSET Numbers /\ changes = 0 /\ turned = FALSE
Next ==
  \/ run \/ turn \/ stop
  \/ \E v \in {0} \cup Numbers : peer_port(v)
  \/ \E p \in Numbers : others_take(p) \/ others_give(p)
Spec == Init /\ [][Next]_vars

-----------------------------------------------------------------------------
(* Properties.                                                             *)

\* Peers find us where the trackers were told, unless all ports from the configured one on were
\* others; and once other programs leave the configured port alone a turn is enough to be there.
ReachedWhereTold == is_up =>
  /\ l \in {m_peer_port, Any} /\ (l = Any => m_peer_port = HighPort + 1)
  /\ turned /\ m_peer_port # config_port => config_port \in others
===============================================================================
