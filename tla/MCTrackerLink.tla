---------------------------- MODULE MCTrackerLink ----------------------------
(* Values for TLC: an HTTP tracker, a UDP tracker and a URL that is not valid. *)
EXTENDS TrackerLink
CONSTANTS h, u, x

Mixed == (h :> "http") @@ (u :> "udp") @@ (x :> "bad")
Few == {<<u, h>>, <<h>>}
Some == ("user" :> 2) @@ ("network" :> 1)

OnlyUdp == u :> "udp"
Alone == {<<u>>}
Calm == ("user" :> 0) @@ ("network" :> 0)
===============================================================================
