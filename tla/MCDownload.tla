------------------------------ MODULE MCDownload ------------------------------
(* Values for TLC: two pieces, the first of two sub-pieces, the second of one. *)
EXTENDS Download, TLC

Two == <<2, 1>>
Equal == <<0, 0>>

none == [k \in Kind |-> 0]
Faulty == [none EXCEPT !["bad"] = 1, !["write"] = 1, !["drop"] = 1]
Restarts == [none EXCEPT !["odd"] = 1, !["choke"] = 1, !["command"] = 1, !["save"] = 1,
                         !["crash"] = 1, !["lose"] = 1]

Symmetry == Permutations(Link)
===============================================================================
