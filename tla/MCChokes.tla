------------------------------- MODULE MCChokes -------------------------------
(* Values for TLC: two torrents, the first with two peers. *)
EXTENDS Chokes, TLC
CONSTANTS p1, p2, p3, p4, f1, f2

trait(rate, interested_, local, seed) ==
  [rate |-> rate, interested |-> interested_, local |-> local, seed |-> seed]
Kinds == {trait(0, FALSE, FALSE, FALSE), trait(1, FALSE, TRUE, FALSE), trait(2, TRUE, TRUE, FALSE),
          trait(1, TRUE, FALSE, FALSE), trait(0, TRUE, TRUE, FALSE), trait(0, TRUE, FALSE, FALSE),
          trait(0, TRUE, TRUE, TRUE)}
TwoTorrents == p1 :> f1 @@ p2 :> f1 @@ p3 :> f2
Minimums == f1 :> 0 @@ f2 :> 1
Maximums == f1 :> 1 @@ f2 :> 0

Leecher == {trait(0, TRUE, TRUE, FALSE)}
OneTorrent == [p \in {p1, p2, p3, p4} |-> f1]
NoLimits == f1 :> 0

Symmetry == Permutations({p1, p2})
===============================================================================
