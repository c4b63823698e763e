--------------------------------- MODULE MCLive ---------------------------------
(* Small instances of what must go on in the XBT Client, in one run of TLC: a     *)
(* torrent is announced again and again to its trackers, and is downloaded in the *)
(* end.  Which one it is, is chosen at the start.                                *)
EXTENDS MCTrackerLink, TLC

VARIABLES part, download, disk, saved, up, turn, faults

none == [k \in {"choke", "bad", "odd", "write", "drop", "command", "save", "crash", "lose"} |-> 0]
Links == {"l1", "l2"}
Fetching == INSTANCE Download WITH
  Link <- Links, Reliable <- {"l1"}, Pieces <- 1, SubPieces <- <<2>>, Priority <- <<0>>,
  BeginPieces <- 1, Window <- 2,
  Budget <- [none EXCEPT !["choke"] = 1, !["bad"] = 1, !["drop"] = 1],
  torrent <- download, budget <- faults

fetching == <<download, disk, saved, up, turn, faults>>
all == <<part, vars, fetching>>

InitLive ==
  /\ part \in {"announces", "download"}
  /\ Init /\ (part = "announces" \/ trackers = <<u, h>>)
  /\ Fetching!Init /\ (part = "download" \/ \A c \in DOMAIN disk : disk[c] = "none")
NextLive ==
  \/ part = "announces" /\ Next /\ UNCHANGED <<part, fetching>>
  \/ part = "download" /\ Fetching!Next /\ UNCHANGED <<part, vars>>

\* The fairness of TrackerLink and of Download.  The actions of the one that is not chosen cannot be
\* taken.
announcing(A) == part = "announces" /\ A
downloading(A) == part = "download" /\ A
FairAnnounces ==
  /\ WF_vars(announcing(pre_select)) /\ WF_vars(announcing(timed_out)) /\ WF_vars(announcing(elapse))
  /\ WF_vars(announcing(hashed)) /\ WF_vars(announcing(http_step))
  /\ WF_vars(announcing(post_select /\ url \in Reliable))
FairDownload ==
  /\ WF_fetching(downloading(Fetching!hash_piece)) /\ WF_fetching(downloading(Fetching!hash_done))
  /\ WF_fetching(downloading(Fetching!update_states)) /\ WF_fetching(downloading(Fetching!start))
  /\ \A l \in Links : /\ WF_fetching(downloading(Fetching!finish_turn(l)))
                      /\ SF_fetching(downloading(Fetching!timer(l)))
  /\ LET l == "l1" IN
       /\ WF_fetching(downloading(Fetching!connect(l)))
       /\ SF_fetching(downloading(Fetching!read_handshake(l)))
       /\ SF_fetching(downloading(Fetching!read_unchoke(l)))
       /\ SF_fetching(downloading(Fetching!has_everything(l)))
       /\ SF_fetching(downloading(Fetching!answers(l)))
SpecLive == InitLive /\ [][NextLive]_all /\ FairAnnounces /\ FairDownload

AnnouncesGoOn == part = "announces" => KeepsAnnouncing
Completes == part = "download" => Fetching!Completes
================================================================================
