-------------------------- MODULE TrackerLinkProofs --------------------------
(***************************************************************************)
(* Proofs about TrackerLink for any trackers, lists, budgets and any bound *)
(* on the attempts.  Only RetriesPause depends on how long the link waits. *)
(***************************************************************************)
EXTENDS TrackerLink, NatInduction, TLAPS

\* The part of the type that counting depends on.
Places ==
  /\ trackers \in Seq(Url) /\ state \in 0..4 /\ current \in Nat /\ attempts \in Nat
Counted == Places /\ RequestCounted

-----------------------------------------------------------------------------
(* Counting.                                                               *)

\* An attempt counts at least one.
LEMMA OneMore == ASSUME attempts \in Nat PROVE one_more \in Nat /\ one_more > 0
BY TrackerLinkAssumption DEF one_more, AtMost

\* Two trackers that change places leave a list of trackers.
LEMMA SwapList ==
  ASSUME trackers \in Seq(Url), NEW i \in Nat, i < Len(trackers)
  PROVE  swapped(i) \in Seq(Url)
<1>1. trackers \in [1..Len(trackers) -> Url] /\ Len(trackers) \in Nat OBVIOUS
<1>2. 1 \in 1..Len(trackers) /\ i + 1 \in 1..Len(trackers) BY <1>1
<1>3. trackers[1] \in Url /\ trackers[i + 1] \in Url BY <1>1, <1>2
<1> DEFINE first == [trackers EXCEPT ![1] = trackers[i + 1]]
<1>4. first \in [1..Len(trackers) -> Url] BY <1>1, <1>3
<1>5. [first EXCEPT ![i + 1] = trackers[1]] \in [1..Len(trackers) -> Url]
  <2> HIDE DEF first
  <2> QED BY <1>3, <1>4
<1>6. swapped(i) = [first EXCEPT ![i + 1] = trackers[1]] BY DEF swapped, tracker
<1>7. swapped(i) \in [1..Len(trackers) -> Url] BY <1>5, <1>6
<1> HIDE DEF swapped
<1> QED BY <1>1, <1>7

\* What memory may hold where the first tracker was is still a list of trackers.
LEMMA SpoiltList ==
  ASSUME trackers \in Seq(Url), NEW list \in spoilt
  PROVE  list \in Seq(Url)
<1>1. DOMAIN trackers = 1..Len(trackers) /\ Len(trackers) \in Nat OBVIOUS
<1>2. list \in [1..Len(trackers) -> Url] BY <1>1 DEF spoilt
<1> QED BY <1>1, <1>2

\* When a request is closed, even with a place beyond the end of the list, the link is idle and
\* the list is a list.
LEMMA CloseCounted ==
  ASSUME Places, NEW n \in Nat, NEW i \in Nat, close(n, i)
  PROVE  Counted'
<1>1. CASE n = 0
  <2>1. trackers' \in (IF i < Len(trackers) THEN {swapped(i)} ELSE spoilt)
        /\ attempts' = 0 /\ current' = 0 /\ state' = 0
    BY <1>1 DEF close
  <2>2. trackers' \in Seq(Url)
    <3>1. CASE i < Len(trackers) BY <2>1, <3>1, SwapList DEF Places
    <3>2. CASE ~(i < Len(trackers)) BY <2>1, <3>2, SpoiltList DEF Places
    <3> QED BY <3>1, <3>2
  <2> QED BY <2>1, <2>2 DEF Counted, Places, RequestCounted
<1>2. CASE n # 0
  <2>1. /\ trackers' = trackers /\ state' = 0
        /\ \/ attempts' = n - 1 /\ current' = i + 1
           \/ attempts' = n /\ current' = 0
    BY <1>2 DEF close
  <2> QED BY <1>2, <2>1 DEF Counted, Places, RequestCounted
<1> QED BY <1>1, <1>2

\* The place the link looks at next is in the list when the list is not empty.
LEMMA AtInList ==
  ASSUME Places, may_start
  PROVE  at \in Nat /\ at < Len(trackers)
<1>1. Len(trackers) \in Nat /\ Len(trackers) > 0 BY DEF Places, may_start
<1> QED BY <1>1 DEF Places, at

LEMMA InitCounted == Init => Counted
BY TrackerLinkAssumption DEF Init, Counted, Places, RequestCounted

LEMMA NextCounted == Counted /\ [Next]_vars => Counted'
<1> SUFFICES ASSUME Counted, [Next]_vars PROVE Counted'
  OBVIOUS
<1>p. Places BY DEF Counted
<1>0. CASE rewind BY <1>0 DEF rewind, Counted, Places, RequestCounted
<1>1. CASE pre_select /\ ~rewind
  <2> SUFFICES ASSUME NEW u \in Url,
                      start_invalid(u) \/ start_failing(u) \/ start_unknown(u) \/ start(u)
               PROVE  Counted'
    BY <1>1 DEF pre_select
  <2>1. may_start BY DEF start_invalid, start_failing, start_unknown, start, begin
  <2>2. at \in Nat /\ at < Len(trackers) BY <1>p, <2>1, AtInList
  <2>3. one_more \in Nat /\ one_more > 0 BY <1>p, OneMore DEF Places
  <2>4. CASE start_invalid(u) \/ start_unknown(u)
    <3>1. close(one_more, at) BY <2>4 DEF start_invalid, start_unknown
    <3> QED BY <1>p, <2>2, <2>3, <3>1, CloseCounted
  <2>5. CASE start_failing(u)
    <3>1. attempts' = one_more /\ current' = at /\ trackers' = trackers /\ state' = 0
      BY <2>1, <2>5 DEF start_failing, may_start
    <3> QED BY <1>p, <2>2, <2>3, <3>1 DEF Counted, Places, RequestCounted
  <2>6. CASE start(u)
    <3>1. attempts' = one_more /\ current' = at /\ trackers' = trackers /\ state' \in {1, 3}
      BY <2>6 DEF start
    <3>2. url' = u /\ u = tracker(at) BY <2>6 DEF start, begin, choose
    <3>3. tracker(current)' = url' BY <3>1, <3>2 DEF tracker
    <3> QED BY <1>p, <2>2, <2>3, <3>1, <3>3 DEF Counted, Places, RequestCounted
  <2> QED BY <2>4, <2>5, <2>6
<1>2. CASE post_select
  <2>1. state # 0
    BY <1>2 DEF post_select, http_step, udp_step, http_writable, udp_connected, failed,
                answered, timed_out, dies, in_state
  <2>2. attempts \in Nat /\ attempts > 0 /\ current \in Nat
    BY <1>p, <2>1 DEF Counted, Places, RequestCounted
  <2>3. CASE close(attempts, current) \/ close(0, current)
    BY <1>p, <2>2, <2>3, CloseCounted
  <2>4. CASE state' \in {2, 4} /\ kept /\ UNCHANGED <<trackers, attempts, current>>
    <3>1. tracker(current)' = tracker(current) BY <2>4 DEF tracker
    <3> QED BY <1>p, <2>1, <2>2, <2>4, <3>1 DEF Counted, Places, RequestCounted, kept
  <2>5. CASE dies
    <3>1. trackers' \in Seq(Url) BY <2>5, TrackerLinkAssumption DEF dies
    <3> QED BY <2>5, <3>1 DEF dies, Counted, Places, RequestCounted
  <2> QED BY <1>2, <2>3, <2>4, <2>5 DEF post_select, http_step, udp_step, http_writable,
               udp_connected, failed, answered, timed_out
<1>3. CASE user
  <2>1. CASE announce \/ completed \/ stop \/ open \/ pause \/ resume
    BY <2>1 DEF announce, completed, stop, open, pause, resume, link, tracker,
                Counted, Places, RequestCounted
  <2>2. ASSUME NEW u \in Url, add_tracker(u) PROVE Counted'
    <3>1. trackers' = Append(trackers, u) /\ UNCHANGED <<state, current, attempts, url, listed>>
      BY <2>2 DEF add_tracker, link
    <3>2. /\ Len(trackers) \in Nat /\ trackers' \in Seq(Url) /\ Len(trackers') = Len(trackers) + 1
          /\ \A c \in 1..Len(trackers) : trackers'[c] = trackers[c]
      BY <1>p, <3>1 DEF Places
    <3>3. state # 0 /\ listed => current < Len(trackers') /\ tracker(current)' = url
      <4> SUFFICES ASSUME state # 0, listed PROVE current < Len(trackers') /\ tracker(current)' = url
        OBVIOUS
      <4>1. current \in Nat /\ current < Len(trackers) /\ trackers[current + 1] = url
        BY <1>p DEF Counted, Places, RequestCounted, tracker
      <4>2. current + 1 \in 1..Len(trackers) BY <3>2, <4>1
      <4> QED BY <3>1, <3>2, <4>1, <4>2 DEF tracker
    <3> QED BY <3>1, <3>2, <3>3 DEF Counted, Places, RequestCounted
  <2>3. ASSUME NEW list \in Lists, set_trackers(list) PROVE Counted'
    <3>1. trackers' = list /\ listed' = FALSE /\ UNCHANGED <<state, current, attempts>>
      BY <2>3 DEF set_trackers, link
    <3>2. list \in Seq(Url) BY TrackerLinkAssumption
    <3> QED BY <3>1, <3>2 DEF Counted, Places, RequestCounted
  <2> QED BY <1>3, <2>1, <2>2, <2>3 DEF user
<1>4. CASE hashed \/ elapse \/ UNCHANGED vars
  BY <1>4 DEF hashed, elapse, pass, link, vars, tracker, Counted, Places, RequestCounted
<1> QED BY <1>0, <1>1, <1>2, <1>3, <1>4 DEF Next

\* Whenever a request is under way it has been counted; unless the user has replaced the list
\* since, close finds the tracker that was asked at its place (pre_select, post_select, close,
\* add_tracker, set_trackers).
THEOREM RequestsCounted == Spec => []RequestCounted
<1>1. Counted => RequestCounted BY DEF Counted
<1> QED BY <1>1, InitCounted, NextCounted, PTL DEF Spec

-----------------------------------------------------------------------------
(* Announces of a stopped torrent.                                         *)

\* While the torrent is not stopped none is counted; once one is counted the link is past the
\* states from which it announces, and only a running torrent starts a request.
Quiet ==
  /\ late \in {0, 1}
  /\ torrent # "stopped" => late = 0
  /\ late = 1 => state \notin {1, 3}

LEMMA InitQuiet == Init => Quiet
BY DEF Init, Quiet

LEMMA NextQuiet == Quiet /\ [Next]_vars => Quiet'
<1> SUFFICES ASSUME Quiet, [Next]_vars PROVE Quiet'
  OBVIOUS
<1>0. CASE rewind \/ dies BY <1>0 DEF rewind, dies, Quiet
<1>1. CASE pre_select /\ ~rewind
  <2> SUFFICES ASSUME NEW u \in Url,
                      start_invalid(u) \/ start_failing(u) \/ start_unknown(u) \/ start(u)
               PROVE  Quiet'
    BY <1>1 DEF pre_select
  <2>1. torrent = "running" /\ torrent' = torrent /\ late' = late
    BY DEF start_invalid, start_failing, start_unknown, start, begin, may_start
  <2> QED BY <2>1 DEF Quiet
<1>2. ASSUME announced, torrent' = torrent, state \in {1, 3}, state' \in {2, 4} PROVE Quiet'
  <2>1. late = 0 BY <1>2 DEF Quiet
  <2>2. late' \in {0, 1} /\ (torrent # "stopped" => late' = 0)
    BY <1>2, <2>1 DEF announced, AtMost
  <2> QED BY <1>2, <2>2 DEF Quiet
<1>3. ASSUME NEW n, NEW i, close(n, i), torrent' = torrent, late' = late PROVE Quiet'
  BY <1>3 DEF close, Quiet
<1>4. CASE http_writable
  <2>1. torrent' = torrent /\ state = 1 BY <1>4 DEF http_writable, in_state, kept
  <2>2. (announced /\ state' = 2) \/ (not_announced /\ close(attempts, current))
    BY <1>4 DEF http_writable
  <2> QED BY <1>2, <1>3, <2>1, <2>2 DEF not_announced
<1>5. CASE udp_connected
  <2>1. torrent' = torrent /\ state = 3 BY <1>5 DEF udp_connected, in_state, kept
  <2>2. (announced /\ state' = 4) \/ (not_announced /\ close(attempts, current))
    BY <1>5 DEF udp_connected
  <2> QED BY <1>2, <1>3, <2>1, <2>2 DEF not_announced
<1>6. CASE failed({1, 2}) \/ failed({4}) \/ answered({2}) \/ answered({4}) \/ timed_out
  <2>1. torrent' = torrent /\ late' = late BY <1>6 DEF failed, answered, timed_out, kept
  <2>2. close(attempts, current) \/ close(0, current) BY <1>6 DEF failed, answered, timed_out
  <2> QED BY <1>3, <2>1, <2>2
<1>7. CASE user
  <2>1. CASE stop
    BY <2>1 DEF stop, Quiet
  <2>2. CASE open
    BY <2>2 DEF open, Quiet
  <2>3. CASE announce \/ completed
    BY <2>3 DEF announce, completed, Quiet
  <2>4. CASE pause \/ resume
    BY <2>4 DEF pause, resume, link, Quiet
  <2>5. ASSUME NEW u \in Url, add_tracker(u) PROVE Quiet'
    BY <2>5 DEF add_tracker, link, Quiet
  <2>6. ASSUME NEW list \in Lists, set_trackers(list) PROVE Quiet'
    BY <2>6 DEF set_trackers, link, Quiet
  <2> QED BY <1>7, <2>1, <2>2, <2>3, <2>4, <2>5, <2>6 DEF user
<1>8. CASE hashed \/ elapse \/ UNCHANGED vars
  BY <1>8 DEF hashed, elapse, pass, link, vars, Quiet
<1> QED BY <1>0, <1>1, <1>4, <1>5, <1>6, <1>7, <1>8 DEF Next, post_select, http_step, udp_step

\* After a torrent is stopped at most one announce of the request under way goes out
\* (post_select does not look at the torrent's state, pre_select does).
THEOREM StopQuietsLink == Spec => []StopQuiets
<1>1. Quiet => StopQuiets BY DEF Quiet, StopQuiets
<1> QED BY <1>1, InitQuiet, NextQuiet, PTL DEF Spec

-----------------------------------------------------------------------------
(* The waits.                                                              *)

\* The shifts of a base are what the recursion says.
shifts(f, base, n) == f = [i \in 0..n |-> IF i = 0 THEN base ELSE doubled(f[i - 1])]

LEMMA ShiftsExist ==
  ASSUME NEW base, NEW n \in Nat
  PROVE  \E f : shifts(f, base, n) /\ shifted(base, n) = f[n]
<1> DEFINE S == {k \in Nat : \E f : shifts(f, base, k)}
<1>1. 0 \in S
  <2> DEFINE f == [i \in 0..0 |-> base]
  <2>1. shifts(f, base, 0) BY DEF shifts
  <2> QED BY <2>1
<1>2. ASSUME NEW k \in Nat, k \in S PROVE k + 1 \in S
  <2>1. PICK f : shifts(f, base, k) BY <1>2
  <2> DEFINE g == [i \in 0..(k + 1) |-> IF i = k + 1 THEN doubled(f[k]) ELSE f[i]]
  <2>2. ASSUME NEW i \in 0..(k + 1) PROVE g[i] = IF i = 0 THEN base ELSE doubled(g[i - 1])
    <3>1. CASE i = 0 BY <2>1, <3>1 DEF shifts
    <3>2. CASE i # 0 /\ i # k + 1
      <4>1. i \in 0..k /\ i - 1 \in 0..k BY <3>2
      <4>2. g[i] = f[i] /\ g[i - 1] = f[i - 1] BY <4>1
      <4>3. f[i] = doubled(f[i - 1]) BY <2>1, <3>2, <4>1 DEF shifts
      <4> QED BY <3>2, <4>2, <4>3
    <3>3. CASE i = k + 1
      <4>1. g[i] = doubled(f[k]) /\ g[i - 1] = f[k] BY <3>3
      <4> QED BY <3>3, <4>1
    <3> QED BY <3>1, <3>2, <3>3
  <2>3. shifts(g, base, k + 1) BY <2>2 DEF shifts
  <2>4. k + 1 \in Nat OBVIOUS
  <2> HIDE DEF g
  <2> QED BY <2>3, <2>4
<1>3. n \in S BY <1>1, <1>2, Induct
<1>4. \E f : shifts(f, base, n) BY <1>3
<1> DEFINE f == CHOOSE g : g = [i \in 0..n |-> IF i = 0 THEN base ELSE doubled(g[i - 1])]
<1>5. shifts(f, base, n) BY <1>4 DEF shifts
<1>6. shifted(base, n) = f[n] BY DEF shifted
<1> QED BY <1>5, <1>6

\* They are integers, whatever the width does to them.
LEMMA ShiftsTyped ==
  ASSUME NEW base \in Int, NEW n \in Nat, NEW f, shifts(f, base, n)
  PROVE  \A i \in 0..n : f[i] \in Int
<1> DEFINE S == {k \in Nat : k <= n => f[k] \in Int}
<1>1. \A x \in Int : doubled(x) \in Int BY DEF doubled, Half
<1>2. \A i \in 0..n : f[i] = IF i = 0 THEN base ELSE doubled(f[i - 1]) BY DEF shifts
<1>3. 0 \in S BY <1>2
<1>4. ASSUME NEW k \in Nat, k \in S PROVE k + 1 \in S
  <2>1. CASE k + 1 <= n
    <3>1. f[k] \in Int BY <1>4, <2>1
    <3>2. k + 1 \in 0..n /\ k + 1 # 0 /\ (k + 1) - 1 = k BY <2>1
    <3>3. f[k + 1] = doubled(f[k]) BY <1>2, <3>2
    <3>4. f[k + 1] \in Int BY <1>1, <3>1, <3>3
    <3> QED BY <3>4
  <2>2. CASE ~(k + 1 <= n) BY <2>2
  <2> QED BY <2>1, <2>2
<1>5. Nat \subseteq S BY <1>3, <1>4, Induct
<1> QED BY <1>5

LEMMA BaseOf == \A u \in Url : base_of(u) \in {60, 300}
BY DEF base_of

LEMMA BackoffTyped ==
  ASSUME NEW u \in Url, NEW n \in Nat
  PROVE  backoff(base_of(u), n) \in Int
<1>1. base_of(u) \in Int BY BaseOf
<1> HIDE DEF base_of
<1>2. PICK f : shifts(f, base_of(u), n) /\ shifted(base_of(u), n) = f[n] BY ShiftsExist
<1>3. \A i \in 0..n : f[i] \in Int BY <1>1, <1>2, ShiftsTyped
<1>4. shifted(base_of(u), n) \in Int BY <1>2, <1>3
<1> QED BY <1>4 DEF backoff, AtMost, Hour

\* Up to 22 attempts no shift reaches the sign, and every wait is a minute at least.
LEMMA BackoffLong ==
  ASSUME NEW u \in Url, NEW n \in 0..22
  PROVE  backoff(base_of(u), n) >= Pause
<1> DEFINE base == base_of(u)
<1>1. base \in {60, 300} BY BaseOf
<1> HIDE DEF base
<1>2. PICK f : shifts(f, base, n) /\ shifted(base, n) = f[n] BY ShiftsExist
<1>3. \A i \in 0..n : f[i] = IF i = 0 THEN base ELSE doubled(f[i - 1]) BY <1>2 DEF shifts
<1>4. /\ \A x \in Int : 0 < x /\ x < Half => doubled(x) = 2 * x
  BY DEF doubled, Half
<1>5. f[0] = base BY <1>3
<1>6. 1 <= n => f[1] = 2 * base
  BY <1>1, <1>3, <1>4, <1>5 DEF Half
<1>7. 2 <= n => f[2] = 4 * base
  BY <1>1, <1>3, <1>4, <1>6 DEF Half
<1>8. 3 <= n => f[3] = 8 * base
  BY <1>1, <1>3, <1>4, <1>7 DEF Half
<1>9. 4 <= n => f[4] = 16 * base
  BY <1>1, <1>3, <1>4, <1>8 DEF Half
<1>10. 5 <= n => f[5] = 32 * base
  BY <1>1, <1>3, <1>4, <1>9 DEF Half
<1>11. 6 <= n => f[6] = 64 * base
  BY <1>1, <1>3, <1>4, <1>10 DEF Half
<1>12. 7 <= n => f[7] = 128 * base
  BY <1>1, <1>3, <1>4, <1>11 DEF Half
<1>13. 8 <= n => f[8] = 256 * base
  BY <1>1, <1>3, <1>4, <1>12 DEF Half
<1>14. 9 <= n => f[9] = 512 * base
  BY <1>1, <1>3, <1>4, <1>13 DEF Half
<1>15. 10 <= n => f[10] = 1024 * base
  BY <1>1, <1>3, <1>4, <1>14 DEF Half
<1>16. 11 <= n => f[11] = 2048 * base
  BY <1>1, <1>3, <1>4, <1>15 DEF Half
<1>17. 12 <= n => f[12] = 4096 * base
  BY <1>1, <1>3, <1>4, <1>16 DEF Half
<1>18. 13 <= n => f[13] = 8192 * base
  BY <1>1, <1>3, <1>4, <1>17 DEF Half
<1>19. 14 <= n => f[14] = 16384 * base
  BY <1>1, <1>3, <1>4, <1>18 DEF Half
<1>20. 15 <= n => f[15] = 32768 * base
  BY <1>1, <1>3, <1>4, <1>19 DEF Half
<1>21. 16 <= n => f[16] = 65536 * base
  BY <1>1, <1>3, <1>4, <1>20 DEF Half
<1>22. 17 <= n => f[17] = 131072 * base
  BY <1>1, <1>3, <1>4, <1>21 DEF Half
<1>23. 18 <= n => f[18] = 262144 * base
  BY <1>1, <1>3, <1>4, <1>22 DEF Half
<1>24. 19 <= n => f[19] = 524288 * base
  BY <1>1, <1>3, <1>4, <1>23 DEF Half
<1>25. 20 <= n => f[20] = 1048576 * base
  BY <1>1, <1>3, <1>4, <1>24 DEF Half
<1>26. 21 <= n => f[21] = 2097152 * base
  BY <1>1, <1>3, <1>4, <1>25 DEF Half
<1>27. 22 <= n => f[22] = 4194304 * base
  BY <1>1, <1>3, <1>4, <1>26 DEF Half
<1>28. f[n] >= base BY <1>1, <1>5, <1>6, <1>7, <1>8, <1>9, <1>10, <1>11, <1>12, <1>13, <1>14, <1>15, <1>16, <1>17, <1>18, <1>19, <1>20, <1>21, <1>22, <1>23, <1>24, <1>25, <1>26, <1>27
<1>29. shifted(base, n) >= 60 /\ shifted(base, n) \in Int BY <1>1, <1>2, <1>28, ShiftsTyped
<1> QED BY <1>29 DEF base, backoff, AtMost, Hour, Pause

-----------------------------------------------------------------------------
(* The types.                                                              *)

\* What each step does, in the terms the types need.
LEMMA CloseTyped ==
  ASSUME NEW n \in 0..AttemptCap, NEW i, close(n, i)
  PROVE  attempts' \in 0..AttemptCap
<1>1. AttemptCap \in Nat BY TrackerLinkAssumption
<1>2. attempts' = n \/ (n # 0 /\ attempts' = n - 1) BY DEF close
<1> QED BY <1>1, <1>2

LEMMA SpendTyped ==
  ASSUME TypeOK, NEW kind \in Kind, spend(kind)
  PROVE  budget' \in [Kind -> Nat]
<1>1. budget \in [Kind -> Nat] /\ budget[kind] > 0 /\ budget' = [budget EXCEPT ![kind] = budget[kind] - 1]
  BY DEF TypeOK, spend
<1>2. budget[kind] - 1 \in Nat BY <1>1
<1> QED BY <1>1, <1>2

LEMMA FaultTyped ==
  ASSUME TypeOK, NEW u, fault(u)
  PROVE  budget' \in [Kind -> Nat]
<1>1. "network" \in Kind BY DEF Kind
<1>2. CASE spend("network") BY <1>1, <1>2, SpendTyped
<1>3. CASE UNCHANGED budget BY <1>3 DEF TypeOK
<1> QED BY <1>2, <1>3 DEF fault

\* The variables of the type that Places does not already cover.
Rest ==
  /\ torrent \in {"hashing", "running", "paused", "stopped"} /\ attempts \in 0..AttemptCap
  /\ event \in {"none", "completed", "started"} /\ wait \in Nat /\ age \in 0..Timeout + 1
  /\ url \in Url \cup {NoUrl} /\ listed \in BOOLEAN /\ quiet \in [Url -> 0..Pause]
  /\ late \in 0..2 /\ budget \in [Kind -> Nat]

LEMMA ExcusedTyped == excused \in [Url -> 0..Pause]
BY DEF excused, Pause

LEMMA RewindTyped ==
  ASSUME TypeOK, rewind
  PROVE  Rest'
BY DEF rewind, in_state, TypeOK, Rest

LEMMA DiesTyped ==
  ASSUME TypeOK, dies
  PROVE  Rest'
<1>1. /\ torrent' = "stopped" /\ attempts' = 0 /\ event' = "started" /\ wait' = 0 /\ age' = 0
      /\ url' = NoUrl /\ listed' = FALSE /\ late' = 0 /\ budget' = budget
  BY DEF dies
<1>2. quiet' \in [Url -> 0..Pause] BY ExcusedTyped DEF dies
<1>3. 0 \in 0..AttemptCap /\ 0 \in 0..Timeout + 1 /\ 0 \in 0..2 BY TrackerLinkAssumption DEF Timeout
<1>4. budget \in [Kind -> Nat] BY DEF TypeOK
<1> QED BY <1>1, <1>2, <1>3, <1>4 DEF Rest

LEMMA StartTyped ==
  ASSUME TypeOK, Places, pre_select, ~rewind
  PROVE  Rest'
<1> SUFFICES ASSUME NEW u \in Url,
                    start_invalid(u) \/ start_failing(u) \/ start_unknown(u) \/ start(u)
             PROVE  Rest'
  BY DEF pre_select
<1>1. one_more \in 0..AttemptCap
  <2>1. attempts \in Nat /\ AttemptCap \in Nat BY TrackerLinkAssumption DEF Places
  <2> QED BY <2>1 DEF one_more, AtMost
<1>2. Rest BY DEF TypeOK, Rest
<1>3. url' = u /\ listed' = TRUE /\ torrent' = torrent /\ event' = event /\ late' = late
  BY DEF start_invalid, start_failing, start_unknown, start, begin, choose
<1>4. attempts' \in 0..AttemptCap
  BY <1>1, CloseTyped DEF start_invalid, start_failing, start_unknown, start
<1>5. wait' \in Nat
  <2>1. CASE start_invalid(u) BY <1>2, <2>1 DEF start_invalid, Rest
  <2>2. CASE begin(u)
    <3>1. wait' = due_in(backoff(base_of(u), attempts)) BY <2>2 DEF begin
    <3>2. backoff(base_of(u), attempts) \in Int BY BackoffTyped DEF Places
    <3> QED BY <3>1, <3>2 DEF due_in, AtLeast
  <2> QED BY <2>1, <2>2 DEF start_failing, start_unknown, start
<1>6. age' \in 0..Timeout + 1 /\ quiet' \in [Url -> 0..Pause]
  <2>1. CASE start(u)
    <3>1. age' = 0 /\ quiet' = [quiet EXCEPT ![u] = 0] BY <2>1 DEF start
    <3> QED BY <1>2, <3>1 DEF Rest, Timeout, Pause
  <2>2. CASE start_invalid(u) \/ start_failing(u) \/ start_unknown(u)
    <3>1. age' = age /\ quiet' = quiet BY <2>2 DEF start_invalid, start_failing, start_unknown
    <3> QED BY <1>2, <3>1 DEF Rest
  <2> QED BY <2>1, <2>2
<1>7. budget' \in [Kind -> Nat]
  <2>1. CASE start_invalid(u) \/ start(u) BY <1>2, <2>1 DEF start_invalid, start, Rest
  <2>2. CASE start_failing(u)
    <3>1. "network" \in Kind BY DEF Kind
    <3> QED BY <2>2, <3>1, SpendTyped DEF start_failing
  <2>3. CASE start_unknown(u) BY <2>3, FaultTyped DEF start_unknown
  <2> QED BY <2>1, <2>2, <2>3
<1> QED BY <1>2, <1>3, <1>4, <1>5, <1>6, <1>7 DEF Rest

LEMMA AnswerTyped ==
  ASSUME TypeOK, post_select, ~dies
  PROVE  Rest'
<1>1. Rest BY DEF TypeOK, Rest
<1>2. 0 \in 0..AttemptCap /\ attempts \in 0..AttemptCap BY <1>1, TrackerLinkAssumption DEF Rest
<1>3. kept
  BY DEF post_select, http_step, udp_step, http_writable, udp_connected, failed, answered, timed_out
<1>4. attempts' \in 0..AttemptCap
  BY <1>2, CloseTyped
     DEF post_select, http_step, udp_step, http_writable, udp_connected, failed, answered, timed_out
<1>5. event' \in {"none", "completed", "started"}
  BY <1>1 DEF Rest, post_select, http_step, udp_step, http_writable, udp_connected, failed, answered,
              timed_out, announced, not_announced
<1>6. late' \in 0..2
  <2>1. late' = late \/ late' = AtMost(late + 1, 2)
    BY DEF post_select, http_step, udp_step, http_writable, udp_connected, failed, answered,
           timed_out, announced, not_announced
  <2> QED BY <1>1, <2>1 DEF Rest, AtMost
<1>7. wait' \in Nat
  <2>1. CASE \E interval \in Intervals : wait' = AtLeast(300, interval)
    BY <2>1, TrackerLinkAssumption DEF AtLeast
  <2>2. CASE wait' = wait BY <1>1, <2>2 DEF Rest
  <2> QED BY <2>1, <2>2 DEF post_select, http_step, udp_step, http_writable, udp_connected, failed,
                            answered, timed_out
<1>8. age' \in 0..Timeout + 1
  <2>1. age' = age \/ age' = 0
    BY DEF post_select, http_step, udp_step, http_writable, udp_connected, failed, answered, timed_out
  <2> QED BY <1>1, <2>1 DEF Rest, Timeout
<1>9. budget' \in [Kind -> Nat]
  <2>1. UNCHANGED budget \/ fault(url)
    BY DEF post_select, http_step, udp_step, http_writable, udp_connected, failed, answered, timed_out
  <2> QED BY <1>1, <2>1, FaultTyped DEF Rest
<1> QED BY <1>1, <1>3, <1>4, <1>5, <1>6, <1>7, <1>8, <1>9 DEF Rest, kept

LEMMA UserTyped ==
  ASSUME TypeOK, user
  PROVE  Rest'
<1>1. Rest BY DEF TypeOK, Rest
<1>2. attempts' = attempts /\ age' = age /\ url' = url
  BY DEF user, announce, completed, stop, open, pause, resume, add_tracker, set_trackers, link
<1>3. event' \in {event, "none", "completed"} /\ wait' \in {wait, 0} /\ listed' \in {listed, FALSE}
      /\ quiet' \in {quiet, excused} /\ late' \in {late, 0}
      /\ torrent' \in {torrent, "stopped", "hashing", "running", "paused"}
  <2>1. CASE announce \/ completed BY <2>1 DEF announce, completed, due
  <2>2. CASE stop \/ open BY <2>2 DEF stop, open, due
  <2>3. CASE pause \/ resume BY <2>3 DEF pause, resume, link
  <2>4. CASE (\E u \in Url : add_tracker(u)) \/ \E list \in Lists : set_trackers(list)
    BY <2>4 DEF add_tracker, set_trackers, link
  <2> QED BY <2>1, <2>2, <2>3, <2>4 DEF user
<1>4. budget' \in [Kind -> Nat]
  <2>1. "user" \in Kind BY DEF Kind
  <2>2. spend("user") \/ UNCHANGED budget
    BY DEF user, announce, completed, stop, open, pause, resume, add_tracker, set_trackers
  <2> QED BY <1>1, <2>1, <2>2, SpendTyped DEF Rest
<1>5. /\ event' \in {"none", "completed", "started"} /\ wait' \in Nat /\ listed' \in BOOLEAN
      /\ quiet' \in [Url -> 0..Pause] /\ late' \in 0..2
      /\ torrent' \in {"hashing", "running", "paused", "stopped"}
  <2>1. /\ event \in {"none", "completed", "started"} /\ wait \in Nat /\ listed \in BOOLEAN
        /\ quiet \in [Url -> 0..Pause] /\ late \in 0..2
        /\ torrent \in {"hashing", "running", "paused", "stopped"}
    BY <1>1 DEF Rest
  <2>2. event' \in {"none", "completed", "started"} /\ listed' \in BOOLEAN
        /\ torrent' \in {"hashing", "running", "paused", "stopped"}
    BY <1>3, <2>1
  <2>3. wait' \in Nat /\ late' \in 0..2 BY <1>3, <2>1
  <2>4. quiet' \in [Url -> 0..Pause] BY <1>3, <2>1, ExcusedTyped
  <2> QED BY <2>2, <2>3, <2>4
<1> QED BY <1>1, <1>2, <1>4, <1>5 DEF Rest

LEMMA ElapseTyped ==
  ASSUME TypeOK, elapse
  PROVE  Rest'
<1>1. Rest BY DEF TypeOK, Rest
<1>2. PICK d \in Nat : pass(d)
  <2>1. CASE age <= Timeout /\ pass(Timeout + 1 - age) BY <1>1, <2>1 DEF Rest, Timeout
  <2>2. CASE wait > 0 /\ pass(wait) BY <1>1, <2>2 DEF Rest
  <2> QED BY <2>1, <2>2 DEF elapse
<1>3. wait' \in Nat /\ age' \in 0..Timeout + 1
  BY <1>1, <1>2 DEF pass, due_in, AtLeast, AtMost, Rest, Timeout
<1>4. quiet' \in [Url -> 0..Pause]
  <2>1. \A u \in Url : quiet[u] \in 0..Pause BY <1>1 DEF Rest
  <2>2. \A u \in Url : AtMost(quiet[u] + d, Pause) \in 0..Pause BY <1>2, <2>1 DEF AtMost, Pause
  <2>3. quiet' = [u \in Url |-> AtMost(quiet[u] + d, Pause)] BY <1>2 DEF pass
  <2> QED BY <2>2, <2>3
<1> QED BY <1>1, <1>2, <1>3, <1>4 DEF Rest, pass

LEMMA InitTyped == Init => TypeOK
<1> SUFFICES ASSUME Init PROVE TypeOK OBVIOUS
<1>1. AttemptCap \in Nat /\ Budget \in [Kind -> Nat] /\ trackers \in Seq(Url)
  BY TrackerLinkAssumption DEF Init
<1>2. /\ state \in 0..4 /\ current \in Nat /\ attempts \in 0..AttemptCap /\ wait \in Nat
      /\ age \in 0..Timeout + 1 /\ late \in 0..2
  BY <1>1 DEF Init, Timeout
<1>3. /\ torrent \in {"hashing", "running", "paused", "stopped"}
      /\ event \in {"none", "completed", "started"} /\ url \in Url \cup {NoUrl} /\ listed \in BOOLEAN
  BY DEF Init
<1>4. quiet \in [Url -> 0..Pause] BY ExcusedTyped DEF Init
<1>5. budget \in [Kind -> Nat] BY <1>1 DEF Init
<1> QED BY <1>1, <1>2, <1>3, <1>4, <1>5 DEF TypeOK

LEMMA NextTyped == TypeOK /\ Counted /\ [Next]_vars => TypeOK'
<1> SUFFICES ASSUME TypeOK, Counted, [Next]_vars PROVE TypeOK'
  OBVIOUS
<1>1. Places /\ Places' BY NextCounted DEF Counted
<1>2. CASE pre_select BY <1>1, <1>2, StartTyped, RewindTyped DEF Places, Rest, TypeOK
<1>3. CASE post_select BY <1>1, <1>3, AnswerTyped, DiesTyped DEF Places, Rest, TypeOK
<1>4. CASE user BY <1>1, <1>4, UserTyped DEF Places, Rest, TypeOK
<1>5. CASE elapse BY <1>1, <1>5, ElapseTyped DEF Places, Rest, TypeOK
<1>6. CASE hashed \/ UNCHANGED vars BY <1>6 DEF hashed, vars, link, TypeOK
<1> QED BY <1>2, <1>3, <1>4, <1>5, <1>6 DEF Next

\* Every variable keeps its type: no time that remains is negative, although the shift that
\* makes the waits overflows (pre_select), and the list keeps only trackers (close).
THEOREM LinkTypeCorrect == Spec => []TypeOK
<1> QED BY InitCounted, NextCounted, InitTyped, NextTyped, PTL DEF Spec

-----------------------------------------------------------------------------
(* The order of the trackers.                                              *)

\* A step of the link itself ends a request: an answer or a failure.
LEMMA Ends ==
  ASSUME [Next]_vars, state # 0, state' = 0, ~dies
  PROVE  answered({2, 4}) \/ close(attempts, current)
<1>1. ~pre_select
  BY DEF pre_select, rewind, in_state, start_invalid, start_failing, start_unknown, start, begin, may_start
<1>2. ~(user \/ hashed \/ elapse \/ UNCHANGED vars)
  BY DEF user, announce, completed, stop, open, pause, resume, add_tracker, set_trackers, hashed,
         elapse, pass, link, vars
<1>3. post_select BY <1>1, <1>2 DEF Next
<1>4. CASE answered({2}) \/ answered({4}) BY <1>4 DEF answered, in_state
<1>5. CASE ~(answered({2}) \/ answered({4}))
  BY <1>3, <1>5 DEF post_select, http_step, udp_step, http_writable, udp_connected, failed, timed_out
<1> QED BY <1>4, <1>5

\* The two trackers that change places, and the others, which stay.
LEMMA Swapped ==
  ASSUME trackers \in Seq(Url), NEW i \in Nat, i < Len(trackers)
  PROVE  /\ swapped(i)[1] = tracker(i)
         /\ \A u : Contains(trackers, u) <=> Contains(swapped(i), u)
<1> DEFINE first == [trackers EXCEPT ![1] = trackers[i + 1]]
           list == swapped(i)
<1>1. /\ Len(trackers) \in Nat /\ DOMAIN trackers = 1..Len(trackers)
      /\ 1 \in 1..Len(trackers) /\ i + 1 \in 1..Len(trackers)
  OBVIOUS
<1>2. list = [first EXCEPT ![i + 1] = trackers[1]] BY DEF swapped, tracker
<1>3. DOMAIN first = 1..Len(trackers) /\ first[1] = trackers[i + 1]
      /\ \A a \in 1..Len(trackers) : a # 1 => first[a] = trackers[a]
  BY <1>1
<1>4. list \in Seq(Url) BY SwapList
<1> HIDE DEF first, list
<1>5. /\ DOMAIN list = 1..Len(trackers) /\ list[i + 1] = trackers[1]
      /\ i # 0 => list[1] = trackers[i + 1]
      /\ \A a \in 1..Len(trackers) : a # 1 /\ a # i + 1 => list[a] = trackers[a]
  BY <1>1, <1>2, <1>3
<1>6. Len(list) = Len(trackers) BY <1>1, <1>4, <1>5
<1>7. list[1] = trackers[i + 1] BY <1>5
<1>8. ASSUME NEW u, Contains(trackers, u) PROVE Contains(list, u)
  <2>1. PICK c \in 1..Len(trackers) : trackers[c] = u BY <1>8 DEF Contains
  <2>2. \E a \in 1..Len(trackers) : list[a] = u
    <3>1. CASE c = 1 BY <1>1, <1>5, <2>1, <3>1
    <3>2. CASE c = i + 1 /\ c # 1 BY <1>1, <1>5, <2>1, <3>2
    <3>3. CASE c # 1 /\ c # i + 1 BY <1>5, <2>1, <3>3
    <3> QED BY <3>1, <3>2, <3>3
  <2> QED BY <1>6, <2>2 DEF Contains
<1>9. ASSUME NEW u, Contains(list, u) PROVE Contains(trackers, u)
  <2>1. PICK c \in 1..Len(trackers) : list[c] = u BY <1>6, <1>9 DEF Contains
  <2>2. \E a \in 1..Len(trackers) : trackers[a] = u
    <3>1. CASE c = 1 BY <1>1, <1>7, <2>1, <3>1
    <3>2. CASE c = i + 1 /\ c # 1 BY <1>1, <1>5, <2>1, <3>2
    <3>3. CASE c # 1 /\ c # i + 1 BY <1>5, <2>1, <3>3
    <3> QED BY <3>1, <3>2, <3>3
  <2> QED BY <2>2 DEF Contains
<1> QED BY <1>7, <1>8, <1>9 DEF list, tracker

\* An answer brings its tracker to the front and loses none, a failure goes on to the next one
\* and leaves the list alone (close, called from pre_select and post_select), unless the user
\* has replaced the list meanwhile by one that is too short.
THEOREM OrderKept == Spec => TriedInOrder
<1> DEFINE Tried ==
      state # 0 /\ state' = 0 /\ ~dies =>
        IF answered({2, 4})
        THEN /\ listed => trackers'[1] = url
             /\ current < Len(trackers) =>
                  \A u \in Url : Contains(trackers, u) <=> Contains(trackers', u)
        ELSE /\ trackers' = trackers
             /\ current' = IF current + 1 < Len(trackers) THEN current + 1 ELSE 0
<1>1. ASSUME Counted, [Next]_vars PROVE Tried
  <2> SUFFICES ASSUME state # 0, state' = 0, ~dies
               PROVE  IF answered({2, 4})
                      THEN /\ listed => trackers'[1] = url
                           /\ current < Len(trackers) =>
                                \A u \in Url : Contains(trackers, u) <=> Contains(trackers', u)
                      ELSE /\ trackers' = trackers
                           /\ current' = IF current + 1 < Len(trackers) THEN current + 1 ELSE 0
    OBVIOUS
  <2>1. /\ trackers \in Seq(Url) /\ current \in Nat /\ attempts # 0
        /\ listed => current < Len(trackers) /\ tracker(current) = url
    BY <1>1 DEF Counted, Places, RequestCounted
  <2>2. CASE answered({2, 4})
    <3>1. current < Len(trackers) => trackers' = swapped(current) BY <2>2 DEF answered, close
    <3>2. current < Len(trackers) =>
            /\ trackers'[1] = tracker(current)
            /\ \A u \in Url : Contains(trackers, u) <=> Contains(trackers', u)
      BY <2>1, <3>1, Swapped
    <3> QED BY <2>1, <2>2, <3>2
  <2>3. CASE ~answered({2, 4})
    <3>1. close(attempts, current) BY <1>1, <2>3, Ends
    <3> QED BY <2>1, <2>3, <3>1 DEF close
  <2> QED BY <2>2, <2>3
<1>2. Counted /\ [Next]_vars => [Tried]_vars BY <1>1
<1> QED BY <1>2, InitCounted, NextCounted, PTL DEF Spec, TriedInOrder

-----------------------------------------------------------------------------
(* The pause between two requests.                                         *)

\* A minute passes before the list is begun again, and until then the link goes forward in it.
\* The trackers it has yet to come to have not been asked for a minute, if none is in the list
\* twice, nor have those that may yet be added to the list.
ahead(i) == IF state = 0 THEN current > 0 /\ i >= current ELSE i > current
OthersRested == \A u \in Url : quiet[u] >= Pause \/ Contains(trackers, u)
Rested ==
  /\ \A u \in Url : quiet[u] + wait >= Pause
  /\ state # 0 \/ current # 0 => OthersRested
  /\ IsInjective(trackers) =>
       \A i \in 0..Len(trackers) - 1 : ahead(i) => quiet[tracker(i)] >= Pause

\* What Rested is about at any moment: places, waits and times.
LEMMA Timed ==
  ASSUME TypeOK
  PROVE  /\ wait \in Nat /\ \A u \in Url : quiet[u] \in Nat /\ quiet[u] <= Pause
         /\ Len(trackers) \in Nat /\ \A i \in 0..Len(trackers) - 1 : tracker(i) \in Url
<1>1. \A u \in Url : quiet[u] \in 0..Pause BY DEF TypeOK
<1>2. \A u \in Url : quiet[u] \in Nat /\ quiet[u] <= Pause BY <1>1 DEF Pause
<1>3. wait \in Nat /\ trackers \in Seq(Url) BY DEF TypeOK
<1>4. Len(trackers) \in Nat /\ \A i \in 0..Len(trackers) - 1 : tracker(i) \in Url
  BY <1>3 DEF tracker
<1> QED BY <1>2, <1>3, <1>4

LEMMA LongWait ==
  ASSUME AttemptCap <= 22, TypeOK, NEW u \in Url
  PROVE  due_in(backoff(base_of(u), attempts)) >= Pause
<1>1. attempts \in 0..22 BY TrackerLinkAssumption DEF TypeOK
<1>2. backoff(base_of(u), attempts) >= Pause BY <1>1, BackoffLong
<1>3. backoff(base_of(u), attempts) \in Int BY <1>1, BackoffTyped
<1> QED BY <1>2, <1>3 DEF due_in, AtLeast, Pause

\* Nobody the link comes to next has been asked within a minute.
LEMMA NextRested ==
  ASSUME TypeOK, Rested, may_start
  PROVE  /\ OthersRested
         /\ IsInjective(trackers) =>
              \A i \in 0..Len(trackers) - 1 : i >= at => quiet[tracker(i)] >= Pause
<1>1. CASE at = 0
  <2>1. wait = 0 BY <1>1 DEF may_start
  <2>2. \A u \in Url : quiet[u] >= Pause BY <2>1, Timed DEF Rested
  <2> QED BY <2>2, Timed DEF OthersRested
<1>2. CASE at # 0
  <2>1. at = current /\ current > 0 /\ state = 0 BY <1>2 DEF at, may_start, TypeOK
  <2> QED BY <2>1 DEF Rested, ahead
<1> QED BY <1>1, <1>2

\* Everybody has waited enough: the user or the torrent has made the announce due, or the
\* client has been started again.
LEMMA AllRested ==
  ASSUME TypeOK', quiet' = excused
  PROVE  Rested'
<1>1. \A u \in Url : quiet'[u] = Pause BY DEF excused
<1>2. /\ wait' \in Nat /\ Len(trackers') \in Nat
      /\ \A i \in 0..Len(trackers') - 1 : tracker(i)' \in Url
  BY DEF TypeOK, tracker
<1>3. OthersRested' BY <1>1 DEF OthersRested, Pause
<1> QED BY <1>1, <1>2, <1>3 DEF Rested, Pause

\* The list is closed over: nobody is asked, and the link goes on in the list, or begins again,
\* or has been answered, which leaves nobody ahead.
LEMMA CloseRested ==
  ASSUME TypeOK, NEW n \in Nat, NEW i \in Nat, close(n, i), OthersRested,
         quiet' = quiet, \A u \in Url : quiet[u] + wait' >= Pause,
         IsInjective(trackers) =>
           \A j \in 0..Len(trackers) - 1 : j > i => quiet[tracker(j)] >= Pause
  PROVE  Rested'
<1>1. trackers \in Seq(Url) /\ Len(trackers) \in Nat /\ state' = 0 BY DEF TypeOK, close
<1>2. CASE n = 0
  <2>1. current' = 0 BY <1>2 DEF close
  <2>2. \A j : ~ahead(j)' BY <1>1, <2>1 DEF ahead
  <2> QED BY <1>1, <2>1, <2>2 DEF Rested
<1>3. CASE n # 0
  <2>1. trackers' = trackers /\ current' \in {0, i + 1} BY <1>3 DEF close
  <2>2. ASSUME NEW j \in 0..Len(trackers) - 1, ahead(j)' PROVE j > i
    BY <1>1, <2>1, <2>2 DEF ahead
  <2>3. \A j : tracker(j)' = tracker(j) BY <2>1 DEF tracker
  <2>4. IsInjective(trackers') =>
          \A j \in 0..Len(trackers') - 1 : ahead(j)' => quiet'[tracker(j)'] >= Pause
    BY <2>1, <2>2, <2>3
  <2>5. OthersRested' BY <2>1 DEF OthersRested
  <2> QED BY <2>1, <2>4, <2>5 DEF Rested
<1> QED BY <1>2, <1>3

\* The sums that keep a minute.
LEMMA Enough == \A a, b \in Nat : b >= Pause => a + b >= Pause
BY DEF Pause

LEMMA Sooner ==
  ASSUME NEW q \in Nat, NEW z \in Nat, NEW w \in Nat, NEW x \in Nat, NEW d \in Nat,
         z >= q, z = q + d \/ z = 60, q + w >= 60, (x = 0 /\ w <= d) \/ x = w - d
  PROVE  z + x >= 60
<1>1. CASE z = 60 BY <1>1
<1>2. CASE z = q + d /\ x = 0 /\ w <= d BY <1>2
<1>3. CASE z = q + d /\ x = w - d BY <1>3
<1> QED BY <1>1, <1>2, <1>3

LEMMA RewindRested ==
  ASSUME Rested, rewind
  PROVE  Rested'
<1>1. /\ state' = 0 /\ current' = 0 /\ UNCHANGED <<wait, quiet>>
  BY DEF rewind, in_state
<1>2. \A j : ~ahead(j)' BY <1>1 DEF ahead
<1> QED BY <1>1, <1>2 DEF Rested

LEMMA StartRested ==
  ASSUME AttemptCap <= 22, TypeOK, TypeOK', Counted, Rested, pre_select, ~rewind
  PROVE  Rested'
<1> SUFFICES ASSUME NEW u \in Url,
                    start_invalid(u) \/ start_failing(u) \/ start_unknown(u) \/ start(u)
             PROVE  Rested'
  BY DEF pre_select
<1>1. may_start /\ u = tracker(at) /\ Places
  BY DEF start_invalid, start_failing, start_unknown, start, begin, Counted
<1>2. at \in Nat /\ at < Len(trackers) BY <1>1, AtInList
<1>3. /\ OthersRested
      /\ IsInjective(trackers) =>
           \A i \in 0..Len(trackers) - 1 : i >= at => quiet[tracker(i)] >= Pause
  BY <1>1, NextRested
<1>4. one_more \in Nat BY <1>1, OneMore DEF Places
<1>5. ASSUME begin(u) PROVE wait' \in Nat /\ wait' >= Pause
  <2>1. wait' = due_in(backoff(base_of(u), attempts)) BY <1>5 DEF begin
  <2> QED BY <2>1, LongWait DEF TypeOK
<1>6. ASSUME NEW w \in Nat, w = wait \/ w >= Pause PROVE \A v \in Url : quiet[v] + w >= Pause
  BY <1>6, Timed DEF Rested, Pause
<1>7. CASE start_invalid(u) \/ start_unknown(u)
  <2>1. close(one_more, at) /\ quiet' = quiet BY <1>7 DEF start_invalid, start_unknown
  <2>2. wait' \in Nat /\ (wait' = wait \/ wait' >= Pause)
    BY <1>5, <1>7, Timed DEF start_invalid, start_unknown
  <2>3. \A v \in Url : quiet[v] + wait' >= Pause BY <1>6, <2>2
  <2>4. IsInjective(trackers) =>
          \A j \in 0..Len(trackers) - 1 : j > at => quiet[tracker(j)] >= Pause
    BY <1>2, <1>3
  <2> QED BY <1>2, <1>3, <1>4, <2>1, <2>3, <2>4, CloseRested
<1>8. CASE start_failing(u)
  <2>1. /\ current' = at /\ quiet' = quiet /\ trackers' = trackers /\ state' = state /\ state = 0
        /\ wait' \in Nat /\ wait' >= Pause
    BY <1>5, <1>8 DEF start_failing, begin, may_start
  <2>2. \A v \in Url : quiet[v] + wait' >= Pause BY <1>6, <2>1
  <2>3. \A j : tracker(j)' = tracker(j) BY <2>1 DEF tracker
  <2>4. IsInjective(trackers') =>
          \A j \in 0..Len(trackers') - 1 : ahead(j)' => quiet'[tracker(j)'] >= Pause
    BY <1>3, <2>1, <2>3 DEF ahead
  <2>5. OthersRested' BY <1>3, <2>1 DEF OthersRested
  <2> QED BY <2>1, <2>2, <2>4, <2>5 DEF Rested
<1>9. CASE start(u)
  <2>1. /\ current' = at /\ quiet' = [quiet EXCEPT ![u] = 0] /\ trackers' = trackers /\ state' # 0
        /\ wait' \in Nat /\ wait' >= Pause
    BY <1>5, <1>9 DEF start
  <2>2. /\ quiet \in [Url -> 0..Pause] /\ quiet'[u] = 0
        /\ \A v \in Url : v # u => quiet'[v] = quiet[v]
    BY <2>1 DEF TypeOK
  <2>3. \A v \in Url : quiet'[v] \in Nat /\ quiet'[v] + wait' >= Pause
    <3> SUFFICES ASSUME NEW v \in Url PROVE quiet'[v] \in Nat /\ quiet'[v] + wait' >= Pause
      OBVIOUS
    <3>1. CASE v = u
      <4>1. quiet'[v] = 0 BY <2>2, <3>1
      <4> QED BY <2>1, <4>1, Enough
    <3>2. CASE v # u
      <4>1. quiet'[v] \in Nat BY <2>2, <3>2, Timed
      <4> QED BY <2>1, <4>1, Enough
    <3> QED BY <3>1, <3>2
  <2>4. Contains(trackers, u)
    <3>1. at + 1 \in 1..Len(trackers) /\ trackers[at + 1] = u BY <1>1, <1>2, Timed DEF tracker
    <3> QED BY <3>1 DEF Contains
  <2>5. OthersRested' BY <1>3, <2>1, <2>2, <2>4 DEF OthersRested
  <2>6. ASSUME IsInjective(trackers), NEW j \in 0..Len(trackers) - 1, j > at PROVE tracker(j) # u
    <3>1. trackers \in Seq(Url) BY DEF TypeOK
    <3>2. Len(trackers) \in Nat /\ DOMAIN trackers = 1..Len(trackers) BY <3>1
    <3> HIDE DEF at
    <3>3. at + 1 \in DOMAIN trackers /\ j + 1 \in DOMAIN trackers /\ at + 1 # j + 1
      BY <1>2, <2>6, <3>2
    <3> QED BY <1>1, <2>6, <3>3 DEF IsInjective, tracker
  <2>7. ASSUME IsInjective(trackers), NEW j \in 0..Len(trackers) - 1, ahead(j)'
        PROVE  quiet'[tracker(j)] >= Pause
    <3>1. j > at BY <2>1, <2>7 DEF ahead
    <3>2. quiet[tracker(j)] >= Pause /\ tracker(j) \in Url BY <1>2, <1>3, <2>7, <3>1, Timed
    <3> QED BY <2>2, <2>6, <2>7, <3>1, <3>2
  <2>8. \A j : tracker(j)' = tracker(j) BY <2>1 DEF tracker
  <2> QED BY <2>1, <2>3, <2>5, <2>7, <2>8 DEF Rested
<1> QED BY <1>7, <1>8, <1>9

LEMMA AnswerRested ==
  ASSUME TypeOK, TypeOK', Counted, Rested, post_select, ~dies
  PROVE  Rested'
<1>1. state # 0 /\ quiet' = quiet
  BY DEF post_select, http_step, udp_step, http_writable, udp_connected, failed, answered, timed_out,
         in_state, kept
<1>2. attempts \in Nat /\ current \in Nat /\ OthersRested
  BY <1>1 DEF Counted, Places, Rested
<1>3. wait' = wait \/ \E interval \in Intervals : wait' = AtLeast(300, interval)
  BY DEF post_select, http_step, udp_step, http_writable, udp_connected, failed, answered, timed_out
<1>4. \A u \in Url : quiet[u] + wait' >= Pause
  <2>1. CASE wait' = wait BY <2>1 DEF Rested
  <2>2. CASE \E interval \in Intervals : wait' = AtLeast(300, interval)
    <3>1. wait' \in Nat /\ wait' >= 300 BY <2>2, TrackerLinkAssumption DEF AtLeast
    <3> QED BY <3>1, Timed DEF Pause
  <2> QED BY <1>3, <2>1, <2>2
<1>5. IsInjective(trackers) =>
        \A j \in 0..Len(trackers) - 1 : j > current => quiet[tracker(j)] >= Pause
  BY <1>1 DEF Rested, ahead
<1>6. CASE close(attempts, current) \/ close(0, current)
  BY <1>1, <1>2, <1>4, <1>5, <1>6, CloseRested
<1>7. CASE state' # 0 /\ UNCHANGED <<trackers, current>>
  <2>1. \A j : tracker(j)' = tracker(j) BY <1>7 DEF tracker
  <2>2. IsInjective(trackers') =>
          \A j \in 0..Len(trackers') - 1 : ahead(j)' => quiet'[tracker(j)'] >= Pause
    BY <1>1, <1>5, <1>7, <2>1 DEF ahead
  <2>3. OthersRested' BY <1>1, <1>2, <1>7 DEF OthersRested
  <2> QED BY <1>1, <1>4, <1>7, <2>2, <2>3 DEF Rested
<1> QED BY <1>6, <1>7 DEF post_select, http_step, udp_step, http_writable, udp_connected, failed,
                          answered, timed_out

LEMMA UserRested ==
  ASSUME TypeOK, TypeOK', Counted, Rested, user
  PROVE  Rested'
<1>1. CASE quiet' = excused BY <1>1, AllRested
<1>2. CASE UNCHANGED <<trackers, quiet, wait, state, current>>
  BY <1>2 DEF Rested, OthersRested, ahead, tracker
<1>3. CASE announce \/ completed \/ stop \/ open \/ pause \/ resume
  BY <1>1, <1>2, <1>3 DEF announce, completed, stop, open, pause, resume, due, link
<1>4. ASSUME NEW list \in Lists, set_trackers(list) PROVE Rested'
  BY <1>1, <1>4 DEF set_trackers
<1>5. ASSUME NEW u \in Url, add_tracker(u) PROVE Rested'
  <2>1. /\ ~Contains(trackers, u) /\ trackers' = Append(trackers, u)
        /\ UNCHANGED <<quiet, wait, state, current>>
    BY <1>5 DEF add_tracker, link
  <2>2. trackers \in Seq(Url) BY DEF TypeOK
  <2>3. /\ Len(trackers) \in Nat /\ Len(trackers') = Len(trackers) + 1
        /\ DOMAIN trackers = 1..Len(trackers) /\ DOMAIN trackers' = 1..Len(trackers) + 1
        /\ trackers'[Len(trackers) + 1] = u
        /\ \A c \in 1..Len(trackers) : trackers'[c] = trackers[c] /\ trackers[c] # u
    BY <2>1, <2>2 DEF Contains
  <2>5. IsInjective(trackers') => IsInjective(trackers)
    <3> SUFFICES ASSUME IsInjective(trackers'), NEW a \in 1..Len(trackers), NEW b \in 1..Len(trackers),
                        trackers[a] = trackers[b]
                 PROVE  a = b
      BY <2>3 DEF IsInjective
    <3>1. a \in DOMAIN trackers' /\ b \in DOMAIN trackers' /\ trackers'[a] = trackers'[b] BY <2>3
    <3> QED BY <3>1 DEF IsInjective
  <2>6. \A v : Contains(trackers, v) => Contains(trackers', v)
    <3> SUFFICES ASSUME NEW v, Contains(trackers, v) PROVE Contains(trackers', v)
      OBVIOUS
    <3>1. PICK c \in 1..Len(trackers) : trackers[c] = v BY DEF Contains
    <3>2. c \in 1..Len(trackers') /\ trackers'[c] = v BY <2>3, <3>1
    <3> QED BY <3>2 DEF Contains
  <2>8. OthersRested => OthersRested' BY <2>1, <2>6 DEF OthersRested
  <2>7. ASSUME IsInjective(trackers'), NEW j \in 0..Len(trackers') - 1, ahead(j)'
        PROVE  quiet'[tracker(j)'] >= Pause
    <3>1. CASE j < Len(trackers)
      <4>1. tracker(j)' = tracker(j) /\ j \in 0..Len(trackers) - 1 BY <2>3, <3>1 DEF tracker
      <4>2. ahead(j) BY <2>1, <2>7 DEF ahead
      <4> QED BY <2>1, <2>5, <2>7, <4>1, <4>2 DEF Rested
    <3>2. CASE j = Len(trackers)
      <4>1. tracker(j)' = u BY <2>3, <3>2 DEF tracker
      <4>2. state # 0 \/ current # 0 BY <2>1, <2>7 DEF ahead
      <4> QED BY <2>1, <4>1, <4>2 DEF Rested, OthersRested
    <3>3. j < Len(trackers) \/ j = Len(trackers)
      <4>1. Len(trackers') - 1 = Len(trackers) /\ Len(trackers) \in Nat BY <2>3
      <4>2. j \in 0..Len(trackers) BY <4>1
      <4> QED BY <4>1, <4>2
    <3> QED BY <3>1, <3>2, <3>3
  <2> QED BY <2>1, <2>7, <2>8 DEF Rested
<1> QED BY <1>3, <1>4, <1>5 DEF user

LEMMA ElapseRested ==
  ASSUME TypeOK, TypeOK', Rested, elapse
  PROVE  Rested'
<1>1. PICK d \in Nat : pass(d)
  <2>1. CASE age <= Timeout /\ pass(Timeout + 1 - age) BY <2>1 DEF TypeOK, Timeout
  <2>2. CASE wait > 0 /\ pass(wait) BY <2>2 DEF TypeOK
  <2> QED BY <2>1, <2>2 DEF elapse
<1>2. /\ wait' = due_in(wait - d) /\ UNCHANGED <<trackers, state, current>>
      /\ \A u \in Url : quiet'[u] = AtMost(quiet[u] + d, Pause)
  BY <1>1 DEF pass
<1>3. wait' \in Nat /\ ((wait' = 0 /\ wait <= d) \/ wait' = wait - d)
  BY <1>2, Timed DEF due_in, AtLeast
<1>4. ASSUME NEW u \in Url
      PROVE  /\ quiet'[u] \in Nat /\ quiet'[u] + wait' >= Pause
             /\ quiet[u] >= Pause => quiet'[u] >= Pause
  <2>1. quiet[u] \in Nat /\ quiet[u] <= Pause /\ wait \in Nat /\ quiet[u] + wait >= Pause
    BY Timed DEF Rested
  <2>2. quiet'[u] = AtMost(quiet[u] + d, Pause) BY <1>2
  <2>3. quiet'[u] = IF quiet[u] + d < 60 THEN quiet[u] + d ELSE 60 BY <2>2 DEF AtMost, Pause
  <2>4. quiet'[u] \in Nat /\ quiet'[u] >= quiet[u] /\ (quiet'[u] = quiet[u] + d \/ quiet'[u] = 60)
    BY <2>1, <2>3 DEF Pause
  <2> DEFINE q == quiet[u]
             z == quiet'[u]
  <2>5. q \in Nat /\ z \in Nat /\ z >= q /\ (z = q + d \/ z = 60) /\ q + wait >= 60 /\ wait \in Nat
    BY <2>1, <2>4 DEF Pause
  <2> HIDE DEF q, z
  <2>6. z + wait' >= 60 BY <1>3, <2>5, Sooner
  <2>7. q >= 60 => z >= 60 BY <2>5
  <2> QED BY <2>4, <2>6, <2>7 DEF q, z, Pause
<1>5. \A i \in 0..Len(trackers) - 1 : tracker(i) \in Url /\ tracker(i)' = tracker(i)
  BY <1>2, Timed DEF tracker
<1>6. IsInjective(trackers') =>
        \A j \in 0..Len(trackers') - 1 : ahead(j)' => quiet'[tracker(j)'] >= Pause
  BY <1>2, <1>4, <1>5 DEF Rested, ahead
<1>7. OthersRested => OthersRested' BY <1>2, <1>4 DEF OthersRested
<1> QED BY <1>2, <1>4, <1>6, <1>7 DEF Rested

LEMMA InitRested == Init => Rested
<1> SUFFICES ASSUME Init PROVE Rested OBVIOUS
<1>2. /\ \A u \in Url : quiet[u] = Pause
      /\ wait = 0 /\ state = 0 /\ current = 0
  BY DEF Init, excused
<1>3. \A i : ~ahead(i) BY <1>2 DEF ahead
<1> QED BY <1>2, <1>3 DEF Rested, Pause

LEMMA NextRests ==
  ASSUME AttemptCap <= 22
  PROVE  TypeOK /\ TypeOK' /\ Counted /\ Rested /\ [Next]_vars => Rested'
<1> SUFFICES ASSUME TypeOK, TypeOK', Counted, Rested, [Next]_vars PROVE Rested'
  OBVIOUS
<1>1. CASE pre_select BY <1>1, RewindRested, StartRested
<1>2. CASE post_select
  <2>1. CASE dies BY <2>1, AllRested DEF dies
  <2> QED BY <1>2, <2>1, AnswerRested
<1>3. CASE user BY <1>3, UserRested
<1>4. CASE elapse BY <1>4, ElapseRested
<1>5. CASE hashed \/ UNCHANGED vars BY <1>5 DEF hashed, vars, link, Rested, OthersRested, ahead, tracker
<1> QED BY <1>1, <1>2, <1>3, <1>4, <1>5 DEF Next

\* As long as no more than 22 failures in a row are counted, no tracker of a list without
\* duplicates is sent a request within a minute of the one before, unless the list was
\* replaced or an announce made due at once (pre_select sets m_announce_time, close goes on in
\* the list).  With more, a shift overflows: see link_backoff.
THEOREM RetriesPause == AttemptCap <= 22 /\ Spec => RetryPause
<1> SUFFICES ASSUME AttemptCap <= 22 PROVE Spec => RetryPause
  OBVIOUS
<1>1. ASSUME TypeOK, Counted, Rested, [Next]_vars, state = 0, state' # 0, IsInjective(trackers)
      PROVE  quiet[url'] >= Pause
  <2>1. PICK u \in Url : start(u)
    <3>1. ~(user \/ hashed \/ elapse \/ UNCHANGED vars)
      BY <1>1 DEF user, announce, completed, stop, open, pause, resume, add_tracker, set_trackers,
                  hashed, elapse, pass, link, vars
    <3>2. ~post_select
      BY <1>1 DEF post_select, http_step, udp_step, http_writable, udp_connected, failed, answered,
                  timed_out, dies, in_state
    <3>3. pre_select BY <1>1, <3>1, <3>2 DEF Next
    <3> QED BY <1>1, <3>3 DEF pre_select, rewind, start_invalid, start_failing, start_unknown, close
  <2>2. may_start /\ url' = u /\ u = tracker(at) BY <2>1 DEF start, begin, choose
  <2>3. at \in Nat /\ at < Len(trackers) /\ Len(trackers) \in Nat
    BY <1>1, <2>2, AtInList, Timed DEF Counted
  <2>4. at \in 0..Len(trackers) - 1 BY <2>3
  <2> QED BY <1>1, <2>2, <2>3, <2>4, NextRested
<1>2. TypeOK /\ Counted /\ Rested /\ [Next]_vars =>
        [state = 0 /\ state' # 0 /\ IsInjective(trackers) => quiet[url'] >= Pause]_vars
  BY <1>1
<1>3. TypeOK /\ TypeOK' /\ Counted /\ Rested /\ [Next]_vars => Rested' BY NextRests
<1> QED BY <1>2, <1>3, InitCounted, NextCounted, InitTyped, NextTyped, InitRested, PTL
        DEF Spec, RetryPause
=============================================================================
