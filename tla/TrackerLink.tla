----------------------------- MODULE TrackerLink -----------------------------
(***************************************************************************)
(* How the XBT client announces a torrent to its trackers                  *)
(* (src/BT Test/bt_tracker_link.cpp, with what bt_file.cpp does to it).    *)
(*                                                                         *)
(* The trackers are tried in the order of the list.  One that answers      *)
(* moves to the front; one that fails gives way to the next, and after the *)
(* last the link waits before it starts again at the front.  The waits     *)
(* double from round to round until they reach an hour.                    *)
(*                                                                         *)
(* Time is relative: "wait" is what remains until m_announce_time and      *)
(* "age" the time since the last UDP packet was sent.  The select loop     *)
(* calls pre_select and post_select in turn; each is an action per case.   *)
(***************************************************************************)
EXTENDS Integers, Sequences, SequencesExt

CONSTANTS
  Url,         \* the trackers the user may enter
  Protocol,    \* the protocol of each; "bad" when the URL is not valid
  Reliable,    \* those that answer in time, as far as progress depends on it
  Lists,       \* the lists of trackers the user may enter
  Intervals,   \* what an answer may ask for, in seconds
  AttemptCap,  \* mc_attempts counts no further
  Budget       \* how often the user and the local network may interfere

Kind == {"user", "network"}
ASSUME TrackerLinkAssumption ==
  /\ Protocol \in [Url -> {"http", "udp", "bad"}] /\ Reliable \subseteq Url
  /\ \A list \in Lists : list \in Seq(Url)
  /\ Intervals \subseteq Nat /\ AttemptCap \in 1..31 /\ Budget \in [Kind -> Nat]

VARIABLES
  trackers, \* Cbt_file::m_trackers
  torrent,  \* Cbt_file::m_state
  state,    \* m_state: 0 idle, 1 and 2 HTTP, 3 and 4 UDP
  current,  \* m_current_tracker
  attempts, \* mc_attempts
  event,    \* m_event
  wait,     \* seconds until m_announce_time, 0 when that has passed
  age,      \* seconds since m_connect_send or m_announce_send, at most Timeout + 1
  url,      \* m_url
  listed,   \* history: the list is still the one url was taken from
  quiet,    \* history: seconds since a request to each tracker began, at most Pause
  late,     \* history: announces sent since the torrent was stopped, at most 2
  budget    \* what is left of Budget

link == <<state, current, attempts, event, wait, age, url>>
vars == <<trackers, torrent, link, listed, quiet, late, budget>>

NoUrl == "none"
Timeout == 15    \* seconds a UDP tracker has for each answer
Pause == 60
Hour == 3600
AtMost(m, n) == IF m < n THEN m ELSE n
AtLeast(m, n) == IF m > n THEN m ELSE n

spend(kind) == budget[kind] > 0 /\ budget' = [budget EXCEPT ![kind] = @ - 1]

-----------------------------------------------------------------------------
(* min(base << attempts, 3600), with the build's int of 32 bits.  From 32 on the shift is  *)
(* undefined, so AttemptCap is less.  (backoff_linear and, below, due_in_signed,           *)
(* one_more_last, close_going_on, may_start_any and overdue_connect are wrong on purpose:  *)
(* what a plausible bug would do.  Nothing of the specification uses them.)                *)

Half == 1073741824   \* 2^30
doubled(x) ==
  IF x >= Half THEN 2 * ((x - Half) - Half)
  ELSE IF x < -Half THEN 2 * ((x + Half) + Half)
  ELSE 2 * x
shifted(base, n) ==
  LET f[i \in 0..n] == IF i = 0 THEN base ELSE doubled(f[i - 1]) IN f[n]
backoff_linear(base, n) == AtMost(base * n, Hour)
backoff(base, n) == AtMost(shifted(base, n), Hour)
base_of(u) == IF Protocol[u] = "http" THEN 300 ELSE 60

\* What remains until a moment n seconds ahead; one that has passed is due.
due_in_signed(n) == n
due_in(n) == AtLeast(n, 0)

one_more_last == attempts
one_more == AtMost(attempts + 1, AttemptCap)

\* close(f), with mc_attempts = n and m_current_tracker = i: the request is over.  When the list
\* has become too short meanwhile, the swap reads and writes beyond its end, which is
\* undefined: the first entry becomes whatever is there, or the process dies (dies, below).
tracker(i) == trackers[i + 1]   \* the code counts from 0
swapped(i) == [trackers EXCEPT ![1] = tracker(i), ![i + 1] = trackers[1]]
spoilt == {list \in [DOMAIN trackers -> Url] :
             \A i \in DOMAIN trackers \ {1} : list[i] = trackers[i]}
close_going_on(n, i) ==
  /\ state' = 0
  /\ IF n = 0
     THEN attempts' = n /\ current' = 0 /\ UNCHANGED trackers
     ELSE /\ UNCHANGED trackers
          /\ IF i + 1 < Len(trackers)
             THEN attempts' = n - 1 /\ current' = i + 1
             ELSE attempts' = n /\ current' = 0
close(n, i) ==
  /\ state' = 0
  /\ IF n = 0
     THEN /\ attempts' = n /\ current' = 0
          /\ trackers' \in IF i < Len(trackers) THEN {swapped(i)} ELSE spoilt
     ELSE /\ UNCHANGED trackers
          /\ IF i + 1 < Len(trackers)
             THEN attempts' = n - 1 /\ current' = i + 1
             ELSE attempts' = n /\ current' = 0

\* The network fails where a reliable tracker would not.
fault(u) == IF u \in Reliable THEN spend("network") ELSE UNCHANGED budget

\* Cbt_file calls the link whatever state the torrent is in, unless it is hashing.
in_state(S) == state \in S /\ torrent # "hashing"

-----------------------------------------------------------------------------
(* pre_select in state 0.  The peer limit may keep it from starting, so may_start need not
   be followed by a start.                                                                *)

at == IF current >= Len(trackers) THEN 0 ELSE current
may_start_any == state = 0 /\ trackers # <<>> /\ (at = 0 => wait = 0)
may_start ==
  state = 0 /\ torrent = "running" /\ trackers # <<>> /\ (at = 0 => wait = 0)

choose(u) == url' = u /\ listed' = TRUE
begin(u) ==
  /\ may_start /\ u = tracker(at) /\ Protocol[u] # "bad" /\ choose(u)
  /\ wait' = due_in(backoff(base_of(u), attempts))

start_invalid(u) ==
  /\ may_start /\ u = tracker(at) /\ Protocol[u] = "bad" /\ choose(u)
  /\ close(one_more, at)
  /\ UNCHANGED <<torrent, event, wait, age, quiet, late, budget>>

\* No socket, or connect fails at once: the link returns without close.
start_failing(u) ==
  /\ begin(u) /\ spend("network")
  /\ attempts' = one_more /\ current' = at
  /\ UNCHANGED <<trackers, torrent, state, event, age, quiet, late>>

\* The host's name is not found, or the first UDP packet cannot be sent.
start_unknown(u) ==
  /\ begin(u) /\ fault(u) /\ close(one_more, at)
  /\ UNCHANGED <<torrent, event, age, quiet, late>>

start(u) ==
  /\ begin(u)
  /\ attempts' = one_more /\ current' = at
  /\ state' = IF Protocol[u] = "http" THEN 1 ELSE 3
  /\ age' = 0 /\ quiet' = [quiet EXCEPT ![u] = 0]
  /\ UNCHANGED <<trackers, torrent, event, late, budget>>

\* A place that is no longer in the list is given up, whether a request starts or not.
rewind ==
  /\ in_state({0}) /\ current # 0 /\ current >= Len(trackers) /\ current' = 0
  /\ UNCHANGED <<trackers, torrent, state, attempts, event, wait, age, url>>
  /\ UNCHANGED <<listed, quiet, late, budget>>

pre_select ==
  \/ rewind
  \/ \E u \in Url : start_invalid(u) \/ start_failing(u) \/ start_unknown(u) \/ start(u)

\* No pause is owed to any tracker.
excused == [u \in Url |-> Pause]

-----------------------------------------------------------------------------
(* post_select.                                                            *)

kept == UNCHANGED <<torrent, url, listed, quiet>>

\* The announce itself.  Making the request clears the event, sent or not.
announced ==
  /\ event' = "none"
  /\ late' = IF torrent = "stopped" THEN AtMost(late + 1, 2) ELSE late
not_announced == event' = "none" /\ UNCHANGED late

http_writable ==
  /\ in_state({1})
  /\ \/ /\ announced /\ state' = 2 /\ UNCHANGED <<trackers, attempts, current, budget>>
     \/ /\ not_announced /\ fault(url) /\ close(attempts, current)
  /\ kept /\ UNCHANGED <<wait, age>>

udp_connected ==
  /\ in_state({3})
  /\ \/ /\ announced /\ state' = 4 /\ age' = 0
        /\ UNCHANGED <<trackers, attempts, current, budget>>
     \/ /\ not_announced /\ fault(url) /\ close(attempts, current) /\ UNCHANGED age
  /\ kept /\ UNCHANGED wait

\* Refused, broken off, or an answer that is an error.
failed(S) ==
  /\ in_state(S) /\ fault(url) /\ close(attempts, current)
  /\ kept /\ UNCHANGED <<event, wait, age, late>>

\* Only the UDP states have a time-out.
overdue_connect == state = 3 /\ age > Timeout
overdue == state \in {3, 4} /\ age > Timeout
timed_out ==
  /\ overdue /\ in_state({3, 4}) /\ close(attempts, current)
  /\ kept /\ UNCHANGED <<event, wait, age, late, budget>>

answered(S) ==
  /\ in_state(S)
  /\ \E interval \in Intervals : wait' = AtLeast(300, interval)
  /\ close(0, current)
  /\ kept /\ UNCHANGED <<event, age, late, budget>>

\* An answer whose place is beyond the end of the list ends the process instead, and the
\* client is started again with the list it finds then.
dies ==
  /\ in_state({2, 4}) /\ current >= Len(trackers)
  /\ trackers' \in Lists /\ torrent' = "stopped"
  /\ state' = 0 /\ current' = 0 /\ attempts' = 0 /\ event' = "started" /\ wait' = 0
  /\ age' = 0 /\ url' = NoUrl /\ listed' = FALSE /\ quiet' = excused /\ late' = 0
  /\ UNCHANGED budget

http_step == http_writable \/ failed({1, 2}) \/ answered({2})
udp_step == udp_connected \/ failed({4}) \/ answered({4})
post_select == http_step \/ udp_step \/ timed_out \/ dies

-----------------------------------------------------------------------------
(* What the user and the rest of the client do.                            *)

\* Whoever makes the next announce due at once means it to be made.
due == wait' = 0 /\ quiet' = excused

announce ==
  /\ spend("user") /\ due
  /\ UNCHANGED <<trackers, torrent, state, current, attempts, event, age, url, listed, late>>

completed ==
  /\ torrent = "running" /\ spend("user") /\ due /\ event' = "completed"
  /\ UNCHANGED <<trackers, torrent, state, current, attempts, age, url, listed, late>>

add_tracker(u) ==
  /\ ~Contains(trackers, u) /\ trackers' = Append(trackers, u)
  /\ UNCHANGED <<torrent, link, listed, quiet, late, budget>>

\* Cbt_file::trackers.  Nothing tells the link, which keeps its place and its request.
set_trackers(list) ==
  /\ spend("user") /\ trackers' = list /\ listed' = FALSE /\ quiet' = excused
  /\ UNCHANGED <<torrent, link, late>>

\* Cbt_file::close.  The event is "stopped" only while a link of its own takes the announce
\* to the first tracker; the request under way here goes on.
stop ==
  /\ torrent # "stopped" /\ spend("user")
  /\ torrent' = "stopped" /\ late' = 0
  /\ \/ trackers # <<>> /\ Protocol[trackers[1]] = "http" /\ event' = "none" /\ due
     \/ UNCHANGED <<event, wait, quiet>>
  /\ UNCHANGED <<trackers, state, current, attempts, age, url, listed>>

\* Cbt_file::open, then hash.
open ==
  /\ torrent = "stopped" /\ torrent' \in {"hashing", "running"} /\ due /\ late' = 0
  /\ UNCHANGED <<trackers, state, current, attempts, event, age, url, listed, budget>>
hashed ==
  /\ torrent = "hashing" /\ torrent' = "running"
  /\ UNCHANGED <<trackers, link, listed, quiet, late, budget>>
pause ==
  /\ torrent = "running" /\ spend("user") /\ torrent' = "paused"
  /\ UNCHANGED <<trackers, link, listed, quiet, late>>
resume ==
  /\ torrent = "paused" /\ torrent' = "running"
  /\ UNCHANGED <<trackers, link, listed, quiet, late, budget>>

user ==
  \/ announce \/ completed \/ stop \/ open \/ pause \/ resume
  \/ \E u \in Url : add_tracker(u)
  \/ \E list \in Lists : set_trackers(list)

\* Time passes until a UDP answer is overdue or until the announce is due.  A reliable
\* tracker answers before that.
pass(d) ==
  /\ wait' = due_in(wait - d) /\ age' = AtMost(age + d, Timeout + 1)
  /\ quiet' = [u \in Url |-> AtMost(quiet[u] + d, Pause)]
  /\ UNCHANGED <<trackers, torrent, state, current, attempts, event, url, listed, late, budget>>
elapse ==
  /\ state # 0 => url \notin Reliable
  /\ \/ state \in {3, 4} /\ age <= Timeout /\ pass(Timeout + 1 - age)
     \/ wait > 0 /\ pass(wait)

-----------------------------------------------------------------------------
Init ==
  /\ trackers \in Lists /\ torrent = "stopped"
  /\ state = 0 /\ current = 0 /\ attempts = 0 /\ event = "started" /\ wait = 0
  /\ age = 0 /\ url = NoUrl
  /\ listed = FALSE /\ quiet = excused /\ late = 0 /\ budget = Budget

Next == pre_select \/ post_select \/ user \/ hashed \/ elapse
Spec == Init /\ [][Next]_vars

\* The select loop goes round and time passes; an HTTP connection ends some day, one way or
\* another; a reliable tracker answers; a torrent that is hashed is hashed to the end.
Fairness ==
  /\ WF_vars(pre_select) /\ WF_vars(timed_out) /\ WF_vars(elapse) /\ WF_vars(hashed)
  /\ WF_vars(http_step) /\ WF_vars(post_select /\ url \in Reliable)
FairSpec == Spec /\ Fairness

-----------------------------------------------------------------------------
(* Properties.                                                             *)

\* The variables keep their types; the remaining times never become negative.
TypeOK ==
  /\ trackers \in Seq(Url) /\ torrent \in {"hashing", "running", "paused", "stopped"}
  /\ state \in 0..4 /\ current \in Nat /\ attempts \in 0..AttemptCap
  /\ event \in {"none", "completed", "started"} /\ wait \in Nat /\ age \in 0..Timeout + 1
  /\ url \in Url \cup {NoUrl} /\ listed \in BOOLEAN /\ quiet \in [Url -> 0..Pause]
  /\ late \in 0..2 /\ budget \in [Kind -> Nat]

\* A request under way has been counted: close tells an answer from a failure by the count.
\* As long as the user has not replaced the list its place is in the list, and is that of the
\* tracker that was asked, however the list has grown: close indexes the list by the place.
RequestCounted ==
  state # 0 => attempts > 0 /\ (listed => current < Len(trackers) /\ tracker(current) = url)

\* When a request ends, an answer brings its tracker to the front of the list, unless the
\* user has replaced the list meanwhile, and as long as its place is in the list no tracker
\* is lost by that; a failure leaves the list alone and goes on to the next tracker, or after
\* the last one back to the front.
TriedInOrder ==
  [][state # 0 /\ state' = 0 /\ ~dies =>
       IF answered({2, 4})
       THEN /\ listed => trackers'[1] = url
            /\ current < Len(trackers) =>
                 \A u \in Url : Contains(trackers, u) <=> Contains(trackers', u)
       ELSE /\ trackers' = trackers
            /\ current' = IF current + 1 < Len(trackers) THEN current + 1 ELSE 0]_vars

\* No tracker is sent a request within a minute of the one before, through time-outs,
\* errors, trackers changing places and lists growing, unless the list names one twice, the
\* user replaced it, or a user or a start made an announce due at once: what the waits are for.
RetryPause ==
  [][state = 0 /\ state' # 0 /\ IsInjective(trackers) => quiet[url'] >= Pause]_vars

\* Of a torrent that is stopped at most one more announce goes out, that of the request
\* under way at that time: post_select does not look at the torrent's state.
StopQuiets == late <= 1

\* While the torrent runs and one of its trackers is reliable, it is announced again and
\* again and an answer comes again and again, whatever the other trackers do.
Answered == state = 0 /\ attempts = 0 /\ current = 0
KeepsAnnouncing ==
  <>[](torrent = "running" /\ \E u \in Reliable : Contains(trackers, u))
    => []<>(state # 0) /\ []<>Answered
===============================================================================
