--------------------------------- MODULE Server ---------------------------------
(***************************************************************************)
(* The server of the XBT Client (src/BT Test/server.cpp, with the states of *)
(* a torrent from bt_file.cpp): the list of torrents with its limit and its *)
(* queue, the turns of the main loop with the tasks that share them, the    *)
(* file the torrents are saved in, the end of the program and its crashes.  *)
(*                                                                         *)
(* A turn has two halves under the server's lock; the user interface works  *)
(* on the list between them.  What the peers send and what a hasher finds    *)
(* are choices.  A turn takes one unit of time.                             *)
(***************************************************************************)
EXTENDS Integers, SequencesExt, FiniteSetsExt

CONSTANTS
  Torrents,  \* info hashes
  FromUrl,   \* those known by an xbtp:// address, whose info comes from a peer
  Size,      \* m_size, of the torrents whose info is known
  Priorities,
  Limits,    \* torrent limits a user sets; 0 is no limit
  StopEvents,\* send_stop_event
  Periods,   \* the time after which each task is due, in the order of the tasks
  MaxOps     \* bound: what the users do, and crashes

\* The end of the program relies on it that a task just done is not due.
ASSUME ServerAssumption ==
  /\ Limits \subseteq Nat /\ Priorities \subseteq Int /\ 0 \in Priorities
  /\ Size \in [Torrents -> Int] /\ Periods \in [1..4 -> Nat] /\ MaxOps \in Nat

VARIABLES
  m_files,       \* a sequence of torrents
  torrent_limit, \* m_config
  ages,          \* time since each task was done; beyond its period it is due
  phase,         \* "off", "up" (between turns), "selecting" (between the halves of a turn)
  term, stopping,\* the end has been asked for; the loop is ending, or has ended
  http,          \* m_http_links is not empty
  disk,          \* state.bin
  at_stop,       \* history: the torrents when the end began
  ops

vars == <<m_files, torrent_limit, ages, phase, term, stopping, http, disk, at_stop, ops>>
saving == <<disk, at_stop>>

Tasks == <<"chokes", "states", "save", "scheduler">>
task(name) == CHOOSE i \in DOMAIN Tasks : Tasks[i] = name
\* The code sets the time of a task to 0 to have it done soon.
soon(a, name) == [a EXCEPT ![task(name)] = Periods[task(name)] + 1]

-----------------------------------------------------------------------------
(* A torrent.                                                              *)

new_torrent(id) ==
  [id |-> id, info |-> id \notin FromUrl, state |-> "queued", hasher |-> FALSE, validate |-> TRUE,
   left |-> "unknown", priority |-> 0, hashed |-> FALSE] \* hashed: history, to the end
size(t) == IF t.info THEN Size[t.id] ELSE -1
is_open(t) == t.state \in {"hashing", "paused", "running"}

\* open counts what is left when the info is known; the pieces are read back first when the
\* torrent is to be validated.
open(t) ==
  IF is_open(t) THEN t
  ELSE IF ~t.info THEN [t EXCEPT !.state = "running"]
  ELSE IF t.validate THEN [t EXCEPT !.state = "hashing", !.hasher = TRUE, !.left = "none"]
  ELSE [t EXCEPT !.state = "running", !.left = IF @ = "unknown" THEN "some" ELSE @]

\* A hasher that is stopped before its end has the torrent validated when it is opened again.
close(t) ==
  IF ~is_open(t) THEN t
  ELSE [t EXCEPT !.validate = t.hasher, !.hasher = FALSE, !.state = "stopped"]
set_state(t, s) ==
  IF s \in {"queued", "stopped"} THEN [close(t) EXCEPT !.state = s]
  ELSE IF is_open(t) THEN [t EXCEPT !.state = s]
  ELSE open(t)
hash_done(t, left) ==
  [t EXCEPT !.hasher = FALSE, !.validate = FALSE, !.state = "running", !.left = left, !.hashed = TRUE]

\* What state.bin keeps of it, and how it is loaded.
record(t, intermediate) ==
  [t EXCEPT !.hasher = FALSE, !.validate = (intermediate /\ t.left # "none") \/ @]
load_state(t) == IF is_open(t) THEN open([t EXCEPT !.state = "stopped"]) ELSE t
save_state(fs, intermediate) == [i \in DOMAIN fs |-> record(fs[i], intermediate)]

-----------------------------------------------------------------------------
(* The list of torrents.                                                   *)

ids(fs) == {fs[i].id : i \in DOMAIN fs}
at(fs, id) == CHOOSE i \in DOMAIN fs : fs[i].id = id
count_open(fs) == Cardinality({i \in DOMAIN fs : is_open(fs[i])})
\* Whether a torrent may be opened once n others have been.
below_running(fs, n) ==
  torrent_limit = 0 \/ Cardinality({i \in DOMAIN fs : fs[i].state = "running"}) + n < torrent_limit
below(fs, n) == torrent_limit = 0 \/ count_open(fs) + n < torrent_limit
below_torrent_limit(fs) == below(fs, 0)

\* The queued torrents are opened in the order of their priorities, then of their sizes, then of
\* the list, as long as there is room.
better(t, u) == t.priority > u.priority \/ (t.priority = u.priority /\ size(t) < size(u))
queued(fs) == {i \in DOMAIN fs : fs[i].state = "queued"}
ahead(fs, i) ==
  {j \in queued(fs) : better(fs[j], fs[i]) \/ (~better(fs[i], fs[j]) /\ j < i)}
update_states(fs) ==
  [i \in DOMAIN fs |->
     IF i \in queued(fs) /\ below(fs, Cardinality(ahead(fs, i))) THEN open(fs[i]) ELSE fs[i]]

-----------------------------------------------------------------------------
(* A turn of the loop.                                                     *)

\* The torrents are hashed in the order of the list: the first few of them to the end.
hashing == {i \in DOMAIN m_files : m_files[i].hasher}
\* pre_select closes a complete torrent that has reached its seeding ratio.
pre_select ==
  /\ phase = "up" /\ phase' = "selecting"
  /\ \E last \in {0} \cup hashing, left \in {"none", "some"}, reached \in SUBSET DOMAIN m_files :
       LET f(i) == IF i \in hashing /\ i <= last THEN hash_done(m_files[i], left) ELSE m_files[i]
           over(i) == i \in reached /\ f(i).state = "running" /\ f(i).left = "none" /\ ~f(i).hasher
       IN /\ m_files' = [i \in DOMAIN m_files |-> IF over(i) THEN close(f(i)) ELSE f(i)]
          /\ http' = (http \/ (StopEvents /\ \E i \in DOMAIN m_files : over(i)))
  /\ UNCHANGED <<torrent_limit, ages, term, stopping, saving, ops>>

\* What a peer may send a torrent without a hasher: the info, or the last piece.
received(t) ==
  {t} \cup (IF t.state = "running" /\ ~t.hasher /\ ~t.info THEN {[t EXCEPT !.info = TRUE]} ELSE {})
      \cup (IF is_open(t) /\ ~t.hasher /\ t.left = "some" THEN {[t EXCEPT !.left = "none"]} ELSE {})
post_select == {m_files} \cup
  UNION {{[m_files EXCEPT ![i] = t] : t \in received(m_files[i])} : i \in DOMAIN m_files}

\* One task in a turn, the first that is due (0: none is).
older == [i \in DOMAIN ages |-> IF ages[i] > Periods[i] THEN ages[i] ELSE ages[i] + 1]
first_due(a) ==
  LET due == {i \in DOMAIN a : a[i] > Periods[i]}
  IN IF due = {} THEN 0 ELSE CHOOSE i \in due : \A j \in due : i <= j
done_but_save(a, i) == [j \in DOMAIN a |-> IF j = i /\ i # task("save") THEN 0 ELSE a[j]]
done(a, i) == [j \in DOMAIN a |-> IF j = i THEN 0 ELSE a[j]]
run_task(fs, d, a) ==
  LET i == first_due(a) IN
  /\ ages' = done(a, i)
  /\ m_files' = IF i = task("states") THEN update_states(fs) ELSE fs
  /\ disk' = IF i = task("save") THEN save_state(fs, TRUE) ELSE d

\* The turn that finds that the end was asked for saves the torrents and closes them; it still
\* does its task.  The turns after it do none.
closed(fs) == [i \in DOMAIN fs |-> close(fs[i])]
to_disk_closed(fs) == save_state(closed(fs), FALSE)
to_disk(fs) == save_state(fs, FALSE)
opens(fs) == [i \in DOMAIN fs |-> [id |-> fs[i].id, open |-> is_open(fs[i])]]
turn ==
  /\ phase = "selecting" /\ phase' = "up"
  /\ \E fs \in post_select :
       \/ /\ stopping /\ m_files' = fs /\ UNCHANGED <<ages, stopping, saving>>
       \/ /\ ~stopping /\ ~term /\ run_task(fs, disk, older) /\ UNCHANGED <<stopping, at_stop>>
       \/ /\ ~stopping /\ term /\ stopping' = TRUE /\ at_stop' = opens(fs)
          /\ run_task(closed(fs), to_disk(fs), [older EXCEPT ![task("save")] = 0])
  /\ http' \in {http, FALSE} \cup {term /\ ~stopping /\ StopEvents}
  /\ UNCHANGED <<torrent_limit, term, ops>>

never == [i \in DOMAIN Tasks |-> 0]
gone == phase' = "off" /\ m_files' = <<>> /\ ages' = never
\* The loop ends when no HTTP request is left.
end ==
  /\ phase = "up" /\ stopping /\ ~http /\ gone
  /\ UNCHANGED <<torrent_limit, term, stopping, http, saving, ops>>

-----------------------------------------------------------------------------
(* The users and the process.                                              *)

act == phase # "off" /\ ops < MaxOps /\ ops' = ops + 1
listed(id) == id \in ids(m_files)
told(t) == http' = (http \/ (StopEvents /\ is_open(t)))
rest == <<torrent_limit, phase, term, stopping, saving>>

\* open and open_url: a torrent of the list only gets trackers or peers.
open_torrent(id) ==
  /\ act /\ ~listed(id) /\ ages' = soon(ages, "save")
  /\ LET t == new_torrent(id)
     IN m_files' = Append(m_files, IF below_torrent_limit(m_files) THEN open(t) ELSE t)
  /\ UNCHANGED <<rest, http>>
close_torrent(id) ==
  /\ act /\ listed(id) /\ ages' = soon(ages, "save") /\ told(m_files[at(m_files, id)])
  /\ m_files' = RemoveAt(m_files, at(m_files, id)) /\ UNCHANGED rest
file_state(id, s) ==
  /\ act /\ listed(id) /\ ages' = soon(ages, "states")
  /\ m_files' = [m_files EXCEPT ![at(m_files, id)] = set_state(@, s)]
  /\ IF s \in {"queued", "stopped"} THEN told(m_files[at(m_files, id)]) ELSE UNCHANGED http
  /\ UNCHANGED rest
file_priority(id, p) ==
  /\ act /\ listed(id) /\ m_files' = [m_files EXCEPT ![at(m_files, id)].priority = p]
  /\ UNCHANGED <<rest, ages, http>>
set_options(l) ==
  /\ act /\ l # torrent_limit /\ torrent_limit' = l /\ UNCHANGED <<m_files, ages, phase, term, stopping, http, saving>>
terminate ==
  /\ act /\ ~term /\ term' = TRUE /\ UNCHANGED <<m_files, torrent_limit, ages, phase, stopping, http, saving>>

crash ==
  /\ act /\ gone /\ UNCHANGED <<torrent_limit, term, stopping, http, saving>>
\* The request that is made at once asks for the newest version of the program.
run ==
  /\ phase = "off" /\ phase' = "up" /\ term' = FALSE /\ stopping' = FALSE /\ http' = TRUE
  /\ m_files' = [i \in DOMAIN disk |-> load_state(disk[i])]
  /\ ages' = [i \in DOMAIN Tasks |-> IF i < task("save") THEN Periods[i] + 1 ELSE 0]
  /\ UNCHANGED <<torrent_limit, saving, ops>>

User ==
  \/ \E id \in Torrents :
       \/ open_torrent(id) \/ close_torrent(id)
       \/ \E s \in {"queued", "paused", "running", "stopped"} : file_state(id, s)
       \/ \E p \in Priorities : file_priority(id, p)
  \/ \E l \in Limits : set_options(l)
  \/ terminate

Init ==
  /\ m_files = <<>> /\ torrent_limit \in Limits /\ disk = <<>> /\ at_stop = <<>>
  /\ ages = never /\ phase = "off" /\ term = FALSE /\ stopping = FALSE
  /\ http = FALSE /\ ops = 0
Loop == pre_select \/ turn \/ end
Next == Loop \/ User \/ crash \/ run

\* The loop goes on: select waits for a second at most.  Goes_on says the same in terms of states,
\* since each half can always be done in its phase, and only there.
Fairness == WF_vars(pre_select \/ turn)
Goes_on == []<>(phase # "up") /\ []<>(phase # "selecting")
Spec == Init /\ [][Next]_vars /\ Fairness

-----------------------------------------------------------------------------
(* Properties.                                                             *)

\* A hasher and the state of its torrent go together; and a torrent whose info was known when it
\* was opened is not open without a hasher unless its data has been hashed to the end since it
\* was added, however often it was stopped, paused, saved and restarted before that.
Hashed ==
  \A i \in DOMAIN m_files : LET t == m_files[i] IN
    /\ t.hasher => is_open(t)
    /\ t.state = "hashing" => t.hasher
    /\ is_open(t) /\ ~t.hasher /\ t.id \notin FromUrl => t.hashed

\* From the turn that ends the program on, whatever is done or crashes later, state.bin brings
\* back the torrents there were, those open that were open.
Resumes == stopping => opens(disk) = at_stop
ServerKeeps == Hashed /\ Resumes

\* While it runs the program itself opens no torrent beyond the limit, however the torrents were
\* opened and whatever the limit was before.  The start is not meant (by_itself): it opens the
\* torrents that were saved open without a look at the limit.
by_itself == phase # "off" /\ (ops' = ops \/ Len(m_files') > Len(m_files))
WithinLimit ==
  [][by_itself /\ torrent_limit # 0
     => count_open(m_files') <= Max({count_open(m_files), torrent_limit})]_vars

\* While the program runs the task that comes last is done again and again, a queued torrent is
\* opened when there is room for it, and the list of torrents is saved.
Runs == phase # "off" /\ ~term
Moves ==
  /\ []<>(ages[Len(Tasks)] = 0 \/ ~Runs)
  /\ []<>(~below_torrent_limit(m_files) \/ queued(m_files) = {} \/ ~Runs)
  /\ []<>(ids(disk) = ids(m_files) \/ ~Runs)
===============================================================================
