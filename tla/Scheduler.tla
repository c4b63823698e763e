------------------------------ MODULE Scheduler ------------------------------
(***************************************************************************)
(* Profiles and the schedule that puts them in force (src/BT Test/          *)
(* scheduler.cpp, profiles.cpp, server.cpp), with the dialogs that edit     *)
(* both (src/Client) and the files they are kept in.  The server's thread   *)
(* runs the schedule; a dialog edits a copy, and when it is closed the      *)
(* thread of the user interface replaces the profiles or the schedule in    *)
(* several steps and without the lock.                                      *)
(*                                                                         *)
(* A profile is the limit it sets, 0 when it is not enabled: its five       *)
(* limits are set together.  A day has Day seconds.                        *)
(***************************************************************************)
EXTENDS Integers, FiniteSets

CONSTANTS
  Day,
  Values,  \* limits a user gives a profile
  MaxKeys, \* bound: entries of a map
  MaxEdits \* bound: what the user does in dialogs, and restarts

VARIABLES
  m_profiles, m_scheduler, \* std::maps from ids to profiles and to entries
  profiles_file, scheduler_file,
  now,                     \* time of the day
  last_run,                \* m_run_scheduler_time: the time of the day then, -1 for never
  limit,                   \* the limit in force
  edit,                    \* what the user interface's thread is at, with the dialog's copy
  running,                 \* the server's thread has started
  in_force,                \* history: limit is the schedule's, and nothing was edited since
  gap,                     \* history: the schedule was loaded with a hole in its ids
  asked,                   \* history: the entries the user gave
  edits

maps == <<m_profiles, m_scheduler>>
stored == <<profiles_file, scheduler_file>>
history == <<in_force, gap, asked, edits>>
vars == <<maps, stored, now, last_run, limit, edit, running, history>>

Never == -1
None == -1
Profile == Values \cup {0}
Entry == [time : 0..Day - 1, profile : 0..MaxKeys - 1]

-----------------------------------------------------------------------------
(* Maps and the key files they are saved in, which keep the ids.           *)

\* A map is loaded by the ids from 0, as many as it has keys; an id without a key gives the
\* default.
load(keys, default) ==
  [i \in 0..Cardinality(DOMAIN keys) - 1 |-> IF i \in DOMAIN keys THEN keys[i] ELSE default]
no_profile == 0
no_entry == [time |-> 0, profile |-> 0]
has_gap(keys) == DOMAIN keys # 0..Cardinality(DOMAIN keys) - 1
Empty == [i \in {} |-> 0]
bag(keys) == {<<i, keys[i]>> : i \in DOMAIN keys}
of(entries, profiles) == {e \in entries : e[2].profile \in DOMAIN profiles}

\* clean_scheduler drops the entries of profiles that are gone.
clean_scheduler(scheduler, profiles) ==
  [i \in {j \in DOMAIN scheduler : scheduler[j].profile \in DOMAIN profiles} |-> scheduler[i]]

\* The entry with the latest time before the given one, the first of them; an entry at time 0 is
\* of no day.  Before the first entry of a day the last of the day before is active.
before(scheduler, time) == {i \in DOMAIN scheduler : 0 < scheduler[i].time /\ scheduler[i].time < time}
latest(scheduler, ids) ==
  CHOOSE i \in ids : \A j \in ids : \/ scheduler[j].time < scheduler[i].time
                                    \/ scheduler[j].time = scheduler[i].time /\ i <= j
find_no_wrap(scheduler, time) ==
  LET ids == before(scheduler, time)
  IN IF ids # {} THEN scheduler[latest(scheduler, ids)].profile ELSE None
find_active_profile(scheduler, time) ==
  LET ids == before(scheduler, time)  all == before(scheduler, Day)
  IN IF ids # {} THEN scheduler[latest(scheduler, ids)].profile
     ELSE IF all # {} THEN scheduler[latest(scheduler, all)].profile
     ELSE None

-----------------------------------------------------------------------------
(* The server's thread.                                                    *)

\* No edit is between its steps: both maps are whole, and the entries have their profiles.
settled == edit.step \notin {"cleared", "loaded"}
at(step, what, entries) == [step |-> step, what |-> what, entries |-> entries]
idle == at("none", "none", Empty)

\* find_active_profile is asked for the old time under the schedule of now.  A profile that is not
\* there is read all the same.
changes_profile(profiles, scheduler, then) ==
  LET old_profile == IF then = Never THEN None ELSE find_active_profile(scheduler, then)
      new_profile == find_active_profile(scheduler, now)
  IN /\ last_run' = now
     /\ IF new_profile = old_profile THEN UNCHANGED limit /\ in_force' = (in_force /\ then # Never)
        ELSE /\ limit' \in (IF new_profile \in DOMAIN profiles THEN {profiles[new_profile]} ELSE Profile)
             /\ in_force' = settled
run_scheduler ==
  /\ running /\ changes_profile(m_profiles, m_scheduler, last_run)
  /\ UNCHANGED <<maps, stored, now, edit, running, gap, asked, edits>>

tick ==
  /\ now' = (now + 1) % Day
  /\ UNCHANGED <<maps, stored, last_run, limit, edit, running, history>>

\* Cserver::run loads both maps, each from its file, and runs the schedule.
start ==
  /\ ~running /\ running' = TRUE
  /\ m_profiles' = load(profiles_file, no_profile)
  /\ m_scheduler' = clean_scheduler(load(scheduler_file, no_entry), m_profiles')
  /\ changes_profile(m_profiles', m_scheduler', Never)
  /\ gap' = (gap \/ has_gap(scheduler_file))
  /\ UNCHANGED <<stored, now, edit, asked, edits>>

\* The end of the process, even in the middle of an edit, or of the writing of a file, which then
\* cannot be read and gives an empty map.  What an edit has not saved is not asked for any more.
ends ==
  /\ running' = FALSE /\ edit' = idle
  /\ asked' = IF edit.step \in {"none", "open", "agreed"} THEN asked
              ELSE of(bag(scheduler_file'), profiles_file')
  /\ UNCHANGED <<maps, now, last_run, limit, in_force, gap>>
quit == running /\ edits < MaxEdits /\ edits' = edits + 1 /\ UNCHANGED stored /\ ends
torn ==
  /\ edit.step \in {"cleaned", "half"}
  /\ IF edit.step = "cleaned" /\ edit.what = "profiles"
     THEN profiles_file' = Empty /\ UNCHANGED scheduler_file
     ELSE scheduler_file' = Empty /\ UNCHANGED profiles_file
  /\ ends /\ UNCHANGED edits

-----------------------------------------------------------------------------
(* The user interface's thread: the dialogs, each with a copy of its map.   *)

OnToolsProfiles ==
  /\ running /\ edit.step = "none" /\ edit' = at("open", "profiles", load(m_profiles, no_profile))
  /\ UNCHANGED <<maps, stored, now, last_run, limit, running, history>>
OnToolsScheduler ==
  /\ running /\ edit.step = "none" /\ edit' = at("open", "scheduler", load(m_scheduler, no_entry))
  /\ UNCHANGED <<maps, stored, now, last_run, limit, running, history>>

\* A new entry has the id behind the last one, and one that is deleted leaves a hole.  An entry of
\* the schedule names one of the profiles there are.
offered == {e \in Entry : e.profile \in DOMAIN m_profiles}
contents == IF edit.what = "profiles" THEN Profile ELSE offered
next_ids(map) == {n \in 0..MaxKeys - 1 : (\A i \in DOMAIN map : i < n) /\ (n = 0 \/ n - 1 \in DOMAIN map)}
\* Each row of the schedule shows the name of its profile.
looked_up(entries) == {entries[i].profile : i \in DOMAIN entries}
in_dialog(entries) ==
  /\ edits < MaxEdits /\ edits' = edits + 1 /\ edit' = [edit EXCEPT !.entries = entries]
  /\ UNCHANGED <<maps, stored, now, last_run, limit, running, in_force, gap, asked>>
OnInsert ==
  /\ edit.step = "open"
  /\ \E id \in next_ids(edit.entries), v \in contents :
       in_dialog([i \in DOMAIN edit.entries \cup {id} |-> IF i = id THEN v ELSE edit.entries[i]])
OnEdit ==
  /\ edit.step = "open"
  /\ \E i \in DOMAIN edit.entries, v \in contents : in_dialog([edit.entries EXCEPT ![i] = v])
OnDelete ==
  /\ edit.step = "open"
  /\ \E selected \in SUBSET DOMAIN edit.entries \ {{}} :
       in_dialog([i \in DOMAIN edit.entries \ selected |-> edit.entries[i]])

OnCancel ==
  /\ edit.step = "open" /\ edit' = idle
  /\ UNCHANGED <<maps, stored, now, last_run, limit, running, history>>
OnOK ==
  /\ edit.step = "open" /\ edit' = [edit EXCEPT !.step = "agreed"]
  /\ UNCHANGED <<maps, stored, now, last_run, limit, running, history>>
\* A profile is put in force by hand as the dialog has it, and what else was edited is taken over
\* as with OK.
OnActivate ==
  /\ edit.step = "open" /\ edit.what = "profiles"
  /\ \E id \in DOMAIN edit.entries : limit' = edit.entries[id]
  /\ edit' = [edit EXCEPT !.step = "agreed"] /\ in_force' = FALSE
  /\ UNCHANGED <<maps, stored, now, last_run, running, gap, asked, edits>>

\* set_profiles and set_scheduler clear the map, load it, clean the schedule and save.
set_profiles ==
  /\ edit.step = "agreed" /\ edit.what = "profiles"
  /\ m_profiles' = Empty /\ edit' = [edit EXCEPT !.step = "cleared"] /\ in_force' = FALSE
  /\ UNCHANGED <<m_scheduler, stored, now, last_run, limit, running, gap, asked, edits>>
set_scheduler ==
  /\ edit.step = "agreed" /\ edit.what = "scheduler"
  /\ m_scheduler' = Empty /\ edit' = [edit EXCEPT !.step = "cleared"] /\ in_force' = FALSE
  /\ gap' = has_gap(edit.entries) /\ asked' = bag(edit.entries)
  /\ UNCHANGED <<m_profiles, stored, now, last_run, limit, running, edits>>
\* A profile without a key has no name: the string is made from a null pointer, and the program ends.
loaded ==
  /\ edit.step = "cleared"
  /\ IF edit.what = "scheduler"
     THEN m_scheduler' = load(edit.entries, no_entry) /\ UNCHANGED m_profiles
     ELSE ~has_gap(edit.entries) /\ m_profiles' = load(edit.entries, no_profile) /\ UNCHANGED m_scheduler
  /\ edit' = at("loaded", edit.what, Empty)
  /\ UNCHANGED <<stored, now, last_run, limit, running, history>>
nameless ==
  edit.step = "cleared" /\ edit.what = "profiles" /\ has_gap(edit.entries) /\ UNCHANGED <<stored, edits>> /\ ends
cleaned ==
  /\ edit.step = "loaded" /\ edit' = [edit EXCEPT !.step = "cleaned"]
  /\ m_scheduler' = clean_scheduler(m_scheduler, m_profiles)
  /\ asked' = of(asked, m_profiles)
  /\ UNCHANGED <<m_profiles, stored, now, last_run, limit, running, in_force, gap, edits>>
saved ==
  /\ edit.step \in {"cleaned", "half"}
  /\ IF edit.step = "cleaned" /\ edit.what = "profiles"
     THEN profiles_file' = m_profiles /\ edit' = [edit EXCEPT !.step = "half"] /\ UNCHANGED scheduler_file
     ELSE scheduler_file' = m_scheduler /\ edit' = idle /\ UNCHANGED profiles_file
  /\ UNCHANGED <<maps, now, last_run, limit, running, history>>

\* An earlier session has left profiles in its file.
Init ==
  /\ profiles_file \in {Empty, [i \in 0..MaxKeys - 1 |-> IF i \in Values THEN i ELSE 0]}
  /\ scheduler_file = Empty
  /\ m_profiles = Empty /\ m_scheduler = Empty /\ asked = {}
  /\ now = 0 /\ last_run = Never /\ limit = no_profile /\ edit = idle
  /\ running = FALSE /\ in_force = FALSE /\ gap = FALSE /\ edits = 0
Dialog ==
  OnToolsProfiles \/ OnToolsScheduler \/ OnInsert \/ OnEdit \/ OnDelete \/ OnCancel \/ OnOK \/ OnActivate
Edit == set_profiles \/ set_scheduler \/ loaded \/ nameless \/ cleaned \/ saved \/ torn
Next == run_scheduler \/ tick \/ start \/ quit \/ Dialog \/ Edit
Spec == Init /\ [][Next]_vars

-----------------------------------------------------------------------------
(* Properties.                                                             *)

\* The schedule is obeyed: unless something has been edited or set by hand since it last
\* changed the limit, the limit in force is that of the profile that was active at the last run,
\* across midnight and restarts.
InForce ==
  in_force => LET id == find_active_profile(m_scheduler, last_run)
              IN id \in DOMAIN m_profiles /\ limit = m_profiles[id]

\* A profile is looked up only when there is one, by run_scheduler unless it comes between the
\* steps of an edit: not for a schedule without an active entry, nor for a profile that was removed;
\* and by the dialog that shows the schedule, also after entries were lost in a hole.
LookupSafe ==
  /\ running /\ settled =>
       LET id == find_active_profile(m_scheduler, now)
       IN id \in DOMAIN m_profiles \/ (id = None /\ \A t \in 0..Day - 1 : find_active_profile(m_scheduler, t) = None)
  /\ edit.step = "open" /\ edit.what = "scheduler" => looked_up(edit.entries) \subseteq DOMAIN m_profiles

\* An entry is lost only with its profile: not by an edit of schedule or profiles, not by a restart,
\* and not by the end of the program in the middle of an edit, which leaves what was saved.  Only a
\* schedule with a hole in its ids is loaded without its last entries.
EntriesKept ==
  running /\ settled /\ ~gap => bag(m_scheduler) = asked

ScheduleObeyed == InForce /\ LookupSafe /\ EntriesKept
===============================================================================
