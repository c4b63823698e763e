------------------------------ MODULE ServerProofs ------------------------------
(***************************************************************************)
(* Proofs about Server, for any torrents, sizes, priorities, limits, periods *)
(* of the tasks and any number of acts of the users and crashes, and about  *)
(* the schedule and the window beside it.                                   *)
(***************************************************************************)
EXTENDS ServerParts, FiniteSetTheorems, NatInduction

FileRecord ==
  [id : Torrents, info : BOOLEAN, state : {"queued", "hashing", "paused", "running", "stopped"},
   hasher : BOOLEAN, validate : BOOLEAN, left : {"unknown", "some", "none"},
   priority : Priorities, hashed : BOOLEAN]

\* A torrent whose info is known is to be validated until it has been hashed to the end; a hasher
\* is there to validate, and what is open without one has been hashed.
Due(t) == t.id \notin FromUrl => t.info /\ (t.validate \/ t.hashed)
Listed ==
  {t \in FileRecord :
     /\ Due(t)
     /\ t.hasher => is_open(t) /\ t.validate
     /\ t.state = "hashing" => t.hasher
     /\ is_open(t) /\ ~t.hasher /\ t.id \notin FromUrl => t.hashed}
\* What state.bin holds of it.
Recorded == {t \in FileRecord : Due(t) /\ ~t.hasher}

Inv ==
  /\ m_files \in Seq(Listed) /\ disk \in Seq(Recorded)
  /\ torrent_limit \in Nat /\ ages \in [1..4 -> Nat] /\ ops \in Nat
  /\ Resumes

-----------------------------------------------------------------------------
(* One torrent.                                                            *)

LEMMA NewListed == ASSUME NEW id \in Torrents PROVE new_torrent(id) \in Listed
BY ServerAssumption DEF new_torrent, Listed, FileRecord, Due, is_open

\* What is listed, and what was loaded and is about to be opened, is listed once it is open.
LEMMA OpenListed ==
  ASSUME NEW t \in FileRecord, Due(t), is_open(t) => t \in Listed, ~is_open(t) => ~t.hasher
  PROVE  open(t) \in Listed /\ is_open(open(t))
<1>1. CASE is_open(t) BY <1>1 DEF open
<1>2. CASE ~is_open(t)
  <2>1. CASE ~t.info BY <1>2, <2>1 DEF open, Listed, FileRecord, Due, is_open
  <2>2. CASE t.info /\ t.validate BY <1>2, <2>2 DEF open, Listed, FileRecord, Due, is_open
  <2>3. CASE t.info /\ ~t.validate BY <1>2, <2>3 DEF open, Listed, FileRecord, Due, is_open
  <2> QED BY <2>1, <2>2, <2>3 DEF Listed, FileRecord
<1> QED BY <1>1, <1>2

LEMMA CloseListed == ASSUME NEW t \in Listed PROVE close(t) \in Listed /\ ~is_open(close(t))
BY DEF close, Listed, FileRecord, Due, is_open

LEMMA DoneListed ==
  ASSUME NEW t \in Listed, t.hasher, NEW left \in {"none", "some"}
  PROVE  hash_done(t, left) \in Listed /\ is_open(t)
BY DEF hash_done, Listed, FileRecord, Due, is_open

LEMMA ReceivedListed ==
  ASSUME NEW t \in Listed, NEW u \in received(t)
  PROVE  u \in Listed /\ (is_open(u) => is_open(t))
<1>1. CASE u = t BY <1>1
<1>2. CASE u = [t EXCEPT !.info = TRUE] BY <1>2 DEF Listed, FileRecord, Due, is_open
<1>3. CASE u = [t EXCEPT !.left = "none"] BY <1>3 DEF Listed, FileRecord, Due, is_open
<1> QED BY <1>1, <1>2, <1>3 DEF received

LEMMA StateListed ==
  ASSUME NEW t \in Listed, NEW s \in {"queued", "paused", "running", "stopped"}
  PROVE  set_state(t, s) \in Listed
<1>1. CASE s \in {"queued", "stopped"}
  BY <1>1, CloseListed DEF set_state, Listed, FileRecord, Due, is_open
<1>2. CASE s \notin {"queued", "stopped"} /\ is_open(t)
  BY <1>2 DEF set_state, Listed, FileRecord, Due, is_open
<1>3. CASE s \notin {"queued", "stopped"} /\ ~is_open(t)
  <2>1. t \in FileRecord /\ Due(t) /\ ~t.hasher BY <1>3 DEF Listed
  <2> QED BY <1>3, <2>1, OpenListed DEF set_state
<1> QED BY <1>1, <1>2, <1>3

LEMMA RecordRecorded ==
  ASSUME NEW t \in Listed, NEW b \in BOOLEAN
  PROVE  /\ record(t, b) \in Recorded
         /\ record(t, b).id = t.id /\ is_open(record(t, b)) = is_open(t)
BY DEF record, Listed, Recorded, FileRecord, Due, is_open

LEMMA LoadListed == ASSUME NEW t \in Recorded PROVE load_state(t) \in Listed
<1>1. CASE is_open(t)
  <2> DEFINE u == [t EXCEPT !.state = "stopped"]
  <2>1. u \in FileRecord /\ Due(u) /\ ~is_open(u) /\ ~u.hasher BY DEF Recorded, FileRecord, Due, is_open
  <2> QED BY <1>1, <2>1, OpenListed DEF load_state
<1>2. CASE ~is_open(t) BY <1>2 DEF load_state, Recorded, Listed, FileRecord, Due, is_open
<1> QED BY <1>1, <1>2

-----------------------------------------------------------------------------
(* Lists.                                                                  *)

LEMMA SameLength ==
  ASSUME NEW S, NEW T, NEW fs \in Seq(S), NEW g, DOMAIN g = DOMAIN fs,
         g = [i \in DOMAIN fs |-> g[i]], \A i \in DOMAIN fs : g[i] \in T
  PROVE  g \in Seq(T) /\ Len(g) = Len(fs)
<1>1. DOMAIN fs = 1..Len(fs) /\ Len(fs) \in Nat OBVIOUS
<1>2. g \in [1..Len(fs) -> T] BY <1>1
<1> QED BY <1>1, <1>2

\* A list without one of its torrents is shorter.
LEMMA Removed ==
  ASSUME NEW S, NEW fs \in Seq(S), NEW k \in DOMAIN fs
  PROVE  RemoveAt(fs, k) \in Seq(S) /\ Len(RemoveAt(fs, k)) = Len(fs) - 1
<1>1. k \in 1..Len(fs) /\ Len(fs) \in Nat OBVIOUS
<1>2. SubSeq(fs, 1, k - 1) \in Seq(S) /\ Len(SubSeq(fs, 1, k - 1)) = k - 1 BY <1>1
<1>3. SubSeq(fs, k + 1, Len(fs)) \in Seq(S) /\ Len(SubSeq(fs, k + 1, Len(fs))) = Len(fs) - k BY <1>1
<1> DEFINE before == SubSeq(fs, 1, k - 1)
          behind == SubSeq(fs, k + 1, Len(fs))
<1>4. RemoveAt(fs, k) = before \o behind BY DEF RemoveAt
<1> HIDE DEF before, behind
<1>5. before \o behind \in Seq(S) /\ Len(before \o behind) = Len(before) + Len(behind)
  BY <1>2, <1>3 DEF before, behind
<1>6. Len(before) + Len(behind) = Len(fs) - 1 BY <1>1, <1>2, <1>3 DEF before, behind
<1> QED BY <1>4, <1>5, <1>6

LEMMA AtListed == ASSUME NEW fs, NEW id \in ids(fs) PROVE at(fs, id) \in DOMAIN fs
BY DEF at, ids

\* Saving a list keeps which torrents there are and which are open.
LEMMA Saved ==
  ASSUME NEW fs \in Seq(Listed), NEW b \in BOOLEAN
  PROVE  save_state(fs, b) \in Seq(Recorded) /\ opens(save_state(fs, b)) = opens(fs)
<1>1. \A i \in DOMAIN fs : fs[i] \in Listed OBVIOUS
<1>2. save_state(fs, b) = [i \in DOMAIN fs |-> record(fs[i], b)] BY DEF save_state
<1>3. \A i \in DOMAIN fs : /\ record(fs[i], b) \in Recorded
                           /\ record(fs[i], b).id = fs[i].id
                           /\ is_open(record(fs[i], b)) = is_open(fs[i]) BY <1>1, RecordRecorded
<1>4. save_state(fs, b) \in Seq(Recorded) BY <1>2, <1>3, SameLength
<1>5. opens(save_state(fs, b)) =
        [i \in DOMAIN fs |-> [id |-> record(fs[i], b).id, open |-> is_open(record(fs[i], b))]]
  BY <1>2 DEF opens
<1>6. opens(fs) = [i \in DOMAIN fs |-> [id |-> fs[i].id, open |-> is_open(fs[i])]] BY DEF opens
<1> QED BY <1>3, <1>4, <1>5, <1>6

LEMMA UpdatedListed ==
  ASSUME NEW fs \in Seq(Listed)
  PROVE  update_states(fs) \in Seq(Listed) /\ Len(update_states(fs)) = Len(fs)
<1>1. \A i \in DOMAIN fs : fs[i] \in Listed OBVIOUS
<1>2. \A i \in queued(fs) : i \in DOMAIN fs /\ open(fs[i]) \in Listed
  <2> TAKE i \in queued(fs)
  <2>1. i \in DOMAIN fs /\ ~is_open(fs[i]) BY DEF queued, is_open
  <2>2. fs[i] \in FileRecord /\ Due(fs[i]) /\ ~fs[i].hasher BY <1>1, <2>1 DEF Listed
  <2> QED BY <2>1, <2>2, OpenListed
<1> QED BY <1>1, <1>2, SameLength DEF update_states

LEMMA ClosedListed ==
  ASSUME NEW fs \in Seq(Listed)
  PROVE  closed(fs) \in Seq(Listed) /\ Len(closed(fs)) = Len(fs)
<1>1. \A i \in DOMAIN fs : fs[i] \in Listed OBVIOUS
<1>2. \A i \in DOMAIN fs : close(fs[i]) \in Listed BY <1>1, CloseListed
<1> QED BY <1>2, SameLength DEF closed

LEMMA Task == task("save") = 3 /\ task("states") = 2 /\ DOMAIN Tasks = 1..4
BY DEF task, Tasks

-----------------------------------------------------------------------------
(* Every step keeps the invariant.                                         *)

LEMMA InitInv == Init => Inv
<1> SUFFICES ASSUME Init PROVE Inv OBVIOUS
<1>1. ages \in [1..4 -> Nat] BY Task DEF Init, never
<1> QED BY <1>1, ServerAssumption DEF Init, Inv, Resumes

LEMMA PreSelectInv == ASSUME Inv, pre_select PROVE Inv' /\ Len(m_files') = Len(m_files)
<1>1. PICK last \in {0} \cup hashing, left \in {"none", "some"}, reached \in SUBSET DOMAIN m_files :
        LET f(i) == IF i \in hashing /\ i <= last THEN hash_done(m_files[i], left) ELSE m_files[i]
            over(i) == i \in reached /\ f(i).state = "running" /\ f(i).left = "none" /\ ~f(i).hasher
        IN m_files' = [i \in DOMAIN m_files |-> IF over(i) THEN close(f(i)) ELSE f(i)]
  BY DEF pre_select
<1> DEFINE f(i) == IF i \in hashing /\ i <= last THEN hash_done(m_files[i], left) ELSE m_files[i]
<1>2. \A i \in DOMAIN m_files : m_files[i] \in Listed BY DEF Inv
<1>3. \A i \in DOMAIN m_files : f(i) \in Listed BY <1>2, DoneListed DEF hashing
<1> HIDE DEF f
<1>4. \A i \in DOMAIN m_files : close(f(i)) \in Listed BY <1>3, CloseListed
<1>5. \A i \in DOMAIN m_files : m_files'[i] \in Listed BY <1>1, <1>3, <1>4 DEF f
<1>6. DOMAIN m_files' = DOMAIN m_files /\ m_files' = [i \in DOMAIN m_files |-> m_files'[i]] BY <1>1
<1>7. m_files' \in Seq(Listed) /\ Len(m_files') = Len(m_files) BY <1>5, <1>6, SameLength DEF Inv
<1> QED BY <1>7 DEF Inv, Resumes, opens, pre_select, saving

\* What comes from the peers.
LEMMA PostSelectListed ==
  ASSUME m_files \in Seq(Listed), NEW fs \in post_select
  PROVE  /\ fs \in Seq(Listed) /\ DOMAIN fs = DOMAIN m_files /\ Len(fs) = Len(m_files)
         /\ \A i \in DOMAIN fs : is_open(fs[i]) => is_open(m_files[i])
<1>1. CASE fs = m_files BY <1>1
<1>2. ASSUME NEW i \in DOMAIN m_files, NEW t \in received(m_files[i]), fs = [m_files EXCEPT ![i] = t]
      PROVE  /\ fs \in Seq(Listed) /\ DOMAIN fs = DOMAIN m_files /\ Len(fs) = Len(m_files)
             /\ \A j \in DOMAIN fs : is_open(fs[j]) => is_open(m_files[j])
  <2>1. m_files[i] \in Listed OBVIOUS
  <2>2. t \in Listed /\ (is_open(t) => is_open(m_files[i])) BY <2>1, <1>2, ReceivedListed
  <2>3. DOMAIN fs = DOMAIN m_files /\ \A j \in DOMAIN fs : fs[j] = IF j = i THEN t ELSE m_files[j]
    BY <1>2
  <2>4. fs \in Seq(Listed) /\ Len(fs) = Len(m_files) BY <1>2, <2>2
  <2> QED BY <2>2, <2>3, <2>4
<1> QED BY <1>1, <1>2 DEF post_select

\* A task, done on the list fs with the file d, where the file may be written.
LEMMA TaskInv ==
  ASSUME NEW fs \in Seq(Listed), NEW d \in Seq(Recorded), NEW a \in [1..4 -> Nat], run_task(fs, d, a)
  PROVE  /\ m_files' \in Seq(Listed) /\ Len(m_files') = Len(fs) /\ m_files' \in {fs, update_states(fs)}
         /\ disk' \in Seq(Recorded) /\ ages' \in [1..4 -> Nat]
         /\ a[3] = 0 => disk' = d
<1> DEFINE i == first_due(a)
<1>1. m_files' = (IF i = 2 THEN update_states(fs) ELSE fs) /\ disk' = (IF i = 3 THEN save_state(fs, TRUE) ELSE d)
      /\ ages' = done(a, i)
  BY Task DEF run_task
<1>2. ages' \in [1..4 -> Nat] BY <1>1 DEF done
<1>3. a[3] = 0 => i # 3
  <2> SUFFICES ASSUME a[3] = 0, i = 3 PROVE FALSE OBVIOUS
  <2> DEFINE due == {j \in DOMAIN a : a[j] > Periods[j]}
  <2>1. due # {} BY DEF first_due
  <2>2. i = CHOOSE j \in due : \A k \in due : j <= k BY <2>1 DEF first_due
  <2>3. \E j \in due : \A k \in due : j <= k
    <3>1. due \subseteq 1..4 OBVIOUS
    <3> HIDE DEF due
    <3>2. CASE 1 \in due BY <3>1, <3>2
    <3>3. CASE 1 \notin due /\ 2 \in due BY <3>1, <3>3
    <3>4. CASE 1 \notin due /\ 2 \notin due /\ 3 \in due BY <3>1, <3>4
    <3>5. CASE due \subseteq {4}
      <4>1. due = {4} BY <2>1, <3>5
      <4> QED BY <4>1
    <3> QED BY <3>1, <3>2, <3>3, <3>4, <3>5
  <2>4. i \in due BY <2>2, <2>3
  <2>5. a[3] > Periods[3] BY <2>4
  <2> QED BY <2>5, ServerAssumption
<1>4. save_state(fs, TRUE) \in Seq(Recorded) BY Saved
<1> QED BY <1>1, <1>2, <1>3, <1>4, UpdatedListed

LEMMA TurnInv == ASSUME Inv, turn PROVE Inv' /\ Len(m_files') = Len(m_files)
<1>1. PICK fs \in post_select :
        \/ stopping /\ m_files' = fs /\ UNCHANGED <<ages, stopping, saving>>
        \/ ~stopping /\ ~term /\ run_task(fs, disk, older) /\ UNCHANGED <<stopping, at_stop>>
        \/ /\ ~stopping /\ term /\ stopping' = TRUE /\ at_stop' = opens(fs)
           /\ run_task(closed(fs), to_disk(fs), [older EXCEPT ![task("save")] = 0])
  BY DEF turn
<1>2. fs \in Seq(Listed) /\ Len(fs) = Len(m_files) BY PostSelectListed DEF Inv
<1>3. older \in [1..4 -> Nat]
  <2>1. ages \in [1..4 -> Nat] BY DEF Inv
  <2>2. \A i \in 1..4 : ages[i] + 1 \in Nat BY <2>1
  <2> QED BY <2>1, <2>2 DEF older
<1>4. torrent_limit' \in Nat /\ ops' \in Nat BY DEF Inv, turn
<1>5. CASE stopping /\ m_files' = fs /\ UNCHANGED <<ages, stopping, saving>>
  BY <1>2, <1>4, <1>5 DEF Inv, Resumes, saving, opens
<1>6. CASE ~stopping /\ ~term /\ run_task(fs, disk, older) /\ UNCHANGED <<stopping, at_stop>>
  BY <1>2, <1>3, <1>4, <1>6, TaskInv DEF Inv, Resumes
<1>7. CASE /\ ~stopping /\ term /\ stopping' = TRUE /\ at_stop' = opens(fs)
           /\ run_task(closed(fs), to_disk(fs), [older EXCEPT ![task("save")] = 0])
  <2> DEFINE a == [older EXCEPT ![task("save")] = 0]
  <2>1. a \in [1..4 -> Nat] /\ a[3] = 0 BY <1>3, Task
  <2>2. to_disk(fs) \in Seq(Recorded) /\ opens(to_disk(fs)) = opens(fs) BY <1>2, Saved DEF to_disk
  <2>3. closed(fs) \in Seq(Listed) /\ Len(closed(fs)) = Len(fs) BY <1>2, ClosedListed
  <2> HIDE DEF a
  <2>4. /\ m_files' \in Seq(Listed) /\ Len(m_files') = Len(closed(fs)) /\ disk' = to_disk(fs)
        /\ ages' \in [1..4 -> Nat]
    BY <1>7, <2>1, <2>2, <2>3, TaskInv DEF a
  <2>5. Resumes' BY <1>7, <2>2, <2>4 DEF Resumes, opens
  <2> QED BY <1>2, <1>4, <2>2, <2>3, <2>4, <2>5 DEF Inv
<1> QED BY <1>1, <1>5, <1>6, <1>7

LEMMA NeverTyped == never \in [1..4 -> Nat]
BY Task DEF never

LEMMA GoneInv ==
  ASSUME Inv, gone, UNCHANGED <<torrent_limit, stopping, saving>>, ops' \in Nat
  PROVE  Inv'
BY NeverTyped DEF Inv, gone, Resumes, saving, opens

LEMMA SoonTyped == ASSUME NEW a \in [1..4 -> Nat], NEW n \in {"save", "states"} PROVE soon(a, n) \in [1..4 -> Nat]
<1>1. task(n) \in 1..4 BY Task
<1>2. Periods[task(n)] + 1 \in Nat BY <1>1, ServerAssumption
<1> QED BY <1>1, <1>2 DEF soon

\* What a user does to the list leaves the saved torrents alone.
LEMMA ActInv ==
  ASSUME Inv, act, UNCHANGED rest, m_files' \in Seq(Listed), ages' \in [1..4 -> Nat]
  PROVE  Inv'
BY DEF Inv, act, rest, saving, Resumes, opens

LEMMA OpenTorrentInv ==
  ASSUME Inv, NEW id \in Torrents, open_torrent(id)
  PROVE  Inv'
<1> DEFINE t == new_torrent(id)
<1>1. t \in Listed /\ ~is_open(t) BY NewListed DEF new_torrent, is_open
<1>2. open(t) \in Listed
  <2>1. t \in FileRecord /\ Due(t) /\ ~t.hasher BY <1>1 DEF Listed
  <2> QED BY <1>1, <2>1, OpenListed
<1> HIDE DEF t
<1>3. m_files' \in Seq(Listed) BY <1>1, <1>2 DEF open_torrent, Inv, t
<1>4. ages' \in [1..4 -> Nat] BY SoonTyped DEF open_torrent, Inv
<1> QED BY <1>3, <1>4, ActInv DEF open_torrent

LEMMA CloseTorrentInv ==
  ASSUME Inv, NEW id \in Torrents, close_torrent(id)
  PROVE  Inv' /\ Len(m_files') = Len(m_files) - 1
<1>1. at(m_files, id) \in DOMAIN m_files BY AtListed DEF close_torrent, listed
<1>2. m_files' \in Seq(Listed) /\ Len(m_files') = Len(m_files) - 1 BY <1>1, Removed DEF close_torrent, Inv
<1>3. ages' \in [1..4 -> Nat] BY SoonTyped DEF close_torrent, Inv
<1> QED BY <1>2, <1>3, ActInv DEF close_torrent

LEMMA FileStateInv ==
  ASSUME Inv, NEW id \in Torrents, NEW s \in {"queued", "paused", "running", "stopped"}, file_state(id, s)
  PROVE  Inv' /\ Len(m_files') = Len(m_files)
<1> DEFINE k == at(m_files, id)
<1>1. k \in DOMAIN m_files BY AtListed DEF file_state, listed
<1>2. set_state(m_files[k], s) \in Listed BY <1>1, StateListed DEF Inv
<1>3. m_files' = [m_files EXCEPT ![k] = set_state(m_files[k], s)] BY DEF file_state
<1> HIDE DEF k
<1>4. m_files' \in Seq(Listed) /\ Len(m_files') = Len(m_files) BY <1>1, <1>2, <1>3 DEF Inv
<1>5. ages' \in [1..4 -> Nat] BY SoonTyped DEF file_state, Inv
<1> QED BY <1>4, <1>5, ActInv DEF file_state

LEMMA FilePriorityInv ==
  ASSUME Inv, NEW id \in Torrents, NEW p \in Priorities, file_priority(id, p)
  PROVE  Inv' /\ Len(m_files') = Len(m_files)
<1> DEFINE k == at(m_files, id)
<1>1. k \in DOMAIN m_files BY AtListed DEF file_priority, listed
<1>2. [m_files[k] EXCEPT !.priority = p] \in Listed
  BY <1>1, SMTT(30) DEF Inv, Listed, FileRecord, Due, is_open
<1>3. m_files' = [m_files EXCEPT ![k] = [m_files[k] EXCEPT !.priority = p]] BY DEF file_priority
<1> HIDE DEF k
<1>4. m_files' \in Seq(Listed) /\ Len(m_files') = Len(m_files) BY <1>1, <1>2, <1>3 DEF Inv
<1> QED BY <1>4, ActInv DEF file_priority, Inv

LEMMA RunInv == ASSUME Inv, run PROVE Inv'
<1>1. \A i \in DOMAIN disk : disk[i] \in Recorded BY DEF Inv
<1>2. \A i \in DOMAIN disk : load_state(disk[i]) \in Listed BY <1>1, LoadListed
<1>3. m_files' \in Seq(Listed) BY <1>2, SameLength DEF run, Inv
<1>4. ages' \in [1..4 -> Nat]
  <2>1. \A i \in 1..4 : Periods[i] + 1 \in Nat BY ServerAssumption
  <2> QED BY <2>1, Task DEF run
<1> QED BY <1>3, <1>4 DEF run, Inv, Resumes, saving

LEMMA StutterInv == ASSUME Inv, UNCHANGED vars PROVE Inv'
BY DEF Inv, vars, Resumes, opens

LEMMA StepInv == Inv /\ [Next]_vars => Inv'
<1> SUFFICES ASSUME Inv, [Next]_vars PROVE Inv' OBVIOUS
<1>1. CASE pre_select BY <1>1, PreSelectInv
<1>2. CASE turn BY <1>2, TurnInv
<1>3. CASE end BY <1>3, GoneInv DEF end, Inv
<1>4. ASSUME NEW id \in Torrents, open_torrent(id) PROVE Inv' BY <1>4, OpenTorrentInv
<1>5. ASSUME NEW id \in Torrents, close_torrent(id) PROVE Inv' BY <1>5, CloseTorrentInv
<1>6. ASSUME NEW id \in Torrents, NEW s \in {"queued", "paused", "running", "stopped"}, file_state(id, s)
      PROVE Inv'
  BY <1>6, FileStateInv
<1>7. ASSUME NEW id \in Torrents, NEW p \in Priorities, file_priority(id, p) PROVE Inv'
  BY <1>7, FilePriorityInv
<1>8. ASSUME NEW l \in Limits, set_options(l) PROVE Inv'
  BY <1>8, ServerAssumption DEF set_options, act, Inv, saving, Resumes, opens
<1>9. CASE terminate BY <1>9 DEF terminate, act, Inv, saving, Resumes, opens
<1>10. CASE crash BY <1>10, GoneInv DEF crash, act, Inv
<1>11. CASE run BY <1>11, RunInv
<1>12. CASE UNCHANGED vars BY <1>12, StutterInv
<1> QED BY <1>1, <1>2, <1>3, <1>4, <1>5, <1>6, <1>7, <1>8, <1>9, <1>10, <1>11, <1>12
        DEF Next, Loop, User

LEMMA Invariance == Spec => []Inv
<1> QED BY InitInv, StepInv, PTL DEF Spec

\* A torrent has a hasher only while it is open, and is open without one only when its data was
\* hashed to the end since it was added (Cbt_file::open, close, state, save_state); from the turn
\* on that ends the program (Cserver::run), state.bin holds the torrents there were.
THEOREM ServerKeepsAlways == Spec => []ServerKeeps
<1>1. Inv => ServerKeeps
  <2> SUFFICES ASSUME Inv PROVE ServerKeeps OBVIOUS
  <2>1. \A i \in DOMAIN m_files : m_files[i] \in Listed BY DEF Inv
  <2>2. Hashed BY <2>1 DEF Hashed, Listed
  <2> QED BY <2>2 DEF ServerKeeps, Inv
<1> QED BY <1>1, Invariance, PTL

-----------------------------------------------------------------------------
(* The limit.                                                              *)

opened(fs) == {i \in DOMAIN fs : is_open(fs[i])}

LEMMA OpenedFinite ==
  ASSUME NEW S, NEW fs \in Seq(S), NEW T \in SUBSET DOMAIN fs
  PROVE  IsFiniteSet(T) /\ Cardinality(T) \in Nat
<1>1. IsFiniteSet(DOMAIN fs)
  <2>1. DOMAIN fs = 1..Len(fs) /\ Len(fs) \in Nat OBVIOUS
  <2> QED BY <2>1, FS_Interval
<1> QED BY <1>1, FS_Subset, FS_CardinalityType

LEMMA CountTyped == ASSUME NEW S, NEW fs \in Seq(S) PROVE count_open(fs) \in Nat
BY OpenedFinite DEF count_open

\* A list in which nothing is open that was not has no more open.
LEMMA FewerOpen ==
  ASSUME NEW S, NEW T, NEW fs \in Seq(S), NEW g \in Seq(T), DOMAIN g \subseteq DOMAIN fs,
         \A i \in DOMAIN g : is_open(g[i]) => is_open(fs[i])
  PROVE  count_open(g) <= count_open(fs)
<1>1. opened(g) \subseteq opened(fs) BY DEF opened
<1>2. IsFiniteSet(opened(fs)) BY OpenedFinite DEF opened
<1> QED BY <1>1, <1>2, FS_Subset DEF opened, count_open

LEMMA MaxOf ==
  ASSUME NEW m \in Nat, NEW n \in Nat
  PROVE  Max({m, n}) \in {m, n} /\ m <= Max({m, n}) /\ n <= Max({m, n})
<1>1. \E x \in {m, n} : \A y \in {m, n} : x >= y
  <2>1. CASE m >= n BY <2>1
  <2>2. CASE n >= m BY <2>2
  <2> QED BY <2>1, <2>2
<1> QED BY <1>1 DEF Max

\* Of the torrents that are queued no more have fewer than n ahead of them than n.
LEMMA FewAhead ==
  ASSUME NEW fs \in Seq(Listed), NEW n \in Nat
  PROVE  LET first == {i \in queued(fs) : Cardinality(ahead(fs, i)) < n}
         IN IsFiniteSet(first) /\ Cardinality(first) <= n
<1> DEFINE first == {i \in queued(fs) : Cardinality(ahead(fs, i)) < n}
           rank == [i \in first |-> Cardinality(ahead(fs, i))]
<1>1. queued(fs) \subseteq DOMAIN fs /\ DOMAIN fs \subseteq Int BY DEF queued
<1>2. \A i \in queued(fs) : IsFiniteSet(ahead(fs, i)) /\ Cardinality(ahead(fs, i)) \in Nat
  BY <1>1, OpenedFinite DEF ahead
<1>3. \A i \in queued(fs) : fs[i].priority \in Int /\ size(fs[i]) \in Int
  <2> TAKE i \in queued(fs)
  <2>1. fs[i] \in Listed BY <1>1
  <2>2. fs[i].priority \in Priorities /\ fs[i].id \in Torrents BY <2>1 DEF Listed, FileRecord
  <2>3. size(fs[i]) \in Int BY <2>2, ServerAssumption DEF size
  <2> QED BY <2>2, <2>3, ServerAssumption
<1>4. ASSUME NEW i \in queued(fs), NEW j \in queued(fs), i \in ahead(fs, j)
      PROVE  Cardinality(ahead(fs, i)) < Cardinality(ahead(fs, j))
  <2>1. ahead(fs, i) \subseteq ahead(fs, j)
    <3> SUFFICES ASSUME NEW k \in ahead(fs, i) PROVE k \in ahead(fs, j) OBVIOUS
    <3>1. k \in queued(fs) BY DEF ahead
    <3>2. /\ fs[i].priority \in Int /\ fs[j].priority \in Int /\ fs[k].priority \in Int
          /\ size(fs[i]) \in Int /\ size(fs[j]) \in Int /\ size(fs[k]) \in Int
          /\ i \in Int /\ j \in Int /\ k \in Int
      BY <1>1, <1>3, <3>1
    <3>3. better(fs[k], fs[i]) \/ (~better(fs[i], fs[k]) /\ k < i) BY DEF ahead
    <3>4. better(fs[i], fs[j]) \/ (~better(fs[j], fs[i]) /\ i < j) BY <1>4 DEF ahead
    <3>5. better(fs[k], fs[j]) \/ (~better(fs[j], fs[k]) /\ k < j)
      BY <3>2, <3>3, <3>4 DEF better
    <3> QED BY <3>1, <3>5 DEF ahead
  <2>2. i \notin ahead(fs, i)
    <3>1. i \in Int /\ fs[i].priority \in Int /\ size(fs[i]) \in Int BY <1>1, <1>3
    <3> QED BY <3>1 DEF ahead, better
  <2>3. ahead(fs, i) # ahead(fs, j) BY <1>4, <2>2
  <2> QED BY <1>2, <2>1, <2>3, FS_Subset
<1>5. \A i, j \in queued(fs) : i # j => i \in ahead(fs, j) \/ j \in ahead(fs, i)
  <2> TAKE i, j \in queued(fs)
  <2>1. /\ fs[i].priority \in Int /\ fs[j].priority \in Int /\ i \in Int /\ j \in Int
        /\ size(fs[i]) \in Int /\ size(fs[j]) \in Int
    BY <1>1, <1>3
  <2> QED BY <2>1 DEF ahead, better
<1>6. \A i, j \in first : i # j => rank[i] # rank[j]
  <2> TAKE i, j \in first
  <2>1. rank[i] \in Nat /\ rank[j] \in Nat BY <1>2
  <2>2. i # j => rank[i] < rank[j] \/ rank[j] < rank[i] BY <1>4, <1>5
  <2> QED BY <2>1, <2>2
<1>7. rank \in [first -> 0..(n - 1)] BY <1>2
<1>8. rank \in Injection(first, 0..(n - 1))
  <2> HIDE DEF rank, first
  <2> QED BY <1>6, <1>7 DEF Injection, IsInjective
<1>9. IsFiniteSet(0..(n - 1)) /\ Cardinality(0..(n - 1)) = n BY FS_Interval
<1> HIDE DEF rank, first
<1>10. IsFiniteSet(first) /\ Cardinality(first) <= Cardinality(0..(n - 1))
  BY <1>8, <1>9, FS_Injection
<1> QED BY <1>9, <1>10 DEF first

\* update_states opens torrents up to the limit only.
LEMMA UpdatedWithin ==
  ASSUME NEW fs \in Seq(Listed), torrent_limit \in Nat \ {0}
  PROVE  count_open(update_states(fs)) <= Max({count_open(fs), torrent_limit})
<1> DEFINE g == update_states(fs)
           new == {i \in queued(fs) : below(fs, Cardinality(ahead(fs, i)))}
           n == count_open(fs)
           l == torrent_limit
<1>1. n \in Nat /\ l \in Nat /\ l # 0 BY CountTyped
<1>2. DOMAIN g = DOMAIN fs /\ g \in Seq(Listed) BY UpdatedListed DEF update_states
<1>3. opened(g) \subseteq opened(fs) \cup new BY DEF update_states, opened
<1>4. \A i \in queued(fs) : Cardinality(ahead(fs, i)) \in Nat
  BY OpenedFinite DEF ahead, queued
<1>5. CASE n >= l
  <2>1. new = {} BY <1>1, <1>4, <1>5 DEF below
  <2>2. \A i \in DOMAIN g : is_open(g[i]) => is_open(fs[i]) BY <1>2, <1>3, <2>1 DEF opened
  <2>3. count_open(g) <= n BY <1>2, <2>2, FewerOpen
  <2>4. count_open(g) \in Nat BY <1>2, CountTyped
  <2> QED BY <1>1, <2>3, <2>4, MaxOf
<1>6. CASE n < l
  <2> DEFINE k == l - n
             first == {i \in queued(fs) : Cardinality(ahead(fs, i)) < k}
  <2>1. k \in Nat BY <1>1, <1>6
  <2>2. new = first BY <1>1, <1>4 DEF below
  <2>3. IsFiniteSet(new) /\ Cardinality(new) <= k BY <2>1, <2>2, FewAhead
  <2>4. IsFiniteSet(opened(fs)) /\ Cardinality(opened(fs)) = n BY OpenedFinite DEF opened, count_open
  <2> HIDE DEF new
  <2>5. IsFiniteSet(opened(fs) \cup new) /\ Cardinality(opened(fs) \cup new) <= n + Cardinality(new)
    <3>1. Cardinality(opened(fs) \cup new) =
            Cardinality(opened(fs)) + Cardinality(new) - Cardinality(opened(fs) \cap new)
      BY <2>3, <2>4, FS_Union
    <3>2. Cardinality(opened(fs) \cap new) \in Nat BY <2>4, FS_Intersection, FS_CardinalityType
    <3>3. Cardinality(new) \in Nat BY <2>3, FS_CardinalityType
    <3> QED BY <1>1, <2>3, <2>4, <3>1, <3>2, <3>3, FS_Union
  <2>6. Cardinality(opened(g)) <= Cardinality(opened(fs) \cup new) BY <1>3, <2>5, FS_Subset
  <2>7. Cardinality(new) \in Nat /\ Cardinality(opened(fs) \cup new) \in Nat
    BY <2>3, <2>5, FS_CardinalityType
  <2>8. count_open(g) \in Nat /\ count_open(g) = Cardinality(opened(g))
    BY <1>2, CountTyped DEF count_open, opened
  <2>9. count_open(g) <= l BY <1>1, <2>1, <2>3, <2>5, <2>6, <2>7, <2>8
  <2> QED BY <1>1, <2>8, <2>9, MaxOf
<1> QED BY <1>1, <1>5, <1>6

\* What is no more than a list was, or than the limit, is within it.
LEMMA Within ==
  ASSUME NEW m \in Nat, NEW n \in Nat, NEW l \in Nat, NEW k \in Nat, m <= n, k <= Max({m, l})
  PROVE  k <= Max({n, l})
BY MaxOf

Kept == by_itself /\ torrent_limit # 0 => count_open(m_files') <= Max({count_open(m_files), torrent_limit})

LEMMA PreSelectWithin == ASSUME Inv, pre_select PROVE count_open(m_files') <= count_open(m_files)
<1>1. PICK last \in {0} \cup hashing, left \in {"none", "some"}, reached \in SUBSET DOMAIN m_files :
        LET f(i) == IF i \in hashing /\ i <= last THEN hash_done(m_files[i], left) ELSE m_files[i]
            over(i) == i \in reached /\ f(i).state = "running" /\ f(i).left = "none" /\ ~f(i).hasher
        IN m_files' = [i \in DOMAIN m_files |-> IF over(i) THEN close(f(i)) ELSE f(i)]
  BY DEF pre_select
<1> DEFINE f(i) == IF i \in hashing /\ i <= last THEN hash_done(m_files[i], left) ELSE m_files[i]
<1>2. \A i \in DOMAIN m_files : m_files[i] \in Listed BY DEF Inv
<1>3. \A i \in DOMAIN m_files : f(i) \in Listed /\ (is_open(f(i)) => is_open(m_files[i]))
  BY <1>2, DoneListed DEF hashing
<1> HIDE DEF f
<1>4. \A i \in DOMAIN m_files : ~is_open(close(f(i))) BY <1>3, CloseListed
<1>5. \A i \in DOMAIN m_files : is_open(m_files'[i]) => is_open(m_files[i]) BY <1>1, <1>3, <1>4 DEF f
<1>6. DOMAIN m_files' = DOMAIN m_files BY <1>1
<1> QED BY <1>5, <1>6, PreSelectInv, FewerOpen DEF Inv

LEMMA TurnWithin == ASSUME Inv, turn, torrent_limit # 0 PROVE Kept
<1>1. PICK fs \in post_select :
        \/ m_files' = fs
        \/ run_task(fs, disk, older)
        \/ run_task(closed(fs), to_disk(fs), [older EXCEPT ![task("save")] = 0])
  BY DEF turn
<1> DEFINE n == count_open(m_files)
           l == torrent_limit
<1>2. /\ fs \in Seq(Listed) /\ DOMAIN fs = DOMAIN m_files
      /\ \A i \in DOMAIN fs : is_open(fs[i]) => is_open(m_files[i])
  BY PostSelectListed DEF Inv
<1>3. n \in Nat /\ l \in Nat \ {0} /\ count_open(fs) \in Nat /\ count_open(fs) <= n
  BY <1>2, CountTyped, FewerOpen DEF Inv
<1>4. closed(fs) \in Seq(Listed) /\ count_open(closed(fs)) \in Nat /\ count_open(closed(fs)) <= n
  <2>1. closed(fs) \in Seq(Listed) /\ DOMAIN closed(fs) = DOMAIN fs BY <1>2, ClosedListed DEF closed
  <2>2. \A i \in DOMAIN fs : ~is_open(closed(fs)[i])
    <3>1. \A i \in DOMAIN fs : fs[i] \in Listed BY <1>2
    <3> QED BY <3>1, CloseListed DEF closed
  <2> QED BY <1>2, <2>1, <2>2, CountTyped, FewerOpen DEF Inv
<1>5. m_files' \in {fs, closed(fs), update_states(fs), update_states(closed(fs))}
  BY <1>1 DEF run_task
<1>6. count_open(update_states(fs)) \in Nat /\ count_open(update_states(closed(fs))) \in Nat
  BY <1>2, <1>4, CountTyped, UpdatedListed
<1>7. count_open(m_files') <= Max({n, l})
  <2>1. CASE m_files' \in {fs, closed(fs)} BY <2>1, <1>3, <1>4, MaxOf
  <2>2. CASE m_files' = update_states(fs)
    <3>1. count_open(m_files') <= Max({count_open(fs), l}) BY <2>2, <1>2, <1>3, UpdatedWithin
    <3> QED BY <2>2, <3>1, <1>3, <1>6, Within
  <2>3. CASE m_files' = update_states(closed(fs))
    <3>1. count_open(m_files') <= Max({count_open(closed(fs)), l}) BY <2>3, <1>3, <1>4, UpdatedWithin
    <3> QED BY <2>3, <3>1, <1>3, <1>4, <1>6, Within
  <2> QED BY <1>5, <2>1, <2>2, <2>3
<1> QED BY <1>7 DEF Kept

\* A torrent that is added is opened only below the limit.
LEMMA OpenTorrentWithin ==
  ASSUME Inv, NEW id \in Torrents, open_torrent(id), torrent_limit # 0
  PROVE  Kept
<1> DEFINE t == IF below_torrent_limit(m_files) THEN open(new_torrent(id)) ELSE new_torrent(id)
           n == count_open(m_files)
<1>1. m_files' = Append(m_files, t) BY DEF open_torrent
<1>2. n \in Nat /\ torrent_limit \in Nat BY CountTyped DEF Inv
<1>3. is_open(t) => n < torrent_limit BY <1>2 DEF new_torrent, is_open, below_torrent_limit, below
<1> HIDE DEF t
<1>4. m_files \in Seq(Listed) /\ Len(m_files) \in Nat BY DEF Inv
<1>5. DOMAIN m_files' = 1..(Len(m_files) + 1) /\ DOMAIN m_files = 1..Len(m_files)
      /\ m_files'[Len(m_files) + 1] = t /\ \A i \in 1..Len(m_files) : m_files'[i] = m_files[i]
  BY <1>1, <1>4
<1>6. opened(m_files') = IF is_open(t) THEN opened(m_files) \cup {Len(m_files) + 1} ELSE opened(m_files)
  BY <1>4, <1>5 DEF opened
<1>7. IsFiniteSet(opened(m_files)) BY <1>4, OpenedFinite DEF opened
<1>8. Len(m_files) + 1 \notin opened(m_files) BY <1>4, <1>5 DEF opened
<1>9. count_open(m_files') = IF is_open(t) THEN n + 1 ELSE n
  BY <1>6, <1>7, <1>8, FS_AddElement DEF opened, count_open
<1> QED BY <1>2, <1>3, <1>9, MaxOf DEF Kept

LEMMA StepWithin == Inv /\ [Next]_vars => [Kept]_vars
<1> SUFFICES ASSUME Inv, Next, by_itself, torrent_limit # 0 PROVE Kept BY DEF Kept
<1>1. count_open(m_files) \in Nat /\ torrent_limit \in Nat /\ ops \in Nat BY CountTyped DEF Inv
<1>2. CASE pre_select
  <2>1. count_open(m_files') \in Nat BY <1>2, PreSelectInv, CountTyped DEF Inv
  <2> QED BY <1>1, <1>2, <2>1, PreSelectWithin, MaxOf DEF Kept
<1>3. CASE turn BY <1>3, TurnWithin
<1>4. CASE end
  <2>1. m_files' = <<>> /\ m_files' \in Seq({}) BY <1>4 DEF end, gone
  <2>2. count_open(m_files') = 0
    <3>1. opened(m_files') = {} BY <2>1 DEF opened
    <3> QED BY <3>1, FS_EmptySet DEF opened, count_open
  <2> QED BY <1>1, <2>2, MaxOf DEF Kept
<1>5. ASSUME NEW id \in Torrents, open_torrent(id) PROVE Kept BY <1>5, OpenTorrentWithin
<1>6. Len(m_files) \in Nat BY DEF Inv
<1>7. ASSUME NEW id \in Torrents, close_torrent(id) PROVE FALSE
  <2>1. ops' = ops + 1 BY <1>7 DEF close_torrent, act
  <2> QED BY <1>1, <1>6, <1>7, <2>1, CloseTorrentInv DEF by_itself
<1>8. ASSUME NEW id \in Torrents, NEW s \in {"queued", "paused", "running", "stopped"}, file_state(id, s)
      PROVE FALSE
  <2>1. ops' = ops + 1 BY <1>8 DEF file_state, act
  <2> QED BY <1>1, <1>6, <1>8, <2>1, FileStateInv DEF by_itself
<1>9. ASSUME NEW id \in Torrents, NEW p \in Priorities, file_priority(id, p) PROVE FALSE
  <2>1. ops' = ops + 1 BY <1>9 DEF file_priority, act
  <2> QED BY <1>1, <1>6, <1>9, <2>1, FilePriorityInv DEF by_itself
<1>10. ASSUME NEW l \in Limits, set_options(l) PROVE FALSE
  BY <1>1, <1>6, <1>10 DEF set_options, act, by_itself
<1>11. CASE terminate BY <1>1, <1>6, <1>11 DEF terminate, act, by_itself
<1>12. CASE crash
  <2>1. ops' = ops + 1 /\ Len(m_files') = 0 BY <1>12 DEF crash, act, gone
  <2> QED BY <1>1, <1>6, <2>1 DEF by_itself
<1>13. CASE run BY <1>13 DEF run, by_itself
<1> QED BY <1>2, <1>3, <1>4, <1>5, <1>7, <1>8, <1>9, <1>10, <1>11, <1>12, <1>13
        DEF Next, Loop, User

\* The program itself opens no torrent beyond the limit (Cserver::open, open_url, update_states
\* with below_torrent_limit), for any limits, priorities, sizes and queues.
THEOREM LimitKept == Spec => WithinLimit
<1>1. Spec => [][Kept]_vars BY Invariance, StepWithin, PTL DEF Spec
<1> QED BY <1>1 DEF WithinLimit, Kept

-----------------------------------------------------------------------------
(***************************************************************************)
(* The schedule, for any days, limits, bounds and edits.                    *)
(***************************************************************************)

\* The number of elements is the same in the instance.
LEMMA SameNumber == \A S : Schedule!Cardinality(S) = Cardinality(S)
BY DEF Schedule!Cardinality, Cardinality

\* Maps from ids to values of one kind, as many as there are.
Maps(S) == UNION {[keys -> S] : keys \in {I \in SUBSET Nat : IsFiniteSet(I)}}
Entries == [time : 0..Day - 1, profile : Nat]
Belongs(scheduler, profiles) == \A i \in DOMAIN scheduler : scheduler[i].profile \in DOMAIN profiles

LEMMA MapFacts ==
  ASSUME NEW S, NEW map \in Maps(S)
  PROVE  /\ DOMAIN map \in SUBSET Nat /\ IsFiniteSet(DOMAIN map)
         /\ map = [i \in DOMAIN map |-> map[i]] /\ \A i \in DOMAIN map : map[i] \in S
         /\ Cardinality(DOMAIN map) \in Nat
<1>1. PICK I \in SUBSET Nat : IsFiniteSet(I) /\ map \in [I -> S] BY DEF Maps
<1>2. DOMAIN map = I BY <1>1
<1> QED BY <1>1, <1>2, FS_CardinalityType

LEMMA MapIs ==
  ASSUME NEW S, NEW map, IsFiniteSet(DOMAIN map), DOMAIN map \in SUBSET Nat,
         map = [i \in DOMAIN map |-> map[i]], \A i \in DOMAIN map : map[i] \in S
  PROVE  map \in Maps(S)
<1>1. map \in [DOMAIN map -> S] OBVIOUS
<1> QED BY <1>1 DEF Maps

LEMMA EmptyMap == ASSUME NEW S PROVE Schedule!Empty \in Maps(S) /\ DOMAIN Schedule!Empty = {}
<1>1. DOMAIN Schedule!Empty = {} BY DEF Schedule!Empty
<1>2. Schedule!Empty = [i \in DOMAIN Schedule!Empty |-> Schedule!Empty[i]] BY DEF Schedule!Empty
<1> QED BY <1>1, <1>2, FS_EmptySet, MapIs

\* What is loaded has its ids from 0 on, without a hole, and is the same map if that had none.
LEMMA Loaded ==
  ASSUME NEW S, NEW map \in Maps(S), NEW default \in S
  PROVE  LET new == Schedule!load(map, default)
         IN /\ new \in Maps(S) /\ ~Schedule!has_gap(new)
            /\ DOMAIN new = 0..Cardinality(DOMAIN map) - 1
            /\ ~Schedule!has_gap(map) => new = map
            /\ \A i \in DOMAIN new : new[i] = IF i \in DOMAIN map THEN map[i] ELSE default
<1> DEFINE new == Schedule!load(map, default)
           n == Cardinality(DOMAIN map)
<1>1. n \in Nat /\ \A i \in DOMAIN map : map[i] \in S BY MapFacts
<1>2. map = [i \in DOMAIN map |-> map[i]] BY MapFacts
<1>3. new = [i \in 0..n - 1 |-> IF i \in DOMAIN map THEN map[i] ELSE default] BY SameNumber DEF Schedule!load
<1> HIDE DEF new
<1>4. DOMAIN new = 0..n - 1 /\ \A i \in DOMAIN new : new[i] = IF i \in DOMAIN map THEN map[i] ELSE default
  BY <1>3
<1>5. IsFiniteSet(0..n - 1) /\ Cardinality(0..n - 1) = n BY <1>1, FS_Interval
<1>6. new \in Maps(S)
  <2>1. new = [i \in DOMAIN new |-> new[i]] BY <1>3
  <2>2. \A i \in DOMAIN new : new[i] \in S BY <1>1, <1>4
  <2> QED BY <1>1, <1>4, <1>5, <2>1, <2>2, MapIs
<1>7. ~Schedule!has_gap(new) BY <1>4, <1>5, SameNumber DEF Schedule!has_gap
<1>8. ASSUME ~Schedule!has_gap(map) PROVE new = map
  <2>1. DOMAIN map = 0..n - 1 BY <1>8, SameNumber DEF Schedule!has_gap
  <2> QED BY <1>2, <1>3, <2>1
<1> QED BY <1>4, <1>6, <1>7, <1>8 DEF new

\* A cleaned schedule has the entries whose profiles are there.
LEMMA Cleaned ==
  ASSUME NEW s \in Maps(Entries), NEW p
  PROVE  LET new == Schedule!clean_scheduler(s, p)
         IN /\ new \in Maps(Entries) /\ Belongs(new, p)
            /\ Schedule!bag(new) = Schedule!of(Schedule!bag(s), p)
<1> DEFINE new == Schedule!clean_scheduler(s, p)
           I == {j \in DOMAIN s : s[j].profile \in DOMAIN p}
<1>1. DOMAIN s \in SUBSET Nat /\ IsFiniteSet(DOMAIN s) /\ \A i \in DOMAIN s : s[i] \in Entries BY MapFacts
<1>2. new = [i \in I |-> s[i]] BY DEF Schedule!clean_scheduler
<1>3. IsFiniteSet(I) BY <1>1, FS_Subset
<1> HIDE DEF new
<1>4. DOMAIN new = I /\ \A i \in I : new[i] = s[i] BY <1>2
<1>5. new \in Maps(Entries)
  <2>1. new = [i \in DOMAIN new |-> new[i]] BY <1>2
  <2> QED BY <1>1, <1>3, <1>4, <2>1, MapIs
<1>6. Belongs(new, p) BY <1>4 DEF Belongs
<1>7. Schedule!bag(new) = Schedule!of(Schedule!bag(s), p)
  <2>1. Schedule!bag(new) = {<<i, s[i]>> : i \in I} BY <1>4 DEF Schedule!bag
  <2>2. Schedule!of(Schedule!bag(s), p) = {e \in {<<i, s[i]>> : i \in DOMAIN s} : e[2].profile \in DOMAIN p}
    BY DEF Schedule!bag, Schedule!of
  <2> QED BY <2>1, <2>2
<1> QED BY <1>5, <1>6, <1>7 DEF new

\* Of some entries one is the latest, the first of them.
LEMMA Latest ==
  ASSUME NEW s \in Maps(Entries), NEW keys \in SUBSET DOMAIN s, keys # {}
  PROVE  Schedule!latest(s, keys) \in keys
<1>0. DOMAIN s \in SUBSET Nat /\ \A i \in DOMAIN s : s[i] \in Entries BY MapFacts
<1>1. DOMAIN s \in SUBSET Nat /\ \A i \in DOMAIN s : s[i].time \in 0..Day - 1 BY <1>0 DEF Entries
<1> DEFINE waits == {Day - s[i].time : i \in keys}
<1>2. waits \in SUBSET Nat /\ waits # {} BY <1>1, ScheduleAssumption
<1>3. PICK a \in waits : \A b \in waits : a <= b BY <1>2, Smallest
<1> DEFINE last == {i \in keys : Day - s[i].time = a}
<1>4. last \in SUBSET Nat /\ last # {} BY <1>1, <1>3
<1>5. PICK i \in last : \A j \in last : i <= j BY <1>4, Smallest
<1>6. ASSUME NEW j \in keys PROVE s[j].time < s[i].time \/ (s[j].time = s[i].time /\ i <= j)
  <2>1. a = Day - s[i].time /\ Day - s[i].time <= Day - s[j].time BY <1>3, <1>5
  <2>2. CASE s[j].time = s[i].time BY <1>5, <2>1, <2>2
  <2>3. CASE s[j].time # s[i].time BY <1>1, <1>5, <2>1, <2>3, ScheduleAssumption
  <2> QED BY <2>2, <2>3
<1>7. \E k \in keys : \A j \in keys : s[j].time < s[k].time \/ (s[j].time = s[k].time /\ k <= j)
  BY <1>5, <1>6
<1> QED BY <1>7 DEF Schedule!latest

\* The active profile is that of an entry, unless no entry has a time, whenever it is asked for.
LEMMA Active ==
  ASSUME NEW s \in Maps(Entries), NEW time \in 0..Day - 1
  PROVE  LET id == Schedule!find_active_profile(s, time)
         IN \/ id \in Nat /\ \E i \in DOMAIN s : id = s[i].profile
            \/ id = Schedule!None /\ \A t \in 0..Day - 1 : Schedule!find_active_profile(s, t) = Schedule!None
<1> DEFINE id == Schedule!find_active_profile(s, time)
           keys == Schedule!before(s, time)
           all == Schedule!before(s, Day)
<1>0. \A i \in DOMAIN s : s[i] \in Entries BY MapFacts
<1>1. \A i \in DOMAIN s : s[i].profile \in Nat /\ s[i].time \in 0..Day - 1 BY <1>0 DEF Entries
<1>2. \A t : Schedule!before(s, t) \in SUBSET DOMAIN s BY DEF Schedule!before
<1>3. CASE keys # {}
  <2>1. Schedule!latest(s, keys) \in DOMAIN s BY <1>2, <1>3, Latest
  <2>2. id = s[Schedule!latest(s, keys)].profile BY <1>3 DEF Schedule!find_active_profile
  <2> QED BY <1>1, <2>1, <2>2
<1>4. CASE keys = {} /\ all # {}
  <2>1. Schedule!latest(s, all) \in DOMAIN s BY <1>2, <1>4, Latest
  <2>2. id = s[Schedule!latest(s, all)].profile BY <1>4 DEF Schedule!find_active_profile
  <2> QED BY <1>1, <2>1, <2>2
<1>5. CASE all = {}
  <2>1. ASSUME NEW t \in 0..Day - 1 PROVE Schedule!before(s, t) = {}
    BY <1>1, <1>5, ScheduleAssumption DEF Schedule!before
  <2>2. \A t \in 0..Day - 1 : Schedule!find_active_profile(s, t) = Schedule!None
    BY <1>5, <2>1 DEF Schedule!find_active_profile
  <2> QED BY <2>2
<1> QED BY <1>3, <1>4, <1>5

Steps == {"none", "open", "agreed", "cleared", "loaded", "cleaned", "half"}
Edits ==
  {e \in [step : Steps, what : {"none", "profiles", "scheduler"}, entries : Maps(Schedule!Profile) \cup Maps(Entries)] :
     /\ e.step # "none" => e.what # "none"
     /\ e.what = "profiles" => e.entries \in Maps(Schedule!Profile)
     /\ e.what = "scheduler" => e.entries \in Maps(Entries)}

ScheduleTypes ==
  /\ m_profiles \in Maps(Schedule!Profile) /\ profiles_file \in Maps(Schedule!Profile)
  /\ m_scheduler \in Maps(Entries) /\ scheduler_file \in Maps(Entries)
  /\ now \in 0..Day - 1 /\ last_run \in 0..Day - 1 \cup {Schedule!Never}
  /\ edit \in Edits /\ running \in BOOLEAN /\ in_force \in BOOLEAN /\ gap \in BOOLEAN

\* The profiles have the ids from 0 on, and are those of the file unless an edit is between its
\* steps; the entries, and those the user is shown, have theirs.
Whole ==
  /\ ~Schedule!has_gap(m_profiles) /\ ~Schedule!has_gap(profiles_file)
  /\ ~running => edit.step = "none"
  /\ running /\ ~(edit.what = "profiles" /\ edit.step \in {"cleared", "loaded", "cleaned"}) => m_profiles = profiles_file
  /\ running /\ Schedule!settled => Belongs(m_scheduler, m_profiles)
  /\ edit.step = "open" /\ edit.what = "scheduler" => Belongs(edit.entries, m_profiles)

\* The limit is the schedule's only once the schedule has run, after the last edit.
Obeyed == in_force => Schedule!settled /\ last_run # Schedule!Never /\ Schedule!InForce

\* The entries are those asked for: in memory, in the copy that replaces them, and in the file
\* unless an edit has not reached it.
EntriesAsked ==
  ~gap =>
    /\ running =>
         IF edit.step = "cleared" /\ edit.what = "scheduler"
         THEN asked = Schedule!bag(edit.entries) /\ ~Schedule!has_gap(edit.entries)
         ELSE asked = Schedule!bag(m_scheduler)
    /\ edit.step \in {"none", "open", "agreed"} =>
         asked = Schedule!of(Schedule!bag(scheduler_file), profiles_file)

ScheduleInv == ScheduleTypes /\ Whole /\ Obeyed /\ EntriesAsked

-----------------------------------------------------------------------------
LEMMA IdleEdit == Schedule!idle \in Edits /\ Schedule!idle.step = "none" /\ Schedule!idle.what = "none"
<1>1. Schedule!Empty \in Maps(Entries) BY EmptyMap
<1> QED BY <1>1 DEF Schedule!idle, Schedule!at, Edits, Steps

LEMMA Defaults == Schedule!no_profile \in Schedule!Profile /\ Schedule!no_entry \in Entries
BY ScheduleAssumption DEF Schedule!no_profile, Schedule!Profile, Schedule!no_entry, Entries

\* The whole schedule stays in force as long as the active profile does.
LEMMA Changes ==
  ASSUME ScheduleTypes, NEW p, NEW s \in Maps(Entries), NEW then,
         Schedule!changes_profile(p, s, then),
         then \in 0..Day - 1 \cup {Schedule!Never},
         Schedule!settled => Belongs(s, p),
         in_force /\ then # Schedule!Never =>
           LET id == Schedule!find_active_profile(s, then)
           IN Schedule!settled /\ id \in DOMAIN p /\ limit = p[id]
  PROVE  /\ last_run' = now
         /\ in_force' => LET id == Schedule!find_active_profile(s, now)
                         IN Schedule!settled /\ id \in DOMAIN p /\ limit' = p[id]
<1> DEFINE new == Schedule!find_active_profile(s, now)
           old == IF then = Schedule!Never THEN Schedule!None ELSE Schedule!find_active_profile(s, then)
<1>1. now \in 0..Day - 1 BY DEF ScheduleTypes
<1>2. last_run' = now BY DEF Schedule!changes_profile
<1>3. /\ new = old => limit' = limit /\ in_force' = (in_force /\ then # Schedule!Never)
      /\ new # old => /\ limit' \in (IF new \in DOMAIN p THEN {p[new]} ELSE Schedule!Profile)
                      /\ in_force' = Schedule!settled
  BY DEF Schedule!changes_profile
<1>4. new # Schedule!None => \E i \in DOMAIN s : new = s[i].profile BY <1>1, Active
<1>5. new = Schedule!None => old = Schedule!None
  <2>1. new = Schedule!None => \A t \in 0..Day - 1 : Schedule!find_active_profile(s, t) = Schedule!None
    BY <1>1, Active DEF Schedule!None
  <2> QED BY <2>1
<1> HIDE DEF new, old
<1>6. CASE new = old BY <1>2, <1>3, <1>6 DEF new, old
<1>7. CASE new # old
  <2>1. Schedule!settled => new \in DOMAIN p BY <1>4, <1>5, <1>7 DEF Belongs
  <2> QED BY <1>2, <1>3, <1>7, <2>1 DEF new
<1> QED BY <1>2, <1>6, <1>7 DEF new

-----------------------------------------------------------------------------
(* One step of each action.                                                *)

LEMMA InitKeeps == Schedule!Init => ScheduleInv
<1> SUFFICES ASSUME Schedule!Init PROVE ScheduleInv OBVIOUS
<1> USE DEF Schedule!Init
<1>1. Schedule!Empty \in Maps(Entries) /\ Schedule!Empty \in Maps(Schedule!Profile) /\ DOMAIN Schedule!Empty = {}
  BY EmptyMap
<1>2. ~Schedule!has_gap(Schedule!Empty)
  BY <1>1, FS_EmptySet, SameNumber DEF Schedule!has_gap
<1>3. profiles_file \in Maps(Schedule!Profile) /\ ~Schedule!has_gap(profiles_file)
  <2> DEFINE keys == [i \in 0..MaxKeys - 1 |-> IF i \in Values THEN i ELSE 0]
  <2>1. IsFiniteSet(0..MaxKeys - 1) /\ Cardinality(0..MaxKeys - 1) = MaxKeys
    BY ScheduleAssumption, FS_Interval
  <2>2. DOMAIN keys = 0..MaxKeys - 1 /\ \A i \in DOMAIN keys : keys[i] \in Schedule!Profile
    BY DEF Schedule!Profile
  <2>3. keys = [i \in DOMAIN keys |-> keys[i]] OBVIOUS
  <2>4. keys \in Maps(Schedule!Profile)
    <3> HIDE DEF keys
    <3> QED BY ScheduleAssumption, <2>1, <2>2, <2>3, MapIs
  <2>5. ~Schedule!has_gap(keys) BY ScheduleAssumption, <2>1, <2>2, SameNumber DEF Schedule!has_gap
  <2> QED BY <1>1, <1>2, <2>4, <2>5
<1>4. ScheduleTypes
  <2>1. now \in 0..Day - 1 /\ last_run \in {Schedule!Never} BY ScheduleAssumption
  <2>2. edit \in Edits BY IdleEdit
  <2> QED BY <1>1, <1>3, <2>1, <2>2 DEF ScheduleTypes
<1>5. Whole BY <1>1, <1>2, <1>3, IdleEdit DEF Whole
<1>6. Obeyed BY DEF Obeyed
<1>7. Schedule!bag(Schedule!Empty) = {} BY <1>1 DEF Schedule!bag
<1>8. EntriesAsked BY <1>7, IdleEdit DEF EntriesAsked, Schedule!of
<1> QED BY <1>4, <1>5, <1>6, <1>8 DEF ScheduleInv

LEMMA RunKeeps == ScheduleInv /\ Schedule!run_scheduler => ScheduleInv'
<1> SUFFICES ASSUME ScheduleInv, Schedule!run_scheduler PROVE ScheduleInv' OBVIOUS
<1>1. ScheduleTypes /\ Whole /\ Obeyed /\ EntriesAsked BY DEF ScheduleInv
<1>2. running /\ Schedule!changes_profile(m_profiles, m_scheduler, last_run) /\ UNCHANGED <<m_profiles, m_scheduler, profiles_file, scheduler_file, now, edit, running, gap, asked>>
  BY DEF Schedule!run_scheduler, Schedule!maps, Schedule!stored
<1>3. /\ last_run' = now
      /\ in_force' => LET id == Schedule!find_active_profile(m_scheduler, now)
                      IN Schedule!settled /\ id \in DOMAIN m_profiles /\ limit' = m_profiles[id]
  <2>1. m_scheduler \in Maps(Entries) /\ last_run \in 0..Day - 1 \cup {Schedule!Never} BY <1>1 DEF ScheduleTypes
  <2>2. Schedule!settled => Belongs(m_scheduler, m_profiles) BY <1>1, <1>2 DEF Whole
  <2>3. in_force => LET id == Schedule!find_active_profile(m_scheduler, last_run)
                    IN Schedule!settled /\ id \in DOMAIN m_profiles /\ limit = m_profiles[id]
    BY <1>1 DEF Obeyed, Schedule!InForce
  <2> QED BY <1>1, <1>2, <2>1, <2>2, <2>3, Changes
<1>4. in_force' \in BOOLEAN
  BY <1>1, <1>2 DEF Schedule!changes_profile, ScheduleTypes, Schedule!settled
<1>5. ScheduleTypes' BY <1>1, <1>2, <1>3, <1>4 DEF ScheduleTypes
<1>6. Schedule!settled' = Schedule!settled BY <1>2 DEF Schedule!settled
<1>7. Whole' BY <1>1, <1>2, <1>6 DEF Whole, Belongs
<1>8. Obeyed'
  <2>1. now # Schedule!Never BY <1>1 DEF ScheduleTypes, Schedule!Never
  <2>2. Schedule!find_active_profile(m_scheduler, last_run)' = Schedule!find_active_profile(m_scheduler, now)
    BY <1>2, <1>3
  <2> QED BY <1>2, <1>3, <1>6, <2>1, <2>2 DEF Obeyed, Schedule!InForce
<1>9. EntriesAsked' BY <1>1, <1>2 DEF EntriesAsked
<1> QED BY <1>5, <1>7, <1>8, <1>9 DEF ScheduleInv

LEMMA TickKeeps == ScheduleInv /\ Schedule!tick => ScheduleInv'
<1> SUFFICES ASSUME ScheduleInv, Schedule!tick PROVE ScheduleInv' OBVIOUS
<1>1. ScheduleTypes /\ Whole /\ Obeyed /\ EntriesAsked BY DEF ScheduleInv
<1>2. /\ UNCHANGED <<m_profiles, m_scheduler, profiles_file, scheduler_file, last_run, limit, edit, running, in_force, gap, asked>>
      /\ now' = (now + 1) % Day
  BY DEF Schedule!tick, Schedule!maps, Schedule!stored, Schedule!history
<1>3. now' \in 0..Day - 1 BY <1>1, <1>2, ScheduleAssumption DEF ScheduleTypes
<1>4. ScheduleTypes' BY <1>1, <1>2, <1>3 DEF ScheduleTypes
<1>5. Schedule!settled' = Schedule!settled BY <1>2 DEF Schedule!settled
<1>6. Whole' BY <1>1, <1>2, <1>5 DEF Whole, Belongs
<1>7. Obeyed' BY <1>1, <1>2, <1>5 DEF Obeyed, Schedule!InForce
<1>8. EntriesAsked' BY <1>1, <1>2 DEF EntriesAsked
<1> QED BY <1>4, <1>6, <1>7, <1>8 DEF ScheduleInv

LEMMA StartKeeps == ScheduleInv /\ Schedule!start => ScheduleInv'
<1> SUFFICES ASSUME ScheduleInv, Schedule!start PROVE ScheduleInv' OBVIOUS
<1>1. ScheduleTypes /\ Whole /\ Obeyed /\ EntriesAsked BY DEF ScheduleInv
<1> DEFINE new == Schedule!load(scheduler_file, Schedule!no_entry)
<1>2. /\ ~running /\ running' = TRUE
      /\ m_profiles' = Schedule!load(profiles_file, Schedule!no_profile)
      /\ m_scheduler' = Schedule!clean_scheduler(new, m_profiles')
      /\ Schedule!changes_profile(m_profiles', m_scheduler', Schedule!Never)
      /\ gap' = (gap \/ Schedule!has_gap(scheduler_file))
      /\ UNCHANGED <<profiles_file, scheduler_file, now, edit, asked>>
  BY DEF Schedule!start, Schedule!stored
<1> HIDE DEF new
<1>3. m_profiles' = profiles_file
  BY <1>1, <1>2, Defaults, Loaded DEF ScheduleTypes, Whole
<1>4. new \in Maps(Entries) /\ (~Schedule!has_gap(scheduler_file) => new = scheduler_file)
  BY <1>1, Defaults, Loaded DEF ScheduleTypes, new
<1>5. /\ m_scheduler' \in Maps(Entries) /\ Belongs(m_scheduler', m_profiles')
      /\ Schedule!bag(m_scheduler') = Schedule!of(Schedule!bag(new), m_profiles')
  BY <1>2, <1>4, Cleaned
<1>6. /\ last_run' = now
      /\ in_force' => LET id == Schedule!find_active_profile(m_scheduler', now)
                      IN Schedule!settled /\ id \in DOMAIN m_profiles' /\ limit' = m_profiles'[id]
  BY <1>1, <1>2, <1>5, Changes
<1>7. edit.step = "none" /\ Schedule!settled /\ Schedule!settled' BY <1>1, <1>2 DEF Whole, Schedule!settled
<1>8. ScheduleTypes'
  <2>1. in_force' \in BOOLEAN BY <1>1, <1>2 DEF Schedule!changes_profile, ScheduleTypes, Schedule!settled
  <2> QED BY <1>1, <1>2, <1>3, <1>5, <1>6, <2>1 DEF ScheduleTypes
<1>9. Whole' BY <1>1, <1>2, <1>3, <1>5, <1>7 DEF Whole
<1>10. Obeyed'
  <2>1. now # Schedule!Never BY <1>1 DEF ScheduleTypes, Schedule!Never
  <2>2. Schedule!find_active_profile(m_scheduler, last_run)' = Schedule!find_active_profile(m_scheduler', now)
    BY <1>6
  <2> QED BY <1>2, <1>6, <1>7, <2>1, <2>2 DEF Obeyed, Schedule!InForce
<1>11. EntriesAsked'
  <2>1. ASSUME ~gap' PROVE ~gap /\ new = scheduler_file BY <1>1, <1>2, <1>4, <2>1 DEF ScheduleTypes
  <2>2. ~gap' => asked = Schedule!bag(m_scheduler') BY <1>1, <1>3, <1>5, <1>7, <2>1 DEF EntriesAsked
  <2> QED BY <1>1, <1>2, <1>7, <2>1, <2>2 DEF EntriesAsked
<1> QED BY <1>8, <1>9, <1>10, <1>11 DEF ScheduleInv

\* The end of the program, whatever has been written.
LEMMA EndsKeeps ==
  ASSUME ScheduleInv, Schedule!ends,
         profiles_file' \in Maps(Schedule!Profile), ~Schedule!has_gap(profiles_file'), scheduler_file' \in Maps(Entries),
         edit.step \in {"none", "open", "agreed"} => UNCHANGED <<profiles_file, scheduler_file>>
  PROVE  ScheduleInv'
<1>1. ScheduleTypes /\ Whole /\ Obeyed /\ EntriesAsked BY DEF ScheduleInv
<1>2. /\ running' = FALSE /\ edit' = Schedule!idle
      /\ asked' = IF edit.step \in {"none", "open", "agreed"} THEN asked
                  ELSE Schedule!of(Schedule!bag(scheduler_file'), profiles_file')
      /\ UNCHANGED <<m_profiles, m_scheduler, now, last_run, limit, in_force, gap>>
  BY DEF Schedule!ends, Schedule!maps
<1>3. edit' \in Edits /\ edit'.step = "none" /\ edit'.what = "none" BY <1>2, IdleEdit
<1>4. ScheduleTypes' BY <1>1, <1>2, <1>3 DEF ScheduleTypes
<1>5. Whole' BY <1>1, <1>2, <1>3 DEF Whole
<1>6. Obeyed' BY <1>1, <1>2, <1>3 DEF Obeyed, Schedule!InForce, Schedule!settled
<1>7. EntriesAsked' BY <1>1, <1>2, <1>3 DEF EntriesAsked
<1> QED BY <1>4, <1>5, <1>6, <1>7 DEF ScheduleInv

LEMMA QuitKeeps == ScheduleInv /\ Schedule!quit => ScheduleInv'
BY EndsKeeps DEF Schedule!quit, Schedule!stored, ScheduleInv, ScheduleTypes, Whole

LEMMA NamelessKeeps == ScheduleInv /\ Schedule!nameless => ScheduleInv'
BY EndsKeeps DEF Schedule!nameless, Schedule!stored, ScheduleInv, ScheduleTypes, Whole

LEMMA TornKeeps == ScheduleInv /\ Schedule!torn => ScheduleInv'
<1> SUFFICES ASSUME ScheduleInv, Schedule!torn PROVE ScheduleInv' OBVIOUS
<1>1. /\ Schedule!ends /\ edit.step \in {"cleaned", "half"}
      /\ profiles_file' \in {profiles_file, Schedule!Empty} /\ scheduler_file' \in {scheduler_file, Schedule!Empty}
  BY DEF Schedule!torn
<1>2. Schedule!Empty \in Maps(Entries) /\ Schedule!Empty \in Maps(Schedule!Profile) /\ DOMAIN Schedule!Empty = {}
  BY EmptyMap
<1>3. ~Schedule!has_gap(Schedule!Empty)
  BY <1>2, FS_EmptySet, SameNumber DEF Schedule!has_gap
<1>4. ScheduleTypes /\ Whole BY DEF ScheduleInv
<1>5. /\ profiles_file' \in Maps(Schedule!Profile) /\ ~Schedule!has_gap(profiles_file')
      /\ scheduler_file' \in Maps(Entries)
  BY <1>1, <1>2, <1>3, <1>4 DEF ScheduleTypes, Whole
<1> QED BY <1>1, <1>5, EndsKeeps

\* What the dialogs do changes the copy only, and the limit when a profile is activated.
LEMMA DialogKeeps ==
  ASSUME ScheduleInv, running, edit.step \in {"none", "open"}, edit' \in Edits,
         edit'.step \in {"none", "open", "agreed"},
         edit'.step = "open" /\ edit'.what = "scheduler" => Belongs(edit'.entries, m_profiles),
         UNCHANGED <<m_profiles, m_scheduler, profiles_file, scheduler_file, now, last_run, running, gap, asked>>,
         in_force' = FALSE \/ UNCHANGED <<in_force, limit>>
  PROVE  ScheduleInv'
<1>1. ScheduleTypes /\ Whole /\ Obeyed /\ EntriesAsked BY DEF ScheduleInv
<1>2. ScheduleTypes' BY <1>1 DEF ScheduleTypes
<1>3. Schedule!settled /\ Schedule!settled' BY DEF Schedule!settled
<1>4. Whole' BY <1>1, <1>3 DEF Whole, Belongs
<1>5. Obeyed' BY <1>1, <1>3 DEF Obeyed, Schedule!InForce
<1>6. EntriesAsked' BY <1>1 DEF EntriesAsked
<1> QED BY <1>2, <1>4, <1>5, <1>6 DEF ScheduleInv

LEMMA ToolsProfilesKeeps == ScheduleInv /\ Schedule!OnToolsProfiles => ScheduleInv'
<1> SUFFICES ASSUME ScheduleInv, Schedule!OnToolsProfiles PROVE ScheduleInv' OBVIOUS
<1> DEFINE new == Schedule!load(m_profiles, Schedule!no_profile)
<1>1. /\ running /\ edit.step = "none" /\ edit' = [step |-> "open", what |-> "profiles", entries |-> new]
      /\ UNCHANGED <<m_profiles, m_scheduler, profiles_file, scheduler_file, now, last_run, limit, running, in_force, gap, asked>>
  BY DEF Schedule!OnToolsProfiles, Schedule!at, Schedule!maps, Schedule!stored, Schedule!history
<1>2. new \in Maps(Schedule!Profile) BY Defaults, Loaded DEF ScheduleInv, ScheduleTypes
<1> HIDE DEF new
<1>3. edit' \in Edits BY <1>1, <1>2 DEF Edits, Steps
<1> QED BY <1>1, <1>3, DialogKeeps

\* An entry that is loaded without its key names the first profile, which there is if there are
\* entries at all.
LEMMA ToolsSchedulerKeeps == ScheduleInv /\ Schedule!OnToolsScheduler => ScheduleInv'
<1> SUFFICES ASSUME ScheduleInv, Schedule!OnToolsScheduler PROVE ScheduleInv' OBVIOUS
<1> DEFINE new == Schedule!load(m_scheduler, Schedule!no_entry)
           n == Cardinality(DOMAIN m_scheduler)
<1>1. /\ running /\ edit.step = "none" /\ edit' = [step |-> "open", what |-> "scheduler", entries |-> new]
      /\ UNCHANGED <<m_profiles, m_scheduler, profiles_file, scheduler_file, now, last_run, limit, running, in_force, gap, asked>>
  BY DEF Schedule!OnToolsScheduler, Schedule!at, Schedule!maps, Schedule!stored, Schedule!history
<1>2. m_scheduler \in Maps(Entries) /\ m_profiles \in Maps(Schedule!Profile) BY DEF ScheduleInv, ScheduleTypes
<1>3. /\ new \in Maps(Entries) /\ DOMAIN new = 0..n - 1
      /\ \A i \in DOMAIN new : new[i] = IF i \in DOMAIN m_scheduler THEN m_scheduler[i] ELSE Schedule!no_entry
  BY <1>2, Defaults, Loaded
<1> HIDE DEF new
<1>4. edit' \in Edits BY <1>1, <1>3 DEF Edits, Steps
<1>5. Belongs(m_scheduler, m_profiles) /\ ~Schedule!has_gap(m_profiles)
  BY <1>1 DEF ScheduleInv, Whole, Schedule!settled
<1>6. ASSUME NEW i \in DOMAIN new PROVE new[i].profile \in DOMAIN m_profiles
  <2>1. CASE i \in DOMAIN m_scheduler BY <1>3, <1>5, <2>1 DEF Belongs
  <2>2. CASE i \notin DOMAIN m_scheduler
    <3>1. new[i].profile = 0 BY <1>3, <2>2 DEF Schedule!no_entry
    <3>2. n # 0
      <4>1. n \in Nat BY <1>2, MapFacts
      <4> QED BY <1>3, <4>1
    <3>3. DOMAIN m_scheduler # {} BY <3>2, FS_EmptySet
    <3>4. DOMAIN m_profiles # {} BY <1>5, <3>3 DEF Belongs
    <3>5. Cardinality(DOMAIN m_profiles) \in Nat BY <1>2, MapFacts
    <3>6. DOMAIN m_profiles = 0..Cardinality(DOMAIN m_profiles) - 1 BY <1>5, SameNumber DEF Schedule!has_gap
    <3> QED BY <3>1, <3>4, <3>5, <3>6
  <2> QED BY <2>1, <2>2
<1>7. Belongs(new, m_profiles) BY <1>6 DEF Belongs
<1> QED BY <1>1, <1>4, <1>7, DialogKeeps

LEMMA InDialog ==
  ASSUME ScheduleInv, edit.step = "open", NEW new, Schedule!in_dialog(new),
         edit.what = "profiles" => new \in Maps(Schedule!Profile),
         edit.what = "scheduler" => new \in Maps(Entries) /\ Belongs(new, m_profiles)
  PROVE  ScheduleInv'
<1>1. /\ edit' = [edit EXCEPT !.entries = new]
      /\ UNCHANGED <<m_profiles, m_scheduler, profiles_file, scheduler_file, now, last_run, limit, running, in_force, gap, asked>>
  BY DEF Schedule!in_dialog, Schedule!maps, Schedule!stored
<1>2. edit \in Edits /\ edit.what \in {"profiles", "scheduler"} BY DEF ScheduleInv, ScheduleTypes, Edits
<1>3. edit' \in Edits /\ edit'.step = "open" /\ edit'.what = edit.what /\ edit'.entries = new
  BY <1>1, <1>2 DEF Edits
<1>4. running BY DEF ScheduleInv, ScheduleTypes, Whole
<1> QED BY <1>1, <1>3, <1>4, DialogKeeps

\* What may be given to a profile or an entry.
Contents == IF edit.what = "profiles" THEN Schedule!Profile ELSE Entries
LEMMA ContentsFit ==
  /\ Schedule!contents \subseteq Contents
  /\ edit.what # "profiles" => \A v \in Schedule!contents : v.profile \in DOMAIN m_profiles
BY ScheduleAssumption DEF Schedule!contents, Schedule!offered, Contents, Schedule!Entry, Entries

\* A copy with one entry more or another one in its place, or without some.
LEMMA NewCopy ==
  ASSUME ScheduleInv, edit.step = "open", NEW keys, IsFiniteSet(keys), keys \in SUBSET Nat, NEW new,
         new = [i \in keys |-> new[i]],
         \A i \in keys : new[i] \in Schedule!contents \/ (i \in DOMAIN edit.entries /\ new[i] = edit.entries[i])
  PROVE  /\ edit.what = "profiles" => new \in Maps(Schedule!Profile)
         /\ edit.what = "scheduler" => new \in Maps(Entries) /\ Belongs(new, m_profiles)
<1>1. DOMAIN new = keys OBVIOUS
<1>2. edit.what = "profiles" => new \in Maps(Schedule!Profile)
  <2> SUFFICES ASSUME edit.what = "profiles" PROVE new \in Maps(Schedule!Profile) OBVIOUS
  <2>1. edit.entries \in Maps(Schedule!Profile) BY DEF ScheduleInv, ScheduleTypes, Edits
  <2>2. \A i \in DOMAIN edit.entries : edit.entries[i] \in Schedule!Profile BY <2>1, MapFacts
  <2>3. \A i \in keys : new[i] \in Schedule!Profile BY <2>2, ContentsFit DEF Contents
  <2> QED BY <1>1, <2>3, MapIs
<1>3. edit.what = "scheduler" => new \in Maps(Entries) /\ Belongs(new, m_profiles)
  <2> SUFFICES ASSUME edit.what = "scheduler" PROVE new \in Maps(Entries) /\ Belongs(new, m_profiles) OBVIOUS
  <2>1. edit.entries \in Maps(Entries) /\ Belongs(edit.entries, m_profiles)
    BY DEF ScheduleInv, ScheduleTypes, Edits, Whole
  <2>2. \A i \in DOMAIN edit.entries : edit.entries[i] \in Entries BY <2>1, MapFacts
  <2>3. \A i \in keys : new[i] \in Entries BY <2>2, ContentsFit DEF Contents
  <2>4. \A i \in keys : new[i].profile \in DOMAIN m_profiles BY <2>1, ContentsFit DEF Belongs
  <2> QED BY <1>1, <2>3, <2>4, MapIs DEF Belongs
<1> QED BY <1>2, <1>3

LEMMA CopyFacts ==
  ASSUME ScheduleInv
  PROVE  DOMAIN edit.entries \in SUBSET Nat /\ IsFiniteSet(DOMAIN edit.entries)
<1>1. edit.entries \in Maps(Schedule!Profile) \/ edit.entries \in Maps(Entries) BY DEF ScheduleInv, ScheduleTypes, Edits
<1> QED BY <1>1, MapFacts

LEMMA InsertKeeps == ScheduleInv /\ Schedule!OnInsert => ScheduleInv'
<1> SUFFICES ASSUME ScheduleInv, Schedule!OnInsert PROVE ScheduleInv' OBVIOUS
<1>1. edit.step = "open" BY DEF Schedule!OnInsert
<1>2. PICK id \in Schedule!next_ids(edit.entries), v \in Schedule!contents :
        Schedule!in_dialog([i \in DOMAIN edit.entries \cup {id} |-> IF i = id THEN v ELSE edit.entries[i]])
  BY DEF Schedule!OnInsert
<1> DEFINE keys == DOMAIN edit.entries \cup {id}
           new == [i \in keys |-> IF i = id THEN v ELSE edit.entries[i]]
<1>3. IsFiniteSet(keys) /\ keys \in SUBSET Nat
  <2>1. id \in Nat BY <1>2 DEF Schedule!next_ids
  <2> QED BY <2>1, CopyFacts, FS_AddElement
<1>4. /\ new = [i \in keys |-> new[i]]
      /\ \A i \in keys : new[i] \in Schedule!contents \/ (i \in DOMAIN edit.entries /\ new[i] = edit.entries[i])
  BY <1>2
<1> HIDE DEF keys, new
<1>5. Schedule!in_dialog(new) BY <1>2 DEF new, keys
<1> QED BY <1>1, <1>3, <1>4, <1>5, NewCopy, InDialog

LEMMA EditKeeps == ScheduleInv /\ Schedule!OnEdit => ScheduleInv'
<1> SUFFICES ASSUME ScheduleInv, Schedule!OnEdit PROVE ScheduleInv' OBVIOUS
<1>1. edit.step = "open" BY DEF Schedule!OnEdit
<1>2. PICK id \in DOMAIN edit.entries, v \in Schedule!contents : Schedule!in_dialog([edit.entries EXCEPT ![id] = v])
  BY DEF Schedule!OnEdit
<1> DEFINE new == [edit.entries EXCEPT ![id] = v]
<1>3. /\ new = [i \in DOMAIN edit.entries |-> new[i]]
      /\ \A i \in DOMAIN edit.entries :
           new[i] \in Schedule!contents \/ (i \in DOMAIN edit.entries /\ new[i] = edit.entries[i])
  BY <1>2
<1>4. Schedule!in_dialog(new) BY <1>2
<1> HIDE DEF new
<1> QED BY <1>1, <1>3, <1>4, CopyFacts, NewCopy, InDialog

LEMMA DeleteKeeps == ScheduleInv /\ Schedule!OnDelete => ScheduleInv'
<1> SUFFICES ASSUME ScheduleInv, Schedule!OnDelete PROVE ScheduleInv' OBVIOUS
<1>1. edit.step = "open" BY DEF Schedule!OnDelete
<1>2. PICK removed \in SUBSET DOMAIN edit.entries :
        Schedule!in_dialog([i \in DOMAIN edit.entries \ removed |-> edit.entries[i]])
  BY DEF Schedule!OnDelete
<1> DEFINE keys == DOMAIN edit.entries \ removed
           new == [i \in keys |-> edit.entries[i]]
<1>3. IsFiniteSet(keys) /\ keys \in SUBSET Nat BY CopyFacts, FS_Subset
<1>4. /\ new = [i \in keys |-> new[i]]
      /\ \A i \in keys : new[i] \in Schedule!contents \/ (i \in DOMAIN edit.entries /\ new[i] = edit.entries[i])
  OBVIOUS
<1> HIDE DEF keys, new
<1>5. Schedule!in_dialog(new) BY <1>2 DEF new, keys
<1> QED BY <1>1, <1>3, <1>4, <1>5, NewCopy, InDialog

LEMMA ClosingKeeps ==
  ScheduleInv /\ (Schedule!OnCancel \/ Schedule!OnOK \/ Schedule!OnActivate) => ScheduleInv'
<1> SUFFICES ASSUME ScheduleInv, Schedule!OnCancel \/ Schedule!OnOK \/ Schedule!OnActivate PROVE ScheduleInv' OBVIOUS
<1>1. /\ edit.step = "open" /\ edit' \in {Schedule!idle, [edit EXCEPT !.step = "agreed"]}
      /\ UNCHANGED <<m_profiles, m_scheduler, profiles_file, scheduler_file, now, last_run, running, gap, asked>>
      /\ in_force' = FALSE \/ UNCHANGED <<in_force, limit>>
  BY DEF Schedule!OnCancel, Schedule!OnOK, Schedule!OnActivate, Schedule!maps, Schedule!stored, Schedule!history
<1>2. edit \in Edits /\ running BY <1>1 DEF ScheduleInv, ScheduleTypes, Whole
<1>3. edit' \in Edits /\ edit'.step \in {"none", "agreed"} BY <1>1, <1>2, IdleEdit DEF Edits, Steps
<1> QED BY <1>1, <1>2, <1>3, DialogKeeps

\* The steps of an edit: from the copy to the map, and from the maps to the files.
LEMMA SetKeeps == ScheduleInv /\ (Schedule!set_profiles \/ Schedule!set_scheduler) => ScheduleInv'
<1> SUFFICES ASSUME ScheduleInv, Schedule!set_profiles \/ Schedule!set_scheduler PROVE ScheduleInv' OBVIOUS
<1>1. ScheduleTypes /\ Whole /\ Obeyed /\ EntriesAsked BY DEF ScheduleInv
<1>2. /\ edit.step = "agreed" /\ edit.what \in {"profiles", "scheduler"} /\ edit' = [edit EXCEPT !.step = "cleared"]
      /\ in_force' = FALSE
      /\ UNCHANGED <<profiles_file, scheduler_file, now, last_run, limit, running>>
      /\ edit.what = "profiles" => m_profiles' = Schedule!Empty /\ UNCHANGED <<m_scheduler, gap, asked>>
      /\ edit.what = "scheduler" => /\ m_scheduler' = Schedule!Empty /\ UNCHANGED m_profiles
                                   /\ gap' = Schedule!has_gap(edit.entries) /\ asked' = Schedule!bag(edit.entries)
  BY DEF Schedule!set_profiles, Schedule!set_scheduler, Schedule!stored
<1>3. edit \in Edits /\ running BY <1>1, <1>2 DEF ScheduleTypes, Whole
<1>4. edit' \in Edits /\ edit'.step = "cleared" /\ edit'.what = edit.what /\ edit'.entries = edit.entries
  BY <1>2, <1>3 DEF Edits, Steps
<1>5. Schedule!Empty \in Maps(Entries) /\ Schedule!Empty \in Maps(Schedule!Profile) /\ DOMAIN Schedule!Empty = {}
  BY EmptyMap
<1>6. ~Schedule!has_gap(Schedule!Empty)
  BY <1>5, FS_EmptySet, SameNumber DEF Schedule!has_gap
<1>7. ScheduleTypes'
  <2>1. gap' \in BOOLEAN BY <1>1, <1>2 DEF ScheduleTypes, Schedule!has_gap
  <2>2. m_profiles' \in Maps(Schedule!Profile) /\ m_scheduler' \in Maps(Entries)
    BY <1>1, <1>2, <1>5 DEF ScheduleTypes
  <2> QED BY <1>1, <1>2, <1>4, <2>1, <2>2 DEF ScheduleTypes
<1>8. Whole'
  <2>1. ~Schedule!has_gap(m_profiles') BY <1>1, <1>2, <1>6 DEF Whole
  <2>2. edit'.what # "profiles" => m_profiles' = profiles_file' BY <1>1, <1>2, <1>3, <1>4 DEF Whole
  <2> QED BY <1>1, <1>2, <1>3, <1>4, <2>1, <2>2 DEF Whole, Schedule!settled
<1>9. Obeyed' BY <1>2 DEF Obeyed
<1>10. EntriesAsked' BY <1>1, <1>2, <1>3, <1>4 DEF EntriesAsked
<1> QED BY <1>7, <1>8, <1>9, <1>10 DEF ScheduleInv

LEMMA LoadedKeeps == ScheduleInv /\ Schedule!loaded => ScheduleInv'
<1> SUFFICES ASSUME ScheduleInv, Schedule!loaded PROVE ScheduleInv' OBVIOUS
<1>1. ScheduleTypes /\ Whole /\ Obeyed /\ EntriesAsked BY DEF ScheduleInv
<1>2. /\ edit.step = "cleared" /\ edit' = [step |-> "loaded", what |-> edit.what, entries |-> Schedule!Empty]
      /\ UNCHANGED <<profiles_file, scheduler_file, now, last_run, limit, running, in_force, gap, asked>>
      /\ edit.what = "scheduler" =>
           m_scheduler' = Schedule!load(edit.entries, Schedule!no_entry) /\ UNCHANGED m_profiles
      /\ edit.what # "scheduler" =>
           m_profiles' = Schedule!load(edit.entries, Schedule!no_profile) /\ UNCHANGED m_scheduler
  BY DEF Schedule!loaded, Schedule!stored, Schedule!history, Schedule!at
<1>3. edit \in Edits /\ running /\ edit.what \in {"profiles", "scheduler"} BY <1>1, <1>2 DEF ScheduleTypes, Whole, Edits
<1>4. Schedule!Empty \in Maps(Entries) /\ Schedule!Empty \in Maps(Schedule!Profile) BY EmptyMap
<1>5. edit' \in Edits /\ edit'.step = "loaded" /\ edit'.what = edit.what
  BY <1>2, <1>3, <1>4 DEF Edits, Steps
<1>6. edit.what = "scheduler" =>
        m_scheduler' \in Maps(Entries) /\ (~Schedule!has_gap(edit.entries) => m_scheduler' = edit.entries)
  BY <1>2, <1>3, Defaults, Loaded DEF Edits
<1>7. edit.what = "profiles" => m_profiles' \in Maps(Schedule!Profile) /\ ~Schedule!has_gap(m_profiles')
  BY <1>2, <1>3, Defaults, Loaded DEF Edits
<1>8. ScheduleTypes' BY <1>1, <1>2, <1>3, <1>5, <1>6, <1>7 DEF ScheduleTypes
<1>9. Whole'
  <2>1. edit.what = "scheduler" => m_profiles' = m_profiles /\ m_profiles = profiles_file
    BY <1>1, <1>2, <1>3 DEF Whole
  <2> QED BY <1>1, <1>2, <1>3, <1>5, <1>7, <2>1 DEF Whole, Schedule!settled
<1>10. ~in_force BY <1>1, <1>2 DEF Obeyed, Schedule!settled
<1>11. Obeyed' BY <1>2, <1>10 DEF Obeyed
<1>12. EntriesAsked' BY <1>1, <1>2, <1>3, <1>5, <1>6 DEF EntriesAsked
<1> QED BY <1>8, <1>9, <1>11, <1>12 DEF ScheduleInv

LEMMA CleanedKeeps == ScheduleInv /\ Schedule!cleaned => ScheduleInv'
<1> SUFFICES ASSUME ScheduleInv, Schedule!cleaned PROVE ScheduleInv' OBVIOUS
<1>1. ScheduleTypes /\ Whole /\ Obeyed /\ EntriesAsked BY DEF ScheduleInv
<1>2. /\ edit.step = "loaded" /\ edit' = [edit EXCEPT !.step = "cleaned"]
      /\ m_scheduler' = Schedule!clean_scheduler(m_scheduler, m_profiles)
      /\ asked' = Schedule!of(asked, m_profiles)
      /\ UNCHANGED <<m_profiles, profiles_file, scheduler_file, now, last_run, limit, running, in_force, gap>>
  BY DEF Schedule!cleaned, Schedule!stored
<1>3. edit \in Edits /\ running BY <1>1, <1>2 DEF ScheduleTypes, Whole
<1>4. edit' \in Edits /\ edit'.step = "cleaned" /\ edit'.what = edit.what BY <1>2, <1>3 DEF Edits, Steps
<1>5. /\ m_scheduler' \in Maps(Entries) /\ Belongs(m_scheduler', m_profiles)
      /\ Schedule!bag(m_scheduler') = Schedule!of(Schedule!bag(m_scheduler), m_profiles)
  BY <1>1, <1>2, Cleaned DEF ScheduleTypes
<1>6. ScheduleTypes' BY <1>1, <1>2, <1>4, <1>5 DEF ScheduleTypes
<1>7. Whole' BY <1>1, <1>2, <1>3, <1>4, <1>5 DEF Whole, Belongs
<1>8. ~in_force BY <1>1, <1>2 DEF Obeyed, Schedule!settled
<1>9. Obeyed' BY <1>2, <1>8 DEF Obeyed
<1>10. EntriesAsked' BY <1>1, <1>2, <1>3, <1>4, <1>5 DEF EntriesAsked
<1> QED BY <1>6, <1>7, <1>9, <1>10 DEF ScheduleInv

LEMMA SavedKeeps == ScheduleInv /\ Schedule!saved => ScheduleInv'
<1> SUFFICES ASSUME ScheduleInv, Schedule!saved PROVE ScheduleInv' OBVIOUS
<1>1. ScheduleTypes /\ Whole /\ Obeyed /\ EntriesAsked BY DEF ScheduleInv
<1> DEFINE first == edit.step = "cleaned" /\ edit.what = "profiles"
<1>2. /\ edit.step \in {"cleaned", "half"}
      /\ UNCHANGED <<m_profiles, m_scheduler, now, last_run, limit, running, in_force, gap, asked>>
      /\ first => profiles_file' = m_profiles /\ edit' = [edit EXCEPT !.step = "half"] /\ UNCHANGED scheduler_file
      /\ ~first => scheduler_file' = m_scheduler /\ edit' = Schedule!idle /\ UNCHANGED profiles_file
  BY DEF Schedule!saved, Schedule!maps, Schedule!history
<1>3. edit \in Edits /\ running /\ Schedule!settled BY <1>1, <1>2 DEF ScheduleTypes, Whole, Schedule!settled
<1>4. first => edit' \in Edits /\ edit'.step = "half" /\ edit'.what = "profiles" BY <1>2, <1>3 DEF Edits, Steps
<1>5. ~first => edit' \in Edits /\ edit'.step = "none" /\ edit'.what = "none" BY <1>2, IdleEdit
<1>6. ScheduleTypes' BY <1>1, <1>2, <1>4, <1>5 DEF ScheduleTypes
<1>7. Schedule!settled' BY <1>4, <1>5 DEF Schedule!settled
<1>8. ~first => m_profiles = profiles_file BY <1>1, <1>2, <1>3 DEF Whole
<1>9. Belongs(m_scheduler, m_profiles) BY <1>1, <1>3 DEF Whole
<1>10. Whole'
  <2>1. m_profiles' = profiles_file' /\ ~Schedule!has_gap(m_profiles') BY <1>1, <1>2, <1>8 DEF Whole
  <2> QED BY <1>2, <1>3, <1>4, <1>5, <1>9, <2>1 DEF Whole, Belongs
<1>11. Obeyed' BY <1>1, <1>2, <1>7 DEF Obeyed, Schedule!InForce
<1>12. EntriesAsked'
  <2>1. Schedule!of(Schedule!bag(m_scheduler), m_profiles) = Schedule!bag(m_scheduler)
    BY <1>9 DEF Schedule!of, Schedule!bag, Belongs
  <2>2. ~gap => asked = Schedule!bag(m_scheduler) BY <1>1, <1>2, <1>3 DEF EntriesAsked
  <2> QED BY <1>2, <1>4, <1>5, <1>8, <2>1, <2>2 DEF EntriesAsked
<1> QED BY <1>6, <1>10, <1>11, <1>12 DEF ScheduleInv

LEMMA StutterKeeps == ScheduleInv /\ UNCHANGED Schedule!vars => ScheduleInv'
BY DEF Schedule!vars, Schedule!maps, Schedule!stored, Schedule!history, ScheduleInv, ScheduleTypes, Whole,
       Obeyed, EntriesAsked, Belongs, Schedule!settled, Schedule!InForce

\* The invariant implies what the run checks.
LEMMA InvObeys == ScheduleInv => ScheduleObeyed
<1> SUFFICES ASSUME ScheduleInv PROVE ScheduleObeyed OBVIOUS
<1>1. ScheduleTypes /\ Whole /\ Obeyed /\ EntriesAsked BY DEF ScheduleInv
<1>2. Schedule!InForce BY <1>1 DEF Obeyed, Schedule!InForce
<1>3. ASSUME running, Schedule!settled
      PROVE  LET id == Schedule!find_active_profile(m_scheduler, now)
             IN \/ id \in DOMAIN m_profiles
                \/ id = Schedule!None /\ \A t \in 0..Day - 1 : Schedule!find_active_profile(m_scheduler, t) = Schedule!None
  <2> DEFINE id == Schedule!find_active_profile(m_scheduler, now)
  <2>1. \/ \E i \in DOMAIN m_scheduler : id = m_scheduler[i].profile
        \/ id = Schedule!None /\ \A t \in 0..Day - 1 : Schedule!find_active_profile(m_scheduler, t) = Schedule!None
    BY <1>1, Active DEF ScheduleTypes
  <2>2. Belongs(m_scheduler, m_profiles) BY <1>1, <1>3 DEF Whole
  <2> HIDE DEF id
  <2>3. CASE \E i \in DOMAIN m_scheduler : id = m_scheduler[i].profile
    <3>1. id \in DOMAIN m_profiles BY <2>2, <2>3 DEF Belongs
    <3> QED BY <3>1 DEF id
  <2>4. CASE id = Schedule!None /\ \A t \in 0..Day - 1 : Schedule!find_active_profile(m_scheduler, t) = Schedule!None
    BY <2>4 DEF id
  <2> QED BY <2>1, <2>3, <2>4
<1>4. edit.step = "open" /\ edit.what = "scheduler" => Schedule!looked_up(edit.entries) \subseteq DOMAIN m_profiles
  BY <1>1 DEF Whole, Belongs, Schedule!looked_up
<1>5. Schedule!LookupSafe BY <1>3, <1>4 DEF Schedule!LookupSafe
<1>6. Schedule!EntriesKept BY <1>1 DEF EntriesAsked, Schedule!EntriesKept, Schedule!settled
<1> QED BY <1>2, <1>5, <1>6 DEF ScheduleObeyed

\* The schedule is obeyed, for any days, limits, numbers of entries and edits: by the server's thread in
\* every interleaving with the dialogs, and across restarts.
THEOREM ScheduleIsObeyed == Schedule!Spec => []ScheduleObeyed
<1>1. Schedule!Init => ScheduleInv BY InitKeeps
<1>2. ScheduleInv /\ [Schedule!Next]_(Schedule!vars) => ScheduleInv'
  BY RunKeeps, TickKeeps, StartKeeps, QuitKeeps, NamelessKeeps, TornKeeps, ToolsProfilesKeeps,
     ToolsSchedulerKeeps, InsertKeeps, EditKeeps, DeleteKeeps, ClosingKeeps, SetKeeps, LoadedKeeps,
     CleanedKeeps, SavedKeeps, StutterKeeps
  DEF Schedule!Next, Schedule!Dialog, Schedule!Edit
<1>3. ScheduleInv => ScheduleObeyed BY InvObeys
<1> QED BY <1>1, <1>2, <1>3, PTL DEF Schedule!Spec

-----------------------------------------------------------------------------
(***************************************************************************)
(* The window, for any torrents, finitely many addresses, and any number    *)
(* of changes of the server.                                                *)
(***************************************************************************)

LEMMA SameSize == \A S : Gui!Cardinality(S) = Cardinality(S)
BY DEF Gui!Cardinality, Cardinality

Distinct(s) == \A i, j \in DOMAIN s : s[i] = s[j] => i = j
OneEach(s) == \A i, j \in DOMAIN s : s[i].hash = s[j].hash => i = j
\* A list shows every element of a set, and nothing twice.
Shows(s, S) == s \in Seq(S) /\ Distinct(s) /\ \A x \in S : \E i \in DOMAIN s : s[i] = x

\* A torrent of the server, and an entry of the window.
Sent ==
  [hash : Torrents, peers : SUBSET Hosts, sub_files : {0, 2}, pieces : {0, 2}, trackers : {0, 1}, events : 0..2]
KnownPeers == {p \in Maps(Hosts) : Distinct(p)}
Entry ==
  [hash : Torrents, peers : KnownPeers, sub_files : {0, 2}, pieces : {0, 2}, trackers : {0, 1}, events : 0..2]

\* The rows are those of a torrent.  There may be more of them than sub files, and any number of
\* pieces; and which events they show is open when some have gone at once.
Fits(f, view, s, some_gone) ==
  /\ view \in Gui!Views /\ s \in Seq(Nat)
  /\ view = "details" => s = Gui!upto(1)
  /\ view = "trackers" => s = Gui!upto(f.trackers)
  /\ view = "peers" => Shows(s, DOMAIN f.peers)
  /\ view = "events" => Len(s) = f.events /\ (some_gone \/ Shows(s, 0..(f.events - 1)))
  /\ view \in {"files", "pieces"} => Shows(s, 0..(Len(s) - 1)) /\ Len(s) \in {0, 2}
  /\ view = "files" => f.sub_files <= Len(s)

Good(m, view) ==
  /\ m.map \in Maps(Entry) /\ OneEach(m.map) /\ m.file_rows = DOMAIN m.map
  /\ m.file \in DOMAIN m.map \cup {Gui!None} /\ m.fewer \in BOOLEAN
  /\ m.file = Gui!None => m.rows = <<>>
  /\ m.file # Gui!None => Fits(m.map[m.file], view, m.rows, m.fewer)

SameHashes == {m_files_map[i].hash : i \in DOMAIN m_files_map} = Gui!hashes
SamePeers ==
  \A i \in DOMAIN m_files_map, k \in DOMAIN torrents :
    m_files_map[i].hash = torrents[k].hash =>
      torrents[k].peers = {m_files_map[i].peers[p] : p \in DOMAIN m_files_map[i].peers}

WindowInv ==
  /\ torrents \in Seq(Sent) /\ OneEach(torrents)
  /\ m_bottom_view \in Gui!Views /\ Good(Gui!window, m_bottom_view)
  /\ fresh => SameHashes
  /\ fresh /\ full => SamePeers

-----------------------------------------------------------------------------
(* Lists.                                                                  *)

LEMMA Listing == ASSUME NEW S, IsFiniteSet(S) PROVE Shows(Gui!SetToSeq(S), S)
<1> DEFINE n == Cardinality(S)
           s == Gui!SetToSeq(S)
<1>1. n \in Nat /\ ExistsBijection(1..n, S) BY FS_CardinalityType
<1>2. PICK f : f \in Bijection(1..n, S) BY <1>1 DEF ExistsBijection
<1>3. f \in [1..n -> S] /\ Gui!IsInjective(f)
  BY <1>2 DEF Bijection, Injection, IsInjective, Gui!IsInjective
<1>4. s \in [1..n -> S] /\ Gui!IsInjective(s)
  <2>1. \E g : g \in [1..n -> S] /\ Gui!IsInjective(g) BY <1>3
  <2>2. s = CHOOSE g \in [1..n -> S] : Gui!IsInjective(g) BY SameSize DEF Gui!SetToSeq
  <2> QED BY <2>1, <2>2
<1> HIDE DEF s
<1>5. s \in Injection(1..n, S) BY <1>4 DEF Injection, IsInjective, Gui!IsInjective
<1>6. Cardinality(1..n) = n BY <1>1, FS_Interval
<1>7. s \in Surjection(1..n, S)
  <2>1. Cardinality(1..n) = Cardinality(S) BY <1>6
  <2> HIDE DEF n
  <2> QED BY <1>5, <2>1, FS_Injection
<1>8. DOMAIN s = 1..n /\ s \in Seq(S) BY <1>1, <1>4
<1>9. Distinct(s) BY <1>4 DEF Distinct, Gui!IsInjective
<1>10. \A x \in S : \E i \in DOMAIN s : s[i] = x BY <1>7, <1>8 DEF Surjection
<1> QED BY <1>8, <1>9, <1>10 DEF s, Shows

LEMMA Counting ==
  ASSUME NEW n \in Nat
  PROVE  /\ Gui!upto(n) \in Seq(Nat) /\ Len(Gui!upto(n)) = n /\ Shows(Gui!upto(n), 0..(n - 1))
         /\ Gui!downto(n) \in Seq(Nat) /\ Len(Gui!downto(n)) = n /\ Shows(Gui!downto(n), 0..(n - 1))
<1> DEFINE u == Gui!upto(n)
           d == Gui!downto(n)
<1>1. u = [i \in 1..n |-> i - 1] /\ d = [i \in 1..n |-> n - i] BY DEF Gui!upto, Gui!downto
<1> HIDE DEF u, d
<1>2. /\ DOMAIN u = 1..n /\ DOMAIN d = 1..n
      /\ \A i \in 1..n : u[i] = i - 1 /\ u[i] \in 0..(n - 1) /\ d[i] = n - i /\ d[i] \in 0..(n - 1)
  BY <1>1
<1>3. u \in [1..n -> 0..(n - 1)] /\ d \in [1..n -> 0..(n - 1)] BY <1>1, <1>2
<1>4. u \in Seq(0..(n - 1)) /\ d \in Seq(0..(n - 1)) /\ Len(u) = n /\ Len(d) = n
  <2> DEFINE S == 0..(n - 1)
  <2>1. u \in [1..n -> S] /\ d \in [1..n -> S] BY <1>3
  <2> HIDE DEF S
  <2>2. u \in Seq(S) /\ Len(u) = n BY <2>1
  <2>3. d \in Seq(S) /\ Len(d) = n BY <2>1
  <2> QED BY <2>2, <2>3 DEF S
<1>5. u \in Seq(Nat) /\ d \in Seq(Nat)
  <2>1. u \in [1..n -> Nat] /\ d \in [1..n -> Nat] BY <1>3
  <2> QED BY <2>1
<1>6. Distinct(u) /\ Distinct(d)
  <2>1. Distinct(u) BY <1>2 DEF Distinct
  <2>2. ASSUME NEW i \in 1..n, NEW j \in 1..n, d[i] = d[j] PROVE i = j
    <3>1. n - i = n - j BY <1>2, <2>2
    <3> QED BY <3>1
  <2> QED BY <1>2, <2>1, <2>2 DEF Distinct
<1>7. ASSUME NEW x \in 0..(n - 1) PROVE (\E i \in DOMAIN u : u[i] = x) /\ \E i \in DOMAIN d : d[i] = x
  <2>1. x + 1 \in 1..n /\ n - x \in 1..n OBVIOUS
  <2>2. u[x + 1] = x /\ d[n - x] = x BY <1>2, <2>1
  <2> QED BY <1>2, <2>1, <2>2
<1> QED BY <1>4, <1>5, <1>6, <1>7 DEF u, d, Shows

LEMMA Sorted ==
  ASSUME NEW view, NEW T, NEW s \in Seq(T), NEW t \in Gui!sort_peers(view, s)
  PROVE  /\ t \in Seq(T) /\ Len(t) = Len(s) /\ (view \in {"details", "trackers"} => t = s)
         /\ \A S : Shows(s, S) => Shows(t, S)
<1>1. CASE view \in {"details", "trackers"}
  <2>1. t = s BY <1>1 DEF Gui!sort_peers
  <2> QED BY <2>1
<1>2. CASE view \notin {"details", "trackers"}
  <2>1. PICK p \in Gui!Bijection(DOMAIN s, DOMAIN s) : t = [i \in DOMAIN s |-> s[p[i]]]
    BY <1>2 DEF Gui!sort_peers
  <2>2. /\ p \in [DOMAIN s -> DOMAIN s] /\ \A i, j \in DOMAIN s : p[i] = p[j] => i = j
        /\ \A k \in DOMAIN s : \E i \in DOMAIN s : p[i] = k
    BY DEF Gui!Bijection, Gui!Injection, Gui!Surjection, Gui!IsInjective
  <2>3. DOMAIN s = 1..Len(s) /\ Len(s) \in Nat /\ \A i \in DOMAIN s : s[i] \in T OBVIOUS
  <2>4. DOMAIN t = DOMAIN s /\ \A i \in DOMAIN s : p[i] \in DOMAIN s /\ t[i] = s[p[i]] BY <2>1, <2>2
  <2>5. ASSUME NEW S, \A i \in DOMAIN s : s[i] \in S PROVE t \in Seq(S) /\ Len(t) = Len(s)
    <3>1. t \in [1..Len(s) -> S] BY <2>1, <2>3, <2>4, <2>5
    <3> QED BY <2>3, <3>1
  <2>6. ASSUME NEW S, Shows(s, S) PROVE Shows(t, S)
    <3>1. \A i \in DOMAIN s : s[i] \in S BY <2>6 DEF Shows
    <3>2. Distinct(t) BY <2>2, <2>4, <2>6 DEF Shows, Distinct
    <3>3. ASSUME NEW x \in S PROVE \E i \in DOMAIN t : t[i] = x
      <4>1. PICK k \in DOMAIN s : s[k] = x BY <2>6 DEF Shows
      <4>2. PICK i \in DOMAIN s : p[i] = k BY <2>2
      <4> QED BY <2>4, <4>1, <4>2
    <3> QED BY <2>5, <3>1, <3>2, <3>3 DEF Shows
  <2> QED BY <1>2, <2>3, <2>5, <2>6
<1> QED BY <1>1, <1>2

LEMMA SortedFits ==
  ASSUME NEW f, NEW view, NEW s, NEW b, Fits(f, view, s, b), NEW t \in Gui!sort_peers(view, s)
  PROVE  Fits(f, view, t, b)
<1>1. s \in Seq(Nat) BY DEF Fits
<1>2. /\ t \in Seq(Nat) /\ Len(t) = Len(s) /\ (view \in {"details", "trackers"} => t = s)
      /\ \A S : Shows(s, S) => Shows(t, S)
  BY <1>1, Sorted
<1> QED BY <1>2 DEF Fits

LEMMA NothingSorted == ASSUME NEW view, NEW t \in Gui!sort_peers(view, <<>>) PROVE t = <<>>
<1>1. <<>> \in Seq(Nat) /\ Len(<<>>) = 0 OBVIOUS
<1>2. t \in Seq(Nat) /\ Len(t) = 0 BY <1>1, Sorted
<1> QED BY <1>2

\* What is left of a list at I has the items at I, each where it comes from.
Comes(l, s, I, n) ==
  \E p \in [DOMAIN l -> I \cap 1..n] :
    /\ \A i \in DOMAIN l : l[i] = s[p[i]]
    /\ Distinct(p) /\ \A k \in I \cap 1..n : \E i \in DOMAIN l : p[i] = k

LEMMA ComesOne ==
  ASSUME NEW T, NEW s \in Seq(T), NEW I, NEW n \in Nat, n + 1 <= Len(s), NEW l \in Seq(T), Comes(l, s, I, n)
  PROVE  LET new == IF n + 1 \in I THEN Append(l, s[n + 1]) ELSE l
         IN new \in Seq(T) /\ Comes(new, s, I, n + 1)
<1>1. PICK p \in [DOMAIN l -> I \cap 1..n] :
        /\ \A i \in DOMAIN l : l[i] = s[p[i]]
        /\ Distinct(p) /\ \A k \in I \cap 1..n : \E i \in DOMAIN l : p[i] = k
  BY DEF Comes
<1>2. s[n + 1] \in T OBVIOUS
<1>3. CASE n + 1 \notin I
  <2>1. I \cap 1..(n + 1) = I \cap 1..n BY <1>3
  <2> QED BY <1>3, <2>1 DEF Comes
<1>4. CASE n + 1 \in I
  <2> DEFINE new == Append(l, s[n + 1])
             m == Len(l)
             q == [i \in 1..(m + 1) |-> IF i = m + 1 THEN n + 1 ELSE p[i]]
  <2>1. m \in Nat /\ DOMAIN l = 1..m OBVIOUS
  <2>2. /\ new \in Seq(T) /\ DOMAIN new = 1..(m + 1) /\ new[m + 1] = s[n + 1]
        /\ \A i \in 1..m : new[i] = l[i]
    BY <1>2
  <2>3. \A i \in 1..m : i \in 1..(m + 1) /\ p[i] \in I \cap 1..n /\ p[i] \in 1..(n + 1) /\ p[i] # n + 1
    BY <1>1, <2>1
  <2>4. DOMAIN q = 1..(m + 1) /\ q[m + 1] = n + 1 /\ \A i \in 1..m : q[i] = p[i]
    BY <2>1
  <2> HIDE DEF new, q, m
  <2>5. \A i \in 1..(m + 1) : i = m + 1 \/ i \in 1..m BY <2>1
  <2>6. q \in [DOMAIN new -> I \cap 1..(n + 1)]
    <3>1. \A i \in 1..(m + 1) : q[i] \in I \cap 1..(n + 1) BY <1>4, <2>3, <2>4, <2>5
    <3>2. q \in [1..(m + 1) -> I \cap 1..(n + 1)] BY <3>1 DEF q
    <3> QED BY <2>2, <3>2
  <2>7. \A i \in DOMAIN new : new[i] = s[q[i]] BY <1>1, <2>1, <2>2, <2>4, <2>5
  <2>8. Distinct(q)
    <3>1. \A i, j \in 1..m : p[i] = p[j] => i = j BY <1>1, <2>1 DEF Distinct
    <3> QED BY <2>3, <2>4, <2>5, <3>1 DEF Distinct
  <2>9. ASSUME NEW k \in I \cap 1..(n + 1) PROVE \E i \in DOMAIN new : q[i] = k
    <3>1. CASE k = n + 1
      <4>1. m + 1 \in DOMAIN new BY <2>1, <2>2
      <4> QED BY <2>4, <3>1, <4>1
    <3>2. CASE k # n + 1
      <4>1. k \in I \cap 1..n BY <3>2
      <4>2. PICK i \in 1..m : p[i] = k BY <1>1, <2>1, <4>1
      <4> QED BY <2>2, <2>3, <2>4, <4>2
    <3> QED BY <3>1, <3>2
  <2>10. new \in Seq(T) /\ Comes(new, s, I, n + 1) BY <2>2, <2>6, <2>7, <2>8, <2>9 DEF Comes
  <2> QED BY <1>4, <2>10 DEF new
<1> QED BY <1>3, <1>4

\* The lists the recursion goes through.
left_steps(t, s, I, n) ==
  t = [k \in 0..n |-> IF k = 0 THEN <<>> ELSE IF k \in I THEN Append(t[k - 1], s[k]) ELSE t[k - 1]]

LEMMA LeftSteps ==
  ASSUME NEW s, NEW I, Len(s) \in Nat
  PROVE  \E t : left_steps(t, s, I, Len(s)) /\ Gui!left_at(s, I) = t[Len(s)]
<1> DEFINE next(l, k) == IF k \in I THEN Append(l, s[k]) ELSE l
           S == {k \in Nat : \E t : left_steps(t, s, I, k)}
<1>1. 0 \in S
  <2> DEFINE t == [i \in 0..0 |-> <<>>]
  <2>1. left_steps(t, s, I, 0) BY DEF left_steps
  <2> QED BY <2>1
<1>2. ASSUME NEW k \in Nat, k \in S PROVE k + 1 \in S
  <2>1. PICK t : left_steps(t, s, I, k) BY <1>2
  <2>2. \A i \in 0..k : t[i] = IF i = 0 THEN <<>> ELSE next(t[i - 1], i) BY <2>1 DEF left_steps
  <2> HIDE DEF next
  <2> DEFINE g == [i \in 0..(k + 1) |-> IF i = k + 1 THEN next(t[k], k + 1) ELSE t[i]]
  <2>3. ASSUME NEW i \in 0..(k + 1) PROVE g[i] = IF i = 0 THEN <<>> ELSE next(g[i - 1], i)
    <3>1. CASE i = 0 BY <2>2, <3>1
    <3>2. CASE i # 0 /\ i # k + 1
      <4>1. i \in 0..k /\ i - 1 \in 0..k BY <3>2
      <4>2. g[i] = t[i] /\ g[i - 1] = t[i - 1] BY <4>1
      <4> QED BY <2>2, <3>2, <4>1, <4>2
    <3>3. CASE i = k + 1
      <4>1. g[i] = next(t[k], k + 1) /\ g[i - 1] = t[k] BY <3>3
      <4> QED BY <3>3, <4>1
    <3> QED BY <3>1, <3>2, <3>3
  <2>4. g = [i \in 0..(k + 1) |-> g[i]] OBVIOUS
  <2> HIDE DEF g
  <2>5. g = [i \in 0..(k + 1) |-> IF i = 0 THEN <<>> ELSE next(g[i - 1], i)] BY <2>3, <2>4
  <2>6. left_steps(g, s, I, k + 1) BY <2>5 DEF left_steps, next
  <2> QED BY <2>6
<1>3. Len(s) \in S BY <1>1, <1>2, Induct
<1>4. \E t : left_steps(t, s, I, Len(s)) BY <1>3
<1> DEFINE t == CHOOSE left : left = [n \in 0..Len(s) |->
                  IF n = 0 THEN <<>> ELSE IF n \in I THEN Append(left[n - 1], s[n]) ELSE left[n - 1]]
<1>5. left_steps(t, s, I, Len(s)) BY <1>4 DEF left_steps
<1>6. Gui!left_at(s, I) = t[Len(s)] BY DEF Gui!left_at
<1> QED BY <1>5, <1>6

LEMMA LeftAt ==
  ASSUME NEW T, NEW s \in Seq(T), NEW I
  PROVE  Gui!left_at(s, I) \in Seq(T) /\ Comes(Gui!left_at(s, I), s, I, Len(s))
<1> DEFINE n == Len(s)
<1>1. n \in Nat /\ DOMAIN s = 1..n OBVIOUS
<1>2. PICK t : left_steps(t, s, I, n) /\ Gui!left_at(s, I) = t[n] BY <1>1, LeftSteps
<1> HIDE DEF n
<1> DEFINE S == {k \in Nat : k <= n => t[k] \in Seq(T) /\ Comes(t[k], s, I, k)}
<1>3. 0 \in S
  <2>1. t[0] = <<>> BY <1>1, <1>2 DEF left_steps
  <2>2. DOMAIN <<>> = {} /\ <<>> \in Seq(T) /\ <<>> \in [{} -> I \cap 1..0] OBVIOUS
  <2>3. Distinct(<<>>) BY <2>2 DEF Distinct
  <2>4. I \cap 1..0 = {} OBVIOUS
  <2>5. \E p \in [DOMAIN <<>> -> I \cap 1..0] :
          /\ \A i \in DOMAIN <<>> : <<>>[i] = s[p[i]]
          /\ Distinct(p) /\ \A k \in I \cap 1..0 : \E i \in DOMAIN <<>> : p[i] = k
    <3>1. <<>> \in [DOMAIN <<>> -> I \cap 1..0] BY <2>2
    <3>2. WITNESS <<>> \in [DOMAIN <<>> -> I \cap 1..0]
    <3> QED BY <2>2, <2>3, <2>4
  <2>6. Comes(<<>>, s, I, 0) BY <2>5 DEF Comes
  <2> QED BY <2>1, <2>2, <2>6
<1>4. ASSUME NEW k \in Nat, k \in S PROVE k + 1 \in S
  <2> SUFFICES ASSUME k + 1 <= n PROVE t[k + 1] \in Seq(T) /\ Comes(t[k + 1], s, I, k + 1) OBVIOUS
  <2>1. t[k] \in Seq(T) /\ Comes(t[k], s, I, k) BY <1>1, <1>4
  <2>2. t[k + 1] = IF k + 1 \in I THEN Append(t[k], s[k + 1]) ELSE t[k]
    <3>1. k + 1 \in 0..n /\ k + 1 # 0 /\ (k + 1) - 1 = k BY <1>1
    <3>2. t[k + 1] = IF k + 1 = 0 THEN <<>>
                     ELSE IF k + 1 \in I THEN Append(t[(k + 1) - 1], s[k + 1]) ELSE t[(k + 1) - 1]
      BY <1>2, <3>1 DEF left_steps
    <3> QED BY <3>1, <3>2
  <2>3. k + 1 <= Len(s) BY DEF n
  <2> QED BY <2>1, <2>2, <2>3, ComesOne
<1>5. n \in S BY <1>1, <1>3, <1>4, Induct
<1>6. t[n] \in Seq(T) /\ Comes(t[n], s, I, n) BY <1>1, <1>5
<1> QED BY <1>2, <1>6 DEF n

-----------------------------------------------------------------------------
(* The rows.                                                               *)

LEMMA Filled ==
  ASSUME NEW f \in Entry, NEW view \in Gui!Views
  PROVE  Fits(f, view, Gui!fill_peers(f, view), FALSE)
<1> DEFINE s == Gui!fill_peers(f, view)
<1>1. /\ f.peers \in Maps(Hosts) /\ f.sub_files \in {0, 2} /\ f.pieces \in {0, 2}
      /\ f.trackers \in {0, 1} /\ f.events \in 0..2
  BY DEF Entry, KnownPeers
<1>2. \A n \in Nat : Cardinality(0..(n - 1)) = n
  <2> TAKE n \in Nat
  <2> QED BY FS_Interval
<1>3. CASE view = "details"
  <2>1. Gui!items(f, view) = {0} BY <1>3 DEF Gui!items
  <2>2. s = Gui!upto(1) BY <1>3, <2>1, SameSize, FS_Singleton DEF Gui!fill_peers
  <2> QED BY <1>3, <2>2, Counting DEF Fits
<1>4. CASE view = "trackers"
  <2>1. Gui!items(f, view) = 0..(f.trackers - 1) BY <1>4 DEF Gui!items
  <2>2. s = Gui!upto(f.trackers) BY <1>1, <1>2, <1>4, <2>1, SameSize DEF Gui!fill_peers
  <2>3. f.trackers \in Nat BY <1>1
  <2> QED BY <1>4, <2>2, <2>3, Counting DEF Fits
<1>5. CASE view = "peers"
  <2>1. DOMAIN f.peers \in SUBSET Nat /\ IsFiniteSet(DOMAIN f.peers) BY <1>1, MapFacts
  <2>2. s = Gui!SetToSeq(DOMAIN f.peers) BY <1>5 DEF Gui!fill_peers
  <2>3. Shows(s, DOMAIN f.peers) BY <2>1, <2>2, Listing
  <2>4. s \in Seq(Nat) BY <2>1, <2>3 DEF Shows
  <2> QED BY <1>5, <2>3, <2>4 DEF Fits
<1>6. CASE view = "events"
  <2>1. s = Gui!downto(f.events) BY <1>6 DEF Gui!fill_peers
  <2>2. f.events \in Nat BY <1>1
  <2> QED BY <1>6, <2>1, <2>2, Counting DEF Fits
<1>7. CASE view \in {"files", "pieces"}
  <2>1. PICK n \in {0, 2} : Gui!items(f, view) = 0..(n - 1) /\ (view = "files" => n = f.sub_files)
    BY <1>1, <1>7 DEF Gui!items
  <2>2. s = Gui!upto(n) /\ n \in Nat BY <1>2, <1>7, <2>1, SameSize DEF Gui!fill_peers
  <2>3. s \in Seq(Nat) /\ Len(s) = n /\ Shows(s, 0..(n - 1)) BY <2>2, Counting
  <2> HIDE DEF s
  <2>4. f.sub_files <= n \/ view # "files" BY <1>1, <2>1
  <2>5. Fits(f, view, s, FALSE) BY <1>7, <2>1, <2>3, <2>4 DEF Fits
  <2> QED BY <2>5 DEF s
<1> QED BY <1>3, <1>4, <1>5, <1>6, <1>7 DEF Gui!Views

\* Rows that are added behind others, or before them, for items the others do not stand for.
LEMMA Joined ==
  ASSUME NEW s, NEW S, Shows(s, S), NEW t, NEW U, Shows(t, U), S \cap U = {}
  PROVE  Shows(s \o t, S \cup U)
<1>1. s \in Seq(S) /\ t \in Seq(U) BY DEF Shows
<1>2. s \in Seq(S \cup U) /\ t \in Seq(S \cup U)
  <2>1. s \in [1..Len(s) -> S \cup U] /\ t \in [1..Len(t) -> S \cup U] /\ Len(s) \in Nat /\ Len(t) \in Nat BY <1>1
  <2> QED BY <2>1
<1> DEFINE r == s \o t
           m == Len(s)
           n == Len(t)
<1>3. /\ m \in Nat /\ n \in Nat /\ DOMAIN s = 1..m /\ DOMAIN t = 1..n
      /\ r \in Seq(S \cup U) /\ Len(r) = m + n
      /\ \A i \in 1..(m + n) : r[i] = IF i <= m THEN s[i] ELSE t[i - m]
  BY <1>1, <1>2
<1>4. (\A i \in 1..m : s[i] \in S) /\ \A i \in 1..n : t[i] \in U BY <1>1, <1>3
<1> HIDE DEF r, m, n
<1>5. DOMAIN r = 1..(m + n) BY <1>3
<1>6. Distinct(r)
  <2> SUFFICES ASSUME NEW i \in 1..(m + n), NEW j \in 1..(m + n), r[i] = r[j] PROVE i = j
    BY <1>5 DEF Distinct
  <2>1. CASE i <= m /\ j <= m
    <3>1. i \in 1..m /\ j \in 1..m BY <1>3, <2>1
    <3>2. s[i] = s[j] BY <1>3, <2>1
    <3> QED BY <1>3, <3>1, <3>2 DEF Shows, Distinct
  <2>2. CASE i > m /\ j > m
    <3>1. i - m \in 1..n /\ j - m \in 1..n BY <1>3, <2>2
    <3>2. t[i - m] = t[j - m] BY <1>3, <2>2
    <3>3. i - m = j - m BY <1>3, <3>1, <3>2 DEF Shows, Distinct
    <3> QED BY <1>3, <3>3
  <2>3. CASE i <= m /\ j > m
    <3>1. i \in 1..m /\ j - m \in 1..n BY <1>3, <2>3
    <3>2. r[i] = s[i] /\ r[j] = t[j - m] BY <1>3, <2>3
    <3> QED BY <1>4, <3>1, <3>2
  <2>4. CASE i > m /\ j <= m
    <3>1. j \in 1..m /\ i - m \in 1..n BY <1>3, <2>4
    <3>2. r[j] = s[j] /\ r[i] = t[i - m] BY <1>3, <2>4
    <3> QED BY <1>4, <3>1, <3>2
  <2> QED BY <1>3, <2>1, <2>2, <2>3, <2>4
<1>7. ASSUME NEW x \in S \cup U PROVE \E i \in DOMAIN r : r[i] = x
  <2>1. CASE x \in S
    <3>1. PICK i \in 1..m : s[i] = x BY <1>3, <2>1 DEF Shows
    <3>2. i \in 1..(m + n) /\ i <= m BY <1>3
    <3> QED BY <1>3, <1>5, <3>1, <3>2
  <2>2. CASE x \in U
    <3>1. PICK i \in 1..n : t[i] = x BY <1>3, <2>2 DEF Shows
    <3>2. i + m \in 1..(m + n) /\ ~(i + m <= m) /\ (i + m) - m = i BY <1>3
    <3> QED BY <1>3, <1>5, <3>1, <3>2
  <2> QED BY <2>1, <2>2
<1>8. Shows(r, S \cup U) BY <1>3, <1>6, <1>7 DEF Shows
<1> QED BY <1>8 DEF r

LEMMA Grown ==
  ASSUME NEW s \in Seq(Nat), Shows(s, 0..(Len(s) - 1)), NEW n \in Nat
  PROVE  LET g == Gui!grown(s, n)
         IN /\ g \in Seq(Nat) /\ Shows(g, 0..(Len(g) - 1))
            /\ Len(g) = IF n <= Len(s) THEN Len(s) ELSE n
<1> DEFINE g == Gui!grown(s, n)
           m == Len(s)
<1>1. m \in Nat /\ DOMAIN s = 1..m /\ \A i \in 1..m : s[i] \in Nat OBVIOUS
<1>2. g = [i \in 1..m \cup 1..n |-> IF i \in 1..m THEN s[i] ELSE i - 1] BY <1>1 DEF Gui!grown
<1> HIDE DEF g, m
<1> DEFINE l == IF n <= m THEN m ELSE n
<1>3. l \in Nat /\ 1..m \cup 1..n = 1..l /\ m <= l BY <1>1
<1> HIDE DEF l
<1>4. DOMAIN g = 1..l /\ \A i \in 1..l : g[i] = IF i <= m THEN s[i] ELSE i - 1
  <2>1. DOMAIN g = 1..l BY <1>2, <1>3
  <2>2. \A i \in 1..l : g[i] = IF i \in 1..m THEN s[i] ELSE i - 1 BY <1>2, <1>3
  <2> QED BY <1>1, <2>1, <2>2
<1>5. \A i \in 1..m : s[i] \in 0..(m - 1) BY <1>1 DEF Shows, m
<1>6. \A i \in 1..l : g[i] \in 0..(l - 1)
  <2> TAKE i \in 1..l
  <2>1. CASE i <= m BY <1>1, <1>3, <1>4, <1>5, <2>1
  <2>2. CASE ~(i <= m) BY <1>1, <1>3, <1>4, <2>2
  <2> QED BY <2>1, <2>2
<1>7. g \in Seq(0..(l - 1)) /\ g \in Seq(Nat) /\ Len(g) = l
  <2>1. g = [i \in 1..l |-> g[i]] BY <1>2, <1>3
  <2>2. g \in [1..l -> 0..(l - 1)] /\ g \in [1..l -> Nat] BY <1>3, <1>6, <2>1
  <2> QED BY <1>3, <1>4, <2>2
<1>8. Distinct(g)
  <2> SUFFICES ASSUME NEW i \in 1..l, NEW j \in 1..l, g[i] = g[j] PROVE i = j
    BY <1>4 DEF Distinct
  <2>1. CASE i <= m /\ j <= m
    <3>1. i \in 1..m /\ j \in 1..m /\ s[i] = s[j] BY <1>1, <1>4, <2>1
    <3> QED BY <1>1, <3>1 DEF Shows, Distinct
  <2>2. CASE i <= m /\ ~(j <= m)
    <3>1. i \in 1..m /\ g[i] = s[i] /\ g[j] = j - 1 BY <1>1, <1>4, <2>2
    <3>2. g[i] \in 0..(m - 1) BY <1>5, <3>1
    <3>3. j - 1 \in 0..(m - 1) BY <3>1, <3>2
    <3>4. j \in Int /\ m \in Int BY <1>1
    <3> QED BY <2>2, <3>3, <3>4
  <2>3. CASE ~(i <= m) /\ j <= m
    <3>1. j \in 1..m /\ g[j] = s[j] /\ g[i] = i - 1 BY <1>1, <1>4, <2>3
    <3>2. g[j] \in 0..(m - 1) BY <1>5, <3>1
    <3>3. i - 1 \in 0..(m - 1) BY <3>1, <3>2
    <3>4. i \in Int /\ m \in Int BY <1>1
    <3> QED BY <2>3, <3>3, <3>4
  <2>4. CASE ~(i <= m) /\ ~(j <= m)
    <3>1. i - 1 = j - 1 BY <1>4, <2>4
    <3> QED BY <3>1
  <2> QED BY <2>1, <2>2, <2>3, <2>4
<1>9. ASSUME NEW x \in 0..(l - 1) PROVE \E i \in DOMAIN g : g[i] = x
  <2>1. CASE x < m
    <3>1. x \in 0..(m - 1) BY <1>1, <2>1
    <3>2. PICK i \in 1..m : s[i] = x BY <1>1, <3>1 DEF Shows, m
    <3>3. i \in 1..l /\ i <= m BY <1>1, <1>3
    <3> QED BY <1>4, <3>2, <3>3
  <2>2. CASE ~(x < m)
    <3>1. x + 1 \in 1..l /\ ~(x + 1 <= m) /\ (x + 1) - 1 = x BY <1>1, <1>3, <2>2
    <3> QED BY <1>4, <3>1
  <2> QED BY <2>1, <2>2
<1>10. Shows(g, 0..(Len(g) - 1)) BY <1>7, <1>8, <1>9 DEF Shows
<1> QED BY <1>7, <1>10 DEF g, l, m

\* Trackers that come and go at the end of the list.
LEMMA TrackersRefreshed ==
  ASSUME NEW m \in Nat, NEW n \in Nat
  PROVE  SubSeq(Gui!grown(Gui!upto(m), n), 1, n) = Gui!upto(n)
<1> DEFINE s == Gui!upto(m)
           g == Gui!grown(s, n)
           r == SubSeq(g, 1, n)
<1>1. s = [i \in 1..m |-> i - 1] /\ DOMAIN s = 1..m BY DEF Gui!upto
<1>2. g = [i \in 1..m \cup 1..n |-> i - 1]
  <2>1. g = [i \in DOMAIN s \cup 1..n |-> IF i \in DOMAIN s THEN s[i] ELSE i - 1] BY DEF Gui!grown
  <2> HIDE DEF s, g
  <2> QED BY <1>1, <2>1
<1>3. s \in Seq(Nat) /\ Len(s) = m /\ Shows(s, 0..(m - 1)) BY Counting
<1> HIDE DEF s
<1>4. g \in Seq(Nat) /\ Len(g) = IF n <= m THEN m ELSE n BY <1>3, Grown
<1> HIDE DEF g
<1>5. r = [i \in 1..n |-> g[i]]
  <2>1. 1..n \subseteq 1..Len(g) BY <1>4
  <2>2. r = [i \in 1..(n - 1 + 1) |-> g[1 + i - 1]] BY <1>4, <2>1
  <2>3. n - 1 + 1 = n /\ \A i \in 1..n : 1 + i - 1 = i OBVIOUS
  <2> HIDE DEF r
  <2> QED BY <2>2, <2>3
<1>6. \A i \in 1..n : g[i] = i - 1 BY <1>2
<1>7. r = [i \in 1..n |-> i - 1] BY <1>5, <1>6
<1> QED BY <1>7 DEF Gui!upto, r, g, s

\* Events that come before the others.
LEMMA Newest ==
  ASSUME NEW s \in Seq(Nat), NEW n \in Nat, Len(s) < n
  PROVE  LET all == Gui!newest_first(s, n)
         IN /\ all \in Seq(Nat) /\ Len(all) = n
            /\ Shows(s, 0..(Len(s) - 1)) => Shows(all, 0..(n - 1))
<1> DEFINE m == Len(s)
           d == Gui!downto(n)
           t == SubSeq(d, 1, n - m)
           all == Gui!newest_first(s, n)
<1>1. m \in Nat OBVIOUS
<1>2. all = t \o s BY DEF Gui!newest_first
<1>3. d = [i \in 1..n |-> n - i] BY DEF Gui!downto
<1>4. d \in Seq(Nat) /\ Len(d) = n BY Counting
<1> HIDE DEF d, all
<1>5. /\ t \in Seq(Nat) /\ Len(t) = n - m /\ DOMAIN t = 1..(n - m)
      /\ \A i \in 1..(n - m) : t[i] = n - i
  <2>1. 1..(n - m) \subseteq 1..n /\ n - m \in Nat BY <1>1
  <2>2. t \in Seq(Nat) /\ Len(t) = n - m /\ \A i \in 1..(n - m) : t[i] = d[i] BY <1>1, <1>4, <2>1
  <2>3. \A i \in 1..(n - m) : d[i] = n - i BY <1>3, <2>1
  <2> QED BY <2>2, <2>3
<1> HIDE DEF t, m
<1>6. all \in Seq(Nat) /\ Len(all) = n BY <1>1, <1>2, <1>5 DEF m
<1>7. Shows(t, m..(n - 1))
  <2>1. \A i \in 1..(n - m) : t[i] \in m..(n - 1) BY <1>1, <1>5
  <2>2. t \in Seq(m..(n - 1))
    <3> DEFINE k == n - m
               R == m..(n - 1)
    <3>1. k \in Nat BY <1>1 DEF m
    <3>2. t \in [1..k -> R]
      <4>1. t = [i \in 1..(n - m) |-> t[i]] BY <1>5
      <4> QED BY <2>1, <4>1
    <3> HIDE DEF k, R
    <3>3. t \in Seq(R) BY <3>1, <3>2
    <3> QED BY <3>3 DEF R
  <2>3. Distinct(t)
    <3>1. ASSUME NEW i \in 1..(n - m), NEW j \in 1..(n - m), t[i] = t[j] PROVE i = j
      <4>1. n - i = n - j BY <1>5, <3>1
      <4>2. i \in Int /\ j \in Int OBVIOUS
      <4> QED BY <4>1, <4>2
    <3> QED BY <1>5, <3>1 DEF Distinct
  <2>4. ASSUME NEW x \in m..(n - 1) PROVE \E i \in DOMAIN t : t[i] = x
    <3>1. n - x \in 1..(n - m) /\ n - (n - x) = x BY <1>1
    <3> QED BY <1>5, <3>1
  <2> QED BY <2>2, <2>3, <2>4 DEF Shows
<1>8. ASSUME Shows(s, 0..(m - 1)) PROVE Shows(all, 0..(n - 1))
  <2>1. m..(n - 1) \cap 0..(m - 1) = {} /\ m..(n - 1) \cup 0..(m - 1) = 0..(n - 1) BY <1>1 DEF m
  <2>2. Shows(t \o s, m..(n - 1) \cup 0..(m - 1)) BY <1>7, <1>8, <2>1, Joined
  <2> QED BY <1>2, <2>1, <2>2
<1> QED BY <1>6, <1>8 DEF m, all

\* Peers that are gone, and new ones behind the others.
LEMMA PeersRefreshed ==
  ASSUME NEW s, NEW S, Shows(s, S), NEW J, IsFiniteSet(J)
  PROVE  LET had == Gui!left_at(s, {k \in DOMAIN s : s[k] \in J})
         IN Shows(had \o Gui!SetToSeq(J \ Gui!ToSet(had)), J)
<1> DEFINE I == {k \in DOMAIN s : s[k] \in J}
           had == Gui!left_at(s, I)
<1>1. s \in Seq(S) BY DEF Shows
<1>2. had \in Seq(S) /\ Comes(had, s, I, Len(s)) BY <1>1, LeftAt
<1> HIDE DEF had
<1>3. PICK p \in [DOMAIN had -> I \cap 1..Len(s)] :
         /\ \A i \in DOMAIN had : had[i] = s[p[i]]
         /\ Distinct(p) /\ \A k \in I \cap 1..Len(s) : \E i \in DOMAIN had : p[i] = k
  BY <1>2 DEF Comes
<1>4. \A i \in DOMAIN had : p[i] \in DOMAIN s /\ s[p[i]] \in J BY <1>3
<1>5. Gui!ToSet(had) = {had[i] : i \in DOMAIN had} BY DEF Gui!ToSet
<1>6. Shows(had, Gui!ToSet(had))
  <2>1. had \in Seq(Gui!ToSet(had))
    <3>1. DOMAIN had = 1..Len(had) /\ Len(had) \in Nat /\ had = [i \in DOMAIN had |-> had[i]] BY <1>2
    <3>2. had \in [1..Len(had) -> Gui!ToSet(had)] BY <1>5, <3>1
    <3> QED BY <3>1, <3>2
  <2>2. Distinct(had)
    <3> SUFFICES ASSUME NEW i \in DOMAIN had, NEW j \in DOMAIN had, had[i] = had[j] PROVE i = j BY DEF Distinct
    <3>1. s[p[i]] = s[p[j]] BY <1>3
    <3>2. p[i] = p[j] BY <1>4, <3>1 DEF Shows, Distinct
    <3> QED BY <1>3, <3>2 DEF Distinct
  <2> QED BY <1>5, <2>1, <2>2 DEF Shows
<1>7. Gui!ToSet(had) \subseteq J BY <1>3, <1>4, <1>5
<1> DEFINE U == J \ Gui!ToSet(had)
<1>8. Shows(Gui!SetToSeq(U), U) BY FS_Subset, Listing
<1>9. Gui!ToSet(had) \cap U = {} /\ Gui!ToSet(had) \cup U = J BY <1>7
<1>10. Shows(had \o Gui!SetToSeq(U), Gui!ToSet(had) \cup U)
  <2> HIDE DEF U
  <2> QED BY <1>6, <1>8, <1>9, Joined
<1> QED BY <1>9, <1>10 DEF had

LEMMA Refreshed ==
  ASSUME NEW f \in Entry, NEW g \in Entry, NEW view, NEW s, NEW b \in BOOLEAN, Fits(f, view, s, b)
  PROVE  Fits(g, view, Gui!refreshed(g, view, s), b \/ Gui!some_go(g, view, s))
<1> DEFINE r == Gui!refreshed(g, view, s)
           c == b \/ Gui!some_go(g, view, s)
<1>1. view \in Gui!Views /\ s \in Seq(Nat) /\ Len(s) \in Nat BY DEF Fits
<1>2. /\ f.trackers \in Nat /\ f.events \in Nat
      /\ g.peers \in Maps(Hosts) /\ g.sub_files \in {0, 2} /\ g.trackers \in Nat /\ g.events \in Nat
  BY DEF Entry, KnownPeers
<1>3. CASE view \in {"details", "pieces"}
  <2>1. r = s BY <1>3 DEF Gui!refreshed
  <2> QED BY <1>3, <2>1 DEF Fits
<1>4. CASE view = "trackers"
  <2>1. s = Gui!upto(f.trackers) BY <1>4 DEF Fits
  <2>2. r = SubSeq(Gui!grown(s, g.trackers), 1, g.trackers) BY <1>4 DEF Gui!refreshed
  <2>3. r = Gui!upto(g.trackers) BY <1>2, <2>1, <2>2, TrackersRefreshed
  <2>4. r \in Seq(Nat) BY <1>2, <2>3, Counting
  <2> QED BY <1>1, <1>4, <2>3, <2>4 DEF Fits
<1>5. CASE view = "peers"
  <2> DEFINE J == DOMAIN g.peers
             had == Gui!left_at(s, {k \in DOMAIN s : s[k] \in J})
  <2>1. J \in SUBSET Nat /\ IsFiniteSet(J) BY <1>2, MapFacts
  <2>2. Shows(s, DOMAIN f.peers) BY <1>5 DEF Fits
  <2>3. r = had \o Gui!SetToSeq(J \ Gui!ToSet(had)) BY <1>5 DEF Gui!refreshed
  <2>4. Shows(r, J)
    <3> HIDE DEF r, J
    <3> QED BY <2>1, <2>2, <2>3, PeersRefreshed
  <2>5. r \in Seq(Nat)
    <3> HIDE DEF r, J
    <3>1. r \in Seq(J) BY <2>4 DEF Shows
    <3>2. r \in [1..Len(r) -> Nat] /\ Len(r) \in Nat
      <4>1. Len(r) \in Nat /\ r = [i \in 1..Len(r) |-> r[i]] /\ \A i \in 1..Len(r) : r[i] \in J BY <3>1
      <4> QED BY <2>1, <4>1
    <3> QED BY <3>2
  <2> QED BY <1>1, <1>5, <2>4, <2>5 DEF Fits
<1>6. CASE view = "files"
  <2>1. r = Gui!grown(s, g.sub_files) BY <1>6 DEF Gui!refreshed
  <2>2. Shows(s, 0..(Len(s) - 1)) /\ Len(s) \in {0, 2} BY <1>6 DEF Fits
  <2>3. g.sub_files \in Nat BY <1>2
  <2>4. /\ r \in Seq(Nat) /\ Shows(r, 0..(Len(r) - 1))
        /\ Len(r) = IF g.sub_files <= Len(s) THEN Len(s) ELSE g.sub_files
    BY <1>1, <2>1, <2>2, <2>3, Grown
  <2> HIDE DEF r
  <2>5. Len(r) \in {0, 2} /\ g.sub_files <= Len(r) BY <1>2, <2>2, <2>4
  <2>6. Fits(g, view, r, c) BY <1>1, <1>6, <2>4, <2>5 DEF Fits
  <2> QED BY <2>6 DEF r
<1>7. CASE view = "events"
  <2> DEFINE n == g.events
             all == Gui!newest_first(s, n)
  <2>1. r = SubSeq(all, Len(all) - n + 1, Len(all)) BY <1>7 DEF Gui!refreshed
  <2>2. n \in Nat BY <1>2
  <2>3. b \/ Shows(s, 0..(Len(s) - 1)) BY <1>7 DEF Fits
  <2> HIDE DEF n, all, r
  <2>4. CASE Len(s) < n
    <3>1. all \in Seq(Nat) /\ Len(all) = n /\ (b \/ Shows(all, 0..(n - 1))) BY <1>1, <2>2, <2>3, <2>4, Newest DEF all
    <3>2. r = all BY <2>1, <2>2, <3>1
    <3>3. Fits(g, view, r, c) BY <1>1, <1>7, <3>1, <3>2 DEF Fits, n
    <3> QED BY <3>3 DEF r
  <2>5. CASE Len(s) >= n
    <3>1. all = s BY <1>1, <2>2, <2>5 DEF all, Gui!newest_first
    <3>2. r \in Seq(Nat) /\ Len(r) = n BY <1>1, <2>1, <2>2, <2>5, <3>1
    <3>3. CASE n = Len(s)
      <4>1. r = s BY <1>1, <2>1, <3>1, <3>3
      <4> QED BY <1>1, <1>7, <2>3, <3>2, <3>3, <4>1 DEF Fits, n, r
    <3>4. CASE n = 0
      <4>1. r = <<>> /\ <<>> \in Seq(0..(n - 1)) /\ 0..(n - 1) = {} BY <3>2, <3>4
      <4>2. Shows(r, 0..(n - 1)) BY <4>1 DEF Shows, Distinct
      <4> QED BY <1>1, <1>7, <3>2, <4>2 DEF Fits, n, r
    <3>5. CASE n # Len(s) /\ n # 0
      <4>1. Gui!some_go(g, view, s) BY <1>1, <1>7, <2>2, <2>5, <3>5 DEF n, Gui!some_go
      <4> QED BY <1>1, <1>7, <3>2, <4>1 DEF Fits, n, r
    <3> QED BY <3>3, <3>4, <3>5
  <2> QED BY <1>1, <2>2, <2>4, <2>5
<1> QED BY <1>1, <1>3, <1>4, <1>5, <1>6, <1>7 DEF Gui!Views

-----------------------------------------------------------------------------
(* A snapshot.                                                             *)

LEMMA Bounded ==
  ASSUME NEW J \in SUBSET Nat, IsFiniteSet(J)
  PROVE  \E b \in Nat : \A j \in J : j <= b
<1> DEFINE n == Cardinality(J)
<1>1. n \in Nat /\ ExistsBijection(1..n, J) BY FS_CardinalityType
<1>2. PICK f \in [1..n -> J] : \A j \in J : \E i \in 1..n : f[i] = j
  BY <1>1 DEF ExistsBijection, Bijection, Surjection
<1> HIDE DEF n
<1> DEFINE S == {k \in Nat : k <= n => \E b \in Nat : \A i \in 1..k : f[i] <= b}
<1>3. 0 \in S OBVIOUS
<1>4. ASSUME NEW k \in Nat, k \in S PROVE k + 1 \in S
  <2> SUFFICES ASSUME k + 1 <= n PROVE \E b \in Nat : \A i \in 1..(k + 1) : f[i] <= b OBVIOUS
  <2>1. PICK b \in Nat : \A i \in 1..k : f[i] <= b BY <1>1, <1>4
  <2>2. \A i \in 1..(k + 1) : f[i] \in Nat
    <3> TAKE i \in 1..(k + 1)
    <3>1. i \in 1..n BY <1>1
    <3>2. f[i] \in J BY <1>2, <3>1
    <3> QED BY <3>2
  <2>3. f[k + 1] \in Nat BY <2>2
  <2> DEFINE c == b + f[k + 1]
  <2>4. c \in Nat /\ b <= c /\ f[k + 1] <= c BY <2>3
  <2>5. \A i \in 1..(k + 1) : f[i] <= c
    <3> TAKE i \in 1..(k + 1)
    <3>1. CASE i = k + 1 BY <2>4, <3>1
    <3>2. CASE i # k + 1
      <4>1. i \in 1..k BY <3>2
      <4>2. f[i] \in Nat /\ f[i] <= b BY <2>1, <2>2, <4>1
      <4> HIDE DEF c
      <4> QED BY <2>4, <4>2
    <3> QED BY <3>1, <3>2
  <2> HIDE DEF c
  <2> QED BY <2>4, <2>5
<1>5. n \in S BY <1>1, <1>3, <1>4, Induct
<1>6. PICK b \in Nat : \A i \in 1..n : f[i] <= b BY <1>1, <1>5
<1> QED BY <1>2, <1>6

\* Ids are never used twice while they are known.
LEMMA NewId ==
  ASSUME NEW S, NEW map \in Maps(S)
  PROVE  Gui!new_id(map) \in Nat /\ \A i \in DOMAIN map : i < Gui!new_id(map)
<1>1. DOMAIN map \in SUBSET Nat /\ IsFiniteSet(DOMAIN map) BY MapFacts
<1>2. CASE DOMAIN map = {} BY <1>2 DEF Gui!new_id
<1>3. CASE DOMAIN map # {}
  <2>1. PICK n \in Nat : \A i \in DOMAIN map : i <= n BY <1>1, Bounded
  <2> DEFINE gaps == {n - i : i \in DOMAIN map}
  <2>2. gaps \in SUBSET Nat /\ gaps # {} BY <1>1, <1>3, <2>1
  <2>3. PICK a \in gaps : \A c \in gaps : a <= c BY <2>2, Smallest
  <2>4. PICK x \in DOMAIN map : a = n - x BY <2>3
  <2>5. \A y \in DOMAIN map : x >= y
    <3> TAKE y \in DOMAIN map
    <3>1. n - x <= n - y BY <2>3, <2>4
    <3> QED BY <1>1, <3>1
  <2>6. /\ Gui!Max(DOMAIN map) \in DOMAIN map /\ \A y \in DOMAIN map : Gui!Max(DOMAIN map) >= y
    BY <2>4, <2>5 DEF Gui!Max
  <2>7. Gui!new_id(map) = Gui!Max(DOMAIN map) + 1 BY <1>3 DEF Gui!new_id
  <2> QED BY <1>1, <2>6, <2>7
<1> QED BY <1>2, <1>3

\* The peers of a torrent are those of the snapshot, each under one id.
LEMMA PeersRead ==
  ASSUME NEW peers \in KnownPeers, NEW hosts \in SUBSET Hosts
  PROVE  LET new == Gui!read_peers(peers, hosts)
         IN new \in KnownPeers /\ {new[i] : i \in DOMAIN new} = hosts
<1>1. /\ peers \in Maps(Hosts) /\ Distinct(peers)
      /\ DOMAIN peers \in SUBSET Nat /\ IsFiniteSet(DOMAIN peers) /\ \A i \in DOMAIN peers : peers[i] \in Hosts
  BY MapFacts DEF KnownPeers
<1> DEFINE S == hosts \ {peers[i] : i \in DOMAIN peers}
           n == Gui!SetToSeq(S)
           first == Gui!new_id(peers)
           with == Gui!with_new(peers, hosts)
           J == first..(first + Len(n) - 1)
<1>2. Shows(n, S)
  <2>1. IsFiniteSet(S) BY WindowAssumption, FS_Subset
  <2> QED BY <2>1, Listing
<1>3. first \in Nat /\ \A i \in DOMAIN peers : i < first BY <1>1, NewId
<1>4. with = [i \in DOMAIN peers \cup J |-> IF i \in DOMAIN peers THEN peers[i] ELSE n[i - first + 1]]
  BY DEF Gui!with_new
<1>5. n \in Seq(S) /\ Len(n) \in Nat /\ DOMAIN n = 1..Len(n) BY <1>2 DEF Shows
<1> HIDE DEF n, first, with
<1>6. \A i \in J : i \notin DOMAIN peers /\ i - first + 1 \in DOMAIN n /\ n[i - first + 1] \in S
  <2> TAKE i \in J
  <2>1. i \notin DOMAIN peers /\ i - first + 1 \in 1..Len(n) BY <1>1, <1>3, <1>5
  <2> QED BY <1>5, <2>1
<1>7. /\ DOMAIN with = DOMAIN peers \cup J /\ with = [i \in DOMAIN with |-> with[i]]
      /\ \A i \in DOMAIN peers : with[i] = peers[i]
      /\ \A i \in J : with[i] = n[i - first + 1]
  <2>1. DOMAIN with = DOMAIN peers \cup J /\ with = [i \in DOMAIN with |-> with[i]] BY <1>4
  <2>2. \A i \in DOMAIN with : with[i] = IF i \in DOMAIN peers THEN peers[i] ELSE n[i - first + 1] BY <1>4
  <2> HIDE DEF J
  <2> QED BY <1>6, <2>1, <2>2
<1>8. J \in SUBSET Nat /\ IsFiniteSet(J)
  <2>1. J \in SUBSET Nat BY <1>3
  <2>2. IsFiniteSet(J) BY <1>3, <1>5, FS_Interval
  <2> QED BY <2>1, <2>2
<1>9. Distinct(with)
  <2> SUFFICES ASSUME NEW i \in DOMAIN with, NEW j \in DOMAIN with, with[i] = with[j] PROVE i = j
    BY DEF Distinct
  <2>1. CASE i \in DOMAIN peers /\ j \in DOMAIN peers BY <1>1, <1>7, <2>1 DEF Distinct
  <2>2. CASE i \in J /\ j \in J
    <3>1. n[i - first + 1] = n[j - first + 1] BY <1>7, <2>2
    <3>2. i - first + 1 = j - first + 1 BY <1>2, <1>6, <2>2, <3>1 DEF Shows, Distinct
    <3>3. i \in Int /\ j \in Int /\ first \in Int BY <1>3, <1>8, <2>2
    <3> QED BY <3>2, <3>3
  <2>3. CASE i \in DOMAIN peers /\ j \in J
    <3>1. with[i] = peers[i] /\ with[j] \in S BY <1>6, <1>7, <2>3
    <3> QED BY <2>3, <3>1
  <2>4. CASE i \in J /\ j \in DOMAIN peers
    <3>1. with[j] = peers[j] /\ with[i] \in S BY <1>6, <1>7, <2>4
    <3> QED BY <2>4, <3>1
  <2> QED BY <1>7, <2>1, <2>2, <2>3, <2>4
<1>10. \A h \in hosts : \E i \in DOMAIN with : with[i] = h
  <2> TAKE h \in hosts
  <2>1. CASE h \in {peers[i] : i \in DOMAIN peers} BY <1>7, <2>1
  <2>2. CASE h \in S
    <3>1. PICK k \in 1..Len(n) : n[k] = h BY <1>2, <1>5, <2>2 DEF Shows
    <3>2. k + first - 1 \in J /\ (k + first - 1) - first + 1 = k BY <1>3, <1>5
    <3>3. with[k + first - 1] = h BY <1>7, <3>1, <3>2
    <3> QED BY <1>7, <3>2, <3>3
  <2> QED BY <2>1, <2>2
<1> DEFINE new == Gui!read_peers(peers, hosts)
           K == {i \in DOMAIN with : with[i] \in hosts}
<1>11. new = [i \in K |-> with[i]]
  <2>1. DOMAIN with \cap K = K OBVIOUS
  <2> QED BY <2>1 DEF Gui!read_peers, Gui!those_left, Gui!kept, with
<1> HIDE DEF new
<1>12. DOMAIN new = K /\ new = [i \in DOMAIN new |-> new[i]] /\ \A i \in K : new[i] = with[i] BY <1>11
<1>13. IsFiniteSet(K) /\ K \in SUBSET Nat
  <2>1. IsFiniteSet(DOMAIN peers \cup J) /\ DOMAIN peers \cup J \in SUBSET Nat BY <1>1, <1>8, FS_Union
  <2> HIDE DEF J
  <2> QED BY <1>7, <2>1, FS_Subset
<1>14. new \in Maps(Hosts)
  <2>1. \A i \in DOMAIN new : new[i] \in Hosts BY <1>12
  <2> HIDE DEF K
  <2> QED BY <1>12, <1>13, <2>1, MapIs
<1>15. Distinct(new) BY <1>9, <1>12 DEF Distinct
<1>16. {new[i] : i \in DOMAIN new} = hosts BY <1>10, <1>12
<1> QED BY <1>14, <1>15, <1>16 DEF KnownPeers, new

LEMMA NoPeers == <<>> \in KnownPeers
<1>1. DOMAIN <<>> = {} /\ <<>> = [i \in DOMAIN <<>> |-> <<>>[i]] OBVIOUS
<1>2. <<>> \in Maps(Hosts) BY <1>1, FS_EmptySet, MapIs
<1>3. Distinct(<<>>) BY <1>1 DEF Distinct
<1> QED BY <1>2, <1>3 DEF KnownPeers

\* A torrent has been read.
Has(m, t) ==
  \E i \in DOMAIN m.map : m.map[i].hash = t.hash /\ {m.map[i].peers[p] : p \in DOMAIN m.map[i].peers} = t.peers

LEMMA FileRead ==
  ASSUME m_bottom_view \in Gui!Views, NEW m, Good(m, m_bottom_view), NEW t \in Sent
  PROVE  LET new == Gui!read_file_dump(m, t)
         IN /\ Good(new, m_bottom_view) /\ Has(new, t)
            /\ \A u \in Sent : u.hash # t.hash /\ Has(m, u) => Has(new, u)
<1> DEFINE known == {i \in DOMAIN m.map : m.map[i].hash = t.hash}
           id == IF known = {} THEN Gui!new_id(m.map) ELSE CHOOSE i \in known : TRUE
           f == [t EXCEPT !.peers = Gui!read_peers(IF known = {} THEN <<>> ELSE m.map[id].peers, t.peers)]
           new == Gui!read_file_dump(m, t)
           map == [i \in DOMAIN m.map \cup {id} |-> IF i = id THEN f ELSE m.map[i]]
           view == m_bottom_view
<1>1. /\ m.map \in Maps(Entry) /\ DOMAIN m.map \in SUBSET Nat /\ IsFiniteSet(DOMAIN m.map)
      /\ \A i \in DOMAIN m.map : m.map[i] \in Entry
  BY MapFacts DEF Good
<1>2. id \in Nat /\ (known = {} => id \notin DOMAIN m.map) /\ (known # {} => id \in known)
  <2>1. Gui!new_id(m.map) \in Nat /\ Gui!new_id(m.map) \notin DOMAIN m.map
    <3>1. Gui!new_id(m.map) \in Nat /\ \A i \in DOMAIN m.map : i < Gui!new_id(m.map) BY <1>1, NewId
    <3>2. \A i \in DOMAIN m.map : i # Gui!new_id(m.map) BY <1>1, <3>1
    <3> QED BY <3>1, <3>2
  <2> QED BY <1>1, <2>1
<1>3. f \in Entry /\ f.hash = t.hash /\ {f.peers[p] : p \in DOMAIN f.peers} = t.peers
  <2> DEFINE had == IF known = {} THEN <<>> ELSE m.map[id].peers
             now_known == Gui!read_peers(had, t.peers)
  <2>1. had \in KnownPeers BY <1>1, <1>2, NoPeers DEF Entry
  <2>2. t.peers \in SUBSET Hosts BY DEF Sent
  <2> HIDE DEF had
  <2>3. now_known \in KnownPeers /\ {now_known[i] : i \in DOMAIN now_known} = t.peers BY <2>1, <2>2, PeersRead
  <2>4. f = [t EXCEPT !.peers = now_known] BY DEF had
  <2> HIDE DEF f, now_known
  <2>5. f \in Entry /\ f.hash = t.hash /\ f.peers = now_known BY <2>3, <2>4 DEF Sent, Entry
  <2> QED BY <2>3, <2>5
<1>4. /\ new.map = map /\ new.file_rows = m.file_rows \cup {id}
      /\ new.file = IF m.file = Gui!None THEN id ELSE m.file
      /\ new.rows = IF m.file = Gui!None THEN Gui!fill_peers(f, view)
                    ELSE IF m.file = id THEN Gui!refreshed(f, view, m.rows) ELSE m.rows
      /\ new.fewer = IF m.file = Gui!None THEN FALSE
                     ELSE m.fewer \/ (m.file = id /\ Gui!some_go(f, view, m.rows))
  BY DEF Gui!read_file_dump
<1> HIDE DEF f, new, known, id
<1>5. /\ DOMAIN map = DOMAIN m.map \cup {id} /\ map[id] = f
      /\ \A i \in DOMAIN m.map : i # id => map[i] = m.map[i]
      /\ map = [i \in DOMAIN map |-> map[i]]
  OBVIOUS
<1> HIDE DEF map
<1>6. map \in Maps(Entry)
  <2>1. IsFiniteSet(DOMAIN map) /\ DOMAIN map \in SUBSET Nat BY <1>1, <1>2, <1>5, FS_AddElement
  <2>2. \A i \in DOMAIN map : map[i] \in Entry BY <1>1, <1>3, <1>5
  <2> QED BY <1>5, <2>1, <2>2, MapIs
<1>7. \A i \in DOMAIN m.map : i # id => m.map[i].hash # t.hash
  <2> TAKE i \in DOMAIN m.map
  <2> SUFFICES ASSUME m.map[i].hash = t.hash PROVE i = id OBVIOUS
  <2>1. i \in known BY DEF known
  <2>2. id \in known BY <1>2, <2>1
  <2>3. id \in DOMAIN m.map /\ m.map[id].hash = t.hash BY <2>2 DEF known
  <2> QED BY <2>3 DEF Good, OneEach
<1>8. OneEach(map)
  <2> SUFFICES ASSUME NEW i \in DOMAIN map, NEW j \in DOMAIN map, map[i].hash = map[j].hash PROVE i = j
    BY DEF OneEach
  <2>1. CASE i # id /\ j # id BY <1>5, <2>1 DEF Good, OneEach
  <2>2. CASE i = id \/ j = id BY <1>3, <1>5, <1>7, <2>2
  <2> QED BY <2>1, <2>2
<1>9. Good(new, view)
  <2>1. new.map \in Maps(Entry) /\ OneEach(new.map) /\ new.file_rows = DOMAIN new.map
    BY <1>4, <1>5, <1>6, <1>8 DEF Good
  <2>2. CASE m.file = Gui!None
    <3>1. new.file = id /\ new.fewer = FALSE /\ new.map[id] = f /\ new.rows = Gui!fill_peers(f, view)
      BY <1>4, <1>5, <2>2
    <3>2. Fits(f, view, new.rows, FALSE) BY <1>3, <3>1, Filled
    <3>3. id # Gui!None /\ id \in DOMAIN new.map BY <1>2, <1>4, <1>5 DEF Gui!None
    <3> QED BY <2>1, <3>1, <3>2, <3>3 DEF Good
  <2>3. CASE m.file # Gui!None /\ m.file # id
    <3>1. /\ new.file = m.file /\ new.rows = m.rows /\ new.fewer = m.fewer /\ new.map[m.file] = m.map[m.file]
          /\ m.file \in DOMAIN new.map
      BY <1>4, <1>5, <2>3 DEF Good
    <3> QED BY <2>1, <2>3, <3>1 DEF Good
  <2>4. CASE m.file # Gui!None /\ m.file = id
    <3>1. /\ id \in DOMAIN m.map /\ m.map[id] \in Entry /\ m.fewer \in BOOLEAN
          /\ Fits(m.map[id], view, m.rows, m.fewer)
      BY <1>1, <2>4 DEF Good
    <3>2. Fits(f, view, Gui!refreshed(f, view, m.rows), m.fewer \/ Gui!some_go(f, view, m.rows))
      BY <1>3, <3>1, Refreshed
    <3>3. /\ new.file = id /\ new.map[id] = f /\ new.rows = Gui!refreshed(f, view, m.rows)
          /\ new.fewer = (m.fewer \/ Gui!some_go(f, view, m.rows))
      BY <1>4, <1>5, <2>4
    <3>4. id # Gui!None /\ id \in DOMAIN new.map BY <2>4, <1>4, <1>5
    <3>5. new.fewer \in BOOLEAN BY <3>3
    <3> QED BY <2>1, <3>2, <3>3, <3>4, <3>5 DEF Good
  <2> QED BY <2>2, <2>3, <2>4
<1>10. Has(new, t)
  <2>1. id \in DOMAIN new.map /\ new.map[id] = f BY <1>4, <1>5
  <2> QED BY <1>3, <2>1 DEF Has
<1>11. ASSUME NEW u \in Sent, u.hash # t.hash, Has(m, u) PROVE Has(new, u)
  <2>1. PICK i \in DOMAIN m.map :
          m.map[i].hash = u.hash /\ {m.map[i].peers[p] : p \in DOMAIN m.map[i].peers} = u.peers
    BY <1>11 DEF Has
  <2>2. i # id
    <3> SUFFICES ASSUME i = id PROVE FALSE OBVIOUS
    <3>1. known # {} BY <1>2
    <3>2. id \in known BY <1>2, <3>1
    <3> QED BY <1>11, <2>1, <3>2 DEF known
  <2>3. i \in DOMAIN new.map /\ new.map[i] = m.map[i] BY <1>4, <1>5, <2>2
  <2> QED BY <2>1, <2>3 DEF Has
<1> QED BY <1>9, <1>10, <1>11 DEF new

\* The states the recursion goes through.
read_steps(t, m, snapshot, n) ==
  t = [k \in 0..n |-> IF k = 0 THEN m ELSE Gui!read_file_dump(t[k - 1], snapshot[k])]

LEMMA ReadSteps ==
  ASSUME NEW m, NEW snapshot, Len(snapshot) \in Nat
  PROVE  \E t : read_steps(t, m, snapshot, Len(snapshot)) /\ Gui!read_files(m, snapshot) = t[Len(snapshot)]
<1> DEFINE S == {k \in Nat : \E t : read_steps(t, m, snapshot, k)}
<1>1. 0 \in S
  <2> DEFINE t == [i \in 0..0 |-> m]
  <2>1. read_steps(t, m, snapshot, 0) BY DEF read_steps
  <2> QED BY <2>1
<1>2. ASSUME NEW k \in Nat, k \in S PROVE k + 1 \in S
  <2>1. PICK t : read_steps(t, m, snapshot, k) BY <1>2
  <2>2. \A i \in 0..k : t[i] = IF i = 0 THEN m ELSE Gui!read_file_dump(t[i - 1], snapshot[i])
    BY <2>1 DEF read_steps
  <2> DEFINE g == [i \in 0..(k + 1) |-> IF i = k + 1 THEN Gui!read_file_dump(t[k], snapshot[k + 1]) ELSE t[i]]
  <2>3. ASSUME NEW i \in 0..(k + 1)
        PROVE  g[i] = IF i = 0 THEN m ELSE Gui!read_file_dump(g[i - 1], snapshot[i])
    <3>1. CASE i = 0 BY <2>2, <3>1
    <3>2. CASE i # 0 /\ i # k + 1
      <4>1. i \in 0..k /\ i - 1 \in 0..k BY <3>2
      <4>2. g[i] = t[i] /\ g[i - 1] = t[i - 1] BY <4>1
      <4> QED BY <2>2, <3>2, <4>1, <4>2
    <3>3. CASE i = k + 1
      <4>1. g[i] = Gui!read_file_dump(t[k], snapshot[k + 1]) /\ g[i - 1] = t[k] BY <3>3
      <4> QED BY <3>3, <4>1
    <3> QED BY <3>1, <3>2, <3>3
  <2>4. g = [i \in 0..(k + 1) |-> g[i]] OBVIOUS
  <2> HIDE DEF g
  <2>5. read_steps(g, m, snapshot, k + 1) BY <2>3, <2>4 DEF read_steps
  <2> QED BY <2>5
<1>3. Len(snapshot) \in S BY <1>1, <1>2, Induct
<1>4. \E t : read_steps(t, m, snapshot, Len(snapshot)) BY <1>3
<1> DEFINE t == CHOOSE read : read = [n \in 0..Len(snapshot) |->
                  IF n = 0 THEN m ELSE Gui!read_file_dump(read[n - 1], snapshot[n])]
<1>5. read_steps(t, m, snapshot, Len(snapshot)) BY <1>4 DEF read_steps
<1>6. Gui!read_files(m, snapshot) = t[Len(snapshot)] BY DEF Gui!read_files
<1> QED BY <1>5, <1>6

\* All torrents have been read.
LEMMA FilesRead ==
  ASSUME m_bottom_view \in Gui!Views, NEW m, Good(m, m_bottom_view),
         NEW snapshot \in Seq(Sent), OneEach(snapshot)
  PROVE  LET new == Gui!read_files(m, snapshot)
         IN Good(new, m_bottom_view) /\ \A k \in DOMAIN snapshot : Has(new, snapshot[k])
<1> DEFINE n == Len(snapshot)
<1>1. n \in Nat /\ DOMAIN snapshot = 1..n /\ \A k \in 1..n : snapshot[k] \in Sent OBVIOUS
<1>2. PICK t : read_steps(t, m, snapshot, n) /\ Gui!read_files(m, snapshot) = t[n] BY <1>1, ReadSteps
<1> HIDE DEF n
<1> DEFINE S == {k \in Nat : k <= n => Good(t[k], m_bottom_view) /\ \A i \in 1..k : Has(t[k], snapshot[i])}
<1>3. 0 \in S
  <2>1. t[0] = m BY <1>1, <1>2 DEF read_steps
  <2> QED BY <2>1
<1>4. ASSUME NEW k \in Nat, k \in S PROVE k + 1 \in S
  <2> SUFFICES ASSUME k + 1 <= n
               PROVE  Good(t[k + 1], m_bottom_view) /\ \A i \in 1..(k + 1) : Has(t[k + 1], snapshot[i])
    OBVIOUS
  <2>1. Good(t[k], m_bottom_view) /\ \A i \in 1..k : Has(t[k], snapshot[i]) BY <1>1, <1>4
  <2>2. t[k + 1] = Gui!read_file_dump(t[k], snapshot[k + 1])
    <3>1. k + 1 \in 0..n /\ k + 1 # 0 /\ (k + 1) - 1 = k BY <1>1
    <3>2. t[k + 1] = IF k + 1 = 0 THEN m ELSE Gui!read_file_dump(t[(k + 1) - 1], snapshot[k + 1])
      BY <1>2, <3>1 DEF read_steps
    <3> QED BY <3>1, <3>2
  <2>3. k + 1 \in 1..n /\ snapshot[k + 1] \in Sent BY <1>1
  <2>4. /\ Good(t[k + 1], m_bottom_view) /\ Has(t[k + 1], snapshot[k + 1])
        /\ \A u \in Sent : u.hash # snapshot[k + 1].hash /\ Has(t[k], u) => Has(t[k + 1], u)
    BY <2>1, <2>2, <2>3, FileRead
  <2>5. ASSUME NEW i \in 1..(k + 1) PROVE Has(t[k + 1], snapshot[i])
    <3>1. CASE i = k + 1 BY <2>4, <3>1
    <3>2. CASE i # k + 1
      <4>1. i \in 1..k /\ i \in 1..n BY <1>1, <3>2
      <4>2. snapshot[i] \in Sent /\ Has(t[k], snapshot[i]) BY <1>1, <2>1, <4>1
      <4>3. snapshot[i].hash # snapshot[k + 1].hash BY <1>1, <2>3, <3>2, <4>1 DEF OneEach
      <4> QED BY <2>4, <4>2, <4>3
    <3> QED BY <3>1, <3>2
  <2> QED BY <2>4, <2>5
<1>5. n \in S BY <1>1, <1>3, <1>4, Induct
<1> QED BY <1>1, <1>2, <1>5

\* The entries of the window are the torrents of the snapshot.
LEMMA ServerRead ==
  ASSUME WindowInv, NEW snapshot \in Seq(Sent), OneEach(snapshot), Gui!read_server_dump(snapshot)
  PROVE  /\ Good(Gui!window, m_bottom_view)'
         /\ {m_files_map'[i].hash : i \in DOMAIN m_files_map'} = {snapshot[k].hash : k \in DOMAIN snapshot}
         /\ \A i \in DOMAIN m_files_map', k \in DOMAIN snapshot :
              m_files_map'[i].hash = snapshot[k].hash =>
                snapshot[k].peers = {m_files_map'[i].peers[p] : p \in DOMAIN m_files_map'[i].peers}
         /\ m_bottom_view' = m_bottom_view
<1> DEFINE m == Gui!read_files(Gui!window, snapshot)
           heard == {snapshot[k].hash : k \in DOMAIN snapshot}
           lost == {i \in DOMAIN m.map : m.map[i].hash \notin heard}
           left == IF m.file \in lost THEN <<>> ELSE m.rows
           stay == DOMAIN m.map \cap (DOMAIN m.map \ lost)
<1>1. /\ m_files_map' = [i \in stay |-> m.map[i]] /\ file_rows' = m.file_rows \ lost
      /\ m_file' = IF m.file \in lost THEN Gui!None ELSE m.file
      /\ rows' \in IF visible THEN Gui!sort_peers(m_bottom_view, left) ELSE {left}
      /\ fewer' = (m.file \notin lost /\ m.fewer) /\ m_bottom_view' = m_bottom_view
  BY DEF Gui!read_server_dump, Gui!kept, Gui!shown_after
<1>2. m_bottom_view \in Gui!Views /\ Good(m, m_bottom_view) /\ \A k \in DOMAIN snapshot : Has(m, snapshot[k])
  BY FilesRead DEF WindowInv
<1> HIDE DEF m
<1>3. /\ m.map \in Maps(Entry) /\ DOMAIN m.map \in SUBSET Nat /\ IsFiniteSet(DOMAIN m.map)
      /\ \A i \in DOMAIN m.map : m.map[i] \in Entry
  BY <1>2, MapFacts DEF Good
<1>4. /\ DOMAIN m_files_map' = DOMAIN m.map \ lost
      /\ m_files_map' = [i \in DOMAIN m_files_map' |-> m_files_map'[i]]
      /\ \A i \in DOMAIN m.map \ lost : m_files_map'[i] = m.map[i]
  BY <1>1
<1> HIDE DEF stay, left
<1>5. m_files_map' \in Maps(Entry)
  <2>1. IsFiniteSet(DOMAIN m_files_map') BY <1>3, <1>4, FS_Subset
  <2>2. DOMAIN m_files_map' \in SUBSET Nat /\ \A i \in DOMAIN m_files_map' : m_files_map'[i] \in Entry BY <1>3, <1>4
  <2> HIDE DEF lost
  <2> QED BY <1>4, <2>1, <2>2, MapIs
<1>6. OneEach(m_files_map')
  <2> SUFFICES ASSUME NEW i \in DOMAIN m_files_map', NEW j \in DOMAIN m_files_map',
                      m_files_map'[i].hash = m_files_map'[j].hash
               PROVE  i = j
    BY DEF OneEach
  <2>1. i \in DOMAIN m.map /\ j \in DOMAIN m.map /\ m.map[i].hash = m.map[j].hash BY <1>4
  <2> QED BY <1>2, <2>1 DEF Good, OneEach
<1>7. file_rows' = DOMAIN m_files_map' BY <1>1, <1>2, <1>4 DEF Good
<1>8. fewer' \in BOOLEAN BY <1>1
<1>9. ASSUME m.file \in lost \/ m.file = Gui!None PROVE Good(Gui!window, m_bottom_view)'
  <2>1. m_file' = Gui!None BY <1>1, <1>9
  <2>2. left = <<>> BY <1>2, <1>9 DEF left, Good
  <2>3. rows' = <<>> BY <1>1, <2>2, NothingSorted
  <2>4. Good(Gui!window, m_bottom_view)'
    <3> HIDE DEF lost
    <3> QED BY <1>5, <1>6, <1>7, <1>8, <2>1, <2>3 DEF Good, Gui!window
  <2> QED BY <2>4
<1>10. ASSUME m.file \notin lost, m.file # Gui!None PROVE Good(Gui!window, m_bottom_view)'
  <2>1. m_file' = m.file /\ left = m.rows BY <1>1, <1>10 DEF left
  <2>2. fewer' = m.fewer
    <3>1. m.fewer \in BOOLEAN BY <1>2 DEF Good
    <3> QED BY <1>1, <1>10, <3>1
  <2>3. m.file \in DOMAIN m.map \ lost BY <1>2, <1>10 DEF Good
  <2> HIDE DEF lost
  <2>4. m.file \in DOMAIN m_files_map' /\ m_files_map'[m_file'] = m.map[m.file] BY <1>4, <2>1, <2>3
  <2>5. Fits(m.map[m.file], m_bottom_view, left, m.fewer) BY <1>2, <1>10, <2>1 DEF Good
  <2>6. Fits(m.map[m.file], m_bottom_view, rows', m.fewer)
    <3>1. CASE visible BY <1>1, <2>5, <3>1, SortedFits
    <3>2. CASE ~visible BY <1>1, <2>5, <3>2
    <3> QED BY <3>1, <3>2
  <2>7. Fits(m_files_map'[m_file'], m_bottom_view', rows', fewer') BY <1>1, <2>2, <2>4, <2>6
  <2> DEFINE w == [map |-> m_files_map', file_rows |-> file_rows', file |-> m_file', rows |-> rows', fewer |-> fewer']
  <2>8. /\ w.map = m_files_map' /\ w.file_rows = file_rows' /\ w.file = m_file' /\ w.rows = rows'
        /\ w.fewer = fewer'
    OBVIOUS
  <2> HIDE DEF w
  <2>9. Fits(w.map[w.file], m_bottom_view', w.rows, w.fewer) BY <2>7, <2>8
  <2>10. w.fewer \in BOOLEAN /\ w.map \in Maps(Entry) /\ OneEach(w.map) /\ w.file_rows = DOMAIN w.map
    BY <1>5, <1>6, <1>7, <1>8, <2>8
  <2>11. w.file \in DOMAIN w.map /\ w.file # Gui!None BY <1>10, <2>1, <2>4, <2>8
  <2>12. Good(w, m_bottom_view') BY <2>9, <2>10, <2>11 DEF Good
  <2> QED BY <2>12 DEF Gui!window, w
<1>11. \A i \in DOMAIN m_files_map' : m_files_map'[i].hash \in heard BY <1>4
<1>12. ASSUME NEW k \in DOMAIN snapshot
       PROVE  \E i \in DOMAIN m_files_map' :
                /\ m_files_map'[i].hash = snapshot[k].hash
                /\ snapshot[k].peers = {m_files_map'[i].peers[p] : p \in DOMAIN m_files_map'[i].peers}
  <2>1. PICK i \in DOMAIN m.map :
          m.map[i].hash = snapshot[k].hash /\ {m.map[i].peers[p] : p \in DOMAIN m.map[i].peers} = snapshot[k].peers
    BY <1>2 DEF Has
  <2>2. i \in DOMAIN m.map \ lost BY <2>1
  <2> HIDE DEF lost
  <2>3. i \in DOMAIN m_files_map' /\ m_files_map'[i] = m.map[i] BY <1>4, <2>2
  <2> QED BY <2>1, <2>3
<1>13. {m_files_map'[i].hash : i \in DOMAIN m_files_map'} = heard
  <2>1. \A h \in heard : \E i \in DOMAIN m_files_map' : m_files_map'[i].hash = h
    <3> TAKE h \in heard
    <3>1. PICK k \in DOMAIN snapshot : h = snapshot[k].hash OBVIOUS
    <3> QED BY <1>12, <3>1
  <2> HIDE DEF heard
  <2> QED BY <1>11, <2>1
<1>14. ASSUME NEW i \in DOMAIN m_files_map', NEW k \in DOMAIN snapshot, m_files_map'[i].hash = snapshot[k].hash
       PROVE  snapshot[k].peers = {m_files_map'[i].peers[p] : p \in DOMAIN m_files_map'[i].peers}
  <2>1. PICK j \in DOMAIN m_files_map' :
          /\ m_files_map'[j].hash = snapshot[k].hash
          /\ snapshot[k].peers = {m_files_map'[j].peers[p] : p \in DOMAIN m_files_map'[j].peers}
    BY <1>12
  <2>2. i = j BY <1>6, <1>14, <2>1 DEF OneEach
  <2> QED BY <2>1, <2>2
<1> QED BY <1>1, <1>9, <1>10, <1>13, <1>14

-----------------------------------------------------------------------------
(* The steps.                                                              *)

LEMMA InitFaithful == Gui!Init => WindowInv
<1> SUFFICES ASSUME Gui!Init PROVE WindowInv OBVIOUS
<1>1. /\ torrents = <<>> /\ m_files_map = <<>> /\ file_rows = {} /\ m_file = Gui!None
      /\ m_bottom_view \in Gui!Views /\ rows = <<>> /\ fewer = FALSE /\ fresh = FALSE
  BY DEF Gui!Init
<1>2. DOMAIN <<>> = {} /\ <<>> = [i \in DOMAIN <<>> |-> <<>>[i]] OBVIOUS
<1>3. torrents \in Seq(Sent) /\ OneEach(torrents) BY <1>1, <1>2 DEF OneEach
<1>4. m_files_map \in Maps(Entry) /\ OneEach(m_files_map)
  <2>1. <<>> \in Maps(Entry) BY <1>2, FS_EmptySet, MapIs
  <2> QED BY <1>1, <1>2, <2>1 DEF OneEach
<1>5. Good(Gui!window, m_bottom_view) BY <1>1, <1>2, <1>4 DEF Good, Gui!window
<1> QED BY <1>1, <1>3, <1>5 DEF WindowInv

\* What is shown changes, and nothing else.
LEMMA ShownFaithful ==
  ASSUME WindowInv, UNCHANGED <<torrents, m_files_map, file_rows, full, fresh>>,
         m_bottom_view' \in Gui!Views, fewer' \in BOOLEAN, m_file' \in DOMAIN m_files_map \cup {Gui!None},
         m_file' = Gui!None => rows' = <<>>,
         m_file' # Gui!None => Fits(m_files_map[m_file'], m_bottom_view', rows', fewer')
  PROVE  WindowInv'
<1> DEFINE w == [map |-> m_files_map', file_rows |-> file_rows', file |-> m_file', rows |-> rows', fewer |-> fewer']
<1>1. /\ w.map = m_files_map /\ w.file_rows = file_rows /\ w.file = m_file' /\ w.rows = rows'
      /\ w.fewer = fewer'
  OBVIOUS
<1>2. m_files_map \in Maps(Entry) /\ OneEach(m_files_map) /\ file_rows = DOMAIN m_files_map
  BY DEF WindowInv, Good, Gui!window
<1> HIDE DEF w
<1>3. w.file # Gui!None => Fits(w.map[w.file], m_bottom_view', w.rows, w.fewer) BY <1>1
<1>4. Good(w, m_bottom_view') BY <1>1, <1>2, <1>3 DEF Good
<1>5. Good(Gui!window, m_bottom_view)' BY <1>4 DEF Gui!window, w
<1>6. /\ torrents' = torrents /\ full' = full /\ fresh' = fresh
      /\ SameHashes' = SameHashes /\ SamePeers' = SamePeers
  BY DEF SameHashes, SamePeers, Gui!hashes
<1> QED BY <1>5, <1>6 DEF WindowInv

LEMMA StillFaithful ==
  ASSUME WindowInv,
         UNCHANGED <<torrents, m_files_map, file_rows, m_file, m_bottom_view, rows, fewer, full, fresh>>
  PROVE  WindowInv'
<1>1. Good(Gui!window, m_bottom_view)' BY DEF WindowInv, Good, Gui!window
<1>2. SameHashes' = SameHashes /\ SamePeers' = SamePeers BY DEF SameHashes, SamePeers, Gui!hashes
<1>3. torrents' = torrents /\ full' = full /\ fresh' = fresh /\ m_bottom_view' = m_bottom_view OBVIOUS
<1> QED BY <1>1, <1>2, <1>3 DEF WindowInv

\* The server changes, and nothing else.
LEMMA ServerFaithful ==
  ASSUME WindowInv, UNCHANGED Gui!entries, fresh' = FALSE, torrents' \in Seq(Sent), OneEach(torrents')
  PROVE  WindowInv'
<1>1. UNCHANGED <<m_files_map, file_rows, m_file, m_bottom_view, rows, fewer>> BY DEF Gui!entries
<1>2. Good(Gui!window, m_bottom_view)' BY <1>1 DEF WindowInv, Good, Gui!window
<1> QED BY <1>1, <1>2 DEF WindowInv

LEMMA LeftFaithful ==
  ASSUME WindowInv, NEW I
  PROVE  Gui!left_at(torrents, I) \in Seq(Sent) /\ OneEach(Gui!left_at(torrents, I))
<1> DEFINE l == Gui!left_at(torrents, I)
<1>1. torrents \in Seq(Sent) /\ OneEach(torrents) BY DEF WindowInv
<1>2. l \in Seq(Sent) /\ Comes(l, torrents, I, Len(torrents)) BY <1>1, LeftAt
<1> HIDE DEF l
<1>3. PICK p \in [DOMAIN l -> I \cap 1..Len(torrents)] :
        (\A i \in DOMAIN l : l[i] = torrents[p[i]]) /\ Distinct(p)
  BY <1>2 DEF Comes
<1>4. \A i \in DOMAIN l : p[i] \in DOMAIN torrents BY <1>1, <1>3
<1>5. OneEach(l)
  <2> SUFFICES ASSUME NEW i \in DOMAIN l, NEW j \in DOMAIN l, l[i].hash = l[j].hash PROVE i = j BY DEF OneEach
  <2>1. p[i] = p[j] BY <1>1, <1>3, <1>4 DEF OneEach
  <2> QED BY <1>3, <2>1 DEF Distinct
<1> QED BY <1>2, <1>5 DEF l

LEMMA TimerFaithful == WindowInv /\ Gui!OnTimer => WindowInv'
<1> SUFFICES ASSUME WindowInv, Gui!OnTimer PROVE WindowInv' OBVIOUS
<1> DEFINE s == IF visible THEN torrents ELSE [i \in DOMAIN torrents |-> Gui!without(torrents[i])]
<1>1. full' = visible /\ fresh' = TRUE /\ torrents' = torrents /\ Gui!read_server_dump(s) BY DEF Gui!OnTimer
<1>2. torrents \in Seq(Sent) /\ OneEach(torrents) BY DEF WindowInv
<1>3. s \in Seq(Sent) /\ DOMAIN s = DOMAIN torrents /\ \A i \in DOMAIN torrents : s[i].hash = torrents[i].hash
  <2>1. CASE visible BY <1>2, <2>1
  <2>2. CASE ~visible
    <3>1. s = [i \in 1..Len(torrents) |-> Gui!without(torrents[i])] /\ Len(torrents) \in Nat BY <1>2, <2>2
    <3>2. \A i \in 1..Len(torrents) :
            Gui!without(torrents[i]) \in Sent /\ Gui!without(torrents[i]).hash = torrents[i].hash
      <4> TAKE i \in 1..Len(torrents)
      <4> DEFINE t == torrents[i]
      <4>1. t \in Sent BY <1>2
      <4> HIDE DEF t
      <4>2. Gui!without(t) = [hash |-> t.hash, peers |-> {}, sub_files |-> 0, pieces |-> 0, trackers |-> 0, events |-> 0]
        BY DEF Gui!without
      <4>3. Gui!without(t) \in Sent /\ Gui!without(t).hash = t.hash BY <4>1, <4>2 DEF Sent
      <4> QED BY <4>3 DEF t
    <3> HIDE DEF s
    <3>3. s \in [1..Len(torrents) -> Sent] BY <3>1, <3>2
    <3> QED BY <1>2, <3>1, <3>2, <3>3
  <2> QED BY <2>1, <2>2
<1>4. OneEach(s) BY <1>2, <1>3 DEF OneEach
<1> HIDE DEF s
<1>5. /\ Good(Gui!window, m_bottom_view)'
      /\ {m_files_map'[i].hash : i \in DOMAIN m_files_map'} = {s[k].hash : k \in DOMAIN s}
      /\ \A i \in DOMAIN m_files_map', k \in DOMAIN s :
           m_files_map'[i].hash = s[k].hash =>
             s[k].peers = {m_files_map'[i].peers[p] : p \in DOMAIN m_files_map'[i].peers}
      /\ m_bottom_view' = m_bottom_view
  BY <1>1, <1>3, <1>4, ServerRead
<1>6. SameHashes' BY <1>1, <1>3, <1>5 DEF SameHashes, Gui!hashes
<1>7. ASSUME full' PROVE SamePeers'
  <2>1. s = torrents BY <1>1, <1>7 DEF s
  <2> QED BY <1>1, <1>5, <2>1 DEF SamePeers
<1> QED BY <1>1, <1>2, <1>5, <1>6, <1>7 DEF WindowInv

LEMMA ItemFaithful ==
  ASSUME WindowInv, NEW id \in DOMAIN m_files_map, Gui!OnItemchangedFiles(id)
  PROVE  WindowInv'
<1>1. /\ m_file' = id /\ fewer' = FALSE
      /\ rows' \in Gui!sort_peers(m_bottom_view, Gui!fill_peers(m_files_map[id], m_bottom_view))
      /\ UNCHANGED <<torrents, m_files_map, file_rows, m_bottom_view, full, fresh>>
  BY DEF Gui!OnItemchangedFiles
<1>2. /\ m_files_map \in Maps(Entry) /\ m_bottom_view \in Gui!Views BY DEF WindowInv, Good, Gui!window
<1>3. m_files_map[id] \in Entry /\ id \in Nat BY <1>2, MapFacts
<1>4. Fits(m_files_map[id], m_bottom_view, Gui!fill_peers(m_files_map[id], m_bottom_view), FALSE)
  BY <1>2, <1>3, Filled
<1>5. Fits(m_files_map[id], m_bottom_view, rows', FALSE) BY <1>1, <1>4, SortedFits
<1>6. Fits(m_files_map[m_file'], m_bottom_view', rows', fewer') BY <1>1, <1>5
<1>7. m_file' # Gui!None BY <1>1, <1>3 DEF Gui!None
<1> QED BY <1>1, <1>2, <1>6, <1>7, ShownFaithful

LEMMA ViewFaithful ==
  ASSUME WindowInv, NEW v \in Gui!Views, Gui!set_bottom_view(v)
  PROVE  WindowInv'
<1>1. /\ m_bottom_view' = v /\ fewer' = FALSE
      /\ rows' \in IF m_file = Gui!None THEN {<<>>}
                   ELSE Gui!sort_peers(v, Gui!fill_peers(m_files_map[m_file], v))
      /\ UNCHANGED <<torrents, m_files_map, file_rows, m_file, full, fresh>>
  BY DEF Gui!set_bottom_view
<1>2. m_files_map \in Maps(Entry) /\ m_file \in DOMAIN m_files_map \cup {Gui!None}
  BY DEF WindowInv, Good, Gui!window
<1>3. ASSUME m_file # Gui!None PROVE Fits(m_files_map[m_file'], m_bottom_view', rows', fewer')
  <2>1. m_files_map[m_file] \in Entry BY <1>2, <1>3, MapFacts
  <2>2. Fits(m_files_map[m_file], v, Gui!fill_peers(m_files_map[m_file], v), FALSE) BY <2>1, Filled
  <2>3. rows' \in Gui!sort_peers(v, Gui!fill_peers(m_files_map[m_file], v)) BY <1>1, <1>3
  <2>4. Fits(m_files_map[m_file], v, rows', FALSE) BY <2>2, <2>3, SortedFits
  <2> QED BY <1>1, <2>4
<1>4. m_file = Gui!None => rows' = <<>> BY <1>1
<1> QED BY <1>1, <1>2, <1>3, <1>4, ShownFaithful

LEMMA ColumnFaithful == WindowInv /\ Gui!OnColumnclickPeers => WindowInv'
<1> SUFFICES ASSUME WindowInv, Gui!OnColumnclickPeers PROVE WindowInv' OBVIOUS
<1>1. /\ rows' \in Gui!sort_peers(m_bottom_view, rows)
      /\ UNCHANGED <<torrents, m_files_map, file_rows, m_file, m_bottom_view, fewer, full, fresh>>
  BY DEF Gui!OnColumnclickPeers
<1>2. /\ m_file \in DOMAIN m_files_map \cup {Gui!None} /\ m_bottom_view \in Gui!Views /\ fewer \in BOOLEAN
      /\ (m_file = Gui!None => rows = <<>>)
      /\ (m_file # Gui!None => Fits(m_files_map[m_file], m_bottom_view, rows, fewer))
  BY DEF WindowInv, Good, Gui!window
<1>3. m_file' = Gui!None => rows' = <<>> BY <1>1, <1>2, NothingSorted
<1>4. ASSUME m_file' # Gui!None PROVE Fits(m_files_map[m_file'], m_bottom_view', rows', fewer')
  <2>1. Fits(m_files_map[m_file], m_bottom_view, rows', fewer) BY <1>1, <1>2, <1>4, SortedFits
  <2> QED BY <1>1, <2>1
<1> QED BY <1>1, <1>2, <1>3, <1>4, ShownFaithful

LEMMA ChangeFaithful == WindowInv /\ Gui!Change => WindowInv'
<1> SUFFICES ASSUME WindowInv, Gui!Change PROVE WindowInv' OBVIOUS
<1>1. fresh' = FALSE /\ UNCHANGED Gui!entries BY DEF Gui!Change
<1>2. torrents \in Seq(Sent) /\ OneEach(torrents) /\ Len(torrents) \in Nat /\ DOMAIN torrents = 1..Len(torrents)
  BY DEF WindowInv
<1>3. torrents' \in Seq(Sent) /\ OneEach(torrents')
  <2>1. ASSUME NEW h \in Torrents \ Gui!hashes, NEW n \in {0, 2}, NEW e \in {0, 1},
               torrents' = Append(torrents, Gui!new_torrent(h, n, e))
        PROVE  torrents' \in Seq(Sent) /\ OneEach(torrents')
    <3> DEFINE t == Gui!new_torrent(h, n, e)
               m == Len(torrents)
    <3>1. t \in Sent /\ t.hash = h BY DEF Gui!new_torrent, Sent
    <3> HIDE DEF t
    <3>2. /\ torrents' \in Seq(Sent) /\ DOMAIN torrents' = 1..(m + 1)
          /\ torrents'[m + 1] = t /\ \A i \in 1..m : torrents'[i] = torrents[i]
      BY <1>2, <2>1, <3>1 DEF t
    <3>3. \A i \in 1..m : torrents[i].hash # h BY <1>2 DEF Gui!hashes
    <3>4. OneEach(torrents')
      <4> SUFFICES ASSUME NEW i \in 1..(m + 1), NEW j \in 1..(m + 1), torrents'[i].hash = torrents'[j].hash
                   PROVE  i = j
        BY <3>2 DEF OneEach
      <4>1. (i = m + 1 \/ i \in 1..m) /\ (j = m + 1 \/ j \in 1..m) BY <1>2
      <4>2. CASE i \in 1..m /\ j \in 1..m BY <1>2, <3>2, <4>2 DEF OneEach
      <4>3. CASE i = m + 1 \/ j = m + 1 BY <3>1, <3>2, <3>3, <4>1, <4>3
      <4> QED BY <4>1, <4>2, <4>3
    <3> QED BY <3>2, <3>4
  <2>2. ASSUME NEW i \in DOMAIN torrents, torrents' = Gui!left_at(torrents, DOMAIN torrents \ {i})
        PROVE  torrents' \in Seq(Sent) /\ OneEach(torrents')
    BY <2>2, LeftFaithful
  <2>3. ASSUME NEW i \in DOMAIN torrents, NEW t \in Gui!changed(torrents[i]),
               torrents' = [torrents EXCEPT ![i] = t]
        PROVE  torrents' \in Seq(Sent) /\ OneEach(torrents')
    <3>1. torrents[i] \in Sent BY <1>2
    <3>2. t \in Sent /\ t.hash = torrents[i].hash
      <4> DEFINE f == torrents[i]
      <4>1. \/ \E S \in SUBSET Hosts : t = [f EXCEPT !.peers = S]
            \/ t = [f EXCEPT !.sub_files = 2, !.pieces = 2]
            \/ t = [f EXCEPT !.trackers = 1 - @]
            \/ t = [f EXCEPT !.events = IF @ < 2 THEN @ + 1 ELSE @]
        BY DEF Gui!changed
      <4> HIDE DEF f
      <4>2. f \in Sent BY <3>1 DEF f
      <4>3. t \in Sent /\ t.hash = f.hash
        <5>1. /\ f = [hash |-> f.hash, peers |-> f.peers, sub_files |-> f.sub_files, pieces |-> f.pieces,
                      trackers |-> f.trackers, events |-> f.events]
              /\ f.hash \in Torrents /\ f.peers \in SUBSET Hosts /\ f.sub_files \in {0, 2} /\ f.pieces \in {0, 2}
              /\ f.trackers \in {0, 1} /\ f.events \in 0..2
          BY <4>2 DEF Sent
        <5>2. \E S \in SUBSET Hosts, n \in {0, 2}, q \in {0, 2}, r \in {0, 1}, e \in 0..2 :
                t = [hash |-> f.hash, peers |-> S, sub_files |-> n, pieces |-> q, trackers |-> r, events |-> e]
          <6>1. CASE \E S \in SUBSET Hosts : t = [f EXCEPT !.peers = S] BY <5>1, <6>1
          <6>2. CASE t = [f EXCEPT !.sub_files = 2, !.pieces = 2]
            <7>1. t = [hash |-> f.hash, peers |-> f.peers, sub_files |-> 2, pieces |-> 2,
                       trackers |-> f.trackers, events |-> f.events]
              BY <5>1, <6>2
            <7> QED BY <5>1, <7>1
          <6>3. CASE t = [f EXCEPT !.trackers = 1 - @]
            <7>1. t = [hash |-> f.hash, peers |-> f.peers, sub_files |-> f.sub_files, pieces |-> f.pieces,
                       trackers |-> 1 - f.trackers, events |-> f.events]
              BY <5>1, <6>3
            <7>2. 1 - f.trackers \in {0, 1} BY <5>1
            <7> QED BY <5>1, <7>1, <7>2
          <6>4. CASE t = [f EXCEPT !.events = IF @ < 2 THEN @ + 1 ELSE @]
            <7> DEFINE n == IF f.events < 2 THEN f.events + 1 ELSE f.events
            <7>1. t = [hash |-> f.hash, peers |-> f.peers, sub_files |-> f.sub_files, pieces |-> f.pieces,
                       trackers |-> f.trackers, events |-> n]
              BY <5>1, <6>4
            <7>2. n \in 0..2 BY <5>1
            <7> HIDE DEF n
            <7> QED BY <5>1, <7>1, <7>2
          <6> QED BY <4>1, <6>1, <6>2, <6>3, <6>4
        <5> QED BY <5>1, <5>2 DEF Sent
      <4> QED BY <4>3 DEF f
    <3>3. torrents' \in Seq(Sent) /\ DOMAIN torrents' = DOMAIN torrents BY <1>2, <2>3, <3>2
    <3>4. \A j \in DOMAIN torrents : torrents'[j].hash = torrents[j].hash BY <1>2, <2>3, <3>2
    <3> QED BY <1>2, <3>3, <3>4 DEF OneEach
  <2> QED BY <2>1, <2>2, <2>3 DEF Gui!Change
<1> QED BY <1>1, <1>3, ServerFaithful

LEMMA StepFaithful == WindowInv /\ [Gui!Next]_Gui!vars => WindowInv'
<1> SUFFICES ASSUME WindowInv, [Gui!Next]_Gui!vars PROVE WindowInv' OBVIOUS
<1>1. CASE Gui!OnTimer BY <1>1, TimerFaithful
<1>2. CASE Gui!Change BY <1>2, ChangeFaithful
<1>3. CASE Gui!ShowWindow
  <2>1. UNCHANGED <<torrents, m_files_map, file_rows, m_file, m_bottom_view, rows, fewer, full, fresh>>
    BY <1>3 DEF Gui!ShowWindow, Gui!entries
  <2> QED BY <2>1, StillFaithful
<1>4. CASE Gui!OnColumnclickPeers BY <1>4, ColumnFaithful
<1>5. ASSUME NEW id \in DOMAIN m_files_map, Gui!OnItemchangedFiles(id) PROVE WindowInv' BY <1>5, ItemFaithful
<1>6. ASSUME NEW v \in Gui!Views, Gui!set_bottom_view(v) PROVE WindowInv' BY <1>6, ViewFaithful
<1>7. ASSUME NEW S, Gui!OnFileClose(S) PROVE WindowInv'
  <2>1. /\ fresh' = FALSE /\ UNCHANGED Gui!entries
        /\ torrents' = Gui!left_at(torrents, {k \in DOMAIN torrents : \A id \in S : torrents[k].hash # m_files_map[id].hash})
    BY <1>7 DEF Gui!OnFileClose
  <2>2. torrents' \in Seq(Sent) /\ OneEach(torrents') BY <2>1, LeftFaithful
  <2> QED BY <2>1, <2>2, ServerFaithful
<1>8. CASE UNCHANGED Gui!vars
  <2>1. UNCHANGED <<torrents, m_files_map, file_rows, m_file, m_bottom_view, rows, fewer, full, fresh>>
    BY <1>8 DEF Gui!vars
  <2> QED BY <2>1, StillFaithful
<1> QED BY <1>1, <1>2, <1>3, <1>4, <1>5, <1>6, <1>7, <1>8 DEF Gui!Next

LEMMA InvFaithful == WindowInv => WindowFaithful
<1> SUFFICES ASSUME WindowInv PROVE WindowFaithful OBVIOUS
<1> DEFINE f == m_files_map[m_file]
           here == Gui!items(f, m_bottom_view)
<1>1. /\ m_files_map \in Maps(Entry) /\ OneEach(m_files_map) /\ file_rows = DOMAIN m_files_map
      /\ m_file \in DOMAIN m_files_map \cup {Gui!None} /\ fewer \in BOOLEAN
      /\ (m_file = Gui!None => rows = <<>>)
      /\ (m_file # Gui!None => Fits(f, m_bottom_view, rows, fewer))
      /\ m_bottom_view \in Gui!Views
  BY DEF WindowInv, Good, Gui!window
<1>2. \A i \in DOMAIN m_files_map : m_files_map[i] \in Entry BY <1>1, MapFacts
<1>3. ASSUME m_file # Gui!None, ~fewer
      PROVE  \E U : /\ Shows(rows, U) /\ (U \subseteq here \/ (m_bottom_view \in {"files", "pieces"} /\ here = {}))
                    /\ (m_bottom_view # "pieces" => here \subseteq U)
  <2>1. f \in Entry BY <1>1, <1>2, <1>3
  <2>2. f.sub_files \in {0, 2} /\ f.pieces \in {0, 2} /\ f.trackers \in Nat /\ f.events \in Nat BY <2>1 DEF Entry
  <2>3. Fits(f, m_bottom_view, rows, fewer) BY <1>1, <1>3
  <2> HIDE DEF f
  <2>4. CASE m_bottom_view = "details"
    <3>1. rows = Gui!upto(1) /\ here = 0..(1 - 1) BY <2>3, <2>4 DEF Fits, Gui!items
    <3>2. Shows(rows, here) BY <3>1, Counting
    <3> QED BY <3>2
  <2>5. CASE m_bottom_view = "trackers"
    <3>1. rows = Gui!upto(f.trackers) /\ here = 0..(f.trackers - 1) BY <2>3, <2>5 DEF Fits, Gui!items
    <3>2. Shows(rows, here) BY <2>2, <3>1, Counting
    <3> QED BY <3>2
  <2>6. CASE m_bottom_view = "peers"
    <3>1. Shows(rows, here) BY <2>3, <2>6 DEF Fits, Gui!items
    <3> QED BY <3>1
  <2>7. CASE m_bottom_view = "events"
    <3>1. Shows(rows, here) BY <1>3, <2>3, <2>7 DEF Fits, Gui!items
    <3> QED BY <3>1
  <2>8. CASE m_bottom_view = "files"
    <3>1. /\ Shows(rows, 0..(Len(rows) - 1)) /\ Len(rows) \in {0, 2} /\ f.sub_files <= Len(rows)
          /\ here = 0..(f.sub_files - 1)
      BY <2>3, <2>8 DEF Fits, Gui!items
    <3>2. here = {} \/ here = 0..(Len(rows) - 1)
      <4>1. CASE f.sub_files = 0 BY <3>1, <4>1
      <4>2. CASE f.sub_files = 2
        <5>1. Len(rows) = 2 BY <3>1, <4>2
        <5> QED BY <3>1, <4>2, <5>1
      <4> QED BY <2>2, <4>1, <4>2
    <3> QED BY <2>8, <3>1, <3>2
  <2>9. CASE m_bottom_view = "pieces"
    <3>1. Shows(rows, 0..(Len(rows) - 1)) /\ Len(rows) \in {0, 2} /\ here = 0..(f.pieces - 1)
      BY <2>3, <2>9 DEF Fits, Gui!items
    <3>2. here = {} \/ 0..(Len(rows) - 1) \subseteq here
      <4>1. CASE f.pieces = 0 BY <3>1, <4>1
      <4>2. CASE f.pieces = 2
        <5>1. here = 0..(2 - 1) BY <3>1, <4>2
        <5>2. CASE Len(rows) = 0 BY <5>2
        <5>3. CASE Len(rows) = 2 BY <5>1, <5>3
        <5> QED BY <3>1, <5>2, <5>3
      <4> QED BY <2>2, <4>1, <4>2
    <3> QED BY <2>9, <3>1, <3>2
  <2> QED BY <1>1, <2>4, <2>5, <2>6, <2>7, <2>8, <2>9 DEF Gui!Views
<1>4. ASSUME m_file # Gui!None, ~fewer
      PROVE  /\ {rows[i] : i \in DOMAIN rows} \subseteq here \/ (m_bottom_view \in {"files", "pieces"} /\ here = {})
             /\ m_bottom_view # "pieces" =>
                  here \subseteq {rows[i] : i \in DOMAIN rows} /\ \A i, j \in DOMAIN rows : rows[i] = rows[j] => i = j
  <2>1. PICK U : /\ Shows(rows, U) /\ (U \subseteq here \/ (m_bottom_view \in {"files", "pieces"} /\ here = {}))
                 /\ (m_bottom_view # "pieces" => here \subseteq U)
    BY <1>3, <1>4
  <2> HIDE DEF here
  <2>2. {rows[i] : i \in DOMAIN rows} = U BY <2>1 DEF Shows
  <2> QED BY <2>1, <2>2 DEF Shows, Distinct
<1>5. Gui!RowsHaveItems
  <2>1. m_file = Gui!None \/ fewer
          \/ {rows[i] : i \in DOMAIN rows} \subseteq here \/ (m_bottom_view \in {"files", "pieces"} /\ here = {})
    BY <1>4
  <2> QED BY <1>1, <2>1 DEF Gui!RowsHaveItems
<1>6. Gui!SameAsServer
  <2>1. \A i, j \in DOMAIN m_files_map : m_files_map[i].hash = m_files_map[j].hash => i = j BY <1>1 DEF OneEach
  <2>2. fresh => {m_files_map[i].hash : i \in DOMAIN m_files_map} = Gui!hashes BY DEF WindowInv, SameHashes
  <2>3. ASSUME fresh, full, NEW i \in DOMAIN m_files_map, NEW k \in DOMAIN torrents,
               m_files_map[i].hash = torrents[k].hash
        PROVE  LET shown == m_files_map[i].peers
               IN /\ torrents[k].peers = {shown[p] : p \in DOMAIN shown}
                  /\ \A p, q \in DOMAIN shown : shown[p] = shown[q] => p = q
    <3>1. torrents[k].peers = {m_files_map[i].peers[p] : p \in DOMAIN m_files_map[i].peers}
      BY <2>3 DEF WindowInv, SamePeers
    <3>2. m_files_map[i].peers \in KnownPeers BY <1>2 DEF Entry
    <3> QED BY <3>1, <3>2 DEF KnownPeers, Distinct
  <2> QED BY <1>4, <2>1, <2>2, <2>3 DEF Gui!SameAsServer
<1> QED BY <1>5, <1>6 DEF WindowFaithful

\* After any changes of the server, any snapshots and whatever the user does, a row of the window
\* has its item, and after a snapshot the window shows what the server has.
THEOREM WindowIsFaithful == Gui!Spec => []WindowFaithful
<1>1. Gui!Spec => []WindowInv BY InitFaithful, StepFaithful, PTL DEF Gui!Spec
<1> QED BY <1>1, InvFaithful, PTL
===============================================================================
