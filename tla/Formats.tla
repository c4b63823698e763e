-------------------------------- MODULE Formats ---------------------------------
(***************************************************************************)
(* What the XBT Client writes for others to read, field by field: the        *)
(* snapshot of the server for the window (Cserver::dump, Cbt_file::dump and   *)
(* what they call; read_server_dump of src/Client/XBT ClientDlg.cpp) and the  *)
(* file state.bin (save_state, load_state).  Nothing in the bytes tells a     *)
(* field from the next, and the buffer of the writer is of the size another   *)
(* function has computed.                                                   *)
(*                                                                         *)
(* A text is a sequence of fields; a string is its length and its bytes.     *)
(***************************************************************************)
EXTENDS Integers, SequencesExt, FiniteSetsExt

CONSTANTS
  StringSize, \* of every string and of the info
  Lists,      \* of torrents that are written
  Alerts,     \* how many of the server's alerts there may be
  FlagSets    \* what a snapshot may carry

VARIABLES
  input, \* what is written: a snapshot or a state.bin, of which torrents
  text,  \* what has been written of it
  r      \* what its reader has left of the text, and whether it was right so far

vars == <<input, text, r>>

Fields(cb, names) == [i \in DOMAIN names |-> [field |-> names[i], cb |-> cb]]
ints(names) == Fields(4, names)
string(name) == <<[field |-> <<name, "size">>, cb |-> 4], [field |-> name, cb |-> StringSize]>>
strings(names) == FlattenSeq([i \in DOMAIN names |-> string(names[i])])
times(n, fields) == FlattenSeq([i \in 1..n |-> fields])
size(fields) ==
  MapThenSumSet(LAMBDA cb : cb * Cardinality({i \in DOMAIN fields : fields[i].cb = cb}),
                {fields[i].cb : i \in DOMAIN fields})

\* What is written of a torrent: how many trackers, peers, alerts, sub files and old peers it has,
\* whether its info is known, and its piece, which is valid, has none of its chunks, or keeps a
\* flag for each.
chunk_flags(t) == IF t.piece.state = "some" THEN t.piece.chunks ELSE 0
pieces(t) == IF t.info THEN 1 ELSE 0
sub_files(t) == IF t.info THEN t.sub_files + 1 ELSE 0

-----------------------------------------------------------------------------
(* The snapshot.                                                           *)

piece_dump ==
  Fields(1, <<"chunks_invalid", "chunks_valid">>) \o ints(<<"peers">>) \o Fields(1, <<"priority">>)
  \o ints(<<"rank">>) \o Fields(1, <<"valid">>)
sub_file_dump ==
  Fields(8, <<"left">>) \o string("name") \o ints(<<"priority">>) \o Fields(8, <<"size">>)
  \o string("merkle_hash")
alert_dump == ints(<<"time", "level">>) \o strings(<<"message", "source">>)
peer_dump ==
  ints(<<"host", "port">>) \o string("remote_peer_id") \o Fields(8, <<"downloaded", "left", "uploaded">>)
  \o ints(<<"down_rate", "up_rate">>) \o Fields(1, <<"local_link", "local_choked", "local_interested">>)
  \o ints(<<"local_requests">>) \o Fields(1, <<"remote_choked", "remote_interested">>)
  \o ints(<<"remote_requests", "ctime", "rtime", "stime">>) \o string("debug")
\* Its bytes, as pre_dump of each counts them.
piece_pre_dump == 12
sub_file_pre_dump == 2 * StringSize + 28
alert_pre_dump == 2 * StringSize + 16
peer_pre_dump == 2 * StringSize + 73

numbers ==
  Fields(8, <<"downloaded", "downloaded_l5", "left", "size", "uploaded", "uploaded_l5",
              "total_downloaded", "total_uploaded">>)
  \o ints(<<"down_rate", "up_rate", "leechers", "seeders", "leechers_total", "seeders_total",
            "invalid_chunks", "invalid_pieces", "rejected_chunks", "rejected_pieces",
            "valid_chunks", "valid_pieces", "cb_chunk", "cb_piece", "state", "started_at",
            "session_started_at", "completed_at", "distributed_copies",
            "distributed_copies_remainder", "priority", "allow_end_mode", "seeding_ratio",
            "seeding_ratio_override", "seeding_ratio_reached_at", "upload_slots_max",
            "upload_slots_max_override", "upload_slots_min", "upload_slots_min_override",
            "last_chunk_downloaded_at", "last_chunk_uploaded_at">>)
list(flags, flag, name, n, fields) ==
  ints(<<name>>) \o IF flag \in flags THEN times(n, fields) ELSE <<>>
file_dump(t, flags) ==
  strings(<<"info_hash", "name">>)
  \o list(flags, "trackers", "c_trackers", t.trackers, string("url"))
  \o numbers
  \o list(flags, "peers", "c_peers", t.peers, peer_dump)
  \o list(flags, "alerts", "c_alerts", t.alerts, alert_dump)
  \o list(flags, "files", "c_files", sub_files(t), sub_file_dump)
  \o list(flags, "pieces", "c_pieces", pieces(t), piece_dump)
part_always(flags, flag, n) == n
part(flags, flag, n) == IF flag \in flags THEN n ELSE 0
file_pre_dump_fixed == 2 * StringSize + 216
file_pre_dump(t, flags) ==
  file_pre_dump_fixed
  + part(flags, "trackers", t.trackers * (StringSize + 4)) + part(flags, "peers", t.peers * peer_pre_dump)
  + part(flags, "alerts", t.alerts * alert_pre_dump)
  + part(flags, "files", sub_files(t) * sub_file_pre_dump)
  + part(flags, "pieces", pieces(t) * piece_pre_dump)

dump(ts, alerts, flags) ==
  ints(<<"c_alerts">>) \o times(alerts, alert_dump)
  \o ints(<<"c_files">>) \o FlattenSeq([i \in DOMAIN ts |-> file_dump(ts[i], flags)])
  \o ints(<<"start_time">>)
pre_dump(ts, alerts, flags) ==
  12 + alerts * alert_pre_dump
  + FoldLeft(LAMBDA n, t : n + file_pre_dump(t, flags), 0, ts)

-----------------------------------------------------------------------------
(* Reading it.  A reader sr takes fields from the text as it goes.  It fails  *)
(* at a field that is not the one it takes it for; the counts it takes from   *)
(* the text are those the writer meant, as its fields have been right so far. *)

take(sr, fields) ==
  IF sr.ok /\ IsPrefix(fields, sr.left)
  THEN [sr EXCEPT !.left = SubSeq(@, Len(fields) + 1, Len(@))] ELSE [sr EXCEPT !.ok = FALSE]
take_all(sr, parts) == FoldLeft(take, sr, parts)

read_event == ints(<<"time", "level">>) \o strings(<<"message", "source">>)
read_sub_file ==
  Fields(8, <<"left">>) \o string("name") \o ints(<<"priority">>) \o Fields(8, <<"size">>)
  \o string("merkle_hash")
read_piece ==
  Fields(1, <<"chunks_invalid", "chunks_valid">>) \o ints(<<"peers">>) \o Fields(1, <<"priority">>)
  \o ints(<<"rank">>) \o Fields(1, <<"valid">>)
read_peer_dump ==
  ints(<<"host", "port">>) \o string("remote_peer_id") \o Fields(8, <<"downloaded", "left", "uploaded">>)
  \o ints(<<"down_rate", "up_rate">>) \o Fields(1, <<"local_link", "local_choked", "local_interested">>)
  \o ints(<<"local_requests">>) \o Fields(1, <<"remote_choked", "remote_interested">>)
  \o ints(<<"remote_requests", "ctime", "rtime", "stime">>) \o string("debug")
read_numbers ==
  Fields(8, <<"downloaded", "downloaded_l5", "left", "size", "uploaded", "uploaded_l5",
              "total_downloaded", "total_uploaded">>)
  \o ints(<<"down_rate", "up_rate", "leechers", "seeders", "leechers_total", "seeders_total",
            "invalid_chunks", "invalid_pieces", "rejected_chunks", "rejected_pieces",
            "valid_chunks", "valid_pieces", "cb_chunk", "cb_piece", "state", "started_at",
            "session_started_at", "completed_at", "distributed_copies",
            "distributed_copies_remainder", "priority", "allow_end_mode", "seeding_ratio",
            "seeding_ratio_override", "seeding_ratio_reached_at", "upload_slots_max",
            "upload_slots_max_override", "upload_slots_min", "upload_slots_min_override",
            "last_chunk_downloaded_at", "last_chunk_uploaded_at">>)
counted(name, n, fields) == <<ints(<<name>>), times(n, fields)>>
read_file_dump(sr, t, flags) ==
  take_all(sr, <<strings(<<"info_hash", "name">>)>>
    \o counted("c_trackers", part(flags, "trackers", t.trackers), string("url")) \o <<read_numbers>>
    \o counted("c_peers", part(flags, "peers", t.peers), read_peer_dump)
    \o counted("c_alerts", part(flags, "alerts", t.alerts), read_event)
    \o counted("c_files", part(flags, "files", sub_files(t)), read_sub_file)
    \o counted("c_pieces", part(flags, "pieces", pieces(t)), read_piece))
read_server_dump(sr, ts, alerts, flags) ==
  LET events == take_all(sr, counted("c_alerts", alerts, read_event) \o <<ints(<<"c_files">>)>>)
      files == FoldLeft(LAMBDA x, t : read_file_dump(x, t, flags), events, ts)
  IN take(files, ints(<<"start_time">>))

-----------------------------------------------------------------------------
(* state.bin.                                                              *)

saved_piece(t) == Fields(1, <<"state">>) \o times(chunk_flags(t), Fields(1, <<"valid">>))
piece_pre_save_state(t) == IF t.piece.state = "some" THEN t.piece.chunks + 1 ELSE 1
info(t) ==
  IF t.info THEN string("info")
  ELSE <<[field |-> <<"info", "size">>, cb |-> 4]>> \o string("info_hash")
save_file(t) ==
  ints(<<"c_trackers">>) \o times(t.trackers, string("url")) \o info(t) \o string("name")
  \o Fields(8, <<"total_downloaded", "total_uploaded">>)
  \o ints(<<"validate", "completed_at", "started_at">>) \o Fields(1, <<"priority">>)
  \o ints(<<"state", "rejected_chunks", "rejected_pieces", "seeding_ratio",
            "seeding_ratio_override", "c_pieces">>)
  \o times(pieces(t), saved_piece(t)) \o times(sub_files(t), Fields(1, <<"sub_file_priority">>))
  \o ints(<<"c_peers">>) \o times(t.old_peers, ints(<<"host", "port">>))
  \o ints(<<"upload_slots_max", "upload_slots_max_override", "upload_slots_min",
            "upload_slots_min_override", "seeding_ratio_reached_at">>)
  \o <<[field |-> "unused", cb |-> 44]>>
pre_save_fixed == 133
pre_save_state(t) ==
  pre_save_fixed + (IF t.info THEN StringSize ELSE StringSize + 4) + StringSize
  + sub_files(t) + 8 * t.old_peers + t.trackers * (StringSize + 4)
  + pieces(t) * piece_pre_save_state(t)
save_state(ts) == ints(<<"version", "c_files">>) \o FlattenSeq([i \in DOMAIN ts |-> save_file(ts[i])])
pre_save(ts) == 8 + FoldLeft(LAMBDA n, t : n + pre_save_state(t), 0, ts)

load_piece(t) == <<Fields(1, <<"state">>), times(chunk_flags(t), Fields(1, <<"valid">>))>>
load_file(sr, t) ==
  take_all(sr, counted("c_trackers", t.trackers, string("url")) \o <<info(t), string("name"),
      Fields(8, <<"total_downloaded", "total_uploaded">>),
      ints(<<"validate", "completed_at", "started_at">>), Fields(1, <<"priority">>),
      ints(<<"state", "rejected_chunks", "rejected_pieces", "seeding_ratio",
             "seeding_ratio_override", "c_pieces">>)>>
    \o (IF t.info THEN load_piece(t) ELSE <<>>)
    \o <<times(sub_files(t), Fields(1, <<"sub_file_priority">>))>>
    \o counted("c_peers", t.old_peers, ints(<<"host", "port">>))
    \o <<ints(<<"upload_slots_max", "upload_slots_max_override", "upload_slots_min",
                "upload_slots_min_override", "seeding_ratio_reached_at">>),
         <<[field |-> "unused", cb |-> 44]>>>>)
load_state(sr, ts) == FoldLeft(load_file, take(sr, ints(<<"version", "c_files">>)), ts)

-----------------------------------------------------------------------------
(* What is written is read: a snapshot by the window, a state.bin by the    *)
(* process that comes next.                                                *)

counted_size ==
  IF input.what = "snapshot" THEN pre_dump(input.ts, input.alerts, input.flags) ELSE pre_save(input.ts)
write ==
  /\ text = <<>>
  /\ text' = IF input.what = "snapshot" THEN dump(input.ts, input.alerts, input.flags)
             ELSE save_state(input.ts)
  /\ r' = [left |-> text', ok |-> TRUE] /\ UNCHANGED input
read ==
  /\ text # <<>> /\ r.left = text
  /\ r' = IF input.what = "snapshot" THEN read_server_dump(r, input.ts, input.alerts, input.flags)
          ELSE load_state(r, input.ts)
  /\ UNCHANGED <<input, text>>

Init ==
  /\ input \in [what : {"snapshot"}, ts : Lists, alerts : Alerts, flags : FlagSets]
                \cup [what : {"state"}, ts : Lists]
  /\ text = <<>> /\ r = [left |-> <<>>, ok |-> TRUE]
Next == write \/ read
Spec == Init /\ [][Next]_vars

-----------------------------------------------------------------------------
\* The assertions of get_status and save_state, and that of load_state: the bytes written are as
\* many as were counted before, and the reader takes every field for what it is, to the end.
WrittenIsRead ==
  /\ text # <<>> => size(text) = counted_size
  /\ r.ok /\ r.left \in {<<>>, text}
===============================================================================
