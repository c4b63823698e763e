-------------------------------- MODULE MCServer --------------------------------
(* Small instances of what the XBT Client keeps as a whole, in one run of TLC:  *)
(* its torrents, the schedule of its profiles, its window, the formats these    *)
(* exchange, the trees its settings are kept in, and the values a torrent is    *)
(* made of.  Which one it is, is chosen at the start.                           *)
EXTENDS ServerParts

VARIABLES
  part,
  input, text, r,                                                                              \* Formats
  origin, texts, m_value,                                                                      \* Bencode
  m_root, file, kept, loaded, tree_edits                                                       \* KeyFile

\* Torrents of one size, and tasks that take turns within a few seconds.
OneBlock == [t \in Torrents |-> 1]
Short == <<2, 3, 4, 5>>

\* Torrents that have two of something, of everything or of nothing.
Parts == {"trackers", "peers", "alerts", "files", "pieces"}
torrent(two, info, piece) ==
  LET n(what) == IF what \in two THEN 2 ELSE 0
  IN [info |-> info, trackers |-> n("trackers"), peers |-> n("peers"), alerts |-> n("alerts"),
      sub_files |-> n("files"), old_peers |-> n("peers"), piece |-> piece]
Pieces == {[state |-> s, chunks |-> 3] : s \in {"none", "some", "valid"}}
Written ==
  {torrent(two, info, piece) :
     two \in {{}, Parts} \cup {{p} : p \in Parts}, info \in BOOLEAN, piece \in Pieces}
Big == torrent(Parts, TRUE, [state |-> "some", chunks |-> 3])
Text == INSTANCE Formats WITH
  StringSize <- 3, Lists <- {<<>>, <<Big, Big>>} \cup {<<t>> : t \in Written},
  Alerts <- {0, 2}, FlagSets <- {{}, Parts} \cup {{p} : p \in Parts}

\* Values of every type in every other, keys one of which is the beginning of another, and numbers of
\* two digits; every text of up to four of these tokens, and dictionaries nobody would write: with keys
\* in any order, or twice, or with something behind them, or with numbers that begin with zeros.
a == <<97>>
Simple == {[int |-> n] : n \in {-1, 0, 10}} \cup {[string |-> s] : s \in {<<>>, a, [i \in 1..10 |-> 97]}}
Empty == {[list |-> <<>>], [dict |-> <<>>]}
Built ==
  Simple \cup Empty
  \cup {[list |-> <<v, w>>] : v, w \in Simple \cup Empty}
  \cup {[dict |-> [k \in {<<>>, a, a \o a, <<98>>} |-> IF k = a THEN v ELSE w]] : v, w \in Simple \cup Empty}
number(n, digits) == [number |-> n, digits |-> digits]
bytes(s, digits) == [bytes |-> s, digits |-> digits]
mark(c) == [mark |-> c]
Tokens == {mark("list"), mark("dict"), mark("end"), number(7, 1), number(0, 2), bytes(<<>>, 1), bytes(a, 3), [junk |-> TRUE]}
Keys == {bytes(<<>>, 1), bytes(a, 1), bytes(a, 2), bytes(a \o a, 1), bytes(<<98>>, 1)}
Foreign ==
  UNION {[1..n -> Tokens] : n \in 0..4}
  \cup {<<mark("dict"), k>> \o v \o <<l>> \o w \o <<mark("end")>> \o behind :
          k, l \in Keys, v, w \in {<<number(0, 3)>>, <<mark("dict"), mark("end")>>}, behind \in {<<>>, <<mark("end")>>}}
Coded == INSTANCE Bencode WITH Values <- Built, Texts <- Foreign

\* Trees of ints and texts, one of four bytes that could be either.
Tree == INSTANCE KeyFile WITH
  Ids <- {1, 3}, Numbers <- {<<1, 0, 0, 0>>, <<97, 97, 97, 0>>}, Texts <- {<<>>, a}, MaxEdits <- 2, edits <- tree_edits

schedule == <<m_profiles, m_scheduler, profiles_file, scheduler_file, now, last_run, limit, edit,
              running, in_force, gap, asked, edits>>
gui == <<torrents, m_files_map, file_rows, m_file, m_bottom_view, rows, visible, changes, fewer, full, fresh>>
formats == <<input, text, r>>
values == <<origin, texts, m_value>>
tree == <<m_root, file, kept, loaded, tree_edits>>
all == <<part, vars, schedule, gui, formats, values, tree>>

\* All instances start; those that are not chosen never move.
InitServer ==
  /\ part \in {"server", "schedule", "gui", "formats", "values", "tree"}
  /\ Init /\ torrent_limit = 1
  /\ Schedule!Init /\ (part = "schedule" \/ profiles_file = Schedule!Empty)
  /\ Gui!Init /\ (part = "gui" \/ m_bottom_view = "peers")
  /\ Text!Init /\ (part = "formats" \/ input = [what |-> "state", ts |-> <<>>])
  /\ IF part = "values" THEN Coded!Init
     ELSE origin = [elsewhere |-> TRUE] /\ texts = <<<<>>>> /\ m_value = Coded!None
  /\ Tree!Init
NextServer ==
  \/ part = "server" /\ Next /\ UNCHANGED <<part, schedule, gui, formats, values, tree>>
  \/ part = "schedule" /\ Schedule!Next /\ UNCHANGED <<part, vars, gui, formats, values, tree>>
  \/ part = "gui" /\ Gui!Next /\ UNCHANGED <<part, vars, schedule, formats, values, tree>>
  \/ part = "formats" /\ Text!Next /\ UNCHANGED <<part, vars, schedule, gui, values, tree>>
  \/ part = "values" /\ Coded!Next /\ UNCHANGED <<part, vars, schedule, gui, formats, tree>>
  \/ part = "tree" /\ Tree!Next /\ UNCHANGED <<part, vars, schedule, gui, formats, values>>

\* The fairness of Server.
SpecServer == InitServer /\ [][NextServer]_all /\ (part = "server" => Goes_on)

\* The properties of the instances; those of Server, its schedule and its window are stated there.
ServerMoves == part = "server" => Moves
TextsRead == Text!WrittenIsRead /\ (part = "values" => Coded!HashKept) /\ (part = "tree" => Tree!KeysKept)
================================================================================
