-------------------------------- MODULE Bencode ---------------------------------
(***************************************************************************)
(* The bencoded values of src/misc/bvalue.cpp: torrents, the info of a        *)
(* torrent, the answers of trackers and the requests of controllers.  The     *)
(* hash that names a torrent is that of its info as Cbvalue writes it          *)
(* (Cbt_file::info), not of the bytes that came; and the info goes to other    *)
(* peers, and into state.bin, as it was written then.                        *)
(*                                                                         *)
(* A text is a sequence of tokens: the marks that begin a list or a dictionary *)
(* and end either, whole numbers, whole strings, and what begins none of them. *)
(* In the source `write' parses a text into a value and `read' produces the    *)
(* text of one; so here.  Numbers too large for their type are left out.      *)
(***************************************************************************)
EXTENDS Integers, SequencesExt

CONSTANTS
  Values, \* that the program builds
  Texts   \* that come from elsewhere

VARIABLES
  origin, \* of the first text: the program, of which value; the program, but cut short; or elsewhere
  texts,  \* the text that came, and those that were produced after it in turn
  m_value \* what the last of them was parsed into, None before

vars == <<origin, texts, m_value>>

None == [none |-> TRUE]

\* The types of a value; what clear leaves is an integer nobody has set.
Integer(n)  == [int |-> n]
String(s)   == [string |-> s]
ListOf(seq) == [list |-> seq]
DictOf(map) == [dict |-> map]
Nothing     == [nothing |-> TRUE]
is(v, type) == type \in DOMAIN v

\* The tokens.  The number, or the length of the string, is written with so many digits.
Mark(c)           == [mark |-> c]
Number(n, digits) == [number |-> n, digits |-> digits]
Bytes(s, digits)  == [bytes |-> s, digits |-> digits]
Junk              == [junk |-> TRUE]

\* Cbvalue::d and Cbvalue::l: an entry put into v, which becomes a dictionary, or a list, if it is none.
put(v, key, w) ==
  LET map == IF is(v, "dict") THEN v.dict ELSE <<>>
  IN DictOf([k \in DOMAIN map \cup {key} |-> IF k = key THEN w ELSE map[k]])
append(v, w) == ListOf(IF is(v, "list") THEN Append(v.list, w) ELSE <<w>>)

-----------------------------------------------------------------------------
(* From a text to a value.                                                 *)

\* What write returns: whether there is a value, the value, and the tokens it has not looked at.
refused == [ok |-> FALSE]
taken(v, rest) == [ok |-> TRUE, v |-> v, rest |-> rest]

RECURSIVE write(_), rest_of_list(_, _), rest_of_dict(_, _)
rest_of_list(v, s) ==
  IF s = <<>> THEN refused
  ELSE IF Head(s) = Mark("end") THEN taken(v, Tail(s))
  ELSE LET i == write(s) IN IF i.ok THEN rest_of_list(append(v, i.v), i.rest) ELSE refused
rest_of_dict(v, s) ==
  IF s = <<>> THEN refused
  ELSE IF Head(s) = Mark("end") THEN taken(v, Tail(s))
  ELSE LET key == write(s)
           w == write(key.rest)
       IN IF key.ok /\ is(key.v, "string") /\ w.ok
          THEN rest_of_dict(put(v, key.v.string, w.v), w.rest) ELSE refused
write(s) ==
  IF s = <<>> THEN refused
  ELSE CASE is(Head(s), "bytes")      -> taken(String(Head(s).bytes), Tail(s))
         [] is(Head(s), "number")     -> taken(Integer(Head(s).number), Tail(s))
         [] Head(s) = Mark("list")    -> rest_of_list(ListOf(<<>>), Tail(s))
         [] Head(s) = Mark("dict")    -> rest_of_dict(DictOf(<<>>), Tail(s))
         [] OTHER                     -> refused

\* Cbvalue(data_ref): what stands behind the value is not looked at.
Cbvalue(s) == IF write(s).ok THEN write(s).v ELSE Nothing

-----------------------------------------------------------------------------
(* From a value to a text.                                                 *)

\* The characters of a number in decimal, a sign included.
unsigned[n \in Nat] == IF n < 10 THEN 1 ELSE 1 + unsigned[n \div 10]
characters(n) == IF n < 0 THEN 1 + unsigned[-n] ELSE unsigned[n]
string(s) == Bytes(s, characters(Len(s)))

\* The order of std::map.
less(a, b) ==
  \/ IsStrictPrefix(a, b)
  \/ \E i \in DOMAIN a \cap DOMAIN b : a[i] < b[i] /\ SubSeq(a, 1, i - 1) = SubSeq(b, 1, i - 1)
keys(v) == SetToSortSeq(DOMAIN v.dict, less)

RECURSIVE read(_), pre_read(_)
read(v) ==
  CASE is(v, "int")    -> <<Number(v.int, characters(v.int))>>
    [] is(v, "string") -> <<string(v.string)>>
    [] is(v, "list")   ->
         <<Mark("list")>> \o FlattenSeq([i \in DOMAIN v.list |-> read(v.list[i])]) \o <<Mark("end")>>
    [] is(v, "dict")   ->
         <<Mark("dict")>> \o FlattenSeq([i \in DOMAIN keys(v) |-> <<string(keys(v)[i])>> \o read(v.dict[keys(v)[i]])])
         \o <<Mark("end")>>

\* The bytes of the buffer read writes into, and those it writes.
pre_read(v) ==
  CASE is(v, "int")    -> characters(v.int) + 2
    [] is(v, "string") -> characters(Len(v.string)) + Len(v.string) + 1
    [] is(v, "list")   -> FoldLeft(LAMBDA n, w : n + pre_read(w), 2, v.list)
    [] is(v, "dict")   ->
         FoldLeft(LAMBDA n, k : n + characters(Len(k)) + Len(k) + pre_read(v.dict[k]) + 1, 2, keys(v))
bytes(t) ==
  CASE is(t, "mark")   -> 1
    [] is(t, "number") -> t.digits + 2
    [] is(t, "bytes")  -> t.digits + 1 + Len(t.bytes)
written(s) == FoldLeft(LAMBDA n, t : n + bytes(t), 0, s)

-----------------------------------------------------------------------------
\* A text that was cut short ends between two tokens, or inside of one.
shortened(s) ==
  {SubSeq(s, 1, n - 1) : n \in DOMAIN s}
  \cup {Append(SubSeq(s, 1, n - 1), Junk) : n \in {n \in DOMAIN s : ~is(s[n], "mark")}}
Init ==
  /\ m_value = None
  /\ \/ \E v \in Values : origin = [own |-> v] /\ texts = <<read(v)>>
     \/ origin = [cut |-> TRUE] /\ \E v \in Values : \E s \in shortened(read(v)) : texts = <<s>>
     \/ origin = [elsewhere |-> TRUE] /\ \E s \in Texts : texts = <<s>>

\* A text that came, from a file or a peer, is parsed.
Parse == m_value = None /\ m_value' = Cbvalue(Last(texts)) /\ UNCHANGED <<origin, texts>>
\* The value is produced again: for state.bin, for another peer and for the hash.
\* (What was refused is not: a value without a name is no info.)
Produce ==
  /\ m_value \notin {None, Nothing} /\ Len(texts) < 3
  /\ texts' = Append(texts, read(m_value)) /\ m_value' = None
  /\ UNCHANGED origin

Next == Parse \/ Produce

\* What the program built is read back as it was, and produced again as it was; from a text cut
\* anywhere nothing is taken, and whatever came is, once it has been produced, produced the same for
\* ever, in the bytes that were counted for it: a torrent that is saved, sent to a peer or opened
\* again keeps its hash (Cbvalue::write, read, pre_read; Cbt_file::info).
HashKept ==
  /\ m_value \notin {None, Nothing} => pre_read(m_value) = written(read(m_value))
  /\ is(origin, "own") => m_value \in {None, origin.own} /\ \A i \in DOMAIN texts : texts[i] = texts[1]
  /\ is(origin, "cut") => m_value \in {None, Nothing}
  /\ Len(texts) > 1 => m_value # Nothing
  /\ Len(texts) = 3 => texts[3] = texts[2]
================================================================================
