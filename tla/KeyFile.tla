-------------------------------- MODULE KeyFile ---------------------------------
(***************************************************************************)
(* The trees of keys and values in which the profiles and the schedule are    *)
(* kept and handed between the threads (src/misc/xbt/xif_key.h, xif_value.h,  *)
(* xif_key.cpp, xif_value.cpp), their files, and the reader that keeps the    *)
(* order of the file (xif_key_r.cpp).  A key has keys and values, each under   *)
(* an id; the file has the ids as the differences from one to the next.       *)
(*                                                                         *)
(* A file is a header and a body of fields of some bytes; the body is packed,  *)
(* and unpacked as a whole or not at all.                                     *)
(***************************************************************************)
EXTENDS Integers, SequencesExt, FiniteSetsExt

CONSTANTS
  Ids,     \* of keys and values
  Numbers, \* ints, of four bytes each, the first the least
  Texts,   \* sequences of bytes
  MaxEdits \* bound: edits of a tree

VARIABLES
  m_root, \* the tree that is edited
  file,
  kept,   \* history: the tree when the file was written
  loaded, \* what the last reader made of the file
  edits

vars == <<m_root, file, kept, loaded, edits>>

-----------------------------------------------------------------------------
(* Values: a type, and the bytes.                                          *)

Value(type, bytes) == [type |-> type, bytes |-> bytes]
int(n) == Value("int32", n)
bin(n) == Value("bin32", n)
real(n) == Value("float", n)
string(s) == Value("string", Append(s, 0))
binary(s) == Value("binary", s)
NoValue == Value("unknown", <<>>)
AnyValue == {int(n) : n \in Numbers} \cup {real(n) : n \in Numbers} \cup {string(s) : s \in Texts} \cup {binary(s) : s \in Texts}

\* A value that came without a type is a text if it ends with a 0 and has no control characters
\* before, and else an int if it has four bytes.
printable(c) == c = 9 \/ c >= 32
get_type(v) ==
  IF v.type # "unknown" THEN v.type
  ELSE IF v.bytes = <<>> THEN "binary"
  ELSE IF Last(v.bytes) = 0 /\ \A i \in 1..Len(v.bytes) - 1 : printable(v.bytes[i]) THEN "string"
  ELSE IF Len(v.bytes) = 4 THEN "int32" ELSE "binary"
idata(v) == get_type(v) \in {"bin32", "float", "int32"}
get_size(v) == IF idata(v) THEN 4 ELSE Len(v.bytes)
\* What the program reads, of a value that has it: an int, of four bytes whatever its type, or a text.
get_int(v) == v.bytes
get_string(v) == Front(v.bytes)

-----------------------------------------------------------------------------
(* Keys.                                                                   *)

Empty == [i \in {} |-> NoValue]
Key(keys, values) == [keys |-> keys, values |-> values]
NoKey == Key(Empty, Empty)
with(map, id, x) == [i \in DOMAIN map \cup {id} |-> IF i = id THEN x ELSE map[i]]
without(map, id) == [i \in DOMAIN map \ {id} |-> map[i]]
set_key(key, id, k) == [key EXCEPT !.keys = with(@, id, k)]
set_value(key, id, v) == [key EXCEPT !.values = with(@, id, v)]
open_key_edit(key, id) == IF id \in DOMAIN key.keys THEN key.keys[id] ELSE NoKey
get_key(key, id) == open_key_edit(key, id)
get_value(key, id) == IF id \in DOMAIN key.values THEN key.values[id] ELSE NoValue
delete_key(key, id) == [key EXCEPT !.keys = without(@, id)]
delete_value(key, id) == [key EXCEPT !.values = without(@, id)]

\* Cblock_list, a set of addresses: its elements under 0, 1, ... in their order.
load_list(key) == {get_int(get_value(key, i)) : i \in 0..Cardinality(DOMAIN key.values) - 1}
save_list(list) ==
  LET s == SetToSeq(list) IN Key(Empty, [i \in 0..Len(s) - 1 |-> int(s[i + 1])])

-----------------------------------------------------------------------------
(* Writing.                                                                *)

ascending(map) == SetToSortSeq(DOMAIN map, <)
before(ids, i) == IF i = 1 THEN 0 ELSE ids[i - 1]
number(n) == [number |-> n, cb |-> 4]
type(t) == [type |-> t, cb |-> 1]
data(s) == [data |-> s, cb |-> Len(s)]
bytes(fields) == FoldLeft(LAMBDA n, f : n + f.cb, 0, fields)

save_value(v) ==
  <<type(v.type)>>
  \o IF v.type \in {"bin32", "int32", "float"} THEN <<data(v.bytes)>> ELSE <<number(get_size(v)), data(v.bytes)>>
RECURSIVE save(_)
save(key) ==
  LET ks == ascending(key.keys)  vs == ascending(key.values)
  IN <<number(Len(ks))>>
     \o FlattenSeq([i \in DOMAIN ks |-> <<number(ks[i] - before(ks, i))>> \o save(key.keys[ks[i]])])
     \o <<number(Len(vs))>>
     \o FlattenSeq([i \in DOMAIN vs |-> <<number(vs[i] - before(vs, i))>> \o save_value(key.values[vs[i]])])

\* The bytes of the buffer save writes into.
sum(f) == FoldLeft(LAMBDA n, i : n + f[i], 0, ascending(f))
RECURSIVE size(_)
size(key) ==
  8 + sum([i \in DOMAIN key.keys |-> 4 + size(key.keys[i])])
  + sum([i \in DOMAIN key.values |->
           9 + IF get_type(key.values[i]) \in {"bin32", "int32"} THEN 0 ELSE get_size(key.values[i])])

\* vdata: what the buffer has beyond the fields is read like one.
File(version, size_uncompressed, body) ==
  [version |-> version, size_uncompressed |-> size_uncompressed, body |-> body, whole |-> TRUE]
NoFile == [File("none", 0, <<>>) EXCEPT !.whole = FALSE]
vdata(key) ==
  LET s == save(key)
  IN File("fast", size(key), IF size(key) = bytes(s) THEN s ELSE Append(s, [padding |-> TRUE, cb |-> size(key) - bytes(s)]))

\* What the first version wrote: ids as they are, and values without their types.
RECURSIVE save_old(_)
save_old(key) ==
  LET ks == ascending(key.keys)  vs == ascending(key.values)
  IN <<number(Len(ks))>> \o FlattenSeq([i \in DOMAIN ks |-> <<number(ks[i])>> \o save_old(key.keys[ks[i]])])
     \o <<number(Len(vs))>>
     \o FlattenSeq([i \in DOMAIN vs |->
          LET v == key.values[vs[i]] IN <<number(vs[i]), number(get_size(v)), data(v.bytes)>>])

-----------------------------------------------------------------------------
(* Reading: what is read, and the fields behind it.                         *)

\* The first version has a number and the bytes of each value, the others a type, and the number
\* unless the type has four bytes.
read_value(old, s) ==
  IF old THEN LET v == Value("unknown", s[2].data) IN [it |-> Value(get_type(v), v.bytes), rest |-> SubSeq(s, 3, Len(s))]
  ELSE IF Head(s).type \in {"bin32", "int32", "float"}
  THEN [it |-> Value(Head(s).type, s[2].data), rest |-> SubSeq(s, 3, Len(s))]
  ELSE [it |-> Value(Head(s).type, s[3].data), rest |-> SubSeq(s, 4, Len(s))]
\* Keys and values come in pairs with their ids.
RECURSIVE read_key(_, _), read_pairs(_, _, _, _, _, _)
read_key(old, s) ==
  LET ks == read_pairs(old, TRUE, Tail(s), Head(s).number, 0, <<>>)
      vs == read_pairs(old, FALSE, Tail(ks.rest), Head(ks.rest).number, 0, <<>>)
  IN [it |-> Key(ks.pairs, vs.pairs), rest |-> vs.rest]
read_pairs(old, nested, s, count, id, pairs) ==
  IF count = 0 THEN [pairs |-> pairs, rest |-> s]
  ELSE LET now == IF old THEN Head(s).number ELSE id + Head(s).number
           x == IF nested THEN read_key(old, Tail(s)) ELSE read_value(old, Tail(s))
       IN read_pairs(old, nested, x.rest, count - 1, now, Append(pairs, [id |-> now, it |-> x.it]))

\* In the maps of Cxif_key the last with an id is left.
last_of(pairs, id) == pairs[Max({i \in DOMAIN pairs : pairs[i].id = id})].it
ids(pairs) == {pairs[i].id : i \in DOMAIN pairs}
RECURSIVE as_maps(_)
as_maps(read) ==
  Key([id \in ids(read.keys) |-> as_maps(last_of(read.keys, id))],
      [id \in ids(read.values) |-> last_of(read.values, id)])
\* load_key also tells whether the fields end with the file.
load_key(f) ==
  IF ~f.whole THEN [key |-> NoKey, error |-> TRUE]
  ELSE LET r == read_key(f.version = "old", f.body)
       IN [key |-> as_maps(r.it), error |-> r.rest # <<>>]

\* Cxif_key_r keeps the pairs, of which the first with an id is found, and reads no other version.
find(pairs, id) ==
  IF id \notin ids(pairs) THEN NoValue ELSE pairs[Min({i \in DOMAIN pairs : pairs[i].id = id})].it
import(f) ==
  IF f.version # "fast" \/ ~f.whole THEN [key |-> Key(<<>>, <<>>), error |-> TRUE]
  ELSE [key |-> read_key(FALSE, f.body).it, error |-> FALSE]

-----------------------------------------------------------------------------
NotLoaded == [by |-> "none"]
Init == m_root = NoKey /\ file = NoFile /\ kept = NoKey /\ loaded = NotLoaded /\ edits = 0

\* Any edit of the root, or of a key in it.
edited(key) ==
  {set_value(key, id, v) : id \in Ids, v \in AnyValue} \cup {delete_value(key, id) : id \in DOMAIN key.values}
edit ==
  /\ edits < MaxEdits /\ edits' = edits + 1
  /\ m_root' \in edited(m_root) \cup {delete_key(m_root, id) : id \in DOMAIN m_root.keys}
                \cup UNION {{set_key(m_root, id, k) : k \in edited(open_key_edit(m_root, id))} : id \in Ids}
  /\ UNCHANGED <<file, kept, loaded>>
set_block_list ==
  /\ edits = 0 /\ edits' = MaxEdits /\ \E list \in SUBSET Numbers : m_root' = save_list(list)
  /\ UNCHANGED <<file, kept, loaded>>

\* The file is replaced; the end of the program may leave it cut short.
write ==
  /\ file' \in {vdata(m_root), [vdata(m_root) EXCEPT !.whole = FALSE]} /\ kept' = m_root
  /\ loaded' = NotLoaded /\ UNCHANGED <<m_root, edits>>
write_old ==
  /\ file' = File("old", 0, save_old(m_root)) /\ kept' = m_root
  /\ loaded' = NotLoaded /\ UNCHANGED <<m_root, edits>>

load == loaded' = [by |-> "key"] @@ load_key(file) /\ m_root' = loaded'.key /\ UNCHANGED <<file, kept, edits>>
load_r == loaded' = [by |-> "key_r"] @@ import(file) /\ UNCHANGED <<m_root, file, kept, edits>>
Next == edit \/ set_block_list \/ write \/ write_old \/ load \/ load_r

-----------------------------------------------------------------------------
\* What the program reads of a value that was written as an int or a text.
as_before(values, old) ==
  /\ DOMAIN values = DOMAIN old
  /\ \A id \in DOMAIN old :
       /\ old[id].type = "int32" => get_size(values[id]) = 4 /\ get_int(values[id]) = get_int(old[id])
       /\ old[id].type = "string" => get_string(values[id]) = get_string(old[id])
is_list(key) ==
  /\ DOMAIN key.keys = {} /\ DOMAIN key.values = 0..Cardinality(DOMAIN key.values) - 1
  /\ \A id \in DOMAIN key.values : key.values[id].type = "int32"
has_float(key) == \E id \in DOMAIN key.values : key.values[id].type = "float"

\* What is written never goes beyond the buffer it was counted for; what was written is read back by
\* both readers; an int or a text of a file of the first version is the same int or text, whatever type
\* it is taken for; of a file that was cut short nothing is read; and a list of addresses is read as it
\* was (Cxif_key::vdata, load_key; Cxif_value::load_old; Cxif_key_r::import; Cblock_list::save, load).
KeysKept ==
  /\ bytes(save(m_root)) <= size(m_root)
  /\ loaded.by = "key" /\ file.whole =>
       /\ DOMAIN loaded.key.keys = DOMAIN kept.keys /\ as_before(loaded.key.values, kept.values)
       /\ \A id \in DOMAIN kept.keys : as_before(loaded.key.keys[id].values, kept.keys[id].values)
       /\ file.version = "fast" => loaded.key = kept
       /\ loaded.error => file.version = "fast" /\ (has_float(kept) \/ \E id \in DOMAIN kept.keys : has_float(kept.keys[id]))
  /\ loaded.by = "key_r" /\ file.whole /\ file.version = "fast" =>
       /\ ~loaded.error
       /\ \A id \in Ids : find(loaded.key.values, id) = get_value(kept, id)
       /\ \A id \in DOMAIN kept.keys, i \in Ids :
            find(find(loaded.key.keys, id).values, i) = get_value(kept.keys[id], i)
  /\ loaded.by # "none" /\ ~file.whole => loaded.error /\ DOMAIN loaded.key.keys = {} /\ DOMAIN loaded.key.values = {}
  /\ loaded.by = "key" /\ file.whole /\ file.version = "fast" /\ is_list(kept) =>
       load_list(loaded.key) = load_list(kept) /\ save_list(load_list(kept)) = kept
================================================================================
