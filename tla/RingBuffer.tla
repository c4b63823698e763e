------------------------------- MODULE RingBuffer -------------------------------
(***************************************************************************)
(* Cring_buffer (src/BT Test/ring_buffer.h, .cpp): the buffer the links of *)
(* the XBT client read into and the admin link also writes from.  Sockets  *)
(* and parsers see contiguous memory, so both ends come in two parts when  *)
(* the contents wrap; one byte stays free to tell full from empty.         *)
(*                                                                         *)
(* m_b is position 0, m_e position End; m_r and m_w are r and w.           *)
(***************************************************************************)
EXTENDS Integers, Sequences

CONSTANTS
  Size, \* size(), the bytes that fit
  Byte

ASSUME RingAssumption == Size \in Nat \ {0}

VARIABLES
  open, \* m_d is allocated
  d,    \* m_d
  r,    \* where the oldest byte is
  w     \* where the next byte goes

vars == <<open, d, r, w>>
End == Size + 1
Memory == [0..Size -> Byte]
Least(a, b) == IF a < b THEN a ELSE b

-----------------------------------------------------------------------------
(* What the callers see.  (The operators named _bad, and those they are    *)
(* put for, differ as a plausible bug would make them differ; nothing of   *)
(* the specification uses them.)                                           *)

\* The first contiguous part to read, and all there is to read.
cb_r == IF r <= w THEN w - r ELSE End - r
cb_read == IF r <= w THEN w - r ELSE End - r + w

\* The first contiguous part to write to, and all the room there is.
cb_w_bad == IF r <= w THEN End - w ELSE r - 1 - w
cb_w == IF r <= w THEN (IF r = 0 THEN Size ELSE End) - w ELSE r - 1 - w
cb_write == IF r <= w THEN End - w + r - 1 ELSE r - w - 1

at(i) == IF r + i <= Size THEN r + i ELSE r + i - End
contents == IF open THEN [i \in 1..cb_read |-> d[at(i - 1)]] ELSE <<>>

-----------------------------------------------------------------------------
(* Operations.                                                             *)

copied(m, p, s) == [j \in 0..Size |-> IF p <= j /\ j < p + Len(s) THEN s[j - p + 1] ELSE m[j]]
wrapped(p) == IF p = End THEN 0 ELSE p

\* A socket reads into w() and the caller reports it with cb_w(n).
receive(s) ==
  /\ open /\ Len(s) <= cb_w
  /\ d' = copied(d, w, s) /\ w' = wrapped(w + Len(s)) /\ UNCHANGED <<open, r>>

\* write(s): in two parts when the room wraps.  The callers see to it that there is room.
write(s) ==
  /\ open /\ Len(s) <= cb_write
  /\ LET n == Least(Len(s), cb_w)
         rest == SubSeq(s, n + 1, Len(s))
         p == wrapped(w + n)
     IN /\ d' = copied(copied(d, w, SubSeq(s, 1, n)), p, rest)
        /\ w' = wrapped(p + Len(rest))
  /\ UNCHANGED <<open, r>>

\* cb_r(n): a socket or a parser has taken n bytes of r().
take(n) ==
  /\ open /\ n <= cb_r
  /\ IF wrapped(r + n) = w THEN r' = 0 /\ w' = 0 ELSE r' = wrapped(r + n) /\ w' = w
  /\ UNCHANGED <<open, d>>

\* combine(): the contents move to the front, so that r() is all of them.
combine_first_part ==
  /\ open /\ cb_read # 0
  /\ d' = [j \in 0..Size |-> IF j < cb_r THEN d[at(j)] ELSE d[j]]
  /\ r' = 0 /\ w' = cb_r /\ UNCHANGED open
combine ==
  /\ open /\ cb_read # 0
  /\ d' = [j \in 0..Size |-> IF j < cb_read THEN d[at(j)] ELSE d[j]]
  /\ r' = 0 /\ w' = cb_read /\ UNCHANGED open

\* size(n) and size(0).  What the new memory holds is never read.
allocate == open' = TRUE /\ r' = 0 /\ w' = 0 /\ UNCHANGED d
release == open' = FALSE /\ r' = 0 /\ w' = 0 /\ UNCHANGED d

-----------------------------------------------------------------------------
Init == open = FALSE /\ d \in Memory /\ r = 0 /\ w = 0
Next ==
  \/ \E n \in 0..Size : \E s \in [1..n -> Byte] : receive(s) \/ write(s)
  \/ \E n \in 0..Size : take(n)
  \/ combine \/ allocate \/ release
Spec == Init /\ [][Next]_vars

-----------------------------------------------------------------------------
(* Properties.                                                             *)

\* The read end and the write end stay inside the memory: neither ever rests on m_e.
TypeOK == open \in BOOLEAN /\ d \in Memory /\ r \in 0..Size /\ w \in 0..Size

\* The buffer is a queue of bytes: what sockets and parsers take is what was put in, in order,
\* through every wrap of either end, every write in two parts and every combine.
Queue == INSTANCE Fifo WITH Capacity <- Size, Item <- Byte, q <- contents
IsQueue == Queue!Spec

\* The first parts speak for the whole: a link that sees no room to read into has a full
\* buffer, one that sees nothing to parse has an empty one, and the room is what is left.  (A
\* receive into no room returns 0, which the callers take for a connection that was closed.)
PartsSpeak ==
  open => /\ cb_w = 0 <=> cb_read = Size
          /\ cb_r = 0 <=> cb_read = 0
          /\ cb_read + cb_write = Size
===============================================================================
