---------------------------- MODULE RingBufferProofs ----------------------------
(***************************************************************************)
(* The ring buffer implements the queue of bytes, for every size and every *)
(* kind of byte; the two ends of a link between clients handle what was     *)
(* written, and the tracker answers a connection whole, for all constants. *)
(***************************************************************************)
EXTENDS LinkParts, SequenceTheorems, NatInduction

\* The ends meet only at the front: take puts them back there, and what is received or
\* written leaves one byte free.
IInv == TypeOK /\ (r = w => r = 0)

LEMMA InitIInv == Init => IInv
<1> SUFFICES ASSUME Init PROVE IInv
  OBVIOUS
<1>1. open \in BOOLEAN
  BY Zenon DEF Init
<1>2. d \in Memory /\ r = 0 /\ w = 0
  BY DEF Init
<1>3. QED BY <1>1, <1>2, RingAssumption DEF IInv, TypeOK

LEMMA Cut ==
  ASSUME NEW s \in Seq(Byte), NEW a \in 1..Len(s) + 1, NEW b \in a - 1..Len(s)
  PROVE  /\ SubSeq(s, a, b) \in Seq(Byte) /\ Len(SubSeq(s, a, b)) = b - a + 1
         /\ \A i \in 1..b - a + 1 : SubSeq(s, a, b)[i] = s[a + i - 1]
<1>1. Len(s) \in Nat /\ a \in Int /\ b \in Int
  BY LenProperties
<1>2. \A i \in a..b : s[i] \in Byte
  BY <1>1, ElementOfSeq
<1>3. QED BY <1>1, <1>2, SubSeqProperties

LEMMA CopiedIn ==
  ASSUME NEW m \in Memory, NEW p \in Nat, NEW s \in Seq(Byte) PROVE copied(m, p, s) \in Memory
<1>1. Len(s) \in Nat
  BY LenProperties
<1>2. ASSUME NEW j \in 0..Size, p <= j, j < p + Len(s) PROVE s[j - p + 1] \in Byte
  <2>1. j - p + 1 \in 1..Len(s)
    BY <1>1, <1>2
  <2>2. QED BY <2>1, ElementOfSeq
<1>3. QED BY <1>2 DEF copied, Memory

\* What a write of s does, in parts first and rest.
LEMMA WriteParts ==
  ASSUME IInv, NEW s \in Seq(Byte), Len(s) <= cb_write,
         NEW k, k = Least(Len(s), cb_w)
  PROVE  /\ cb_w \in Nat /\ cb_write \in Nat /\ k \in 0..Len(s) /\ k <= cb_w /\ w + k \in 0..End
         /\ SubSeq(s, 1, k) \in Seq(Byte) /\ Len(SubSeq(s, 1, k)) = k
         /\ \A i \in 1..k : SubSeq(s, 1, k)[i] = s[i]
         /\ SubSeq(s, k + 1, Len(s)) \in Seq(Byte) /\ Len(SubSeq(s, k + 1, Len(s))) = Len(s) - k
         /\ \A i \in 1..Len(s) - k : SubSeq(s, k + 1, Len(s))[i] = s[k + i]
         /\ wrapped(w + k) \in 0..Size
         /\ k = Len(s) \/ (k < Len(s) /\ w + k = End /\ r > Len(s) - k)
<1>1. Len(s) \in Nat
  BY LenProperties
<1>2. /\ cb_w \in Nat /\ cb_write \in Nat /\ k \in 0..Len(s) /\ k <= cb_w /\ w + k \in 0..End
      /\ wrapped(w + k) \in 0..Size
      /\ k = Len(s) \/ (k < Len(s) /\ w + k = End /\ r > Len(s) - k)
  BY <1>1, RingAssumption DEF IInv, TypeOK, cb_w, cb_write, Least, End, wrapped
<1>3. /\ SubSeq(s, 1, k) \in Seq(Byte) /\ Len(SubSeq(s, 1, k)) = k
      /\ \A i \in 1..k : SubSeq(s, 1, k)[i] = s[i]
  <2>1. 1 \in 1..Len(s) + 1 /\ k \in 1 - 1..Len(s)
    BY <1>1, <1>2
  <2>2. QED BY <1>1, <1>2, <2>1, Cut
<1>4. /\ SubSeq(s, k + 1, Len(s)) \in Seq(Byte) /\ Len(SubSeq(s, k + 1, Len(s))) = Len(s) - k
      /\ \A i \in 1..Len(s) - k : SubSeq(s, k + 1, Len(s))[i] = s[k + i]
  <2>1. k + 1 \in 1..Len(s) + 1 /\ Len(s) \in (k + 1) - 1..Len(s)
    BY <1>1, <1>2
  <2>2. QED BY <1>1, <1>2, <2>1, Cut
<1>5. QED BY <1>2, <1>3, <1>4

LEMMA StepIInv == IInv /\ [Next]_vars => IInv'
<1> SUFFICES ASSUME IInv, [Next]_vars PROVE IInv'
  OBVIOUS
<1> USE RingAssumption DEF IInv, TypeOK, End
<1>1. ASSUME NEW n \in 0..Size, NEW s \in [1..n -> Byte], receive(s) PROVE IInv'
  <2>1. s \in Seq(Byte) /\ Len(s) = n
    OBVIOUS
  <2>2. d' \in Memory
    BY <1>1, <2>1, CopiedIn DEF receive
  <2>3. QED BY <1>1, <2>1, <2>2 DEF receive, wrapped, cb_w
<1>2. ASSUME NEW n \in 0..Size, NEW s \in [1..n -> Byte], write(s) PROVE IInv'
  <2> DEFINE k == Least(n, cb_w)
             first == SubSeq(s, 1, k)
             rest == SubSeq(s, k + 1, n)
             p == wrapped(w + k)
  <2>1. s \in Seq(Byte) /\ Len(s) = n
    OBVIOUS
  <2>2. /\ first \in Seq(Byte) /\ rest \in Seq(Byte) /\ Len(rest) = n - k
        /\ p \in 0..Size /\ k \in 0..n /\ k <= cb_w /\ cb_w \in Nat
        /\ k = n \/ (k < n /\ w + k = End /\ r > n - k)
    BY <1>2, <2>1, WriteParts DEF write
  <2> HIDE DEF k, first, rest, p
  <2>3. copied(d, w, first) \in Memory
    BY <2>2, CopiedIn
  <2>4. copied(copied(d, w, first), p, rest) \in Memory
    BY <2>2, <2>3, CopiedIn
  <2>5. /\ d' = copied(copied(d, w, first), p, rest)
        /\ w' = wrapped(p + (n - k)) /\ r' = r /\ open' = open
    BY <1>2, <2>1, <2>2 DEF write, k, first, rest, p
  <2>6. w' \in 0..Size /\ (r' = w' => r' = 0)
    BY <2>2, <2>5 DEF wrapped, cb_w, p
  <2>7. QED BY <2>4, <2>5, <2>6
<1>3. ASSUME NEW n \in 0..Size, take(n) PROVE IInv'
  BY <1>3 DEF take, wrapped, cb_r
<1>4. CASE combine
  <2>1. \A j \in 0..Size : j < cb_read => at(j) \in 0..Size
    BY <1>4 DEF cb_read, at
  <2>2. d' \in Memory
    BY <1>4, <2>1 DEF combine, Memory
  <2>3. QED BY <1>4, <2>2 DEF combine, cb_read
<1>5. CASE allocate
  <2>1. open' \in BOOLEAN
    BY <1>5, Zenon DEF allocate
  <2>2. QED BY <1>5, <2>1 DEF allocate
<1>6. CASE release
  <2>1. open' \in BOOLEAN
    BY <1>6, Zenon DEF release
  <2>2. QED BY <1>6, <2>1 DEF release
<1>7. CASE UNCHANGED vars
  BY <1>7 DEF vars
<1>8. QED
  BY <1>1, <1>2, <1>3, <1>4, <1>5, <1>6, <1>7 DEF Next

\* The first parts speak for the whole buffer: no link takes a buffer with room for a full one
\* or one with contents for an empty one.
THEOREM PartsSpeakTruly == Spec => []PartsSpeak
<1>1. IInv => PartsSpeak
  BY RingAssumption DEF IInv, TypeOK, PartsSpeak, cb_r, cb_read, cb_w, cb_write, End
<1>2. QED BY InitIInv, StepIInv, <1>1, PTL DEF Spec

-----------------------------------------------------------------------------
(* The refinement.  What is in the buffer, as a sequence of a given length. *)
spot(p, i) == IF p + i <= Size THEN p + i ELSE p + i - End
view(m, p, n) == [i \in 1..n |-> m[spot(p, i - 1)]]

LEMMA ViewIsSeq ==
  ASSUME NEW m \in Memory, NEW p \in 0..Size, NEW n \in 0..Size
  PROVE  /\ view(m, p, n) \in Seq(Byte) /\ Len(view(m, p, n)) = n
         /\ \A i \in 1..n : view(m, p, n)[i] = m[spot(p, i - 1)]
<1>1. \A i \in 1..n : spot(p, i - 1) \in 0..Size
  BY RingAssumption DEF spot, End
<1>2. view(m, p, n) \in [1..n -> Byte]
  BY <1>1 DEF view, Memory
<1>3. \A i \in 1..n : view(m, p, n)[i] = m[spot(p, i - 1)]
  BY DEF view
<1>4. view(m, p, n) \in Seq(Byte) /\ Len(view(m, p, n)) = n
  BY <1>2, RingAssumption
<1>5. QED BY <1>3, <1>4

LEMMA ReadNat == IInv => cb_read \in 0..Size
BY RingAssumption DEF IInv, TypeOK, cb_read, End

LEMMA ReadNatNext == IInv' => cb_read' \in 0..Size
<1>1. cb_read' = IF r' <= w' THEN w' - r' ELSE End - r' + w'
  BY DEF cb_read, End
<1>2. ASSUME NEW a \in 0..Size, NEW b \in 0..Size
      PROVE (IF a <= b THEN b - a ELSE End - a + b) \in 0..Size
  BY RingAssumption DEF End
<1>3. IInv' => r' \in 0..Size /\ w' \in 0..Size
  BY DEF IInv, TypeOK
<1>4. QED BY <1>1, <1>2, <1>3

LEMMA ContentsView ==
  IInv /\ open => cb_read \in 0..Size /\ contents = view(d, r, cb_read)
BY RingAssumption DEF IInv, TypeOK, cb_read, contents, view, spot, at, End

LEMMA ContentsViewNext ==
  IInv' /\ open' => cb_read' \in 0..Size /\ contents' = view(d', r', cb_read')
<1> SUFFICES ASSUME IInv', open' PROVE cb_read' \in 0..Size /\ contents' = view(d', r', cb_read')
  OBVIOUS
<1>1. cb_read' \in 0..Size
  BY ReadNatNext
<1>2. contents' = [i \in 1..cb_read' |-> d'[at(i - 1)']]
  BY Zenon DEF contents
<1>3. contents' = view(d', r', cb_read')
  BY <1>2, Zenon DEF at, view, spot
<1>4. QED BY <1>1, <1>3

LEMMA PutStep ==
  ASSUME IInv, IInv', open, open', cb_read' >= cb_read,
         \A i \in 0..cb_read - 1 : d'[spot(r', i)] = d[spot(r, i)]
  PROVE  Queue!Put
<1> DEFINE a == view(d, r, cb_read)
           b == view(d', r', cb_read')
<1>1. /\ cb_read \in 0..Size /\ contents = a
      /\ cb_read' \in 0..Size /\ contents' = b
  BY ContentsView, ContentsViewNext
<1>2. /\ a \in Seq(Byte) /\ Len(a) = cb_read
      /\ \A i \in 1..cb_read : a[i] = d[spot(r, i - 1)]
  BY <1>1, ViewIsSeq DEF IInv, TypeOK
<1>3. /\ b \in Seq(Byte) /\ Len(b) = cb_read'
      /\ \A i \in 1..cb_read' : b[i] = d'[spot(r', i - 1)]
  BY <1>1, ViewIsSeq DEF IInv, TypeOK
<1> HIDE DEF a, b
<1>4. 1 \in 1..Len(b) + 1 /\ cb_read \in 1 - 1..Len(b)
  <2>1. Len(b) \in Int /\ Len(b) >= cb_read /\ cb_read \in Int /\ cb_read >= 0
    BY <1>1, <1>3, RingAssumption
  <2>2. QED BY <2>1
<1>5. /\ SubSeq(b, 1, cb_read) \in Seq(Byte) /\ Len(SubSeq(b, 1, cb_read)) = cb_read
      /\ \A i \in 1..cb_read : SubSeq(b, 1, cb_read)[i] = b[i]
  BY <1>1, <1>3, <1>4, Cut, RingAssumption
<1>6. \A i \in 1..cb_read : b[i] = a[i]
  BY <1>1, <1>2, <1>3, RingAssumption
<1>7. a = SubSeq(b, 1, cb_read)
  BY <1>2, <1>5, <1>6, SeqEqual
<1>8. QED BY <1>1, <1>2, <1>3, <1>7, RingAssumption DEF Queue!Put

LEMMA GetStep ==
  ASSUME IInv, IInv', open, open', NEW k \in 0..cb_read, cb_read' = cb_read - k,
         \A i \in 0..cb_read' - 1 : d'[spot(r', i)] = d[spot(r, i + k)]
  PROVE  Queue!Next
<1> DEFINE a == view(d, r, cb_read)
           b == view(d', r', cb_read')
<1>1. /\ cb_read \in 0..Size /\ contents = a
      /\ cb_read' \in 0..Size /\ contents' = b
  BY ContentsView, ContentsViewNext
<1>2. /\ a \in Seq(Byte) /\ Len(a) = cb_read
      /\ \A i \in 1..cb_read : a[i] = d[spot(r, i - 1)]
  BY <1>1, ViewIsSeq DEF IInv, TypeOK
<1>3. /\ b \in Seq(Byte) /\ Len(b) = cb_read'
      /\ \A i \in 1..cb_read' : b[i] = d'[spot(r', i - 1)]
  BY <1>1, ViewIsSeq, ZenonT(40) DEF IInv, TypeOK
<1> HIDE DEF a, b
<1>4. k + 1 \in 1..Len(a) + 1 /\ cb_read \in (k + 1) - 1..Len(a)
  BY <1>1, <1>2, RingAssumption
<1>5. /\ SubSeq(a, k + 1, cb_read) \in Seq(Byte) /\ Len(SubSeq(a, k + 1, cb_read)) = cb_read - k
      /\ \A i \in 1..cb_read - k : SubSeq(a, k + 1, cb_read)[i] = a[k + i]
  <2>1. /\ SubSeq(a, k + 1, cb_read) \in Seq(Byte)
        /\ Len(SubSeq(a, k + 1, cb_read)) = cb_read - (k + 1) + 1
        /\ \A i \in 1..cb_read - (k + 1) + 1 : SubSeq(a, k + 1, cb_read)[i] = a[k + 1 + i - 1]
    BY <1>2, <1>4, Cut
  <2>2. k \in Int /\ cb_read \in Int
    BY <1>1, RingAssumption
  <2>3. QED BY <2>1, <2>2
<1>6. ASSUME NEW i \in 1..cb_read - k PROVE b[i] = a[k + i]
  <2>1. /\ i \in 1..cb_read' /\ i - 1 \in 0..cb_read' - 1 /\ k + i \in 1..cb_read
        /\ i - 1 + k = k + i - 1
    BY <1>1, RingAssumption
  <2>2. d'[spot(r', i - 1)] = d[spot(r, i - 1 + k)]
    BY <2>1
  <2>3. QED BY <1>2, <1>3, <2>1, <2>2
<1>7. b = SubSeq(a, k + 1, cb_read)
  BY <1>1, <1>3, <1>5, <1>6, SeqEqual
<1>8. Queue!Get(k) /\ k \in 0..Len(contents)
  BY <1>1, <1>2, <1>7 DEF Queue!Get
<1>9. QED BY <1>8 DEF Queue!Next

LEMMA StepQueue == IInv /\ IInv' /\ [Next]_vars => [Queue!Next]_contents
<1> SUFFICES ASSUME IInv, IInv', [Next]_vars PROVE Queue!Next \/ contents' = contents
  OBVIOUS
<1> USE RingAssumption DEF End
<1>1. ASSUME NEW n \in 0..Size, NEW s \in [1..n -> Byte], receive(s) PROVE Queue!Next
  <2>1. s \in Seq(Byte) /\ Len(s) = n
    OBVIOUS
  <2>2. /\ d' = copied(d, w, s) /\ w' = wrapped(w + n) /\ r' = r /\ n <= cb_w
    BY <1>1, <2>1 DEF receive
  <2>3. open /\ open'
    BY <1>1, Zenon DEF receive
  <2>4. cb_read' >= cb_read
    BY <2>2 DEF wrapped, cb_w, cb_read, IInv, TypeOK
  <2>5. ASSUME NEW i \in 0..cb_read - 1 PROVE d'[spot(r', i)] = d[spot(r, i)]
    <3>1. spot(r, i) \in 0..Size /\ ~(w <= spot(r, i) /\ spot(r, i) < w + n)
      BY <2>2 DEF spot, cb_w, cb_read, IInv, TypeOK
    <3>2. QED BY <2>1, <2>2, <3>1 DEF copied
  <2>6. QED BY <2>3, <2>4, <2>5, PutStep DEF Queue!Next
<1>2. ASSUME NEW n \in 0..Size, NEW s \in [1..n -> Byte], write(s) PROVE Queue!Next
  <2> DEFINE k == Least(n, cb_w)
             first == SubSeq(s, 1, k)
             rest == SubSeq(s, k + 1, n)
             p == wrapped(w + k)
  <2>1. s \in Seq(Byte) /\ Len(s) = n
    OBVIOUS
  <2>2. /\ Len(first) = k /\ Len(rest) = n - k
        /\ p \in 0..Size /\ k \in 0..n /\ k <= cb_w /\ cb_w \in Nat
        /\ k = n \/ (k < n /\ w + k = End /\ r > n - k)
    BY <1>2, <2>1, WriteParts DEF write
  <2>3. /\ d' = copied(copied(d, w, first), p, rest)
        /\ w' = wrapped(p + (n - k)) /\ r' = r
    BY <1>2, <2>1, <2>2 DEF write
  <2>4. open /\ open'
    BY <1>2, Zenon DEF write
  <2> HIDE DEF k, first, rest
  <2>5. cb_read' >= cb_read
    BY <2>2, <2>3 DEF wrapped, cb_w, cb_read, IInv, TypeOK, p
  <2>6. ASSUME NEW i \in 0..cb_read - 1 PROVE d'[spot(r', i)] = d[spot(r, i)]
    <3>1. /\ spot(r, i) \in 0..Size
          /\ ~(w <= spot(r, i) /\ spot(r, i) < w + k)
          /\ ~(p <= spot(r, i) /\ spot(r, i) < p + (n - k))
      BY <2>2 DEF spot, cb_w, cb_read, IInv, TypeOK, wrapped, p
    <3>2. QED BY <2>2, <2>3, <3>1 DEF copied
  <2>7. QED BY <2>4, <2>5, <2>6, PutStep DEF Queue!Next
<1>3. ASSUME NEW n \in 0..Size, take(n) PROVE Queue!Next
  <2>1. open /\ open'
    BY <1>3, Zenon DEF take
  <2> DEFINE p == wrapped(r + n)
  <2>2. /\ n <= cb_r /\ n \in Nat /\ d' = d /\ r \in 0..Size /\ w \in 0..Size
        /\ (r = w => r = 0)
    BY <1>3 DEF take, IInv, TypeOK
  <2>3. IF p = w THEN r' = 0 /\ w' = 0 ELSE r' = p /\ w' = w
    BY <1>3 DEF take
  <2>4. /\ n \in 0..cb_read /\ cb_read' = cb_read - n
        /\ p = w => cb_read' = 0
    <3>1. CASE r <= w
      BY <2>2, <2>3, <3>1 DEF wrapped, cb_r, cb_read
    <3>2. CASE r > w /\ r + n < End
      BY <2>2, <2>3, <3>2 DEF wrapped, cb_r, cb_read
    <3>3. CASE r > w /\ r + n = End
      BY <2>2, <2>3, <3>3 DEF wrapped, cb_r, cb_read
    <3>4. QED BY <2>2, <3>1, <3>2, <3>3 DEF cb_r
  <2>5. ASSUME NEW i \in 0..cb_read' - 1 PROVE d'[spot(r', i)] = d[spot(r, i + n)]
    <3>1. r' = p /\ cb_read \in 0..Size
      BY <2>3, <2>4, ReadNat
    <3>2. i \in Nat /\ i + n < cb_read
      BY <2>2, <2>4, <3>1
    <3>3. spot(p, i) = spot(r, i + n)
      BY <2>2, <3>1, <3>2 DEF wrapped, spot, cb_r, cb_read
    <3>4. QED BY <2>2, <3>1, <3>3
  <2>6. QED BY <2>1, <2>4, <2>5, GetStep
<1>4. CASE combine
  <2>1. open /\ open'
    BY <1>4, Zenon DEF combine
  <2>2. cb_read \in 0..Size /\ r' = 0 /\ w' = cb_read
    BY <1>4, ReadNat DEF combine
  <2>3. 0 \in 0..cb_read /\ cb_read' = cb_read - 0
    BY <2>2 DEF cb_read
  <2>4. ASSUME NEW i \in 0..cb_read' - 1 PROVE d'[spot(r', i)] = d[spot(r, i + 0)]
    BY <1>4, <2>2, <2>3 DEF combine, spot, at, IInv, TypeOK
  <2>5. QED BY <2>1, <2>3, <2>4, GetStep
<1>5. CASE allocate
  <2>1. contents' = <<>>
    BY <1>5 DEF allocate, contents, cb_read
  <2>2. QED BY <2>1 DEF Queue!Next, Queue!Discard
<1>6. CASE release
  <2>1. contents' = <<>>
    BY <1>6, Zenon DEF release, contents
  <2>2. QED BY <2>1 DEF Queue!Next, Queue!Discard
<1>7. CASE UNCHANGED vars
  BY <1>7 DEF vars, contents, cb_read, at
<1>8. QED
  BY <1>1, <1>2, <1>3, <1>4, <1>5, <1>6, <1>7 DEF Next

\* What is taken from the buffer is what was put in, in order and once, whatever the size and
\* wherever the ends wrap: the ring buffer refines the queue.
THEOREM RingIsQueue == Spec => IsQueue
<1>1. Init => Queue!Init
  BY Zenon DEF Init, Queue!Init, contents
<1>2. QED BY InitIInv, StepIInv, StepQueue, <1>1, PTL DEF Spec, IsQueue, Queue!Spec

-----------------------------------------------------------------------------
(* The bytes of one direction of a link.                                   *)

\* A byte knows its message and where in it it is; q has the lengths of the messages.  What follows
\* a byte is the next one of its message, or the first of the next message.
PeerByte == Nat \X Nat
total(q, m) == IF m = 0 THEN Handshake + PeerId ELSE Header + q[m]
follows(q, c) == IF c[2] < total(q, c[1]) THEN <<c[1], c[2] + 1>> ELSE <<c[1] + 1, 1>>
\* The bytes s are those from a on, and the next one after them is b.
Run(q, s, a, b) ==
  /\ s \in Seq(PeerByte)
  /\ \A i \in 1..Len(s) : s[i][1] <= Len(q) /\ (i < Len(s) => s[i + 1] = follows(q, s[i]))
  /\ IF Len(s) = 0 THEN a = b ELSE s[1] = a /\ b = follows(q, s[Len(s)])
\* And so are those of several blocks.
Blocks(q, wb, a, b) ==
  /\ wb \in Seq(Seq(PeerByte))
  /\ \E c : c[1] = a /\ c[Len(wb) + 1] = b /\ \A j \in 1..Len(wb) : Run(q, wb[j], c[j], c[j + 1])
Extends(p, q) == p \in Seq(Nat) /\ q \in Seq(Nat) /\ Len(p) <= Len(q) /\ \A i \in 1..Len(p) : q[i] = p[i]
Last(q) == <<Len(q) + 1, 1>>

LEMMA Split ==
  ASSUME NEW q, NEW s, NEW a, NEW b, Run(q, s, a, b), NEW k \in 0..Len(s)
  PROVE  \E c : Run(q, SubSeq(s, 1, k), a, c) /\ Run(q, SubSeq(s, k + 1, Len(s)), c, b)
<1> DEFINE n == Len(s)
           t == SubSeq(s, 1, k)
           u == SubSeq(s, k + 1, n)
           c == IF k = 0 THEN a ELSE follows(q, s[k])
<1>1. s \in Seq(PeerByte) /\ n \in Nat /\ k \in Nat /\ k <= n BY DEF Run
<1>2. t \in Seq(PeerByte) /\ Len(t) = k /\ \A i \in 1..k : t[i] = s[i] BY <1>1
<1>3. u \in Seq(PeerByte) /\ Len(u) = n - k /\ \A i \in 1..(n - k) : u[i] = s[k + i] BY <1>1
<1> HIDE DEF t, u
<1>4. /\ \A i \in 1..n : s[i][1] <= Len(q) /\ (i < n => s[i + 1] = follows(q, s[i]))
      /\ IF n = 0 THEN a = b ELSE s[1] = a /\ b = follows(q, s[n])
  BY DEF Run
<1> HIDE DEF n
<1>5. Run(q, t, a, c)
  <2>1. ASSUME NEW i \in 1..k PROVE t[i][1] <= Len(q) /\ (i < k => t[i + 1] = follows(q, t[i]))
    <3>1. i \in 1..n /\ (i < k => i + 1 \in 1..k /\ i < n) BY <1>1
    <3> QED BY <1>2, <1>4, <3>1
  <2>2. IF k = 0 THEN a = c ELSE t[1] = a /\ c = follows(q, t[k])
    <3>1. k # 0 => 1 \in 1..k /\ k \in 1..k /\ n # 0 BY <1>1
    <3> QED BY <1>2, <1>4, <3>1
  <2> QED BY <1>2, <2>1, <2>2 DEF Run
<1>6. Run(q, u, c, b)
  <2>1. ASSUME NEW i \in 1..(n - k) PROVE u[i][1] <= Len(q) /\ (i < n - k => u[i + 1] = follows(q, u[i]))
    <3>1. k + i \in 1..n /\ (i < n - k => i + 1 \in 1..(n - k) /\ k + i < n /\ k + (i + 1) = (k + i) + 1) BY <1>1
    <3> QED BY <1>3, <1>4, <3>1
  <2>2. CASE n - k = 0
    <3>1. n = k BY <1>1, <2>2
    <3> QED BY <1>3, <1>4, <2>1, <2>2, <3>1 DEF Run
  <2>3. CASE n - k # 0
    <3>1. 1 \in 1..(n - k) /\ n - k \in 1..(n - k) /\ k + (n - k) = n /\ n # 0 BY <1>1, <2>3
    <3>2. u[1] = s[k + 1] /\ u[n - k] = s[n] BY <1>3, <3>1
    <3>3. u[1] = c
      <4>1. CASE k = 0 BY <1>4, <3>1, <3>2, <4>1
      <4>2. CASE k # 0
        <5>1. k \in 1..n /\ k < n BY <1>1, <2>3, <4>2
        <5> QED BY <1>4, <3>2, <4>2, <5>1
      <4> QED BY <4>1, <4>2
    <3> QED BY <1>3, <1>4, <2>1, <2>3, <3>1, <3>2, <3>3 DEF Run
  <2> QED BY <2>2, <2>3
<1> QED BY <1>5, <1>6 DEF t, u, n

LEMMA Join ==
  ASSUME NEW q, NEW s, NEW t, NEW a, NEW b, NEW c, Run(q, s, a, b), Run(q, t, b, c)
  PROVE  Run(q, s \o t, a, c)
<1> DEFINE m == Len(s)
           n == Len(t)
           u == s \o t
<1>1. s \in Seq(PeerByte) /\ t \in Seq(PeerByte) /\ m \in Nat /\ n \in Nat BY DEF Run
<1>2. /\ u \in Seq(PeerByte) /\ Len(u) = m + n
      /\ \A i \in 1..m : u[i] = s[i]
      /\ \A i \in 1..n : u[m + i] = t[i]
  BY <1>1
<1> HIDE DEF u
<1>3. /\ \A i \in 1..m : s[i][1] <= Len(q) /\ (i < m => s[i + 1] = follows(q, s[i]))
      /\ IF m = 0 THEN a = b ELSE s[1] = a /\ b = follows(q, s[m])
      /\ \A i \in 1..n : t[i][1] <= Len(q) /\ (i < n => t[i + 1] = follows(q, t[i]))
      /\ IF n = 0 THEN b = c ELSE t[1] = b /\ c = follows(q, t[n])
  BY DEF Run
<1> HIDE DEF m, n
<1>4. ASSUME NEW i \in 1..(m + n) PROVE u[i][1] <= Len(q) /\ (i < m + n => u[i + 1] = follows(q, u[i]))
  <2>1. CASE i < m
    <3>1. i \in 1..m /\ i + 1 \in 1..m BY <1>1, <2>1
    <3> QED BY <1>2, <1>3, <2>1, <3>1
  <2>2. CASE i = m
    <3>1. m \in 1..m /\ m # 0 /\ (m < m + n => 1 \in 1..n /\ n # 0) BY <1>1, <2>2
    <3>2. u[m] = s[m] BY <1>2, <3>1
    <3>3. m < m + n => u[m + 1] = t[1] BY <1>2, <3>1
    <3> QED BY <1>3, <2>2, <3>1, <3>2, <3>3
  <2>3. CASE i > m
    <3>1. i - m \in 1..n /\ m + (i - m) = i /\ (i < m + n => i - m < n /\ (i - m) + 1 \in 1..n /\ m + ((i - m) + 1) = i + 1)
      BY <1>1, <2>3
    <3>2. u[i] = t[i - m] /\ (i < m + n => u[i + 1] = t[(i - m) + 1]) BY <1>2, <3>1
    <3> QED BY <1>3, <3>1, <3>2
  <2> QED BY <1>1, <2>1, <2>2, <2>3
<1>5. IF m + n = 0 THEN a = c ELSE u[1] = a /\ c = follows(q, u[m + n])
  <2>1. CASE m = 0
    <3>1. m + n = n /\ (n # 0 => 1 \in 1..n /\ n \in 1..n /\ m + 1 = 1) BY <1>1, <2>1
    <3>2. n # 0 => u[1] = t[1] /\ u[m + n] = t[n] BY <1>2, <2>1, <3>1
    <3> QED BY <1>3, <2>1, <3>1, <3>2
  <2>2. CASE m # 0 /\ n = 0
    <3>1. m + n = m /\ 1 \in 1..m /\ m \in 1..m BY <1>1, <2>2
    <3> QED BY <1>2, <1>3, <2>2, <3>1
  <2>3. CASE m # 0 /\ n # 0
    <3>1. m + n # 0 /\ 1 \in 1..m /\ n \in 1..n BY <1>1, <2>3
    <3> QED BY <1>2, <1>3, <2>3, <3>1
  <2> QED BY <2>1, <2>2, <2>3
<1> QED BY <1>2, <1>4, <1>5 DEF Run

LEMMA RunMore ==
  ASSUME NEW p, NEW q, Extends(p, q), NEW s, NEW a, NEW b, Run(p, s, a, b)
  PROVE  Run(q, s, a, b)
<1>1. s \in Seq(PeerByte) /\ Len(s) \in Nat /\ Len(p) \in Nat /\ Len(q) \in Nat /\ Len(p) <= Len(q) BY DEF Run, Extends
<1>2. ASSUME NEW i \in 1..Len(s) PROVE s[i][1] <= Len(q) /\ follows(q, s[i]) = follows(p, s[i])
  <2>1. s[i] \in PeerByte BY <1>1
  <2>2. s[i][1] \in Nat /\ s[i][1] <= Len(p) BY <2>1 DEF Run, PeerByte
  <2>3. total(q, s[i][1]) = total(p, s[i][1])
    <3>1. s[i][1] # 0 => s[i][1] \in 1..Len(p) BY <1>1, <2>2
    <3> QED BY <3>1 DEF Extends, total
  <2> QED BY <1>1, <2>2, <2>3 DEF follows
<1>3. Len(s) # 0 => Len(s) \in 1..Len(s) BY <1>1
<1> QED BY <1>1, <1>2, <1>3 DEF Run

LEMMA NoBytes == ASSUME NEW q, NEW a PROVE Run(q, <<>>, a, a)
BY DEF Run

\* Bytes of one message.
LEMMA MessageRun ==
  ASSUME NEW q \in Seq(Nat), NEW m \in 0..Len(q), NEW from \in Nat \ {0}, NEW to \in Nat,
         from <= to, to <= total(q, m),
         NEW b, b = IF to = total(q, m) THEN <<m + 1, 1>> ELSE <<m, to + 1>>
  PROVE  Run(q, Wire!bytes(m, from, to), <<m, from>>, b)
<1> DEFINE n == to - from + 1
           s == Wire!bytes(m, from, to)
<1>1. s = [i \in 1..n |-> <<m, from + i - 1>>] BY DEF Wire!bytes
<1>2. n \in Nat \ {0} /\ m \in Nat /\ total(q, m) \in Nat
  <2>1. m # 0 => m \in 1..Len(q) OBVIOUS
  <2> QED BY <2>1, WireAssumption DEF total
<1> HIDE DEF n, s
<1>3. s \in Seq(PeerByte) /\ Len(s) = n /\ \A i \in 1..n : s[i] = <<m, from + i - 1>>
  <2>1. \A i \in 1..n : <<m, from + i - 1>> \in PeerByte BY <1>2 DEF PeerByte
  <2>2. s \in [1..n -> PeerByte] BY <1>1, <2>1
  <2>3. s \in Seq(PeerByte) /\ Len(s) = n BY <1>2, <2>2
  <2> QED BY <1>1, <2>3
<1>4. \A i \in 1..n : from + i - 1 <= to /\ (i < n => from + i - 1 < to) /\ from + n - 1 = to BY <1>2 DEF n
<1>5. ASSUME NEW i \in 1..n PROVE s[i][1] <= Len(q) /\ (i < n => s[i + 1] = follows(q, s[i]))
  <2>1. s[i] = <<m, from + i - 1>> BY <1>3
  <2>2. i < n => s[i + 1] = <<m, from + (i + 1) - 1>> BY <1>2, <1>3
  <2>3. i < n => follows(q, s[i]) = <<m, (from + i - 1) + 1>>
    <3>1. i < n => from + i - 1 < total(q, m)
      <4> DEFINE size == total(q, m)
      <4>1. size \in Nat BY <1>2
      <4>2. to <= size OBVIOUS
      <4>3. i < n => from + i - 1 < to BY <1>4
      <4>4. i \in Nat BY <1>2
      <4> HIDE DEF size
      <4>5. i < n => from + i - 1 < size BY <4>1, <4>2, <4>3, <4>4
      <4> QED BY <4>5 DEF size
    <3> QED BY <2>1, <3>1 DEF follows
  <2>4. from + (i + 1) - 1 = (from + i - 1) + 1 BY <1>2
  <2>5. s[i][1] = m /\ m <= Len(q) BY <1>2, <2>1
  <2> QED BY <2>2, <2>3, <2>4, <2>5
<1>6. s[1] = <<m, from>>
  <2>1. 1 \in 1..n /\ from + 1 - 1 = from BY <1>2
  <2> QED BY <1>3, <2>1
<1>7. follows(q, s[n]) = b
  <2>1. n \in 1..n BY <1>2
  <2>2. s[n] = <<m, to>> BY <1>3, <1>4, <2>1
  <2> QED BY <1>2, <2>2 DEF follows
<1> QED BY <1>2, <1>3, <1>5, <1>6, <1>7 DEF Run, s

-----------------------------------------------------------------------------
LEMMA NoBlocks == ASSUME NEW q, NEW a PROVE Blocks(q, <<>>, a, a)
<1> DEFINE c == [i \in 1..1 |-> a]
<1>1. c[1] = a OBVIOUS
<1> HIDE DEF c
<1>2. <<>> \in Seq(Seq(PeerByte)) /\ Len(<<>>) = 0 /\ 0 + 1 = 1 /\ 1..0 = {} OBVIOUS
<1> QED BY <1>1, <1>2 DEF Blocks

LEMMA OneBlock == ASSUME NEW q, NEW s, NEW a, NEW b, Run(q, s, a, b) PROVE Blocks(q, <<s>>, a, b)
<1> DEFINE c == [i \in 1..2 |-> IF i = 1 THEN a ELSE b]
<1>1. c[1] = a /\ c[2] = b OBVIOUS
<1> HIDE DEF c
<1>2. <<s>> \in Seq(Seq(PeerByte)) /\ Len(<<s>>) = 1 /\ <<s>>[1] = s BY DEF Run
<1>3. \A j \in 1..1 : Run(q, <<s>>[j], c[j], c[j + 1]) BY <1>1, <1>2
<1>4. 1 + 1 = 2 OBVIOUS
<1> QED BY <1>1, <1>2, <1>3, <1>4 DEF Blocks

LEMMA TwoBlocks ==
  ASSUME NEW q, NEW s, NEW t, NEW a, NEW b, NEW e, Run(q, s, a, b), Run(q, t, b, e)
  PROVE  Blocks(q, <<s, t>>, a, e)
<1> DEFINE c == [i \in 1..3 |-> IF i = 1 THEN a ELSE IF i = 2 THEN b ELSE e]
<1>1. c[1] = a /\ c[2] = b /\ c[3] = e OBVIOUS
<1> HIDE DEF c
<1>2. <<s, t>> \in Seq(Seq(PeerByte)) /\ Len(<<s, t>>) = 2 /\ <<s, t>>[1] = s /\ <<s, t>>[2] = t BY DEF Run
<1>3. \A j \in 1..2 : Run(q, <<s, t>>[j], c[j], c[j + 1])
  <2>1. 1 + 1 = 2 /\ 2 + 1 = 3 /\ \A j \in 1..2 : j = 1 \/ j = 2 OBVIOUS
  <2> QED BY <1>1, <1>2, <2>1
<1>4. 2 + 1 = 3 OBVIOUS
<1> QED BY <1>1, <1>2, <1>3, <1>4 DEF Blocks

LEMMA JoinBlocks ==
  ASSUME NEW q, NEW v, NEW wb, NEW a, NEW b, NEW e, Blocks(q, v, a, b), Blocks(q, wb, b, e)
  PROVE  Blocks(q, v \o wb, a, e)
<1> DEFINE m == Len(v)
           n == Len(wb)
           u == v \o wb
<1>1. v \in Seq(Seq(PeerByte)) /\ wb \in Seq(Seq(PeerByte)) /\ m \in Nat /\ n \in Nat BY DEF Blocks
<1>2. PICK c : c[1] = a /\ c[m + 1] = b /\ \A j \in 1..m : Run(q, v[j], c[j], c[j + 1]) BY DEF Blocks
<1>3. PICK f : f[1] = b /\ f[n + 1] = e /\ \A j \in 1..n : Run(q, wb[j], f[j], f[j + 1]) BY DEF Blocks
<1>4. /\ u \in Seq(Seq(PeerByte)) /\ Len(u) = m + n
      /\ \A i \in 1..m : u[i] = v[i]
      /\ \A i \in 1..n : u[m + i] = wb[i]
  BY <1>1
<1> DEFINE g == [i \in 1..(m + n + 1) |-> IF i <= m THEN c[i] ELSE f[i - m]]
<1> HIDE DEF m, n, u
<1>5. /\ \A i \in 1..m : g[i] = c[i]
      /\ \A i \in 1..(n + 1) : g[m + i] = f[i]
  <2>1. ASSUME NEW i \in 1..m PROVE g[i] = c[i]
    <3>1. i \in 1..(m + n + 1) /\ i <= m BY <1>1
    <3> QED BY <3>1
  <2>2. ASSUME NEW i \in 1..(n + 1) PROVE g[m + i] = f[i]
    <3>1. m + i \in 1..(m + n + 1) /\ ~(m + i <= m) /\ (m + i) - m = i BY <1>1
    <3> QED BY <3>1
  <2> QED BY <2>1, <2>2
<1> HIDE DEF g
<1>6. g[m + 1] = b /\ g[m + n + 1] = e
  <2>1. 1 \in 1..(n + 1) /\ n + 1 \in 1..(n + 1) /\ m + (n + 1) = m + n + 1 BY <1>1
  <2> QED BY <1>3, <1>5, <2>1
<1>7. g[1] = a
  <2>1. CASE m = 0 BY <1>2, <1>6, <2>1
  <2>2. CASE m # 0
    <3>1. 1 \in 1..m BY <1>1, <2>2
    <3> QED BY <1>2, <1>5, <3>1
  <2> QED BY <2>1, <2>2
<1>8. ASSUME NEW j \in 1..(m + n) PROVE Run(q, u[j], g[j], g[j + 1])
  <2>1. CASE j <= m
    <3>1. j \in 1..m BY <1>1, <2>1
    <3>2. g[j + 1] = c[j + 1]
      <4>1. CASE j = m BY <1>2, <1>6, <4>1
      <4>2. CASE j # m
        <5>1. j + 1 \in 1..m BY <1>1, <3>1, <4>2
        <5> QED BY <1>5, <5>1
      <4> QED BY <4>1, <4>2
    <3> QED BY <1>2, <1>4, <1>5, <3>1, <3>2
  <2>2. CASE ~(j <= m)
    <3>1. /\ j - m \in 1..n /\ j - m \in 1..(n + 1) /\ (j - m) + 1 \in 1..(n + 1)
          /\ m + (j - m) = j /\ m + ((j - m) + 1) = j + 1
      BY <1>1, <2>2
    <3>2. u[j] = wb[j - m] /\ g[j] = f[j - m] /\ g[j + 1] = f[(j - m) + 1] BY <1>4, <1>5, <3>1
    <3> QED BY <1>3, <3>1, <3>2
  <2> QED BY <2>1, <2>2
<1>9. Blocks(q, u, a, e) BY <1>4, <1>6, <1>7, <1>8 DEF Blocks
<1> QED BY <1>9 DEF u

LEMMA FirstBlock ==
  ASSUME NEW q, NEW wb, NEW a, NEW b, Blocks(q, wb, a, b), wb # <<>>
  PROVE  /\ Head(wb) \in Seq(PeerByte)
         /\ \E c : Run(q, Head(wb), a, c) /\ Blocks(q, Tail(wb), c, b)
<1> DEFINE n == Len(wb)
           t == Tail(wb)
<1>1. wb \in Seq(Seq(PeerByte)) /\ n \in Nat \ {0} BY EmptySeq DEF Blocks
<1>2. PICK c : c[1] = a /\ c[n + 1] = b /\ \A j \in 1..n : Run(q, wb[j], c[j], c[j + 1]) BY DEF Blocks
<1>3. /\ Head(wb) = wb[1] /\ t \in Seq(Seq(PeerByte)) /\ Len(t) = n - 1
      /\ \A j \in 1..(n - 1) : t[j] = wb[j + 1]
  BY <1>1, HeadTailProperties
<1>4. Run(q, Head(wb), a, c[2])
  <2>1. 1 \in 1..n /\ 1 + 1 = 2 BY <1>1
  <2> QED BY <1>2, <1>3, <2>1
<1> DEFINE f == [j \in 1..n |-> c[j + 1]]
<1> HIDE DEF t, n
<1>5. \A j \in 1..n : f[j] = c[j + 1] OBVIOUS
<1> HIDE DEF f
<1>6. Blocks(q, t, c[2], b)
  <2>1. f[1] = c[2] /\ f[(n - 1) + 1] = b
    <3>1. 1 \in 1..n /\ n \in 1..n /\ (n - 1) + 1 = n /\ 1 + 1 = 2 BY <1>1
    <3>2. f[1] = c[2] /\ f[n] = c[n + 1] BY <1>5, <3>1
    <3> QED BY <1>2, <3>1, <3>2
  <2>2. ASSUME NEW j \in 1..(n - 1) PROVE Run(q, t[j], f[j], f[j + 1])
    <3>1. j \in 1..n /\ j + 1 \in 1..n BY <1>1
    <3> QED BY <1>2, <1>3, <1>5, <3>1
  <2> QED BY <1>3, <2>1, <2>2 DEF Blocks
<1>7. Head(wb) \in Seq(PeerByte) BY <1>4 DEF Run
<1> QED BY <1>4, <1>6, <1>7 DEF t

LEMMA BlocksMore ==
  ASSUME NEW p, NEW q, Extends(p, q), NEW wb, NEW a, NEW b, Blocks(p, wb, a, b)
  PROVE  Blocks(q, wb, a, b)
<1>1. PICK c : c[1] = a /\ c[Len(wb) + 1] = b /\ \A j \in 1..Len(wb) : Run(p, wb[j], c[j], c[j + 1]) BY DEF Blocks
<1>2. \A j \in 1..Len(wb) : Run(q, wb[j], c[j], c[j + 1]) BY <1>1, RunMore
<1> QED BY <1>1, <1>2 DEF Blocks
-----------------------------------------------------------------------------
(* The receiver's buffer.                                                  *)

Contents == Wire!Read!contents
RingType ==
  /\ in_open \in BOOLEAN /\ in_r \in 0..BufferSize /\ in_w \in 0..BufferSize
  /\ in_r = in_w => in_r = 0
  /\ ~in_open => in_r = 0 /\ in_w = 0

LEMMA BufferFacts ==
  ASSUME RingType, NEW n, n = Wire!Read!cb_read
  PROVE  /\ n \in 0..BufferSize /\ Wire!Read!cb_r \in 0..n
         /\ Wire!Read!cb_w \in 0..BufferSize /\ n + Wire!Read!cb_w <= BufferSize
         /\ (Wire!Read!cb_r = 0 => n = 0) /\ (~in_open => n = 0)
         /\ in_r <= in_w => n = in_w - in_r /\ Wire!Read!cb_r = n
         /\ in_r > in_w => n = BufferSize + 1 - in_r + in_w /\ Wire!Read!cb_r = BufferSize + 1 - in_r
BY WireAssumption DEF RingType, Wire!Read!cb_read, Wire!Read!cb_r, Wire!Read!cb_w, Wire!Read!End

LEMMA BufferIs ==
  ASSUME RingType
  PROVE  /\ Contents = IF in_open THEN [i \in 1..Wire!Read!cb_read |->
                         in_d[IF in_r + (i - 1) <= BufferSize THEN in_r + (i - 1) ELSE in_r + (i - 1) - (BufferSize + 1)]]
                       ELSE <<>>
         /\ Contents \in Seq(PeerByte) => Len(Contents) = Wire!Read!cb_read
         /\ in_open => \A i \in 1..Wire!Read!cb_r : Contents[i] = in_d[in_r + i - 1]
<1> DEFINE n == Wire!Read!cb_read
           p(i) == IF in_r + (i - 1) <= BufferSize THEN in_r + (i - 1) ELSE in_r + (i - 1) - (BufferSize + 1)
<1>1. Contents = IF in_open THEN [i \in 1..n |-> in_d[p(i)]] ELSE <<>>
  BY DEF Contents, Wire!Read!contents, Wire!Read!at, Wire!Read!End
<1>2. /\ n \in 0..BufferSize /\ Wire!Read!cb_r \in 0..n /\ (~in_open => n = 0)
      /\ in_r <= in_w => n = in_w - in_r /\ Wire!Read!cb_r = n
      /\ in_r > in_w => n = BufferSize + 1 - in_r + in_w /\ Wire!Read!cb_r = BufferSize + 1 - in_r
  BY BufferFacts
<1>3. ASSUME NEW i \in 1..Wire!Read!cb_r PROVE i \in 1..n /\ p(i) = in_r + i - 1
  BY <1>2, WireAssumption DEF RingType
<1> HIDE DEF n, p
<1>4. in_open => DOMAIN Contents = 1..n BY <1>1
<1>5. Contents \in Seq(PeerByte) => Len(Contents) = n
  <2>1. Contents \in Seq(PeerByte) /\ in_open => Len(Contents) \in Nat /\ 1..Len(Contents) = 1..n BY <1>4
  <2> QED BY <1>1, <1>2, <2>1
<1>6. ASSUME in_open, NEW i \in 1..Wire!Read!cb_r PROVE Contents[i] = in_d[in_r + i - 1]
  <2>1. i \in 1..n /\ p(i) = in_r + i - 1 BY <1>3
  <2>2. Contents[i] = in_d[p(i)] BY <1>1, <1>6, <2>1
  <2> QED BY <2>1, <2>2
<1> QED BY <1>1, <1>5, <1>6 DEF n, p

\* The same of the next state.
LEMMA BufferNext ==
  ASSUME RingType', NEW s \in Seq(PeerByte), Len(s) = Wire!Read!cb_read', in_open' \/ s = <<>>,
         \A i \in 1..Len(s) :
           s[i] = in_d'[IF in_r' + (i - 1) <= BufferSize THEN in_r' + (i - 1) ELSE in_r' + (i - 1) - (BufferSize + 1)]
  PROVE  Contents' = s
<1> DEFINE p(i) == IF in_r' + (i - 1) <= BufferSize THEN in_r' + (i - 1) ELSE in_r' + (i - 1) - (BufferSize + 1)
<1>1. Contents' = IF in_open' THEN [i \in 1..Wire!Read!cb_read' |-> in_d'[p(i)]] ELSE <<>>
  BY DEF Contents, Wire!Read!contents, Wire!Read!at, Wire!Read!End
<1>2. \A i \in 1..Len(s) : s[i] = in_d'[p(i)] OBVIOUS
<1> HIDE DEF p
<1>3. s = [i \in 1..Len(s) |-> in_d'[p(i)]]
  <2>1. s = [i \in 1..Len(s) |-> s[i]] OBVIOUS
  <2> QED BY <1>2, <2>1
<1>4. ~in_open' => in_r' = 0 /\ in_w' = 0 BY DEF RingType
<1> QED BY <1>1, <1>3, <1>4

LEMMA ReadNext ==
  RingType' => Wire!Read!cb_read' = (IF in_r' <= in_w' THEN in_w' - in_r' ELSE BufferSize + 1 - in_r' + in_w')
<1>1. Wire!Read!cb_read' = (IF in_r' <= in_w' THEN in_w' - in_r' ELSE Wire!Read!End - in_r' + in_w') BY DEF Wire!Read!cb_read
<1>2. Wire!Read!End = BufferSize + 1 BY DEF Wire!Read!End
<1>3. RingType' => in_r' \in 0..BufferSize /\ in_w' \in 0..BufferSize BY DEF RingType
<1> QED BY <1>1, <1>2, <1>3, WireAssumption

LEMMA Emptied ==
  ASSUME in_open' \in BOOLEAN, in_r' = 0, in_w' = 0 PROVE RingType' /\ Contents' = <<>>
<1>1. RingType' BY WireAssumption DEF RingType
<1>2. Wire!Read!cb_read' = 0 BY <1>1, ReadNext
<1>3. <<>> \in Seq(PeerByte) /\ Len(<<>>) = 0 /\ 1..0 = {} OBVIOUS
<1> QED BY <1>1, <1>2, <1>3, BufferNext

LEMMA Concat ==
  ASSUME NEW s \in Seq(PeerByte), NEW t \in Seq(PeerByte)
  PROVE  /\ s \o t \in Seq(PeerByte) /\ Len(s \o t) = Len(s) + Len(t)
         /\ \A i \in 1..Len(s) : (s \o t)[i] = s[i]
         /\ \A i \in 1..Len(t) : (s \o t)[Len(s) + i] = t[i]
OBVIOUS

LEMMA ReceiveAppends ==
  ASSUME RingType, Contents \in Seq(PeerByte), NEW s \in Seq(PeerByte), Len(s) # 0, Wire!Read!receive(s)
  PROVE  RingType' /\ Contents' = Contents \o s
<1> DEFINE n == Wire!Read!cb_read
           k == Len(s)
           t == Contents \o s
<1>1. k \in Nat \ {0} /\ in_open /\ k <= Wire!Read!cb_w BY DEF Wire!Read!receive
<1>2. /\ n \in 0..BufferSize /\ Wire!Read!cb_w \in 0..BufferSize /\ n + Wire!Read!cb_w <= BufferSize
      /\ in_r <= in_w => n = in_w - in_r
      /\ in_r > in_w => n = BufferSize + 1 - in_r + in_w
  BY BufferFacts
<1>3. Wire!Read!cb_w = IF in_r <= in_w THEN (IF in_r = 0 THEN BufferSize ELSE BufferSize + 1) - in_w ELSE in_r - 1 - in_w
  BY DEF Wire!Read!cb_w, Wire!Read!End
<1>4. /\ in_d' = [j \in 0..BufferSize |-> IF in_w <= j /\ j < in_w + k THEN s[j - in_w + 1] ELSE in_d[j]]
      /\ in_w' = (IF in_w + k = BufferSize + 1 THEN 0 ELSE in_w + k)
      /\ in_open' = in_open /\ in_r' = in_r
  BY DEF Wire!Read!receive, Wire!Read!copied, Wire!Read!wrapped, Wire!Read!End
<1>5. /\ Len(Contents) = n
      /\ \A i \in 1..n : Contents[i] =
           in_d[IF in_r + (i - 1) <= BufferSize THEN in_r + (i - 1) ELSE in_r + (i - 1) - (BufferSize + 1)]
  BY <1>1, BufferIs
<1>6. /\ t \in Seq(PeerByte) /\ Len(t) = n + k
      /\ \A i \in 1..n : t[i] = Contents[i]
      /\ \A i \in 1..k : t[n + i] = s[i]
  <2>1. /\ t \in Seq(PeerByte) /\ Len(t) = Len(Contents) + k
        /\ \A i \in 1..Len(Contents) : t[i] = Contents[i]
        /\ \A i \in 1..k : t[Len(Contents) + i] = s[i]
    BY Concat
  <2>2. Len(Contents) = n BY <1>5
  <2> QED BY <2>1, <2>2
<1> HIDE DEF n, k, t
<1>7. RingType' BY <1>1, <1>2, <1>3, <1>4, WireAssumption DEF RingType
<1>8. Wire!Read!cb_read' = n + k
  <2>1. Wire!Read!cb_read' = (IF in_r' <= in_w' THEN in_w' - in_r' ELSE BufferSize + 1 - in_r' + in_w') BY <1>7, ReadNext
  <2> QED BY <1>1, <1>2, <1>3, <1>4, <2>1, WireAssumption DEF RingType
<1>9. ASSUME NEW i \in 1..(n + k)
      PROVE  t[i] = in_d'[IF in_r' + (i - 1) <= BufferSize THEN in_r' + (i - 1) ELSE in_r' + (i - 1) - (BufferSize + 1)]
  <2> DEFINE j == IF in_r + (i - 1) <= BufferSize THEN in_r + (i - 1) ELSE in_r + (i - 1) - (BufferSize + 1)
  <2>1. j \in 0..BufferSize /\ (i <= n => ~(in_w <= j /\ j < in_w + k)) /\ (i > n => in_w <= j /\ j < in_w + k /\ j - in_w + 1 = i - n)
    BY <1>1, <1>2, <1>3, WireAssumption DEF RingType
  <2> HIDE DEF j
  <2>2. in_d'[j] = IF in_w <= j /\ j < in_w + k THEN s[j - in_w + 1] ELSE in_d[j] BY <1>4, <2>1
  <2>3. t[i] = in_d'[j]
    <3>1. CASE i <= n
      <4>1. i \in 1..n BY <1>2, <3>1
      <4>2. t[i] = in_d[j] BY <1>5, <1>6, <4>1 DEF j
      <4> QED BY <2>1, <2>2, <3>1, <4>2
    <3>2. CASE i > n
      <4>1. i - n \in 1..k /\ n + (i - n) = i BY <1>1, <1>2, <3>2
      <4>2. t[i] = s[i - n] BY <1>6, <4>1
      <4> QED BY <2>1, <2>2, <3>2, <4>2
    <3> QED BY <1>1, <1>2, <3>1, <3>2
  <2> QED BY <1>4, <2>3 DEF j
<1>10. Contents' = t BY <1>1, <1>4, <1>6, <1>7, <1>8, <1>9, BufferNext
<1> QED BY <1>7, <1>10 DEF t

LEMMA TakeDrops ==
  ASSUME RingType, Contents \in Seq(PeerByte), NEW n \in Nat \ {0}, Wire!Read!take(n)
  PROVE  /\ RingType' /\ Contents' = SubSeq(Contents, n + 1, Len(Contents))
         /\ in_open /\ n <= Wire!Read!cb_r
<1> DEFINE m == Wire!Read!cb_read
           t == SubSeq(Contents, n + 1, m)
<1>1. in_open /\ n <= Wire!Read!cb_r BY DEF Wire!Read!take
<1>2. /\ m \in 0..BufferSize /\ Wire!Read!cb_r \in 0..m
      /\ in_r <= in_w => m = in_w - in_r /\ Wire!Read!cb_r = m
      /\ in_r > in_w => m = BufferSize + 1 - in_r + in_w /\ Wire!Read!cb_r = BufferSize + 1 - in_r
  BY BufferFacts
<1>3. LET next == IF in_r + n = BufferSize + 1 THEN 0 ELSE in_r + n
      IN /\ IF next = in_w THEN in_r' = 0 /\ in_w' = 0 ELSE in_r' = next /\ in_w' = in_w
         /\ in_open' = in_open /\ in_d' = in_d
  BY DEF Wire!Read!take, Wire!Read!wrapped, Wire!Read!End
<1>4. /\ Len(Contents) = m
      /\ \A i \in 1..m : Contents[i] =
           in_d[IF in_r + (i - 1) <= BufferSize THEN in_r + (i - 1) ELSE in_r + (i - 1) - (BufferSize + 1)]
  BY <1>1, BufferIs
<1>5. t \in Seq(PeerByte) /\ Len(t) = m - n /\ \A i \in 1..(m - n) : t[i] = Contents[n + i]
  BY <1>1, <1>2, <1>4
<1> HIDE DEF m, t
<1>6. RingType' BY <1>1, <1>2, <1>3, WireAssumption DEF RingType
<1>7. Wire!Read!cb_read' = m - n
  <2>1. Wire!Read!cb_read' = (IF in_r' <= in_w' THEN in_w' - in_r' ELSE BufferSize + 1 - in_r' + in_w') BY <1>6, ReadNext
  <2> QED BY <1>1, <1>2, <1>3, <2>1, WireAssumption DEF RingType
<1>8. ASSUME NEW i \in 1..(m - n)
      PROVE  t[i] = in_d'[IF in_r' + (i - 1) <= BufferSize THEN in_r' + (i - 1) ELSE in_r' + (i - 1) - (BufferSize + 1)]
  <2> DEFINE j == IF in_r + ((n + i) - 1) <= BufferSize THEN in_r + ((n + i) - 1)
                  ELSE in_r + ((n + i) - 1) - (BufferSize + 1)
             l == IF in_r' + (i - 1) <= BufferSize THEN in_r' + (i - 1) ELSE in_r' + (i - 1) - (BufferSize + 1)
  <2>1. n + i \in 1..m BY <1>1, <1>2
  <2>2. Contents[n + i] = in_d[j] BY <1>4, <2>1
  <2>3. j = l BY <1>1, <1>2, <1>3, WireAssumption DEF RingType
  <2> HIDE DEF j, l
  <2>4. t[i] = in_d[l] BY <1>5, <2>2, <2>3
  <2> QED BY <1>3, <2>4 DEF l
<1>9. Contents' = t BY <1>1, <1>3, <1>5, <1>6, <1>7, <1>8, BufferNext
<1> QED BY <1>1, <1>4, <1>6, <1>9 DEF t, m

LEMMA CombineKeeps ==
  ASSUME RingType, Contents \in Seq(PeerByte), Wire!Read!combine
  PROVE  RingType' /\ Contents' = Contents
<1> DEFINE m == Wire!Read!cb_read
<1>1. /\ m \in 0..BufferSize
      /\ in_r <= in_w => m = in_w - in_r
      /\ in_r > in_w => m = BufferSize + 1 - in_r + in_w
  BY BufferFacts
<1>2. /\ in_open /\ m # 0 /\ in_r' = 0 /\ in_w' = m /\ in_open' = in_open
      /\ in_d' = [j \in 0..BufferSize |-> IF j < m THEN in_d[IF in_r + j <= BufferSize THEN in_r + j ELSE in_r + j - (BufferSize + 1)]
                                          ELSE in_d[j]]
  BY DEF Wire!Read!combine, Wire!Read!at, Wire!Read!End
<1>3. /\ Len(Contents) = m
      /\ \A i \in 1..m : Contents[i] =
           in_d[IF in_r + (i - 1) <= BufferSize THEN in_r + (i - 1) ELSE in_r + (i - 1) - (BufferSize + 1)]
  BY <1>2, BufferIs
<1> HIDE DEF m
<1>4. RingType' BY <1>1, <1>2, WireAssumption DEF RingType
<1>5. Wire!Read!cb_read' = m BY <1>1, <1>2, <1>4, ReadNext
<1>6. ASSUME NEW i \in 1..m
      PROVE  Contents[i] = in_d'[IF in_r' + (i - 1) <= BufferSize THEN in_r' + (i - 1) ELSE in_r' + (i - 1) - (BufferSize + 1)]
  <2>1. i - 1 \in 0..BufferSize /\ i - 1 < m BY <1>1, WireAssumption
  <2>2. in_d'[i - 1] = in_d[IF in_r + (i - 1) <= BufferSize THEN in_r + (i - 1) ELSE in_r + (i - 1) - (BufferSize + 1)]
    BY <1>2, <2>1
  <2>3. in_r' + (i - 1) = i - 1 /\ i - 1 <= BufferSize BY <1>2, <2>1
  <2> QED BY <1>3, <2>2, <2>3
<1> QED BY <1>2, <1>3, <1>4, <1>5, <1>6, BufferNext

-----------------------------------------------------------------------------
(* The link.                                                               *)

\* What the receiver is to read next.
place ==
  IF state = 2 THEN <<0, 1>> ELSE IF state = 4 THEN <<0, Handshake + 1>> ELSE <<Len(got) + 1, 1>>

WireTypes ==
  /\ sent \in Seq(Nat) /\ haves \in Nat /\ requests \in Seq(Int) /\ quota \in Nat /\ net \in Seq(PeerByte)
  /\ state \in {-1, 2, 3, 4} /\ rpc \in {"select", "recv", "parse", "rest"} /\ (state = -1 => rpc = "select")
  /\ got \in Seq(Nat) /\ (state \in {2, 4} => got = <<>>)
  /\ RingType

\* What is in the buffer, on its way and still to be sent follows on what was handled, and ends with
\* the last message that was written.  A link that was closed handles nothing any more.
WireInv ==
  /\ WireTypes /\ Wire!InOrder /\ Wire!ClosedByLong
  /\ \E x, y :
       /\ state # -1 => Run(sent, Contents, place, x) /\ Run(sent, net, x, y)
       /\ Blocks(sent, write_b, y, Last(sent))

LEMMA ExtendsSelf == ASSUME NEW q \in Seq(Nat) PROVE Extends(q, q)
BY DEF Extends

\* What is written is behind everything else.
LEMMA Written ==
  ASSUME NEW q \in Seq(Nat), NEW p, p \in Seq(Nat), Extends(q, p), NEW v, NEW wb, NEW a,
         Blocks(q, wb, a, Last(q)), Blocks(p, v, Last(q), Last(p))
  PROVE  Blocks(p, wb \o v, a, Last(p))
<1>1. Blocks(p, wb, a, Last(q)) BY BlocksMore
<1> QED BY <1>1, JoinBlocks

LEMMA NewMessage ==
  ASSUME NEW q \in Seq(Nat), NEW len \in Nat
  PROVE  /\ Append(q, len) \in Seq(Nat) /\ Extends(q, Append(q, len))
         /\ Len(Append(q, len)) = Len(q) + 1 /\ total(Append(q, len), Len(q) + 1) = Header + len
         /\ Blocks(Append(q, len), <<Wire!bytes(Len(q) + 1, 1, Header + len)>>, Last(q), Last(Append(q, len)))
<1> DEFINE p == Append(q, len)
           m == Len(q) + 1
<1>1. Len(q) \in Nat /\ p \in Seq(Nat) /\ Len(p) = m /\ p[m] = len /\ \A i \in 1..Len(q) : p[i] = q[i] OBVIOUS
<1> HIDE DEF p
<1>2. Extends(q, p) BY <1>1 DEF Extends
<1>3. total(p, m) = Header + len BY <1>1 DEF total
<1>4. Run(p, Wire!bytes(m, 1, Header + len), <<m, 1>>, <<m + 1, 1>>)
  <2>1. Header + len \in Nat /\ 1 <= Header + len /\ m \in 0..Len(p) /\ 1 \in Nat \ {0} BY <1>1, WireAssumption
  <2>2. <<m + 1, 1>> = IF Header + len = total(p, m) THEN <<m + 1, 1>> ELSE <<m, (Header + len) + 1>> BY <1>3
  <2>3. Header + len <= total(p, m) BY <1>3, <2>1
  <2> QED BY <1>1, <2>1, <2>2, <2>3, MessageRun
<1>5. Last(q) = <<m, 1>> /\ Last(p) = <<m + 1, 1>> BY <1>1 DEF Last
<1>6. Blocks(p, <<Wire!bytes(m, 1, Header + len)>>, Last(q), Last(p)) BY <1>4, <1>5, OneBlock
<1> QED BY <1>1, <1>2, <1>3, <1>6 DEF p

LEMMA NewPiece ==
  ASSUME NEW q \in Seq(Nat), NEW size \in Nat
  PROVE  Blocks(Append(q, 1 + size),
                <<Wire!bytes(Len(q) + 1, 1, Header + 1), Wire!bytes(Len(q) + 1, Header + 2, Header + 1 + size)>>,
                Last(q), Last(Append(q, 1 + size)))
<1> DEFINE p == Append(q, 1 + size)
           m == Len(q) + 1
           head == Wire!bytes(m, 1, Header + 1)
           data == Wire!bytes(m, Header + 2, Header + 1 + size)
           c == IF size = 0 THEN <<m + 1, 1>> ELSE <<m, Header + 2>>
<1>1. /\ p \in Seq(Nat) /\ Len(p) = m /\ total(p, m) = Header + (1 + size)
  <2>1. 1 + size \in Nat OBVIOUS
  <2>2. p \in Seq(Nat) /\ Len(p) = m /\ total(Append(q, 1 + size), Len(q) + 1) = Header + (1 + size) BY <2>1, NewMessage
  <2> QED BY <2>2
<1>2. m \in Nat /\ m \in 0..Len(p) BY <1>1
<1>3. Last(q) = <<m, 1>> /\ Last(p) = <<m + 1, 1>> BY <1>1 DEF Last
<1> HIDE DEF p, m
<1>4. Header \in Nat \ {0} BY WireAssumption
<1>5. Run(p, head, <<m, 1>>, c)
  <2>1. /\ Header + 1 \in Nat /\ 1 <= Header + 1 /\ Header + 1 <= total(p, m) /\ 1 \in Nat \ {0}
        /\ (Header + 1 = total(p, m) <=> size = 0) /\ (Header + 1) + 1 = Header + 2
    BY <1>1, <1>4
  <2>2. c = IF Header + 1 = total(p, m) THEN <<m + 1, 1>> ELSE <<m, (Header + 1) + 1>> BY <2>1
  <2> HIDE DEF c
  <2> QED BY <1>1, <1>2, <2>1, <2>2, MessageRun
<1>6. Run(p, data, c, <<m + 1, 1>>)
  <2>1. CASE size = 0
    <3>1. data = <<>>
      <4>1. data = [i \in 1..((Header + 1 + size) - (Header + 2) + 1) |-> <<m, Header + 2 + i - 1>>] BY DEF Wire!bytes
      <4>2. (Header + 1 + size) - (Header + 2) + 1 = 0 BY <1>4, <2>1
      <4> QED BY <4>1, <4>2
    <3> QED BY <2>1, <3>1, NoBytes
  <2>2. CASE size # 0
    <3>1. /\ Header + 2 \in Nat \ {0} /\ Header + 1 + size \in Nat /\ Header + 2 <= Header + 1 + size
          /\ Header + 1 + size = total(p, m)
      BY <1>1, <1>4, <2>2
    <3>2. <<m + 1, 1>> = IF Header + 1 + size = total(p, m) THEN <<m + 1, 1>> ELSE <<m, (Header + 1 + size) + 1>>
      BY <3>1
    <3>3. Header + 1 + size <= total(p, m) BY <3>1
    <3>4. Run(p, data, <<m, Header + 2>>, <<m + 1, 1>>) BY <1>1, <1>2, <3>1, <3>2, <3>3, MessageRun
    <3> QED BY <2>2, <3>4
  <2> QED BY <2>1, <2>2
<1> HIDE DEF head, data, c
<1>7. Blocks(p, <<head, data>>, <<m, 1>>, <<m + 1, 1>>) BY <1>5, <1>6, TwoBlocks
<1> QED BY <1>3, <1>7 DEF p, m, head, data

LEMMA NewHaves ==
  ASSUME NEW q \in Seq(Nat), NEW h \in Nat
  PROVE  LET p == q \o [i \in 1..h |-> 1]
         IN /\ p \in Seq(Nat) /\ Extends(q, p) /\ Len(p) = Len(q) + h
            /\ Blocks(p, [i \in 1..h |-> Wire!bytes(Len(q) + i, 1, Header + 1)], Last(q), Last(p))
<1> DEFINE ones == [i \in 1..h |-> 1]
           p == q \o ones
           n == Len(q)
           wb == [i \in 1..h |-> Wire!bytes(n + i, 1, Header + 1)]
           c == [i \in 1..(h + 1) |-> <<n + i, 1>>]
<1>1. n \in Nat /\ ones \in Seq(Nat) /\ Len(ones) = h /\ \A i \in 1..h : ones[i] = 1
  <2>1. ones \in [1..h -> Nat] OBVIOUS
  <2> QED BY <2>1
<1> HIDE DEF ones
<1>2. /\ p \in Seq(Nat) /\ Len(p) = n + h
      /\ \A i \in 1..n : p[i] = q[i]
      /\ \A i \in 1..h : p[n + i] = 1
  BY <1>1
<1> HIDE DEF p, n
<1>3. Extends(q, p) BY <1>1, <1>2 DEF Extends, n
<1>4. ASSUME NEW i \in 1..h PROVE Run(p, Wire!bytes(n + i, 1, Header + 1), <<n + i, 1>>, <<n + (i + 1), 1>>)
  <2>1. n + i \in 0..Len(p) /\ n + i # 0 /\ n + i \in Nat BY <1>1, <1>2
  <2>2. total(p, n + i) = Header + 1 BY <1>2, <2>1 DEF total
  <2>3. Header + 1 \in Nat /\ 1 <= Header + 1 /\ 1 \in Nat \ {0} BY WireAssumption
  <2>4. Run(p, Wire!bytes(n + i, 1, Header + 1), <<n + i, 1>>, <<(n + i) + 1, 1>>)
    <3>1. <<(n + i) + 1, 1>> = IF Header + 1 = total(p, n + i) THEN <<(n + i) + 1, 1>> ELSE <<n + i, (Header + 1) + 1>>
      BY <2>2
    <3>2. Header + 1 <= total(p, n + i) BY <2>2, <2>3
    <3> QED BY <1>2, <2>1, <2>3, <3>1, <3>2, MessageRun
  <2>5. (n + i) + 1 = n + (i + 1) BY <1>1
  <2> QED BY <2>4, <2>5
<1>5. wb \in Seq(Seq(PeerByte)) /\ Len(wb) = h /\ \A i \in 1..h : wb[i] = Wire!bytes(n + i, 1, Header + 1)
  <2>1. \A i \in 1..h : Wire!bytes(n + i, 1, Header + 1) \in Seq(PeerByte) BY <1>4 DEF Run
  <2>2. wb \in [1..h -> Seq(PeerByte)] BY <2>1
  <2> QED BY <2>2
<1>6. c[1] = Last(q) /\ c[h + 1] = Last(p) /\ \A i \in 1..h : c[i] = <<n + i, 1>> /\ c[i + 1] = <<n + (i + 1), 1>>
  <2>1. 1 \in 1..(h + 1) /\ h + 1 \in 1..(h + 1) /\ n + (h + 1) = n + h + 1 BY <1>1
  <2>2. c[1] = <<n + 1, 1>> /\ c[h + 1] = <<n + h + 1, 1>> BY <2>1
  <2> QED BY <1>2, <2>2 DEF Last, n
<1> HIDE DEF c, wb
<1>7. Blocks(p, wb, Last(q), Last(p)) BY <1>4, <1>5, <1>6 DEF Blocks
<1> QED BY <1>2, <1>3, <1>7 DEF p, n, ones, wb

\* n bytes of a message, and what follows on them.
LEMMA Advance ==
  ASSUME NEW q \in Seq(Nat), NEW m \in Nat, NEW j \in Nat \ {0}, NEW s, NEW b, Run(q, s, <<m, j>>, b),
         NEW n \in 1..Len(s), j + n - 1 <= total(q, m),
         NEW c, c = IF j + n - 1 = total(q, m) THEN <<m + 1, 1>> ELSE <<m, j + n>>
  PROVE  /\ m <= Len(q)
         /\ \A k \in 1..n : s[k] = <<m, j + k - 1>>
         /\ Run(q, SubSeq(s, n + 1, Len(s)), c, b)
<1>1. s \in Seq(PeerByte) /\ Len(s) \in Nat /\ n \in Nat /\ 1 <= n /\ n <= Len(s) BY DEF Run
<1>2. /\ \A i \in 1..Len(s) : s[i][1] <= Len(q) /\ (i < Len(s) => s[i + 1] = follows(q, s[i]))
      /\ s[1] = <<m, j>>
  BY <1>1 DEF Run
<1>3. m <= Len(q)
  <2>1. 1 \in 1..Len(s) BY <1>1
  <2> QED BY <1>2, <2>1
<1>4. total(q, m) \in Nat
  <2>1. m # 0 => m \in 1..Len(q) BY <1>3
  <2> QED BY <2>1, WireAssumption DEF total
<1>5. \A k \in 1..n : s[k] = <<m, j + k - 1>>
  <2> DEFINE S == {k \in Nat : k + 1 <= n => s[k + 1] = <<m, j + k>>}
  <2>1. 0 \in S BY <1>2
  <2>2. ASSUME NEW k \in Nat, k \in S PROVE k + 1 \in S
    <3>1. SUFFICES ASSUME (k + 1) + 1 <= n PROVE s[(k + 1) + 1] = <<m, j + (k + 1)>> OBVIOUS
    <3>2. k + 1 \in 1..Len(s) /\ k + 1 < Len(s) /\ k + 1 <= n BY <1>1, <3>1
    <3>3. s[k + 1] = <<m, j + k>> BY <2>2, <3>2
    <3>4. j + k < total(q, m) BY <1>1, <1>4, <3>1
    <3>5. follows(q, s[k + 1]) = <<m, (j + k) + 1>> BY <3>3, <3>4 DEF follows
    <3>6. (j + k) + 1 = j + (k + 1) OBVIOUS
    <3> QED BY <1>2, <3>2, <3>5, <3>6
  <2>3. Nat \subseteq S BY <2>1, <2>2, Induct
  <2>4. ASSUME NEW k \in 1..n PROVE s[k] = <<m, j + k - 1>>
    <3>1. k - 1 \in Nat /\ (k - 1) + 1 = k /\ (k - 1) + 1 <= n /\ j + (k - 1) = j + k - 1 BY <1>1
    <3> QED BY <2>3, <3>1
  <2> QED BY <2>4
<1>6. n \in 0..Len(s) BY <1>1
<1>7. PICK e : Run(q, SubSeq(s, 1, n), <<m, j>>, e) /\ Run(q, SubSeq(s, n + 1, Len(s)), e, b) BY <1>6, Split
<1>8. e = c
  <2>1. Len(SubSeq(s, 1, n)) = n /\ SubSeq(s, 1, n)[n] = s[n] BY <1>1
  <2>2. e = follows(q, s[n]) BY <1>1, <1>7, <2>1 DEF Run
  <2>3. s[n] = <<m, j + n - 1>>
    <3>1. n \in 1..n BY <1>1
    <3> QED BY <1>5, <3>1
  <2>4. (j + n - 1) + 1 = j + n BY <1>1
  <2>5. e = IF j + n - 1 < total(q, m) THEN <<m, j + n>> ELSE <<m + 1, 1>> BY <2>2, <2>3, <2>4 DEF follows
  <2>6. CASE j + n - 1 = total(q, m)
    <3>1. ~(j + n - 1 < total(q, m)) BY <1>4, <2>6
    <3> QED BY <2>5, <2>6, <3>1
  <2>7. CASE j + n - 1 # total(q, m)
    <3>1. j + n - 1 < total(q, m) BY <1>1, <1>4, <2>7
    <3> QED BY <2>5, <2>7, <3>1
  <2> QED BY <2>6, <2>7
<1> QED BY <1>3, <1>5, <1>7, <1>8

LEMMA InitWire == Wire!Init => WireInv
<1> SUFFICES ASSUME Wire!Init PROVE WireInv OBVIOUS
<1>1. WireTypes
  <2>1. in_open \in BOOLEAN /\ in_r = 0 /\ in_w = 0 BY DEF Wire!Init
  <2>2. RingType BY <2>1, WireAssumption DEF RingType
  <2>3. <<>> \in Seq(Nat) /\ <<>> \in Seq(Int) /\ <<>> \in Seq(PeerByte) OBVIOUS
  <2> QED BY <2>2, <2>3 DEF Wire!Init, WireTypes
<1>2. Wire!InOrder
  <2>1. got = <<>> /\ Len(got) = 0 BY DEF Wire!Init
  <2>2. [i \in 1..0 |-> i] = <<>> OBVIOUS
  <2> QED BY <2>1, <2>2 DEF Wire!InOrder
<1>3. Wire!ClosedByLong BY DEF Wire!Init, Wire!ClosedByLong
<1>4. Contents = <<>> BY DEF Wire!Init, Contents, Wire!Read!contents
<1>5. place = <<0, 1>> /\ net = <<>> /\ sent = <<>> BY DEF Wire!Init, place
<1>6. Run(<<>>, <<>>, <<0, 1>>, <<0, 1>>) BY NoBytes
<1>7. Blocks(<<>>, write_b, <<0, 1>>, Last(<<>>))
  <2> DEFINE n == Handshake + PeerId
             c == <<0, Handshake + 1>>
  <2>0. Handshake \in Nat \ {0} /\ PeerId \in Nat \ {0} /\ n \in Nat /\ Handshake + 1 <= n /\ Handshake < n BY WireAssumption
  <2>1. <<>> \in Seq(Nat) /\ 0 \in 0..Len(<<>>) /\ 1 \in Nat \ {0} OBVIOUS
  <2>2. total(<<>>, 0) = n BY DEF total
  <2> HIDE DEF n
  <2>3. Run(<<>>, Wire!bytes(0, 1, Handshake), <<0, 1>>, c)
    <3>1. 1 <= Handshake /\ Handshake <= total(<<>>, 0) /\ Handshake \in Nat BY <2>0, <2>2
    <3>2. c = IF Handshake = total(<<>>, 0) THEN <<0 + 1, 1>> ELSE <<0, Handshake + 1>> BY <2>0, <2>2
    <3> HIDE DEF c
    <3> QED BY <2>1, <3>1, <3>2, MessageRun
  <2>4. Run(<<>>, Wire!bytes(0, Handshake + 1, n), c, <<1, 1>>)
    <3>1. Handshake + 1 \in Nat \ {0} /\ n <= total(<<>>, 0) BY <2>0, <2>2
    <3>2. <<1, 1>> = IF n = total(<<>>, 0) THEN <<0 + 1, 1>> ELSE <<0, n + 1>> BY <2>2
    <3>3. Run(<<>>, Wire!bytes(0, Handshake + 1, n), <<0, Handshake + 1>>, <<1, 1>>) BY <2>0, <2>1, <3>1, <3>2, MessageRun
    <3> QED BY <3>3
  <2>5. Last(<<>>) = <<1, 1>> BY DEF Last
  <2>6. write_b = <<Wire!bytes(0, 1, Handshake), Wire!bytes(0, Handshake + 1, n)>> BY DEF Wire!Init, n
  <2> HIDE DEF c
  <2> QED BY <2>3, <2>4, <2>5, <2>6, TwoBlocks
<1> QED BY <1>1, <1>2, <1>3, <1>4, <1>5, <1>6, <1>7 DEF WireInv

-----------------------------------------------------------------------------
(* Steps of the sender.                                                    *)

SenderTypes ==
  sent \in Seq(Nat) /\ haves \in Nat /\ requests \in Seq(Int) /\ quota \in Nat /\ net \in Seq(PeerByte)

\* A step keeps the order when what it adds follows on what there is.
LEMMA SenderStep ==
  ASSUME WireInv, SenderTypes', Extends(sent, sent'), UNCHANGED Wire!receiver,
         \A y : Blocks(sent, write_b, y, Last(sent)) =>
           \E z : /\ Blocks(sent', write_b', z, Last(sent'))
                  /\ \A x : Run(sent, net, x, y) => Run(sent', net', x, z)
  PROVE  WireInv'
<1>1. /\ UNCHANGED <<in_open, in_d, in_r, in_w>> /\ state' = state /\ rpc' = rpc /\ got' = got
  BY DEF Wire!receiver, Wire!ring
<1>2. WireTypes' BY <1>1 DEF WireInv, WireTypes, RingType, SenderTypes
<1>3. Contents' = Contents /\ place' = place
  BY <1>1 DEF Contents, Wire!Read!contents, Wire!Read!cb_read, Wire!Read!at, Wire!Read!End, place
<1>4. Wire!InOrder' BY <1>1 DEF WireInv, Wire!InOrder
<1>5. Wire!ClosedByLong'
  <2> SUFFICES ASSUME state = -1 PROVE Len(got) < Len(sent') /\ sent'[Len(got) + 1] > MaxMessage
    BY <1>1 DEF Wire!ClosedByLong
  <2>1. Len(got) < Len(sent) /\ sent[Len(got) + 1] > MaxMessage BY DEF WireInv, Wire!ClosedByLong
  <2>2. Len(got) \in Nat /\ Len(sent) \in Nat /\ Len(sent') \in Nat /\ Len(sent) <= Len(sent')
    BY DEF WireInv, WireTypes, Extends
  <2>3. Len(got) + 1 \in 1..Len(sent) BY <2>1, <2>2
  <2>4. sent'[Len(got) + 1] = sent[Len(got) + 1] BY <2>3 DEF Extends
  <2> QED BY <2>1, <2>2, <2>4
<1>6. PICK x, y : /\ state # -1 => Run(sent, Contents, place, x) /\ Run(sent, net, x, y)
                  /\ Blocks(sent, write_b, y, Last(sent))
  BY DEF WireInv
<1>7. PICK z : /\ Blocks(sent', write_b', z, Last(sent'))
               /\ \A x1 : Run(sent, net, x1, y) => Run(sent', net', x1, z)
  BY <1>6
<1>8. state' # -1 => Run(sent', Contents', place', x) /\ Run(sent', net', x, z) BY <1>1, <1>3, <1>6, <1>7, RunMore
<1> QED BY <1>2, <1>4, <1>5, <1>7, <1>8 DEF WireInv

LEMMA QuietStep ==
  ASSUME WireInv, SenderTypes', UNCHANGED <<sent, net, write_b, Wire!receiver>>
  PROVE  WireInv'
<1>1. sent' = sent /\ net' = net /\ write_b' = write_b /\ UNCHANGED Wire!receiver OBVIOUS
<1>2. Extends(sent, sent') BY <1>1, ExtendsSelf DEF WireInv, WireTypes
<1>3. \A y : Blocks(sent, write_b, y, Last(sent)) =>
        \E z : /\ Blocks(sent', write_b', z, Last(sent'))
               /\ \A x : Run(sent, net, x, y) => Run(sent', net', x, z)
  BY <1>1
<1> QED BY <1>1, <1>2, <1>3, SenderStep

LEMMA MessageStep ==
  ASSUME WireInv, SenderTypes', NEW len \in Nat, UNCHANGED <<net, Wire!receiver>>,
         write_b' = Wire!written(write_b, Len(sent) + 1, len), sent' = Append(sent, len)
  PROVE  WireInv'
<1> DEFINE v == Wire!bytes(Len(sent) + 1, 1, Header + len)
           p == Append(sent, len)
<1>1. sent \in Seq(Nat) BY DEF WireInv, WireTypes
<1>2. p \in Seq(Nat) /\ Extends(sent, p) /\ Blocks(p, <<v>>, Last(sent), Last(p)) BY <1>1, NewMessage
<1>3. write_b' = Append(write_b, v) BY DEF Wire!written
<1>4. sent' = p /\ UNCHANGED Wire!receiver /\ net' = net OBVIOUS
<1> HIDE DEF v, p
<1>5. v \in Seq(PeerByte)
  <2>1. <<v>> # <<>> /\ Head(<<v>>) = v OBVIOUS
  <2> QED BY <1>2, <2>1, FirstBlock
<1>6. ASSUME NEW y, Blocks(sent, write_b, y, Last(sent))
      PROVE  \E z : /\ Blocks(sent', write_b', z, Last(sent'))
                    /\ \A x : Run(sent, net, x, y) => Run(sent', net', x, z)
  <2>1. write_b \in Seq(Seq(PeerByte)) BY <1>6 DEF Blocks
  <2>2. write_b' = write_b \o <<v>> BY <1>3, <1>5, <2>1, AppendIsConcat
  <2>3. Blocks(p, write_b \o <<v>>, y, Last(p)) BY <1>1, <1>2, <1>6, Written
  <2>4. \A x : Run(sent, net, x, y) => Run(p, net, x, y) BY <1>2, RunMore
  <2> QED BY <1>4, <2>2, <2>3, <2>4
<1> QED BY <1>2, <1>4, <1>6, SenderStep

\* What is served, and the haves behind it.
LEMMA ServedBlocks ==
  ASSUME WireInv, NEW y, Blocks(sent, write_b, y, Last(sent)), NEW s, s = Wire!served
  PROVE  /\ s.sent \in Seq(Nat) /\ Extends(sent, s.sent) /\ s.requests \in Seq(Int)
         /\ Blocks(s.sent, s.wb, y, Last(s.sent))
<1>1. sent \in Seq(Nat) /\ requests \in Seq(Int) BY DEF WireInv, WireTypes
<1>2. write_b \in Seq(Seq(PeerByte)) BY DEF Blocks
<1>3. CASE write_b # <<>> \/ Wire!served = [wb |-> write_b, sent |-> sent, requests |-> requests]
  <2>1. s = [wb |-> write_b, sent |-> sent, requests |-> requests] BY <1>3 DEF Wire!served
  <2> QED BY <1>1, <2>1, ExtendsSelf
<1>4. CASE requests # <<>> /\ Wire!served = [wb |-> write_b, sent |-> sent, requests |-> Tail(requests)]
  <2>1. s = [wb |-> write_b, sent |-> sent, requests |-> Tail(requests)] BY <1>4
  <2>2. Tail(requests) \in Seq(Int) BY <1>1, <1>4
  <2> QED BY <1>1, <2>1, <2>2, ExtendsSelf
<1>5. CASE /\ requests # <<>> /\ ~(Head(requests) < 0)
           /\ Wire!served = [wb |-> Wire!piece(write_b, Len(sent) + 1, Head(requests)),
                             sent |-> Append(sent, 1 + Head(requests)), requests |-> Tail(requests)]
  <2> DEFINE size == Head(requests)
             v == <<Wire!bytes(Len(sent) + 1, 1, Header + 1), Wire!bytes(Len(sent) + 1, Header + 2, Header + 1 + size)>>
             p == Append(sent, 1 + size)
  <2>1. Tail(requests) \in Seq(Int) /\ size \in Int BY <1>1, <1>5
  <2>2. size \in Nat /\ 1 + size \in Nat BY <1>5, <2>1
  <2>3. s.wb = Wire!piece(write_b, Len(sent) + 1, size) /\ s.sent = p /\ s.requests = Tail(requests) BY <1>5
  <2>4. s.wb = write_b \o v BY <2>3 DEF Wire!piece
  <2> HIDE DEF size
  <2>5. p \in Seq(Nat) /\ Extends(sent, p) BY <1>1, <2>2, NewMessage
  <2>6. Blocks(p, v, Last(sent), Last(p)) BY <1>1, <2>2, NewPiece
  <2> HIDE DEF p, v
  <2>7. Blocks(p, write_b \o v, y, Last(p)) BY <1>1, <2>5, <2>6, Written
  <2> QED BY <2>1, <2>3, <2>4, <2>5, <2>7
<1>6. \/ write_b # <<>> \/ Wire!served = [wb |-> write_b, sent |-> sent, requests |-> requests]
      \/ requests # <<>> /\ Wire!served = [wb |-> write_b, sent |-> sent, requests |-> Tail(requests)]
      \/ /\ requests # <<>> /\ ~(Head(requests) < 0)
         /\ Wire!served = [wb |-> Wire!piece(write_b, Len(sent) + 1, Head(requests)),
                           sent |-> Append(sent, 1 + Head(requests)), requests |-> Tail(requests)]
  BY DEF Wire!served
<1> QED BY <1>3, <1>4, <1>5, <1>6

LEMMA HavesBlocks ==
  ASSUME WireInv, NEW y, Blocks(sent, write_b, y, Last(sent)), NEW s, s = Wire!with_haves(Wire!served)
  PROVE  /\ s.sent \in Seq(Nat) /\ Extends(sent, s.sent) /\ s.requests \in Seq(Int)
         /\ Blocks(s.sent, s.wb, y, Last(s.sent))
<1> DEFINE e == Wire!served
           q == e.sent
           v == [i \in 1..haves |-> Wire!bytes(Len(q) + i, 1, Header + 1)]
           p == q \o [i \in 1..haves |-> 1]
<1>1. /\ q \in Seq(Nat) /\ Extends(sent, q) /\ e.requests \in Seq(Int)
      /\ Blocks(q, e.wb, y, Last(q))
  BY ServedBlocks
<1>2. e = [wb |-> e.wb, sent |-> e.sent, requests |-> e.requests]
  BY DEF Wire!served
<1>3. s.wb = e.wb \o v /\ s.sent = p /\ s.requests = e.requests
  BY <1>2 DEF Wire!with_haves
<1> HIDE DEF e, q
<1>4. haves \in Nat BY DEF WireInv, WireTypes
<1>5. p \in Seq(Nat) /\ Extends(q, p) /\ Blocks(p, v, Last(q), Last(p)) BY <1>1, <1>4, NewHaves
<1> HIDE DEF v, p
<1>6. Blocks(p, e.wb \o v, y, Last(p)) BY <1>1, <1>5, Written
<1>7. Extends(sent, p)
  <2>1. ASSUME NEW i \in 1..Len(sent) PROVE p[i] = sent[i]
    <3>1. i \in 1..Len(q) BY <1>1, <1>5 DEF Extends
    <3>2. q[i] = sent[i] BY <1>1 DEF Extends
    <3>3. p[i] = q[i] BY <1>5, <3>1 DEF Extends
    <3> QED BY <3>2, <3>3
  <2>2. Len(sent) <= Len(p) BY <1>1, <1>5 DEF Extends
  <2> QED BY <1>1, <1>5, <2>1, <2>2 DEF Extends
<1> QED BY <1>1, <1>3, <1>5, <1>6, <1>7

\* A block is taken from, from its front.
LEMMA BlocksTaken ==
  ASSUME NEW q, NEW wb, NEW a, NEW b, Blocks(q, wb, a, b), wb # <<>>, NEW k \in 1..Len(Head(wb))
  PROVE  \E e : Run(q, SubSeq(Head(wb), 1, k), a, e) /\ Blocks(q, Wire!unsent(wb, k), e, b)
<1> DEFINE h == Head(wb)
           t == Tail(wb)
           v == SubSeq(h, k + 1, Len(h))
<1>1. PICK c : h \in Seq(PeerByte) /\ Run(q, h, a, c) /\ Blocks(q, t, c, b) BY FirstBlock
<1>2. Len(h) \in Nat /\ k \in 0..Len(h) BY <1>1
<1>3. PICK e : Run(q, SubSeq(h, 1, k), a, e) /\ Run(q, v, e, c) BY <1>1, <1>2, Split
<1>4. Wire!unsent(wb, k) = IF k = Len(h) THEN t ELSE <<v>> \o t BY DEF Wire!unsent
<1>5. CASE k = Len(h)
  <2>1. v = <<>> /\ Len(v) = 0 BY <1>1, <1>2, <1>5
  <2>2. e = c BY <1>3, <2>1 DEF Run
  <2> QED BY <1>1, <1>3, <1>4, <1>5, <2>2
<1>6. CASE k # Len(h)
  <2>1. Blocks(q, <<v>>, e, c) BY <1>3, OneBlock
  <2>2. Blocks(q, <<v>> \o t, e, b) BY <1>1, <2>1, JoinBlocks
  <2> QED BY <1>3, <1>4, <1>6, <2>2
<1> QED BY <1>5, <1>6

LEMMA SendStep == ASSUME WireInv, Wire!send PROVE WireInv'
<1>1. PICK y0 : Blocks(sent, write_b, y0, Last(sent)) BY DEF WireInv
<1>2. sent \in Seq(Nat) /\ haves \in Nat /\ requests \in Seq(Int) /\ quota \in Nat /\ net \in Seq(PeerByte)
  BY DEF WireInv, WireTypes
<1>3. UNCHANGED Wire!receiver BY DEF Wire!send
<1>4. CASE Wire!served.wb = <<>>
  <2>1. requests' = Wire!served.requests /\ quota' = 0 /\ UNCHANGED <<write_b, haves, sent, net>> BY <1>4 DEF Wire!send
  <2> DEFINE s == Wire!served
  <2>2. s = Wire!served OBVIOUS
  <2> HIDE DEF s
  <2>3. s.requests \in Seq(Int) BY <1>1, <2>2, ServedBlocks
  <2>4. SenderTypes' BY <1>2, <2>1, <2>2, <2>3 DEF SenderTypes
  <2> QED BY <1>3, <2>1, <2>4, QuietStep
<1>5. CASE Wire!served.wb # <<>>
  <2> DEFINE s == Wire!with_haves(Wire!served)
             offer == Wire!Read!Least(Len(Head(s.wb)), quota)
             limit == Wire!Read!Least(offer, Network - Len(net))
  <2>1. /\ sent' = s.sent /\ haves' = 0 /\ requests' = s.requests
        /\ \/ /\ limit > 0
              /\ \E k \in 1..limit :
                   /\ net' = net \o SubSeq(Head(s.wb), 1, k)
                   /\ write_b' = Wire!unsent(s.wb, k)
                   /\ quota' = IF k = offer THEN quota - k ELSE 0
           \/ write_b' = s.wb /\ quota' = 0 /\ UNCHANGED net
    BY <1>5 DEF Wire!send
  <2>2. s = Wire!with_haves(Wire!served) OBVIOUS
  <2>3. s.wb # <<>>
    <3> DEFINE e == Wire!served
    <3>1. e = Wire!served /\ e = [wb |-> e.wb, sent |-> e.sent, requests |-> e.requests] BY DEF Wire!served
    <3>2. s.wb = e.wb \o [i \in 1..haves |-> Wire!bytes(Len(e.sent) + i, 1, Header + 1)]
      BY <3>1 DEF Wire!with_haves
    <3>3. e.wb # <<>> BY <1>5
    <3> HIDE DEF e, s
    <3>4. e.wb \in Seq(Seq(PeerByte)) BY <1>1, <3>1, ServedBlocks DEF Blocks
    <3> DEFINE v == [i \in 1..haves |-> Wire!bytes(Len(e.sent) + i, 1, Header + 1)]
    <3>5. v \in Seq(Seq(PeerByte))
      <4>1. e.sent \in Seq(Nat) BY <1>1, <3>1, ServedBlocks
      <4>2. Blocks(e.sent \o [i \in 1..haves |-> 1], v, Last(e.sent), Last(e.sent \o [i \in 1..haves |-> 1])) BY <1>2, <4>1, NewHaves
      <4> QED BY <4>2 DEF Blocks
    <3> HIDE DEF v
    <3>6. s.wb = e.wb \o v BY <3>2 DEF v
    <3>7. Len(e.wb) \in Nat \ {0} BY <3>3, <3>4, EmptySeq
    <3>8. Len(e.wb \o v) = Len(e.wb) + Len(v) BY <3>4, <3>5
    <3> QED BY <3>4, <3>5, <3>6, <3>7, <3>8
  <2> HIDE DEF s
  <2>4. ASSUME NEW y, Blocks(sent, write_b, y, Last(sent))
        PROVE  /\ s.sent \in Seq(Nat) /\ Extends(sent, s.sent) /\ s.requests \in Seq(Int)
               /\ Blocks(s.sent, s.wb, y, Last(s.sent))
    BY <2>2, <2>4, HavesBlocks
  <2>5. s.sent \in Seq(Nat) /\ Extends(sent, s.sent) /\ s.requests \in Seq(Int) BY <1>1, <2>4
  <2>6. CASE write_b' = s.wb /\ quota' = 0 /\ UNCHANGED net
    <3>1. SenderTypes' BY <1>2, <2>1, <2>5, <2>6 DEF SenderTypes
    <3>2. ASSUME NEW y, Blocks(sent, write_b, y, Last(sent))
          PROVE  \E z : /\ Blocks(sent', write_b', z, Last(sent'))
                        /\ \A x : Run(sent, net, x, y) => Run(sent', net', x, z)
      <4>1. \A x : Run(sent, net, x, y) => Run(s.sent, net, x, y) BY <2>5, RunMore
      <4> QED BY <2>1, <2>4, <2>6, <3>2, <4>1
    <3> QED BY <1>3, <2>1, <2>5, <3>1, <3>2, SenderStep
  <2>7. ASSUME limit > 0, NEW k \in 1..limit,
               net' = net \o SubSeq(Head(s.wb), 1, k), write_b' = Wire!unsent(s.wb, k),
               quota' = IF k = offer THEN quota - k ELSE 0
        PROVE  WireInv'
    <3>1. PICK c : Head(s.wb) \in Seq(PeerByte) /\ Run(s.sent, Head(s.wb), y0, c) BY <1>1, <2>3, <2>4, FirstBlock
    <3>2. Len(Head(s.wb)) \in Nat /\ Network \in Nat /\ Len(net) \in Nat BY <1>2, <3>1, WireAssumption
    <3>3. offer \in Nat /\ offer <= Len(Head(s.wb)) /\ offer <= quota BY <1>2, <3>2 DEF Wire!Read!Least
    <3>4. limit \in Int /\ limit <= offer BY <3>2, <3>3 DEF Wire!Read!Least
    <3> HIDE DEF offer, limit
    <3>5. k \in 1..Len(Head(s.wb)) /\ k <= quota /\ k \in Nat BY <1>2, <3>2, <3>3, <3>4
    <3>6. SenderTypes'
      <4>1. SubSeq(Head(s.wb), 1, k) \in Seq(PeerByte) BY <3>1, <3>5
      <4>2. net' \in Seq(PeerByte) BY <1>2, <2>7, <4>1
      <4>3. quota' \in Nat BY <1>2, <2>7, <3>5
      <4> QED BY <1>2, <2>1, <2>5, <4>2, <4>3 DEF SenderTypes
    <3>7. ASSUME NEW y, Blocks(sent, write_b, y, Last(sent))
          PROVE  \E z : /\ Blocks(sent', write_b', z, Last(sent'))
                        /\ \A x : Run(sent, net, x, y) => Run(sent', net', x, z)
      <4>1. Blocks(s.sent, s.wb, y, Last(s.sent)) BY <2>4, <3>7
      <4>2. PICK z : Run(s.sent, SubSeq(Head(s.wb), 1, k), y, z) /\ Blocks(s.sent, Wire!unsent(s.wb, k), z, Last(s.sent))
        BY <2>3, <3>5, <4>1, BlocksTaken
      <4>3. ASSUME NEW x, Run(sent, net, x, y) PROVE Run(s.sent, net \o SubSeq(Head(s.wb), 1, k), x, z)
        <5>1. Run(s.sent, net, x, y) BY <2>5, <4>3, RunMore
        <5> QED BY <4>2, <5>1, Join
      <4> QED BY <2>1, <2>7, <4>2, <4>3
    <3> QED BY <1>3, <2>1, <2>5, <3>6, <3>7, SenderStep
  <2> QED BY <2>1, <2>6, <2>7
<1> QED BY <1>4, <1>5

LEMMA SenderSteps ==
  ASSUME WireInv, Wire!Write \/ Wire!writable \/ Wire!call_send \/ Wire!send PROVE WireInv'
<1>1. sent \in Seq(Nat) /\ haves \in Nat /\ requests \in Seq(Int) /\ quota \in Nat /\ net \in Seq(PeerByte)
  BY DEF WireInv, WireTypes
<1>2. \A len \in Nat : Append(sent, len) \in Seq(Nat) BY <1>1
<1>3. ASSUME NEW len \in Lengths, Wire!write_message(len) PROVE WireInv'
  <2>1. len \in Nat BY WireAssumption
  <2>2. /\ write_b' = Wire!written(write_b, Len(sent) + 1, len) /\ sent' = Append(sent, len)
        /\ UNCHANGED <<haves, requests, quota, net, Wire!receiver>>
    BY <1>3 DEF Wire!write_message
  <2>3. SenderTypes' BY <1>1, <1>2, <2>1, <2>2 DEF SenderTypes
  <2> QED BY <2>1, <2>2, <2>3, MessageStep
<1>4. ASSUME Wire!queue_have PROVE WireInv'
  <2>1. haves' = haves + 1 /\ UNCHANGED <<write_b, requests, quota, sent, net, Wire!receiver>> BY <1>4 DEF Wire!queue_have
  <2>2. SenderTypes' BY <1>1, <2>1 DEF SenderTypes
  <2> QED BY <2>1, <2>2, QuietStep
<1>5. ASSUME NEW size \in Asked, Wire!remote_requests(size) PROVE WireInv'
  <2>1. requests' = Append(requests, size) /\ UNCHANGED <<write_b, haves, quota, sent, net, Wire!receiver>>
    BY <1>5 DEF Wire!remote_requests
  <2>2. size \in Int BY WireAssumption
  <2>3. SenderTypes' BY <1>1, <2>1, <2>2 DEF SenderTypes
  <2> QED BY <2>1, <2>3, QuietStep
<1>6. ASSUME Wire!write_choke PROVE WireInv'
  <2>1. /\ write_b' = Wire!written(write_b, Len(sent) + 1, 1) /\ sent' = Append(sent, 1)
        /\ requests' = <<>> \/ requests' = requests
        /\ UNCHANGED <<haves, quota, net, Wire!receiver>>
    BY <1>6 DEF Wire!write_choke
  <2>2. 1 \in Nat /\ <<>> \in Seq(Int) OBVIOUS
  <2>3. SenderTypes' BY <1>1, <1>2, <2>1, <2>2 DEF SenderTypes
  <2> QED BY <2>1, <2>2, <2>3, MessageStep
<1>7. ASSUME Wire!writable PROVE WireInv'
  <2>1. UNCHANGED <<write_b, haves, requests, quota, sent, net, Wire!receiver>> BY <1>7 DEF Wire!writable
  <2>2. SenderTypes' BY <1>1, <2>1 DEF SenderTypes
  <2> QED BY <2>1, <2>2, QuietStep
<1>8. ASSUME Wire!call_send PROVE WireInv'
  <2>1. quota' \in Quotas /\ UNCHANGED <<write_b, haves, requests, sent, net, Wire!receiver>> BY <1>8 DEF Wire!call_send
  <2>2. SenderTypes' BY <1>1, <2>1, WireAssumption DEF SenderTypes
  <2> QED BY <2>1, <2>2, QuietStep
<1> QED BY <1>3, <1>4, <1>5, <1>6, <1>7, <1>8, SendStep DEF Wire!Write

-----------------------------------------------------------------------------
(* Steps of the receiver.                                                  *)

\* What the parser sees of a message at the front of the buffer.
LEMMA FirstByte ==
  ASSUME RingType, NEW a, NEW x, Run(sent, Contents, a, x), Wire!Read!cb_r > 0
  PROVE  /\ in_open /\ Contents[1] = a /\ a[1] <= Len(sent) /\ in_d[in_r] = a
         /\ Wire!Read!cb_r <= Len(Contents)
<1>1. Contents \in Seq(PeerByte) BY DEF Run
<1>2. Len(Contents) = Wire!Read!cb_read BY <1>1, BufferIs
<1>3. Wire!Read!cb_read \in 0..BufferSize /\ Wire!Read!cb_r \in 0..Wire!Read!cb_read /\ (~in_open => Wire!Read!cb_read = 0)
  BY BufferFacts
<1>4. BufferSize \in Nat BY WireAssumption
<1>5. in_open /\ Len(Contents) # 0 /\ 1 \in 1..Wire!Read!cb_r /\ 1 \in 1..Len(Contents) BY <1>2, <1>3, <1>4
<1>6. Contents[1] = in_d[in_r + 1 - 1] BY <1>5, BufferIs
<1>7. in_r + 1 - 1 = in_r BY DEF RingType
<1>8. Contents[1] = a /\ Contents[1][1] <= Len(sent) BY <1>5 DEF Run
<1>9. in_d[in_r] = a BY <1>6, <1>7, <1>8
<1>10. Wire!Read!cb_r <= Len(Contents) BY <1>2, <1>3, <1>4
<1> QED BY <1>5, <1>8, <1>9, <1>10

LEMMA FrontIs ==
  ASSUME RingType, sent \in Seq(Nat), NEW m \in Nat, NEW x, Run(sent, Contents, <<m, 1>>, x),
         NEW n \in 1..Wire!Read!cb_r, n <= total(sent, m)
  PROVE  Wire!front(n) = Wire!bytes(m, 1, n)
<1>1. Wire!Read!cb_r \in Nat /\ n \in Nat /\ Wire!Read!cb_r > 0
  <2>1. Wire!Read!cb_r \in Int BY BufferFacts, WireAssumption
  <2> QED BY <2>1
<1>2. in_open /\ Wire!Read!cb_r <= Len(Contents) BY <1>1, FirstByte
<1>3. n \in 1..Len(Contents) /\ 1 + n - 1 <= total(sent, m) /\ 1 \in Nat \ {0}
  <2>1. Len(Contents) \in Nat BY DEF Run
  <2> QED BY <1>1, <1>2, <2>1
<1>4. \A k \in 1..n : Contents[k] = <<m, 1 + k - 1>>
  <2> DEFINE c == IF 1 + n - 1 = total(sent, m) THEN <<m + 1, 1>> ELSE <<m, 1 + n>>
  <2>1. c = IF 1 + n - 1 = total(sent, m) THEN <<m + 1, 1>> ELSE <<m, 1 + n>> OBVIOUS
  <2> HIDE DEF c
  <2> QED BY <1>3, <2>1, Advance
<1>5. \A k \in 1..n : Contents[k] = in_d[in_r + k - 1]
  <2>1. \A k \in 1..n : k \in 1..Wire!Read!cb_r BY <1>1
  <2> QED BY <1>2, <2>1, BufferIs
<1>6. n - 1 + 1 = n BY <1>1
<1>7. Wire!bytes(m, 1, n) = [i \in 1..n |-> <<m, 1 + i - 1>>] BY <1>6 DEF Wire!bytes
<1>8. Wire!front(n) = [i \in 1..n |-> in_d[in_r + i - 1]] BY DEF Wire!front
<1> QED BY <1>4, <1>5, <1>7, <1>8

LEMMA LengthIs ==
  ASSUME RingType, sent \in Seq(Nat), NEW m \in Nat \ {0}, NEW x, Run(sent, Contents, <<m, 1>>, x),
         Wire!Read!cb_r >= Header
  PROVE  /\ m <= Len(sent) /\ Wire!length = sent[m] /\ sent[m] \in Nat
         /\ Wire!Read!cb_r >= Header + sent[m] => Wire!handled(sent[m]) = m
<1>1. Wire!Read!cb_r \in Int BY BufferFacts, WireAssumption
<1>2. Header \in Nat \ {0} /\ Wire!Read!cb_r > 0 BY <1>1, WireAssumption
<1>3. in_d[in_r] = <<m, 1>> /\ <<m, 1>>[1] <= Len(sent) BY <1>2, FirstByte
<1>4. in_d[in_r][1] = m /\ m <= Len(sent) /\ m > 0 BY <1>3
<1>5. m \in 1..Len(sent) /\ sent[m] \in Nat /\ total(sent, m) = Header + sent[m] BY <1>4 DEF total
<1>6. Wire!front(Header) = Wire!bytes(m, 1, Header)
  <2>1. Header \in 1..Wire!Read!cb_r /\ Header <= total(sent, m) BY <1>1, <1>2, <1>5
  <2> QED BY <2>1, FrontIs
<1>7. Wire!length = sent[m] BY <1>4, <1>6 DEF Wire!length
<1>8. ASSUME Wire!Read!cb_r >= Header + sent[m] PROVE Wire!handled(sent[m]) = m
  <2>1. Header + sent[m] \in 1..Wire!Read!cb_r /\ Header + sent[m] <= total(sent, m) BY <1>1, <1>2, <1>5, <1>8
  <2>2. Wire!front(Header + sent[m]) = Wire!bytes(m, 1, Header + sent[m]) BY <2>1, FrontIs
  <2> QED BY <1>4, <2>2 DEF Wire!handled
<1> QED BY <1>4, <1>5, <1>7, <1>8

LEMMA ReceiverStep ==
  ASSUME WireInv, UNCHANGED Wire!sender, WireTypes', Wire!InOrder', Wire!ClosedByLong',
         \A x, y : (state # -1 => Run(sent, Contents, place, x) /\ Run(sent, net, x, y)) =>
           \E z : state' # -1 => Run(sent, Contents', place', z) /\ Run(sent, net', z, y)
  PROVE  WireInv'
<1>1. sent' = sent /\ write_b' = write_b BY DEF Wire!sender
<1>2. PICK x, y : /\ state # -1 => Run(sent, Contents, place, x) /\ Run(sent, net, x, y)
                  /\ Blocks(sent, write_b, y, Last(sent))
  BY DEF WireInv
<1>3. PICK z : state' # -1 => Run(sent, Contents', place', z) /\ Run(sent, net', z, y) BY <1>2
<1> QED BY <1>1, <1>2, <1>3 DEF WireInv

\* A step that handles nothing.
LEMMA SilentStep ==
  ASSUME WireInv, UNCHANGED <<Wire!sender, state, got>>, RingType', net' \in Seq(PeerByte),
         rpc' \in {"select", "recv", "parse", "rest"}, state = -1 => rpc' = "select",
         \A x, y : (state # -1 => Run(sent, Contents, place, x) /\ Run(sent, net, x, y)) =>
           \E z : state # -1 => Run(sent, Contents', place, z) /\ Run(sent, net', z, y)
  PROVE  WireInv'
<1>1. UNCHANGED <<sent, haves, requests, quota, state, got>> /\ UNCHANGED Wire!sender BY DEF Wire!sender
<1>2. WireTypes' BY <1>1 DEF WireInv, WireTypes
<1>3. Wire!InOrder' /\ Wire!ClosedByLong' BY <1>1 DEF WireInv, Wire!InOrder, Wire!ClosedByLong
<1>4. place' = place BY <1>1 DEF place
<1> QED BY <1>1, <1>2, <1>3, <1>4, ReceiverStep

LEMMA SameContents ==
  UNCHANGED Wire!ring => Contents' = Contents /\ (RingType => RingType')
BY DEF Wire!ring, Contents, Wire!Read!contents, Wire!Read!cb_read, Wire!Read!at, Wire!Read!End, RingType

LEMMA WakeStep == ASSUME WireInv, Wire!wake PROVE WireInv'
<1>1. RingType /\ net \in Seq(PeerByte) BY DEF WireInv, WireTypes
<1>2. /\ state # -1 /\ rpc' = "recv" /\ UNCHANGED <<Wire!sender, net, state, got>>
      /\ IF in_open THEN UNCHANGED Wire!ring ELSE Wire!Read!allocate
  BY DEF Wire!wake
<1>3. RingType' /\ Contents' = Contents
  <2>1. CASE in_open BY <1>1, <1>2, <2>1, SameContents
  <2>2. CASE ~in_open
    <3>1. Contents = <<>> BY <1>1, <2>2, BufferIs
    <3>2. in_open' \in BOOLEAN /\ in_r' = 0 /\ in_w' = 0 BY <1>2, <2>2 DEF Wire!Read!allocate
    <3> QED BY <3>1, <3>2, Emptied
  <2> QED BY <2>1, <2>2
<1> QED BY <1>1, <1>2, <1>3, SilentStep

LEMMA RecvStep == ASSUME WireInv, Wire!recv PROVE WireInv'
<1>1. /\ RingType /\ net \in Seq(PeerByte) /\ rpc = "recv" /\ state # -1
      /\ UNCHANGED <<Wire!sender, state, got>>
  BY DEF WireInv, WireTypes, Wire!recv
<1>2. CASE rpc' = "parse" /\ UNCHANGED <<Wire!ring, net>> BY <1>1, <1>2, SameContents, SilentStep
<1>3. ASSUME NEW k \in 1..Wire!Read!Least(Len(net), Wire!Read!cb_w),
             Wire!Read!receive(SubSeq(net, 1, k)), net' = SubSeq(net, k + 1, Len(net)), rpc' \in {"recv", "parse"}
      PROVE  WireInv'
  <2> DEFINE s == SubSeq(net, 1, k)
  <2>1. Wire!Read!cb_w \in Int BY <1>1, BufferFacts
  <2>2. k \in 0..Len(net) /\ k \in Nat \ {0}
    <3>1. Wire!Read!Least(Len(net), Wire!Read!cb_w) \in Int /\ Wire!Read!Least(Len(net), Wire!Read!cb_w) <= Len(net)
      BY <1>1, <2>1 DEF Wire!Read!Least
    <3> QED BY <1>1, <3>1
  <2>3. s \in Seq(PeerByte) /\ Len(s) # 0 /\ net' \in Seq(PeerByte) BY <1>1, <1>3, <2>2
  <2>4. PICK x0, y0 : Run(sent, Contents, place, x0) /\ Run(sent, net, x0, y0) BY <1>1 DEF WireInv
  <2>5. Contents \in Seq(PeerByte) BY <2>4 DEF Run
  <2>6. Wire!Read!receive(s) BY <1>3
  <2> HIDE DEF s
  <2>7. RingType' /\ Contents' = Contents \o s BY <1>1, <2>3, <2>5, <2>6, ReceiveAppends
  <2>8. ASSUME NEW x, NEW y, Run(sent, Contents, place, x), Run(sent, net, x, y)
        PROVE  \E z : Run(sent, Contents', place, z) /\ Run(sent, net', z, y)
    <3>1. PICK z : Run(sent, s, x, z) /\ Run(sent, net', z, y) BY <1>3, <2>2, <2>8, Split DEF s
    <3>2. Run(sent, Contents \o s, place, z) BY <2>8, <3>1, Join
    <3> QED BY <2>7, <3>1, <3>2
  <2> QED BY <1>1, <1>3, <2>3, <2>7, <2>8, SilentStep
<1> QED BY <1>2, <1>3 DEF Wire!recv

LEMMA RestStep == ASSUME WireInv, Wire!rest PROVE WireInv'
<1>1. /\ RingType /\ net \in Seq(PeerByte) /\ rpc = "rest" /\ state # -1
      /\ UNCHANGED <<Wire!sender, net, state, got>>
  BY DEF WireInv, WireTypes, Wire!rest
<1>2. PICK x0, y0 : Run(sent, Contents, place, x0) /\ Run(sent, net, x0, y0) BY <1>1 DEF WireInv
<1>3. Contents \in Seq(PeerByte) BY <1>2 DEF Run
<1>4. rpc' \in {"parse", "select"} /\ RingType' /\ Contents' = Contents
  <2>1. CASE Wire!Read!combine /\ rpc' = "parse" BY <1>1, <1>3, <2>1, CombineKeeps
  <2>2. CASE rpc' = "select" /\ Wire!Read!cb_r = 0 /\ Wire!Read!release
    <3>1. Wire!Read!cb_read = 0 BY <1>1, <2>2, BufferFacts
    <3>2. Len(Contents) = 0 BY <1>1, <1>3, <3>1, BufferIs
    <3>3. Contents = <<>> BY <1>3, <3>2, EmptySeq
    <3>4. in_open' \in BOOLEAN /\ in_r' = 0 /\ in_w' = 0 BY <2>2 DEF Wire!Read!release
    <3> QED BY <2>2, <3>3, <3>4, Emptied
  <2>3. CASE rpc' = "select" /\ UNCHANGED Wire!ring BY <1>1, <2>3, SameContents
  <2> QED BY <2>1, <2>2, <2>3 DEF Wire!rest, Wire!rest_taken
<1> QED BY <1>1, <1>4, SilentStep

LEMMA HandshakeStep == ASSUME WireInv, Wire!handshake PROVE WireInv'
<1> DEFINE n == IF state = 2 THEN Handshake ELSE PeerId
           j == IF state = 2 THEN 1 ELSE Handshake + 1
<1>1. /\ WireTypes /\ RingType /\ sent \in Seq(Nat) /\ rpc = "parse" /\ state \in {2, 4} /\ state # -1 /\ got = <<>>
      /\ net' = net /\ net \in Seq(PeerByte)
      /\ UNCHANGED <<Wire!sender, net, got>>
  BY DEF WireInv, WireTypes, Wire!handshake
<1>2. CASE rpc' = "select" /\ UNCHANGED <<Wire!ring, state>> BY <1>1, <1>2, SameContents, SilentStep
<1>3. ASSUME Wire!Read!take(n), state' = (IF state = 2 THEN 4 ELSE 3), rpc' = rpc PROVE WireInv'
  <2>1. n \in Nat \ {0} /\ j \in Nat \ {0} /\ Handshake \in Nat \ {0} /\ PeerId \in Nat \ {0} BY WireAssumption
  <2>2. PICK x0, y0 : Run(sent, Contents, place, x0) /\ Run(sent, net, x0, y0) BY <1>1 DEF WireInv
  <2>3. Contents \in Seq(PeerByte) BY <2>2 DEF Run
  <2>4. RingType' /\ Contents' = SubSeq(Contents, n + 1, Len(Contents)) /\ n <= Wire!Read!cb_r
    BY <1>1, <1>3, <2>1, <2>3, TakeDrops
  <2>5. n \in 1..Len(Contents)
    <3>1. Wire!Read!cb_r \in Int BY <1>1, BufferFacts, WireAssumption
    <3>2. Wire!Read!cb_r > 0 BY <2>1, <2>4, <3>1
    <3>3. Wire!Read!cb_r <= Len(Contents) BY <1>1, <2>2, <3>2, FirstByte
    <3>4. Len(Contents) \in Nat BY <2>3
    <3> QED BY <2>1, <2>4, <3>1, <3>3, <3>4
  <2>6. place = <<0, j>> BY <1>1 DEF place
  <2>7. total(sent, 0) = Handshake + PeerId BY DEF total
  <2>8. j + n - 1 = (IF state = 2 THEN Handshake ELSE Handshake + PeerId) /\ j + n - 1 <= total(sent, 0) BY <2>1, <2>7
  <2>9. place' = IF j + n - 1 = total(sent, 0) THEN <<0 + 1, 1>> ELSE <<0, j + n>>
    <3>1. CASE state = 2
      <4>1. j + n = Handshake + 1 /\ j + n - 1 # total(sent, 0) BY <2>1, <2>7, <3>1
      <4>2. place' = <<0, Handshake + 1>> BY <1>3, <3>1 DEF place
      <4> QED BY <4>1, <4>2
    <3>2. CASE state # 2
      <4>1. j + n - 1 = total(sent, 0) BY <2>7, <2>8, <3>2
      <4>2. place' = <<Len(got') + 1, 1>> BY <1>3, <3>2 DEF place
      <4>3. Len(got') = 0 BY <1>1
      <4> QED BY <4>1, <4>2, <4>3
    <3> QED BY <3>1, <3>2
  <2>10. WireTypes' BY <1>1, <1>3, <2>4 DEF WireTypes, Wire!sender
  <2>11. Wire!InOrder' BY <1>1 DEF WireInv, Wire!InOrder
  <2>12. state' # -1 /\ Wire!ClosedByLong' BY <1>3 DEF Wire!ClosedByLong
  <2>13. ASSUME NEW x, NEW y, Run(sent, Contents, place, x), Run(sent, net, x, y)
         PROVE  Run(sent, Contents', place', x) /\ Run(sent, net', x, y)
    <3>1. Run(sent, Contents, <<0, j>>, x) BY <2>6, <2>13
    <3> HIDE DEF n, j
    <3>2. Run(sent, SubSeq(Contents, n + 1, Len(Contents)), place', x)
      BY <1>1, <2>1, <2>5, <2>8, <2>9, <3>1, Advance
    <3> QED BY <1>1, <2>4, <2>13, <3>2
  <2>14. UNCHANGED Wire!sender BY <1>1
  <2> HIDE DEF n, j
  <2> QED BY <1>1, <2>10, <2>11, <2>12, <2>13, <2>14, ReceiverStep
<1> QED BY <1>2, <1>3 DEF Wire!handshake

LEMMA ReadMessageStep == ASSUME WireInv, Wire!read_message PROVE WireInv'
<1> DEFINE m == Len(got) + 1
<1>1. /\ WireTypes /\ RingType /\ sent \in Seq(Nat) /\ rpc = "parse" /\ state = 3 /\ state # -1 /\ got \in Seq(Nat)
      /\ net' = net /\ net \in Seq(PeerByte) /\ UNCHANGED Wire!sender /\ sent' = sent
  BY DEF WireInv, WireTypes, Wire!read_message, Wire!sender
<1>2. m \in Nat \ {0} /\ place = <<m, 1>> BY <1>1 DEF place
<1>3. PICK x0, y0 : Run(sent, Contents, <<m, 1>>, x0) /\ Run(sent, net, x0, y0) BY <1>1, <1>2 DEF WireInv
<1>4. Contents \in Seq(PeerByte) BY <1>3 DEF Run
<1>5. Wire!Read!cb_r \in Int /\ Header \in Nat \ {0} /\ MaxMessage \in Nat BY <1>1, BufferFacts, WireAssumption
<1>6. Wire!InOrder BY DEF WireInv
<1> HIDE DEF m
<1>7. Wire!Read!cb_r >= Header =>
        /\ m <= Len(sent) /\ Wire!length = sent[m] /\ sent[m] \in Nat
        /\ Wire!Read!cb_r >= Header + sent[m] => Wire!handled(sent[m]) = m
  BY <1>1, <1>2, <1>3, LengthIs
<1>8. ASSUME Wire!Read!cb_r >= Header, Wire!length > MaxMessage, Wire!close, got' = got PROVE WireInv'
  <2>1. state' = -1 /\ rpc' = "select" /\ in_open' \in BOOLEAN /\ in_r' = 0 /\ in_w' = 0
    BY <1>8 DEF Wire!close, Wire!Read!release
  <2>2. RingType' BY <2>1, Emptied
  <2>3. WireTypes' BY <1>1, <1>8, <2>1, <2>2 DEF WireTypes, Wire!sender
  <2>4. Wire!InOrder' BY <1>6, <1>8 DEF Wire!InOrder
  <2>5. Wire!ClosedByLong'
    <3>1. Len(got) < Len(sent) BY <1>1, <1>2, <1>7, <1>8 DEF m
    <3>2. sent[Len(got) + 1] > MaxMessage BY <1>7, <1>8 DEF m
    <3> QED BY <1>1, <1>8, <3>1, <3>2 DEF Wire!ClosedByLong
  <2> QED BY <1>1, <2>1, <2>3, <2>4, <2>5, ReceiverStep
<1>9. ASSUME Wire!whole, Wire!Read!take(Header + Wire!length), got' = Append(got, Wire!handled(Wire!length)),
             rpc' = rpc, state' = state
      PROVE  WireInv'
  <2> DEFINE n == Header + sent[m]
  <2>1. Wire!Read!cb_r >= Header BY <1>9 DEF Wire!whole
  <2>2. m <= Len(sent) /\ Wire!length = sent[m] /\ sent[m] \in Nat BY <1>7, <2>1
  <2>3. Wire!Read!cb_r >= n /\ Wire!handled(sent[m]) = m BY <1>7, <1>9, <2>1, <2>2 DEF Wire!whole
  <2>4. n \in Nat \ {0} /\ total(sent, m) = n BY <1>2, <1>5, <2>2 DEF total
  <2>5. Wire!Read!take(n) BY <1>9, <2>2
  <2>6. got' = Append(got, m) BY <1>9, <2>2, <2>3
  <2> HIDE DEF n
  <2>7. RingType' /\ Contents' = SubSeq(Contents, n + 1, Len(Contents)) BY <1>1, <1>4, <2>4, <2>5, TakeDrops
  <2>8. n \in 1..Len(Contents)
    <3>1. Wire!Read!cb_r > 0 BY <1>5, <2>3, <2>4
    <3>2. Wire!Read!cb_r <= Len(Contents) BY <1>1, <1>3, <3>1, FirstByte
    <3>3. Len(Contents) \in Nat BY <1>4
    <3> QED BY <1>5, <2>3, <2>4, <3>2, <3>3
  <2>9. got' \in Seq(Nat) /\ Len(got') = m /\ place' = <<m + 1, 1>>
    <3>1. got' \in Seq(Nat) /\ Len(got') = Len(got) + 1 BY <1>1, <1>2, <2>6
    <3> QED BY <1>1, <1>9, <3>1 DEF place, m
  <2>10. WireTypes' BY <1>1, <1>9, <2>7, <2>9 DEF WireTypes, Wire!sender
  <2>11. Wire!InOrder'
    <3>1. got = [i \in 1..Len(got) |-> i] BY <1>6 DEF Wire!InOrder
    <3>2. \A i \in 1..Len(got) : got[i] = i BY <3>1
    <3>3. Len(got) \in Nat /\ m = Len(got) + 1 BY <1>1 DEF m
    <3>4. \A i \in 1..Len(got') : got'[i] = i
      <4> TAKE i \in 1..Len(got')
      <4>1. CASE i = m BY <1>1, <1>2, <2>6, <3>3, <4>1
      <4>2. CASE i # m
        <5>1. i \in 1..Len(got) BY <2>9, <3>3, <4>2
        <5>2. Append(got, m)[i] = got[i] BY <1>1, <1>2, <5>1
        <5> QED BY <2>6, <3>2, <5>1, <5>2
      <4> QED BY <4>1, <4>2
    <3>5. got' = [i \in 1..Len(got') |-> got'[i]] BY <2>9
    <3> QED BY <3>4, <3>5 DEF Wire!InOrder
  <2>12. state' # -1 /\ Wire!ClosedByLong' BY <1>1, <1>9 DEF Wire!ClosedByLong
  <2>13. ASSUME NEW x, NEW y, Run(sent, Contents, place, x), Run(sent, net, x, y)
         PROVE  Run(sent, Contents', place', x) /\ Run(sent, net', x, y)
    <3>1. Run(sent, Contents, <<m, 1>>, x) BY <1>2, <2>13
    <3>2. 1 + n - 1 = total(sent, m) /\ 1 + n - 1 <= total(sent, m) /\ 1 \in Nat \ {0} /\ m \in Nat BY <1>2, <2>4
    <3>3. place' = IF 1 + n - 1 = total(sent, m) THEN <<m + 1, 1>> ELSE <<m, 1 + n>> BY <2>9, <3>2
    <3>4. Run(sent, SubSeq(Contents, n + 1, Len(Contents)), place', x) BY <1>1, <2>8, <3>1, <3>2, <3>3, Advance
    <3> QED BY <1>1, <2>7, <2>13, <3>4
  <2> QED BY <1>1, <2>10, <2>11, <2>12, <2>13, ReceiverStep
<1>10. ASSUME rpc' = "rest", UNCHANGED <<Wire!ring, got, state>> PROVE WireInv'
  <2>1. Contents' = Contents /\ RingType' BY <1>1, <1>10, SameContents
  <2>2. UNCHANGED <<Wire!sender, state, got>> /\ net' \in Seq(PeerByte) BY <1>1, <1>10
  <2> QED BY <1>1, <1>10, <2>1, <2>2, SilentStep
<1> QED BY <1>8, <1>9, <1>10 DEF Wire!read_message

LEMMA WireStep == ASSUME WireInv, [Wire!Next]_(Wire!vars) PROVE WireInv'
<1>1. CASE UNCHANGED Wire!vars
  <2>1. UNCHANGED <<Wire!sender, state, got, net, rpc, Wire!ring>> BY <1>1 DEF Wire!vars, Wire!receiver
  <2>2. RingType /\ net \in Seq(PeerByte) /\ rpc \in {"select", "recv", "parse", "rest"} /\ (state = -1 => rpc = "select")
    BY DEF WireInv, WireTypes
  <2> QED BY <2>1, <2>2, SameContents, SilentStep
<1> QED BY <1>1, SenderSteps, WakeStep, RecvStep, HandshakeStep, ReadMessageStep, RestStep
      DEF Wire!Next, Wire!Send, Wire!Receive

LEMMA WireInvariant == Wire!Spec => []WireInv
BY InitWire, WireStep, PTL DEF Wire!Spec

-----------------------------------------------------------------------------
(* Parts of sequences.                                                     *)

LEMMA Part ==
  ASSUME NEW S, NEW s \in Seq(S), NEW a \in 0..Len(s), NEW b \in a..Len(s)
  PROVE  /\ SubSeq(s, a + 1, b) \in Seq(S) /\ Len(SubSeq(s, a + 1, b)) = b - a
         /\ \A i \in 1..(b - a) : SubSeq(s, a + 1, b)[i] = s[a + i]
<1>1. Len(s) \in Nat /\ a \in Nat /\ b \in Nat /\ a <= b /\ b <= Len(s) OBVIOUS
<1>2. \A i \in (a + 1)..b : s[i] \in S
  <2>1. \A i \in (a + 1)..b : i \in 1..Len(s) BY <1>1
  <2> QED BY <2>1
<1>3. /\ SubSeq(s, a + 1, b) \in Seq(S)
      /\ Len(SubSeq(s, a + 1, b)) = IF a + 1 <= b THEN b - (a + 1) + 1 ELSE 0
      /\ \A i \in 1..(b - (a + 1) + 1) : SubSeq(s, a + 1, b)[i] = s[(a + 1) + i - 1]
  BY <1>1, <1>2, SubSeqProperties
<1>4. b - (a + 1) + 1 = b - a /\ \A i \in 1..(b - a) : (a + 1) + i - 1 = a + i BY <1>1
<1> QED BY <1>1, <1>3, <1>4

\* Of a part a part; and two parts together.
LEMMA PartOfPart ==
  ASSUME NEW S, NEW s \in Seq(S), NEW a \in 0..Len(s), NEW b \in a..Len(s),
         NEW e \in 0..(b - a), NEW f \in e..(b - a)
  PROVE  SubSeq(SubSeq(s, a + 1, b), e + 1, f) = SubSeq(s, (a + e) + 1, a + f)
<1> DEFINE t == SubSeq(s, a + 1, b)
           u == SubSeq(t, e + 1, f)
           v == SubSeq(s, (a + e) + 1, a + f)
<1>1. Len(s) \in Nat /\ a \in Nat /\ b \in Nat /\ a <= b /\ b <= Len(s) /\ e \in Nat /\ f \in Nat /\ e <= f /\ f <= b - a
  OBVIOUS
<1>2. t \in Seq(S) /\ Len(t) = b - a /\ \A i \in 1..(b - a) : t[i] = s[a + i] BY Part
<1> HIDE DEF t
<1>3. e \in 0..Len(t) /\ f \in e..Len(t) BY <1>2
<1>4. u \in Seq(S) /\ Len(u) = f - e /\ \A i \in 1..(f - e) : u[i] = t[e + i] BY <1>2, <1>3, Part
<1>5. a + e \in 0..Len(s) /\ a + f \in (a + e)..Len(s) /\ (a + f) - (a + e) = f - e BY <1>1
<1>6. v \in Seq(S) /\ Len(v) = f - e /\ \A i \in 1..(f - e) : v[i] = s[(a + e) + i] BY <1>5, Part
<1> HIDE DEF u, v
<1>7. ASSUME NEW i \in 1..(f - e) PROVE u[i] = v[i]
  <2>1. e + i \in 1..(b - a) /\ a + (e + i) = (a + e) + i BY <1>1
  <2> QED BY <1>2, <1>4, <1>6, <2>1
<1>8. u = v BY <1>4, <1>6, <1>7, SeqEqual
<1> QED BY <1>8 DEF t, u, v

LEMMA PartAndPart ==
  ASSUME NEW S, NEW s \in Seq(S), NEW a \in 0..Len(s), NEW b \in a..Len(s), NEW e \in b..Len(s)
  PROVE  SubSeq(s, a + 1, b) \o SubSeq(s, b + 1, e) = SubSeq(s, a + 1, e)
<1>1. a + 1 \in 1..(Len(s) + 1) /\ b \in ((a + 1) - 1)..Len(s) OBVIOUS
<1> QED BY <1>1, ConcatAdjacentSubSeq

LEMMA WholePart ==
  ASSUME NEW S, NEW s \in Seq(S) PROVE SubSeq(s, 0 + 1, Len(s)) = s /\ SubSeq(s, 1, Len(s)) = s
<1>1. SubSeq(s, 1, Len(s)) = s BY SubSeqFull
<1> QED BY <1>1

LEMMA NoPart == ASSUME NEW S, NEW s \in Seq(S), NEW a \in 0..Len(s) PROVE SubSeq(s, a + 1, a) = <<>>
<1>1. a \in a..Len(s) /\ a - a = 0 OBVIOUS
<1>2. SubSeq(s, a + 1, a) \in Seq(S) /\ Len(SubSeq(s, a + 1, a)) = 0 BY <1>1, Part
<1> QED BY <1>2, EmptySeq

-----------------------------------------------------------------------------
(* The loop over what one read gave.                                       *)

Chars == {"x", "r", "n"}

\* The round t takes n bytes, the last of them a line end if there is one.
OneRound(s, bytes, t) ==
  \E n \in 1..(Len(bytes) + 1) :
    /\ \A i \in 1..Len(bytes) : i < n => bytes[i] = "x"
    /\ n <= Len(bytes) => bytes[n] # "x"
    /\ t.state =
         IF n = Len(bytes) + 1 THEN (IF n > 1 THEN Served!after_char(s) ELSE s)
         ELSE Served!after_end(IF n > 1 THEN Served!after_char(s) ELSE s, bytes[n])
    /\ t.rest = SubSeq(bytes, n + 1, Len(bytes))

LEMMA RoundIs ==
  ASSUME NEW bytes \in Seq(Chars), NEW s PROVE OneRound(s, bytes, Served!round(s, bytes))
<1>t. SUFFICES ASSUME NEW t, t = Served!round(s, bytes) PROVE OneRound(s, bytes, t) OBVIOUS
<1> DEFINE ends == {i \in 1..Len(bytes) : bytes[i] # "x"}
           n == IF ends = {} THEN Len(bytes) + 1 ELSE CHOOSE i \in ends : \A j \in ends : i <= j
           s1 == IF n > 1 THEN Served!after_char(s) ELSE s
<1>1. /\ t.state = IF ends = {} THEN s1 ELSE Served!after_end(s1, bytes[n])
      /\ t.rest = SubSeq(bytes, n + 1, Len(bytes))
  <2>1. /\ Served!round(s, bytes).state = IF ends = {} THEN s1 ELSE Served!after_end(s1, bytes[n])
        /\ Served!round(s, bytes).rest = SubSeq(bytes, n + 1, Len(bytes))
    BY DEF Served!round
  <2> HIDE DEF ends, s1
  <2> QED BY <1>t, <2>1
<1>2. Len(bytes) \in Nat OBVIOUS
<1>3. CASE ends = {}
  <2>1. n = Len(bytes) + 1 BY <1>3
  <2>2. \A i \in 1..Len(bytes) : bytes[i] = "x" BY <1>3
  <2> QED BY <1>1, <1>2, <1>3, <2>1, <2>2 DEF OneRound
<1>4. CASE ends # {}
  <2>1. ends \in SUBSET Nat OBVIOUS
  <2>2. \E i \in ends : \A j \in ends : i <= j BY <1>4, <2>1, Smallest
  <2>3. n \in ends /\ \A j \in ends : n <= j BY <1>4, <2>2
  <2>4. n \in 1..Len(bytes) /\ bytes[n] # "x" BY <2>3
  <2> HIDE DEF n
  <2>5. \A i \in 1..Len(bytes) : i < n => bytes[i] = "x" BY <1>2, <2>3, <2>4
  <2>6. n # Len(bytes) + 1 /\ n \in 1..(Len(bytes) + 1) BY <1>2, <2>4
  <2>7. s1 = IF n > 1 THEN Served!after_char(s) ELSE s OBVIOUS
  <2> HIDE DEF ends, s1
  <2>8. /\ t.state = Served!after_end(s1, bytes[n])
        /\ t.rest = SubSeq(bytes, n + 1, Len(bytes))
    BY <1>1, <1>4
  <2> QED BY <2>4, <2>5, <2>6, <2>7, <2>8 DEF OneRound
<1> QED BY <1>3, <1>4

\* What a line end does.
LEMMA AfterEnd ==
  ASSUME NEW s \in 0..5, NEW b \in {"r", "n"}
  PROVE  /\ s \in {0, 1} => Served!after_end(s, b) = IF b = "n" THEN 3 ELSE 2
         /\ s = 2 => Served!after_end(s, b) = 3
         /\ s = 3 => Served!after_end(s, b) = IF b = "n" THEN 5 ELSE 4
         /\ s \in {4, 5} => Served!after_end(s, b) = 5
<1>1. CASE s \in {0, 1} BY <1>1 DEF Served!after_end
<1>2. CASE s = 2 BY <1>2 DEF Served!after_end
<1>3. CASE s = 3 BY <1>3 DEF Served!after_end
<1>4. CASE s = 4 BY <1>4 DEF Served!after_end
<1>5. CASE s = 5 BY <1>5 DEF Served!after_end
<1> QED BY <1>1, <1>2, <1>3, <1>4, <1>5

LEMMA RoundState ==
  ASSUME NEW bytes \in Seq(Chars), NEW s \in 0..5, NEW t, t = Served!round(s, bytes)
  PROVE  /\ t.state \in 0..5 /\ t.rest \in Seq(Chars)
         /\ bytes = <<>> => t.state = s
         /\ bytes # <<>> => Len(t.rest) < Len(bytes)
         /\ s # 0 => t.state # 0
         /\ Served!has_line(bytes) => t.state # 0
<1>1. PICK n \in 1..(Len(bytes) + 1) :
        /\ \A i \in 1..Len(bytes) : i < n => bytes[i] = "x"
        /\ n <= Len(bytes) => bytes[n] # "x"
        /\ t.state =
             IF n = Len(bytes) + 1 THEN (IF n > 1 THEN Served!after_char(s) ELSE s)
             ELSE Served!after_end(IF n > 1 THEN Served!after_char(s) ELSE s, bytes[n])
        /\ t.rest = SubSeq(bytes, n + 1, Len(bytes))
  BY RoundIs DEF OneRound
<1>2. Len(bytes) \in Nat OBVIOUS
<1> DEFINE s1 == IF n > 1 THEN Served!after_char(s) ELSE s
<1>3. s1 \in 0..5 /\ (s # 0 => s1 # 0) BY DEF Served!after_char
<1>4. t.state = IF n = Len(bytes) + 1 THEN s1 ELSE Served!after_end(s1, bytes[n]) BY <1>1
<1>5. n = 1 => s1 = s OBVIOUS
<1> HIDE DEF s1
<1>6. t.state \in 0..5 /\ (s # 0 => t.state # 0) /\ (n # Len(bytes) + 1 => t.state # 0)
  <2>1. CASE n = Len(bytes) + 1 BY <1>3, <1>4, <2>1
  <2>2. CASE n # Len(bytes) + 1
    <3>1. n \in 1..Len(bytes) BY <1>2, <2>2
    <3>2. bytes[n] \in {"r", "n"} BY <1>1, <1>2, <3>1 DEF Chars
    <3>3. t.state = Served!after_end(s1, bytes[n]) BY <1>4, <2>2
    <3>4. s1 \in {0, 1} \/ s1 = 2 \/ s1 = 3 \/ s1 \in {4, 5} BY <1>3
    <3>5. t.state \in {2, 3, 4, 5} BY <1>3, <3>2, <3>3, <3>4, AfterEnd
    <3> QED BY <3>5
  <2> QED BY <2>1, <2>2
<1>7. Served!has_line(bytes) => n # Len(bytes) + 1
  <2>1. SUFFICES ASSUME n = Len(bytes) + 1, NEW i \in 1..Len(bytes), bytes[i] # "x" PROVE FALSE BY DEF Served!has_line
  <2>2. i < n BY <1>2, <2>1
  <2> QED BY <1>1, <2>1, <2>2
<1>8. t.rest \in Seq(Chars) /\ (bytes # <<>> => Len(t.rest) < Len(bytes))
  <2>1. CASE n = Len(bytes) + 1
    <3>1. t.rest = <<>> BY <1>1, <1>2, <2>1
    <3>2. bytes # <<>> => Len(bytes) # 0 BY EmptySeq
    <3> QED BY <1>2, <3>1, <3>2
  <2>2. CASE n # Len(bytes) + 1
    <3>1. n \in 0..Len(bytes) /\ Len(bytes) \in n..Len(bytes) /\ Len(bytes) - n < Len(bytes) BY <1>2, <2>2
    <3>2. t.rest \in Seq(Chars) /\ Len(t.rest) = Len(bytes) - n BY <1>1, <3>1, Part
    <3> QED BY <3>1, <3>2
  <2> QED BY <2>1, <2>2
<1>9. bytes = <<>> => t.state = s
  <2>1. bytes = <<>> => n = 1 /\ n = Len(bytes) + 1 BY <1>2
  <2> QED BY <1>4, <1>5, <2>1
<1> QED BY <1>6, <1>7, <1>8, <1>9

\* The states the loop goes through.
loop(p) ==
  IF ~p.more THEN p
  ELSE [state |-> Served!round(p.state, p.rest).state, rest |-> Served!round(p.state, p.rest).rest,
        more |-> Served!round(p.state, p.rest).state # p.state]
loop_steps(t, s, bytes, n) ==
  t = [k \in 0..n |-> IF k = 0 THEN [state |-> s, rest |-> bytes, more |-> TRUE] ELSE loop(t[k - 1])]

LEMMA LoopSteps ==
  ASSUME NEW s, NEW bytes, Len(bytes) \in Nat
  PROVE  \E t : loop_steps(t, s, bytes, Len(bytes) + 1) /\ Served!rounds(s, bytes) = t[Len(bytes) + 1].state
<1> DEFINE S == {k \in Nat : \E t : loop_steps(t, s, bytes, k)}
           start == [state |-> s, rest |-> bytes, more |-> TRUE]
<1>1. 0 \in S
  <2> DEFINE t == [i \in 0..0 |-> start]
  <2>1. loop_steps(t, s, bytes, 0) BY DEF loop_steps
  <2> QED BY <2>1
<1>2. ASSUME NEW k \in Nat, k \in S PROVE k + 1 \in S
  <2>1. PICK t : loop_steps(t, s, bytes, k) BY <1>2
  <2>2. \A i \in 0..k : t[i] = IF i = 0 THEN start ELSE loop(t[i - 1]) BY <2>1 DEF loop_steps
  <2> HIDE DEF start
  <2> DEFINE g == [i \in 0..(k + 1) |-> IF i = k + 1 THEN loop(t[k]) ELSE t[i]]
  <2>3. ASSUME NEW i \in 0..(k + 1) PROVE g[i] = IF i = 0 THEN start ELSE loop(g[i - 1])
    <3>1. CASE i = 0 BY <2>2, <3>1
    <3>2. CASE i # 0 /\ i # k + 1
      <4>1. i \in 0..k /\ i - 1 \in 0..k BY <3>2
      <4>2. g[i] = t[i] /\ g[i - 1] = t[i - 1] BY <4>1
      <4> QED BY <2>2, <3>2, <4>1, <4>2
    <3>3. CASE i = k + 1
      <4>1. g[i] = loop(t[k]) /\ g[i - 1] = t[k] BY <3>3
      <4> QED BY <3>3, <4>1
    <3> QED BY <3>1, <3>2, <3>3
  <2>4. g = [i \in 0..(k + 1) |-> g[i]] OBVIOUS
  <2> HIDE DEF g
  <2>5. g = [i \in 0..(k + 1) |-> IF i = 0 THEN start ELSE loop(g[i - 1])] BY <2>3, <2>4
  <2>6. loop_steps(g, s, bytes, k + 1) BY <2>5 DEF loop_steps, start
  <2> QED BY <2>6
<1>3. Len(bytes) + 1 \in S
  <2>1. Nat \subseteq S BY <1>1, <1>2, Induct
  <2> QED BY <2>1
<1>4. \E t : loop_steps(t, s, bytes, Len(bytes) + 1) BY <1>3
<1> DEFINE t == CHOOSE after : after = [k \in 0..(Len(bytes) + 1) |->
                  IF k = 0 THEN [state |-> s, rest |-> bytes, more |-> TRUE]
                  ELSE IF ~after[k - 1].more THEN after[k - 1]
                  ELSE LET one == Served!round(after[k - 1].state, after[k - 1].rest)
                       IN [state |-> one.state, rest |-> one.rest, more |-> one.state # after[k - 1].state]]
<1>5. loop_steps(t, s, bytes, Len(bytes) + 1) BY <1>4 DEF loop_steps, loop
<1>6. Served!rounds(s, bytes) = t[Len(bytes) + 1].state BY DEF Served!rounds
<1> QED BY <1>5, <1>6

LEMMA RoundsAre ==
  ASSUME NEW s, NEW bytes, Len(bytes) \in Nat
  PROVE  \E t : /\ t[0] = [state |-> s, rest |-> bytes, more |-> TRUE]
                /\ \A k \in 0..Len(bytes) : t[k + 1] = loop(t[k])
                /\ Served!rounds(s, bytes) = t[Len(bytes) + 1].state
<1>1. PICK t : loop_steps(t, s, bytes, Len(bytes) + 1) /\ Served!rounds(s, bytes) = t[Len(bytes) + 1].state BY LoopSteps
<1>2. \A k \in 0..(Len(bytes) + 1) : t[k] = IF k = 0 THEN [state |-> s, rest |-> bytes, more |-> TRUE] ELSE loop(t[k - 1])
  BY <1>1 DEF loop_steps
<1>3. t[0] = [state |-> s, rest |-> bytes, more |-> TRUE]
  <2>1. 0 \in 0..(Len(bytes) + 1) OBVIOUS
  <2> QED BY <1>2, <2>1
<1>4. ASSUME NEW k \in 0..Len(bytes) PROVE t[k + 1] = loop(t[k])
  <2>1. k + 1 \in 0..(Len(bytes) + 1) /\ k + 1 # 0 /\ (k + 1) - 1 = k OBVIOUS
  <2>2. t[k + 1] = IF k + 1 = 0 THEN [state |-> s, rest |-> bytes, more |-> TRUE] ELSE loop(t[(k + 1) - 1]) BY <1>2, <2>1
  <2> QED BY <2>1, <2>2
<1> QED BY <1>1, <1>3, <1>4

\* The first line of a request takes a connection out of its first state, for good.
LEMMA RoundsState ==
  ASSUME NEW s \in 0..5, NEW bytes \in Seq(Chars), NEW u, u = Served!rounds(s, bytes)
  PROVE  u \in 0..5 /\ (s # 0 \/ Served!has_line(bytes) => u # 0)
<1> DEFINE n == Len(bytes)
<1>1. n \in Nat OBVIOUS
<1>2. PICK t : /\ t[0] = [state |-> s, rest |-> bytes, more |-> TRUE]
               /\ \A k \in 0..n : t[k + 1] = loop(t[k])
               /\ u = t[n + 1].state
  BY <1>1, RoundsAre
<1> HIDE DEF n
<1> DEFINE good(k) == t[k].state \in 0..5 /\ t[k].rest \in Seq(Chars) /\ t[k].more \in BOOLEAN
           left(k) == t[k].state # 0
<1>3. good(0) /\ t[0].state = s /\ t[0].rest = bytes /\ t[0].more = TRUE BY <1>2
<1>4. ASSUME NEW k \in 0..n, good(k) PROVE good(k + 1) /\ (left(k) => left(k + 1))
  <2>1. t[k + 1] = loop(t[k]) BY <1>2
  <2>2. CASE ~t[k].more
    <3>1. t[k + 1] = t[k] BY <2>1, <2>2 DEF loop
    <3> QED BY <1>4, <3>1
  <2>3. CASE t[k].more
    <3> DEFINE o == Served!round(t[k].state, t[k].rest)
    <3>1. o = Served!round(t[k].state, t[k].rest) OBVIOUS
    <3>2. t[k + 1] = [state |-> o.state, rest |-> o.rest, more |-> o.state # t[k].state] BY <2>1, <2>3 DEF loop
    <3> HIDE DEF o
    <3>3. t[k].state \in 0..5 /\ t[k].rest \in Seq(Chars) BY <1>4
    <3>4. o.state \in 0..5 /\ o.rest \in Seq(Chars) BY <3>1, <3>3, RoundState
    <3>5. t[k].state # 0 => o.state # 0 BY <3>1, <3>3, RoundState
    <3> QED BY <3>2, <3>4, <3>5
  <2> QED BY <1>4, <2>2, <2>3
<1>5. s # 0 \/ Served!has_line(bytes) => left(1)
  <2>1. 0 \in 0..n /\ 0 + 1 = 1 BY <1>1
  <2>2. t[1] = loop(t[0]) BY <1>2, <2>1
  <2> DEFINE o == Served!round(s, bytes)
  <2>3. o = Served!round(s, bytes) OBVIOUS
  <2>4. t[1] = [state |-> o.state, rest |-> o.rest, more |-> o.state # s] BY <1>3, <2>2 DEF loop
  <2> HIDE DEF o
  <2>5. (s # 0 => o.state # 0) /\ (Served!has_line(bytes) => o.state # 0) BY <2>3, RoundState
  <2> QED BY <2>4, <2>5
<1> DEFINE S == {k \in Nat : k <= n => good(k + 1) /\ (s # 0 \/ Served!has_line(bytes) => left(k + 1))}
<1> HIDE DEF good, left
<1>6. 0 \in S
  <2>1. 0 \in 0..n /\ 0 + 1 = 1 BY <1>1
  <2>2. good(0 + 1) BY <1>3, <1>4, <2>1
  <2>3. good(1) BY <2>1, <2>2
  <2> QED BY <1>5, <2>1, <2>3
<1>7. ASSUME NEW k \in Nat, k \in S PROVE k + 1 \in S
  <2> SUFFICES ASSUME k + 1 <= n PROVE good((k + 1) + 1) /\ (s # 0 \/ Served!has_line(bytes) => left((k + 1) + 1)) OBVIOUS
  <2>1. k + 1 \in 0..n /\ k <= n BY <1>1
  <2>2. good(k + 1) /\ (s # 0 \/ Served!has_line(bytes) => left(k + 1)) BY <1>7, <2>1
  <2> QED BY <1>4, <2>1, <2>2
<1>8. Nat \subseteq S BY <1>6, <1>7, Induct
<1>9. good(n + 1) /\ (s # 0 \/ Served!has_line(bytes) => left(n + 1)) BY <1>1, <1>8
<1> QED BY <1>2, <1>9 DEF good, left

-----------------------------------------------------------------------------
(* A request whose lines end in CR LF.                                     *)

Lined(B) == B \in Seq(Chars) /\ \A i \in 1..Len(B) : B[i] = "n" <=> (i > 1 /\ B[i - 1] = "r")
\* What state_ says of the bytes that were taken; of an end of the request it says nothing.
At(B, n, s) ==
  /\ s = 0 => \A i \in 1..n : B[i] = "x"
  /\ s = 1 => n >= 1 /\ B[n] = "x"
  /\ s = 2 => n >= 1 /\ B[n] = "r" /\ (n = 1 \/ B[n - 1] = "x")
  /\ s = 3 => n >= 2 /\ B[n] = "n" /\ (n = 2 \/ B[n - 2] = "x")
  /\ s = 4 => n >= 2 /\ B[n] = "r" /\ B[n - 1] = "n"

\* The round t that began at p in the state s ends at q.
Reaches(B, p, e, s, t) ==
  \E q \in p..e : /\ t.rest = SubSeq(B, q + 1, e) /\ At(B, q, t.state)
                  /\ t.state = s => s = 5 \/ q = e
                  /\ p < e => p < q

LEMMA RoundAt ==
  ASSUME NEW B, Lined(B), NEW p \in 0..Len(B), NEW e \in p..Len(B), NEW s \in 0..5, At(B, p, s),
         NEW t, t = Served!round(s, SubSeq(B, p + 1, e))
  PROVE  Reaches(B, p, e, s, t)
<1> DEFINE bytes == SubSeq(B, p + 1, e)
<1>1. /\ B \in Seq(Chars) /\ Len(B) \in Nat /\ p \in Nat /\ e \in Nat /\ p <= e /\ e <= Len(B)
      /\ \A i \in 1..Len(B) : B[i] = "n" <=> (i > 1 /\ B[i - 1] = "r")
  BY DEF Lined
<1>2. bytes \in Seq(Chars) /\ Len(bytes) = e - p /\ \A i \in 1..(e - p) : bytes[i] = B[p + i] BY <1>1, Part
<1>3. t = Served!round(s, bytes) OBVIOUS
<1> HIDE DEF bytes
<1>a. OneRound(s, bytes, t) BY <1>2, <1>3, RoundIs
<1>4. PICK n \in 1..(Len(bytes) + 1) :
        /\ \A i \in 1..Len(bytes) : i < n => bytes[i] = "x"
        /\ n <= Len(bytes) => bytes[n] # "x"
        /\ t.state =
             IF n = Len(bytes) + 1 THEN (IF n > 1 THEN Served!after_char(s) ELSE s)
             ELSE Served!after_end(IF n > 1 THEN Served!after_char(s) ELSE s, bytes[n])
        /\ t.rest = SubSeq(bytes, n + 1, Len(bytes))
  BY <1>a DEF OneRound
<1> DEFINE s1 == IF n > 1 THEN Served!after_char(s) ELSE s
<1>5. /\ n > 1 => s1 = IF s = 0 THEN 0 ELSE 1
      /\ n = 1 => s1 = s
      /\ t.state = IF n = Len(bytes) + 1 THEN s1 ELSE Served!after_end(s1, bytes[n])
  BY <1>4 DEF Served!after_char
<1> HIDE DEF s1
<1>6. n \in Nat /\ n >= 1 /\ n <= (e - p) + 1 BY <1>1, <1>2
<1>7. \A i \in (p + 1)..e : i < p + n => B[i] = "x"
  <2> SUFFICES ASSUME NEW i \in (p + 1)..e, i < p + n PROVE B[i] = "x" OBVIOUS
  <2>1. i - p \in 1..(e - p) /\ i - p < n /\ p + (i - p) = i BY <1>1, <1>6
  <2> QED BY <1>2, <1>4, <2>1
<1>8. CASE n = Len(bytes) + 1
  <2>1. n = (e - p) + 1 /\ t.state = s1 BY <1>2, <1>5, <1>8
  <2>2. t.rest = SubSeq(B, e + 1, e)
    <3>0. n + 1 \in Int /\ Len(bytes) \in Int /\ n + 1 > Len(bytes) BY <1>1, <1>2, <2>1
    <3>1. t.rest = <<>> BY <1>4, <3>0, SubSeqEmpty
    <3>2. e \in 0..Len(B) BY <1>1
    <3> QED BY <1>1, <3>1, <3>2, NoPart
  <2>3. At(B, e, t.state)
    <3>1. CASE n = 1
      <4>1. e = p BY <1>1, <2>1, <3>1
      <4> QED BY <1>5, <2>1, <3>1, <4>1
    <3>2. CASE n > 1
      <4>1. e > p /\ e \in (p + 1)..e /\ e < p + n /\ e >= 1 BY <1>1, <2>1, <3>2
      <4>2. B[e] = "x" BY <1>7, <4>1
      <4>3. CASE s = 0
        <5>1. t.state = 0 BY <1>5, <2>1, <3>2, <4>3
        <5>2. \A i \in 1..p : B[i] = "x" BY <4>3 DEF At
        <5>3. \A i \in 1..e : B[i] = "x"
          <6> TAKE i \in 1..e
          <6>1. i \in 1..p \/ (i \in (p + 1)..e /\ i < p + n) BY <1>1, <2>1
          <6> QED BY <1>7, <5>2, <6>1
        <5> QED BY <5>1, <5>3 DEF At
      <4>4. CASE s # 0
        <5>1. t.state = 1 BY <1>5, <2>1, <3>2, <4>4
        <5> QED BY <4>1, <4>2, <5>1 DEF At
      <4> QED BY <4>3, <4>4
    <3> QED BY <1>6, <3>1, <3>2
  <2>4. e \in p..e BY <1>1
  <2> QED BY <2>2, <2>3, <2>4 DEF Reaches
<1>9. CASE n # Len(bytes) + 1
  <2> DEFINE q == p + n
  <2>1. n \in 1..(e - p) /\ q \in 1..Len(B) /\ q \in p..e /\ p < q /\ q = p + n BY <1>1, <1>2, <1>6, <1>9
  <2>2. t.rest = SubSeq(B, q + 1, e)
    <3>1. n \in 0..(e - p) /\ (e - p) \in n..(e - p) /\ p + (e - p) = e BY <1>1, <2>1
    <3>2. SubSeq(SubSeq(B, p + 1, e), n + 1, e - p) = SubSeq(B, (p + n) + 1, p + (e - p)) BY <1>1, <3>1, PartOfPart
    <3> QED BY <1>2, <1>4, <3>1, <3>2 DEF bytes
  <2>3. bytes[n] = B[q] /\ B[q] # "x" /\ B[q] \in {"r", "n"}
    <3>1. bytes[n] = B[q] BY <1>2, <2>1
    <3>2. bytes[n] # "x" BY <1>2, <1>4, <2>1
    <3>3. B[q] \in Chars BY <1>1, <2>1
    <3> QED BY <3>1, <3>2, <3>3 DEF Chars
  <2>4. t.state = Served!after_end(s1, B[q]) BY <1>5, <1>9, <2>3
  <2>5. B[q] = "n" <=> (q > 1 /\ B[q - 1] = "r") BY <1>1, <2>1
  <2> HIDE DEF q
  <2>6. CASE n > 1
    <3>1. q - 1 \in (p + 1)..e /\ q - 1 < p + n /\ q > 1 BY <1>1, <2>1, <2>6
    <3>2. B[q - 1] = "x" BY <1>7, <3>1
    <3>3. B[q] = "r" BY <2>3, <2>5, <3>2
    <3>4. s1 \in {0, 1} /\ s1 \in 0..5 BY <1>5, <2>6
    <3>5. t.state = 2 BY <2>4, <3>3, <3>4, AfterEnd
    <3>6. At(B, q, t.state) BY <1>1, <2>1, <3>1, <3>2, <3>3, <3>5 DEF At
    <3>7. s # 2
      <4>1. SUFFICES ASSUME s = 2 PROVE FALSE OBVIOUS
      <4>2. p >= 1 /\ B[p] = "r" BY <4>1 DEF At
      <4>3. p + 1 \in 1..Len(B) /\ p + 1 > 1 /\ (p + 1) - 1 = p /\ p + 1 \in (p + 1)..e /\ p + 1 < p + n
        BY <1>1, <2>1, <2>6, <4>2
      <4>4. B[p + 1] = "n" BY <1>1, <4>2, <4>3
      <4>5. B[p + 1] = "x" BY <1>7, <4>3
      <4> QED BY <4>4, <4>5
    <3> QED BY <2>1, <2>2, <3>5, <3>6, <3>7 DEF Reaches
  <2>7. CASE n = 1
    <3>1. s1 = s /\ q = p + 1 /\ q - 1 = p /\ q > p BY <1>1, <1>5, <2>1, <2>7
    <3>2. t.state = Served!after_end(s, B[q]) BY <2>4, <3>1
    <3>3. At(B, q, t.state) /\ (t.state = s => s = 5)
      <4>1. CASE s = 0
        <5>1. q > 1 => p \in 1..p BY <1>1, <3>1
        <5>2. q > 1 => B[p] = "x" BY <4>1, <5>1 DEF At
        <5>3. B[q] = "r" BY <2>3, <2>5, <3>1, <5>2
        <5>4. t.state = 2 BY <3>2, <4>1, <5>3, AfterEnd
        <5>5. q = 1 \/ B[q - 1] = "x" BY <1>1, <3>1, <5>2
        <5> QED BY <1>1, <3>1, <4>1, <5>3, <5>4, <5>5 DEF At
      <4>2. CASE s = 1
        <5>1. p >= 1 /\ B[p] = "x" BY <4>2 DEF At
        <5>2. B[q] = "r" BY <2>3, <2>5, <3>1, <5>1
        <5>3. t.state = 2 BY <3>2, <4>2, <5>2, AfterEnd
        <5> QED BY <1>1, <3>1, <4>2, <5>1, <5>2, <5>3 DEF At
      <4>3. CASE s = 2
        <5>1. p >= 1 /\ B[p] = "r" /\ (p = 1 \/ B[p - 1] = "x") BY <4>3 DEF At
        <5>2. B[q] = "n" BY <1>1, <2>5, <3>1, <5>1
        <5>3. t.state = 3 BY <2>3, <3>2, <4>3, AfterEnd
        <5>4. q - 2 = p - 1 /\ q >= 2 /\ (p = 1 => q = 2) BY <1>1, <3>1, <5>1
        <5> QED BY <4>3, <5>1, <5>2, <5>3, <5>4 DEF At
      <4>4. CASE s = 3
        <5>1. p >= 2 /\ B[p] = "n" BY <4>4 DEF At
        <5>2. B[q] = "r" BY <2>3, <2>5, <3>1, <5>1
        <5>3. t.state = 4 BY <3>2, <4>4, <5>2, AfterEnd
        <5>4. q >= 2 BY <1>1, <3>1, <5>1
        <5> QED BY <3>1, <4>4, <5>1, <5>2, <5>3, <5>4 DEF At
      <4>5. CASE s \in {4, 5}
        <5>1. t.state = 5 BY <2>3, <3>2, <4>5, AfterEnd
        <5> QED BY <4>5, <5>1 DEF At
      <4> QED BY <4>1, <4>2, <4>3, <4>4, <4>5
    <3> QED BY <2>1, <2>2, <3>3 DEF Reaches
  <2> QED BY <1>6, <2>6, <2>7
<1> QED BY <1>8, <1>9

LEMMA RoundsAt ==
  ASSUME NEW B, Lined(B), NEW p \in 0..Len(B), NEW e \in p..Len(B), NEW s \in 0..5, At(B, p, s),
         NEW u, u = Served!rounds(s, SubSeq(B, p + 1, e))
  PROVE  u = 5 \/ At(B, e, u)
<1> DEFINE bytes == SubSeq(B, p + 1, e)
           n == Len(bytes)
<1>1. /\ B \in Seq(Chars) /\ Len(B) \in Nat /\ p \in Nat /\ e \in Nat /\ p <= e /\ e <= Len(B) BY DEF Lined
<1>2. bytes \in Seq(Chars) /\ n = e - p /\ n \in Nat BY <1>1, Part
<1>3. PICK t : /\ t[0] = [state |-> s, rest |-> bytes, more |-> TRUE]
               /\ \A k \in 0..n : t[k + 1] = loop(t[k])
               /\ u = t[n + 1].state
  BY <1>2, RoundsAre
<1> HIDE DEF n
<1> DEFINE good(k) ==
             /\ t[k].state \in 0..5 /\ t[k].more \in BOOLEAN
             /\ \E q \in p..e : /\ t[k].rest = SubSeq(B, q + 1, e) /\ At(B, q, t[k].state)
                                /\ t[k].more => q >= p + k
                                /\ ~t[k].more => t[k].state = 5 \/ q = e
<1>4. good(0)
  <2>1. p \in p..e /\ p >= p + 0 BY <1>1
  <2>2. t[0].state = s /\ t[0].rest = SubSeq(B, p + 1, e) /\ t[0].more = TRUE BY <1>3
  <2> QED BY <2>1, <2>2
<1>5. ASSUME NEW k \in 0..n, good(k) PROVE good(k + 1)
  <2>1. t[k + 1] = loop(t[k]) BY <1>3
  <2>2. PICK q \in p..e : /\ t[k].rest = SubSeq(B, q + 1, e) /\ At(B, q, t[k].state)
                          /\ t[k].more => q >= p + k
                          /\ ~t[k].more => t[k].state = 5 \/ q = e
    BY <1>5
  <2>3. t[k].state \in 0..5 /\ t[k].more \in BOOLEAN BY <1>5
  <2>4. CASE ~t[k].more
    <3>1. t[k + 1] = t[k] BY <2>1, <2>4 DEF loop
    <3> QED BY <2>2, <2>3, <2>4, <3>1
  <2>5. CASE t[k].more
    <3> DEFINE o == Served!round(t[k].state, t[k].rest)
               st == t[k].state
    <3>1. o = Served!round(st, SubSeq(B, q + 1, e)) BY <2>2
    <3>2. t[k + 1].state = o.state /\ t[k + 1].rest = o.rest /\ t[k + 1].more = (o.state # st) BY <2>1, <2>5 DEF loop
    <3>3. q \in 0..Len(B) /\ e \in q..Len(B) /\ st \in 0..5 /\ At(B, q, st) BY <1>1, <2>2, <2>3
    <3> HIDE DEF o, st, good
    <3>a. Reaches(B, q, e, st, o) BY <3>1, <3>3, RoundAt
    <3>4. PICK q1 \in q..e : /\ o.rest = SubSeq(B, q1 + 1, e) /\ At(B, q1, o.state)
                             /\ o.state = st => st = 5 \/ q1 = e
                             /\ q < e => q < q1
      BY <3>a DEF Reaches
    <3>5. SubSeq(B, q + 1, e) \in Seq(Chars) /\ Len(SubSeq(B, q + 1, e)) = e - q BY <1>1, <3>3, Part
    <3>6. o.state \in 0..5 BY <3>1, <3>3, <3>5, RoundState
    <3>7. o.state # st => q1 >= p + (k + 1)
      <4>1. SUFFICES ASSUME o.state # st PROVE q1 >= p + (k + 1) OBVIOUS
      <4>2. q < e
        <5>1. SUFFICES ASSUME ~(q < e) PROVE FALSE OBVIOUS
        <5>2. Len(SubSeq(B, q + 1, e)) = 0 BY <1>1, <3>5, <5>1
        <5>3. SubSeq(B, q + 1, e) = <<>> BY <3>5, <5>2, EmptySeq
        <5>4. o.state = st BY <3>1, <3>3, <3>5, <5>3, RoundState
        <5> QED BY <4>1, <5>4
      <4> QED BY <1>1, <2>2, <2>5, <3>4, <4>2
    <3>8. q1 \in p..e BY <1>1
    <3>9. ~t[k + 1].more => t[k + 1].state = 5 \/ q1 = e BY <3>2, <3>4
    <3>10. t[k + 1].more => q1 >= p + (k + 1) BY <3>2, <3>7
    <3>11. t[k + 1].state \in 0..5 /\ t[k + 1].more \in BOOLEAN BY <3>2, <3>6
    <3>12. t[k + 1].rest = SubSeq(B, q1 + 1, e) /\ At(B, q1, t[k + 1].state) BY <3>2, <3>4
    <3> QED BY <3>8, <3>9, <3>10, <3>11, <3>12 DEF good
  <2> QED BY <2>3, <2>4, <2>5
<1> DEFINE S == {k \in Nat : k <= n + 1 => good(k)}
<1> HIDE DEF good
<1>6. 0 \in S BY <1>4
<1>7. ASSUME NEW k \in Nat, k \in S PROVE k + 1 \in S
  <2> SUFFICES ASSUME k + 1 <= n + 1 PROVE good(k + 1) OBVIOUS
  <2>1. k \in 0..n /\ k <= n + 1 BY <1>2
  <2> QED BY <1>5, <1>7, <2>1
<1>8. Nat \subseteq S BY <1>6, <1>7, Induct
<1>9. good(n + 1) BY <1>2, <1>8
<1>10. PICK q \in p..e : /\ At(B, q, u)
                         /\ t[n + 1].more => q >= p + (n + 1)
                         /\ ~t[n + 1].more => u = 5 \/ q = e
  BY <1>3, <1>9 DEF good
<1>11. ~t[n + 1].more BY <1>1, <1>2, <1>10
<1> QED BY <1>10, <1>11

-----------------------------------------------------------------------------
(* The handlers.                                                           *)

Conn == [state : 0..5, used : 0..Buffer, write_b : BOOLEAN, r : Seq(Nat), failed : BOOLEAN,
         arrived : Seq(Chars), got : Seq(Nat), room : BOOLEAN, close : BOOLEAN]
\* Nothing of the answer is given yet, or what was sent and what is left make it up.
Delivers(c) == (c.got = <<>> /\ c.r = <<>>) \/ c.got \o c.r = Served!Answer
Writes(c) == c.write_b <=> c.r # <<>>
\* What has arrived and is still to be sent is what the request has behind the bytes that were
\* taken, and state_ tells of these.
Takes(c) ==
  \E n \in 0..Len(request.bytes) : \E m \in n..Len(request.bytes) :
    /\ c.arrived = SubSeq(request.bytes, n + 1, m)
    /\ todo = SubSeq(request.bytes, m + 1, Len(request.bytes))
    /\ Lined(request.bytes) => At(request.bytes, n, c.state)
GoodConn(c) ==
  /\ c \in Conn /\ Delivers(c) /\ Writes(c) /\ Takes(c)
  /\ c.state = 0 => c.got = <<>> /\ c.r = <<>>

LEMMA ThreeParts ==
  ASSUME NEW g \in Seq(Nat), NEW f \in Seq(Nat), NEW h \in Seq(Nat)
  PROVE  (g \o f) \o h = g \o (f \o h) /\ g \o f \in Seq(Nat)
BY ConcatAssociative

\* Of what is left a part is sent.
LEMMA SentOn ==
  ASSUME NEW s \in Seq(Nat), NEW k \in 1..Len(s)
  PROVE  /\ SubSeq(s, 1, k) \in Seq(Nat) /\ SubSeq(s, k + 1, Len(s)) \in Seq(Nat)
         /\ SubSeq(s, 1, k) \o SubSeq(s, k + 1, Len(s)) = s
         /\ k < Len(s) <=> SubSeq(s, k + 1, Len(s)) # <<>>
<1> DEFINE f == SubSeq(s, 1, k)
           h == SubSeq(s, k + 1, Len(s))
<1>1. Len(s) \in Nat /\ k \in 0..Len(s) /\ Len(s) \in k..Len(s) /\ 0 \in 0..Len(s) OBVIOUS
<1>2. f = SubSeq(s, 0 + 1, k) OBVIOUS
<1>3. f \in Seq(Nat) /\ h \in Seq(Nat) /\ Len(h) = Len(s) - k BY <1>1, <1>2, Part
<1>4. f \o h = SubSeq(s, 0 + 1, Len(s)) BY <1>1, <1>2, PartAndPart
<1>5. f \o h = s BY <1>4, WholePart
<1>6. (k < Len(s) <=> h # <<>>)
  <2>1. h = <<>> <=> Len(h) = 0 BY <1>3, EmptySeq
  <2> QED BY <1>1, <1>3, <2>1
<1> QED BY <1>3, <1>5, <1>6

LEMMA AnswerIs ==
  /\ Served!Answer \in Seq(Nat) /\ Len(Served!Answer) = HeadSize + BodySize
  /\ HeadSize \in Nat /\ BodySize \in Nat /\ HeadSize + BodySize \in Nat
<1>1. HeadSize \in Nat /\ BodySize \in Nat /\ HeadSize + BodySize \in Nat BY ConnectionAssumption
<1> DEFINE n == HeadSize + BodySize
<1>2. Served!Answer = [i \in 1..n |-> i] BY DEF Served!Answer
<1>3. Served!Answer \in [1..n -> Nat] BY <1>1, <1>2
<1> HIDE DEF n
<1>4. Served!Answer \in Seq(Nat) /\ Len(Served!Answer) = n BY <1>1, <1>2, <1>3 DEF n
<1> QED BY <1>1, <1>4 DEF n

\* What is left of an answer of which k bytes are sent, in one buffer or two.
LEMMA RestOf ==
  ASSUME NEW k \in 1..Len(Served!Answer)
  PROVE  Served!rest_of(k) = SubSeq(Served!Answer, k + 1, Len(Served!Answer))
<1> DEFINE A == Served!Answer
           n == Len(A)
<1>1. A \in Seq(Nat) /\ n = HeadSize + BodySize /\ HeadSize \in Nat /\ BodySize \in Nat /\ n \in Nat BY AnswerIs
<1>2. CASE k < HeadSize BY <1>2 DEF Served!rest_of
<1>3. CASE ~(k < HeadSize)
  <2> DEFINE kept == SubSeq(A, HeadSize + 1, n)
  <2>1. Served!rest_of(k) = SubSeq(kept, (k - HeadSize) + 1, Len(kept)) BY <1>3 DEF Served!rest_of
  <2> HIDE DEF A, n
  <2>2. HeadSize \in 0..n /\ n \in HeadSize..n /\ n - HeadSize = BodySize BY <1>1
  <2>2a. n = Len(A) BY DEF n
  <2>3. Len(kept) = BodySize BY <1>1, <2>2, <2>2a, Part
  <2>4. k \in 1..n BY DEF n, A
  <2>5. /\ k - HeadSize \in 0..(n - HeadSize) /\ BodySize \in (k - HeadSize)..(n - HeadSize)
        /\ HeadSize + (k - HeadSize) = k /\ HeadSize + BodySize = n
    BY <1>1, <1>3, <2>4
  <2>6. SubSeq(SubSeq(A, HeadSize + 1, n), (k - HeadSize) + 1, BodySize)
          = SubSeq(A, (HeadSize + (k - HeadSize)) + 1, HeadSize + BodySize)
    BY <1>1, <2>2, <2>2a, <2>5, PartOfPart
  <2> QED BY <2>1, <2>3, <2>5, <2>6 DEF n, A
<1> QED BY <1>2, <1>3

LEMMA ReadIs ==
  ASSUME NEW c \in Conn, Writes(c), c.got = <<>>, c.r = <<>>, NEW e \in Served!read(c)
  PROVE  /\ e \in Conn /\ Delivers(e) /\ Writes(e)
         /\ e.arrived = c.arrived /\ e.used = c.used /\ e.state = c.state /\ e.close = c.close
<1>1. CASE e = c BY <1>1 DEF Delivers
<1>2. CASE e = [c EXCEPT !.failed = TRUE] BY <1>2 DEF Conn, Delivers, Writes
<1>3. ASSUME NEW k \in 1..Len(Served!Answer),
             e = [c EXCEPT !.write_b = (k < Len(Served!Answer)), !.r = Served!rest_of(k),
                           !.got = SubSeq(Served!Answer, 1, k), !.room = (k = Len(Served!Answer))]
      PROVE  /\ e \in Conn /\ Delivers(e) /\ Writes(e)
             /\ e.arrived = c.arrived /\ e.used = c.used /\ e.state = c.state /\ e.close = c.close
  <2> DEFINE A == Served!Answer
             n == Len(A)
             front == SubSeq(A, 0 + 1, k)
             rest == SubSeq(A, k + 1, n)
  <2>1. A \in Seq(Nat) /\ n \in Nat BY AnswerIs
  <2>2. e = [c EXCEPT !.write_b = (k < n), !.r = rest, !.got = front, !.room = (k = n)]
    <3>1. Served!rest_of(k) = rest BY RestOf
    <3>2. front = SubSeq(A, 1, k) OBVIOUS
    <3> HIDE DEF rest, front
    <3> QED BY <1>3, <3>1, <3>2
  <2>3. k \in 1..Len(A) /\ front = SubSeq(A, 1, k) /\ rest = SubSeq(A, k + 1, Len(A)) OBVIOUS
  <2> HIDE DEF A, front, rest
  <2>4. front \in Seq(Nat) /\ rest \in Seq(Nat) /\ front \o rest = A /\ (k < Len(A) <=> rest # <<>>)
    <3>1. /\ SubSeq(A, 1, k) \in Seq(Nat) /\ SubSeq(A, k + 1, Len(A)) \in Seq(Nat)
          /\ SubSeq(A, 1, k) \o SubSeq(A, k + 1, Len(A)) = A
          /\ k < Len(A) <=> SubSeq(A, k + 1, Len(A)) # <<>>
      BY <2>1, <2>3, SentOn
    <3> QED BY <2>3, <3>1
  <2>5. front \in Seq(Nat) /\ rest \in Seq(Nat) /\ front \o rest = A /\ (k < n <=> rest # <<>>)
    BY <2>4
  <2>8. /\ e.write_b = (k < n) /\ e.r = rest /\ e.got = front
        /\ e.arrived = c.arrived /\ e.used = c.used /\ e.state = c.state /\ e.close = c.close
    BY <2>2 DEF Conn
  <2>9. (k < n) \in BOOLEAN /\ (k = n) \in BOOLEAN OBVIOUS
  <2>10. e \in Conn BY <2>2, <2>5, <2>9 DEF Conn
  <2> QED BY <2>5, <2>8, <2>10 DEF Delivers, Writes, A
<1> QED BY <1>1, <1>2, <1>3 DEF Served!read

LEMMA SendIs ==
  ASSUME NEW c, GoodConn(c), NEW e \in Served!send(c)
  PROVE  GoodConn(e) /\ (e.close => c.close \/ e.failed)
<1>1. c \in Conn BY DEF GoodConn
<1>2. CASE e = c BY <1>2
<1>3. CASE e = [c EXCEPT !.failed = TRUE, !.close = TRUE]
  <2>1. /\ e \in Conn /\ e.failed = TRUE
        /\ e.got = c.got /\ e.r = c.r /\ e.write_b = c.write_b /\ e.state = c.state /\ e.arrived = c.arrived
    BY <1>1, <1>3 DEF Conn
  <2> QED BY <2>1 DEF GoodConn, Delivers, Writes, Takes
<1>4. ASSUME c.r # <<>>, NEW k \in 1..Len(c.r),
             e = [c EXCEPT !.r = SubSeq(c.r, k + 1, Len(c.r)), !.got = c.got \o SubSeq(c.r, 1, k),
                           !.write_b = (k < Len(c.r)), !.room = (k = Len(c.r))]
      PROVE  GoodConn(e) /\ (e.close => c.close \/ e.failed)
  <2> DEFINE s == c.r
             g == c.got
             n == Len(s)
             front == SubSeq(s, 0 + 1, k)
             rest == SubSeq(s, k + 1, n)
  <2>1. s \in Seq(Nat) /\ n \in Nat /\ g \in Seq(Nat) BY <1>1 DEF Conn
  <2>2. e = [c EXCEPT !.r = rest, !.got = c.got \o front, !.write_b = (k < n), !.room = (k = n)] BY <1>4
  <2>3. k \in 1..Len(s) /\ s = c.r /\ g = c.got /\ front = SubSeq(s, 1, k) /\ rest = SubSeq(s, k + 1, Len(s)) OBVIOUS
  <2> HIDE DEF s, g, front, rest
  <2>4. front \in Seq(Nat) /\ rest \in Seq(Nat) /\ front \o rest = s /\ (k < Len(s) <=> rest # <<>>)
    <3>1. /\ SubSeq(s, 1, k) \in Seq(Nat) /\ SubSeq(s, k + 1, Len(s)) \in Seq(Nat)
          /\ SubSeq(s, 1, k) \o SubSeq(s, k + 1, Len(s)) = s
          /\ k < Len(s) <=> SubSeq(s, k + 1, Len(s)) # <<>>
      BY <2>1, <2>3, SentOn
    <3> QED BY <2>3, <3>1
  <2>5. (k < n <=> rest # <<>>) BY <2>4
  <2> HIDE DEF n
  <2>6. g \o front \in Seq(Nat) /\ (g \o front) \o rest = g \o s
    <3>1. (g \o front) \o rest = g \o (front \o rest) /\ g \o front \in Seq(Nat) BY <2>1, <2>4, ThreeParts
    <3> QED BY <2>4, <3>1
  <2>7. /\ e.write_b = (k < n) /\ e.r = rest /\ e.got = g \o front
        /\ e.arrived = c.arrived /\ e.state = c.state /\ e.close = c.close
    BY <1>1, <2>2, <2>3 DEF Conn
  <2>8. (k < n) \in BOOLEAN /\ (k = n) \in BOOLEAN OBVIOUS
  <2>9. e \in Conn
    <3>1. rest \in Seq(Nat) /\ c.got \o front \in Seq(Nat) BY <2>3, <2>4, <2>6
    <3> QED BY <1>1, <2>2, <2>8, <3>1 DEF Conn
  <2>10. g \o s = Served!Answer BY <1>4, <2>3 DEF GoodConn, Delivers
  <2>11. e.got \o e.r = Served!Answer BY <2>6, <2>7, <2>10
  <2>12. Takes(e) BY <2>7 DEF GoodConn, Takes
  <2>13. e.state # 0 BY <1>4, <2>7 DEF GoodConn
  <2>14. Writes(e) BY <2>5, <2>7 DEF Writes
  <2> QED BY <2>7, <2>9, <2>11, <2>12, <2>13, <2>14 DEF GoodConn, Delivers
<1> QED BY <1>2, <1>3, <1>4 DEF Served!send

\* What is read of what has arrived.
LEMMA TakesOn ==
  ASSUME NEW c, GoodConn(c), request.bytes \in Seq(Chars), NEW k \in 1..Len(c.arrived)
  PROVE  \E n \in 0..Len(request.bytes) : \E m \in n..Len(request.bytes) :
           /\ SubSeq(c.arrived, 1, k) = SubSeq(request.bytes, n + 1, n + k)
           /\ SubSeq(c.arrived, k + 1, Len(c.arrived)) = SubSeq(request.bytes, (n + k) + 1, m)
           /\ n + k \in n..m
           /\ todo = SubSeq(request.bytes, m + 1, Len(request.bytes))
           /\ Lined(request.bytes) => At(request.bytes, n, c.state)
<1> DEFINE B == request.bytes
<1>1. B \in Seq(Chars) /\ Len(B) \in Nat OBVIOUS
<1>2. PICK n \in 0..Len(B) : \E m \in n..Len(B) :
        /\ c.arrived = SubSeq(B, n + 1, m)
        /\ todo = SubSeq(B, m + 1, Len(B))
        /\ Lined(B) => At(B, n, c.state)
  BY DEF GoodConn, Takes
<1>3. PICK m \in n..Len(B) :
        /\ c.arrived = SubSeq(B, n + 1, m)
        /\ todo = SubSeq(B, m + 1, Len(B))
        /\ Lined(B) => At(B, n, c.state)
  BY <1>2
<1> HIDE DEF B
<1>4. Len(c.arrived) = m - n BY <1>1, <1>3, Part
<1>5. n \in Nat /\ m \in Nat /\ n <= m /\ m <= Len(B) /\ k \in 1..(m - n) /\ m - n \in Nat BY <1>1, <1>4
<1>6. SubSeq(c.arrived, 1, k) = SubSeq(B, n + 1, n + k)
  <2>1. 0 \in 0..(m - n) /\ k \in 0..(m - n) /\ n + 0 = n BY <1>5
  <2>2. SubSeq(SubSeq(B, n + 1, m), 0 + 1, k) = SubSeq(B, (n + 0) + 1, n + k) BY <1>1, <2>1, PartOfPart
  <2>3. 0 + 1 = 1 OBVIOUS
  <2> QED BY <1>3, <2>1, <2>2, <2>3
<1>7. SubSeq(c.arrived, k + 1, Len(c.arrived)) = SubSeq(B, (n + k) + 1, m)
  <2>1. k \in 0..(m - n) /\ m - n \in k..(m - n) /\ n + (m - n) = m BY <1>5
  <2>2. SubSeq(SubSeq(B, n + 1, m), k + 1, m - n) = SubSeq(B, (n + k) + 1, n + (m - n)) BY <1>1, <2>1, PartOfPart
  <2> QED BY <1>3, <1>4, <2>1, <2>2
<1>8. n + k \in n..m BY <1>5
<1> QED BY <1>3, <1>6, <1>7, <1>8 DEF B

LEMMA RecvIs ==
  ASSUME NEW c, GoodConn(c), c.close = FALSE, request.bytes \in Seq(Chars), NEW z \in Served!recv(c)
  PROVE  GoodConn(z) /\ (z.close => fin = "reset")
<1> DEFINE k == Served!AtMost(Len(c.arrived), Buffer - c.used)
           bytes == SubSeq(c.arrived, 1, k)
           next == [c EXCEPT !.used = c.used + k, !.arrived = SubSeq(c.arrived, k + 1, Len(c.arrived))]
<1>1. c \in Conn BY DEF GoodConn
<1>2. CASE z = c BY <1>2
<1>3. CASE fin = "reset" /\ z = [c EXCEPT !.close = TRUE]
  <2>1. /\ z \in Conn /\ z.got = c.got /\ z.r = c.r /\ z.write_b = c.write_b /\ z.state = c.state /\ z.arrived = c.arrived
    BY <1>1, <1>3 DEF Conn
  <2> QED BY <1>3, <2>1 DEF GoodConn, Delivers, Writes, Takes
<1>4. CASE z = [c EXCEPT !.state = 5]
  <2>0. 5 \in 0..5 /\ 5 # 0 OBVIOUS
  <2>1. /\ z \in Conn /\ z.got = c.got /\ z.r = c.r /\ z.write_b = c.write_b /\ z.state = 5 /\ z.arrived = c.arrived
        /\ z.close = c.close
    BY <1>1, <1>4, <2>0 DEF Conn
  <2>1a. z.state # 0 BY <2>0, <2>1
  <2>2. \A n : At(request.bytes, n, 5) BY DEF At
  <2>3. Takes(z) BY <2>1, <2>2 DEF GoodConn, Takes
  <2>4. Delivers(z) /\ Writes(z) BY <2>1 DEF GoodConn, Delivers, Writes
  <2>5. GoodConn(z) BY <2>1, <2>1a, <2>3, <2>4 DEF GoodConn
  <2> QED BY <2>1, <2>5
<1>5. ASSUME c.used # Buffer, c.arrived # <<>>,
             \/ c.state = 5 /\ z = [next EXCEPT !.used = c.used]
             \/ /\ c.state # 5
                /\ \E e \in IF c.state = 0 /\ Served!has_line(bytes) THEN Served!read(next) ELSE {next} :
                     z = [e EXCEPT !.state = Served!rounds(c.state, bytes)]
      PROVE  GoodConn(z) /\ z.close = FALSE
  <2>1. c.arrived \in Seq(Chars) /\ Len(c.arrived) \in Nat \ {0} /\ c.used \in 0..Buffer /\ c.state \in 0..5
    BY <1>1, <1>5, EmptySeq DEF Conn
  <2>2. Buffer \in Nat BY ConnectionAssumption
  <2>3. k \in 1..Len(c.arrived) /\ c.used + k \in 0..Buffer BY <1>5, <2>1, <2>2 DEF Served!AtMost
  <2> HIDE DEF k
  <2>4. PICK n \in 0..Len(request.bytes) : \E m \in n..Len(request.bytes) :
           /\ SubSeq(c.arrived, 1, k) = SubSeq(request.bytes, n + 1, n + k)
           /\ SubSeq(c.arrived, k + 1, Len(c.arrived)) = SubSeq(request.bytes, (n + k) + 1, m)
           /\ n + k \in n..m
           /\ todo = SubSeq(request.bytes, m + 1, Len(request.bytes))
           /\ Lined(request.bytes) => At(request.bytes, n, c.state)
    BY <2>3, TakesOn
  <2>5. PICK m \in n..Len(request.bytes) :
           /\ bytes = SubSeq(request.bytes, n + 1, n + k)
           /\ SubSeq(c.arrived, k + 1, Len(c.arrived)) = SubSeq(request.bytes, (n + k) + 1, m)
           /\ n + k \in n..m
           /\ todo = SubSeq(request.bytes, m + 1, Len(request.bytes))
           /\ Lined(request.bytes) => At(request.bytes, n, c.state)
    BY <2>4
  <2>6. Len(request.bytes) \in Nat /\ n + k \in n..Len(request.bytes) /\ n + k \in 0..Len(request.bytes) /\ m \in (n + k)..Len(request.bytes)
    BY <2>3, <2>5
  <2>7. bytes \in Seq(Chars) BY <2>5, <2>6, Part
  <2>8. SubSeq(c.arrived, k + 1, Len(c.arrived)) \in Seq(Chars)
    <3>1. SubSeq(request.bytes, (n + k) + 1, m) \in Seq(Chars) BY <2>6, Part
    <3> QED BY <2>5, <3>1
  <2> HIDE DEF bytes
  <2>9. next \in Conn BY <1>1, <2>3, <2>8 DEF Conn
  <2>10. /\ next.arrived = SubSeq(request.bytes, (n + k) + 1, m)
         /\ next.got = c.got /\ next.r = c.r /\ next.write_b = c.write_b /\ next.state = c.state /\ next.close = FALSE
    BY <1>1, <2>5 DEF Conn
  <2> HIDE DEF next
  <2>11. Delivers(next) /\ Writes(next) BY <2>10 DEF GoodConn, Delivers, Writes
  <2>12. CASE c.state = 5 /\ z = [next EXCEPT !.used = c.used]
    <3>1. /\ z \in Conn /\ z.got = c.got /\ z.r = c.r /\ z.write_b = c.write_b /\ z.state = 5 /\ z.close = FALSE
          /\ z.arrived = next.arrived
      BY <2>1, <2>9, <2>10, <2>12 DEF Conn
    <3>2. At(request.bytes, n + k, 5) BY DEF At
    <3>3. Takes(z) BY <2>5, <2>6, <2>10, <3>1, <3>2 DEF Takes
    <3>4. Delivers(z) /\ Writes(z) BY <3>1 DEF GoodConn, Delivers, Writes
    <3>5. z.state # 0 BY <3>1
    <3>6. GoodConn(z) BY <3>1, <3>3, <3>4, <3>5 DEF GoodConn
    <3> QED BY <3>1, <3>6
  <2>13. ASSUME c.state # 5,
                NEW e \in IF c.state = 0 /\ Served!has_line(bytes) THEN Served!read(next) ELSE {next},
                z = [e EXCEPT !.state = Served!rounds(c.state, bytes)]
         PROVE  GoodConn(z) /\ z.close = FALSE
    <3> DEFINE u == Served!rounds(c.state, bytes)
    <3>1. u \in 0..5 /\ (c.state # 0 \/ Served!has_line(bytes) => u # 0)
      <4> DEFINE s == c.state
      <4>1. s \in 0..5 /\ u = Served!rounds(s, bytes) BY <2>1
      <4> HIDE DEF s, u
      <4>2. u \in 0..5 /\ (s # 0 \/ Served!has_line(bytes) => u # 0) BY <2>7, <4>1, RoundsState
      <4> QED BY <4>2 DEF s
    <3>2. Lined(request.bytes) => u = 5 \/ At(request.bytes, n + k, u)
      <4> DEFINE s == c.state
                 B == request.bytes
      <4>1. SUFFICES ASSUME Lined(B) PROVE u = 5 \/ At(B, n + k, u) OBVIOUS
      <4>2. s \in 0..5 /\ At(B, n, s) /\ u = Served!rounds(s, SubSeq(B, n + 1, n + k)) /\ n \in 0..Len(B) /\ n + k \in n..Len(B)
        BY <2>1, <2>5, <2>6, <4>1
      <4> HIDE DEF s, u, B
      <4> QED BY <4>1, <4>2, RoundsAt
    <3>3. Lined(request.bytes) => At(request.bytes, n + k, u)
      <4>1. At(request.bytes, n + k, 5) BY DEF At
      <4> QED BY <3>2, <4>1
    <3>4. z = [e EXCEPT !.state = u] BY <2>13
    <3> HIDE DEF u
    <3>5. /\ e \in Conn /\ Delivers(e) /\ Writes(e) /\ e.arrived = next.arrived /\ e.close = FALSE
          /\ e = next \/ u # 0
      <4>1. CASE c.state = 0 /\ Served!has_line(bytes)
        <5>1. next.got = <<>> /\ next.r = <<>> BY <2>10, <4>1 DEF GoodConn
        <5>2. e \in Served!read(next) BY <2>13, <4>1
        <5>3. e \in Conn /\ Delivers(e) /\ Writes(e) /\ e.arrived = next.arrived /\ e.close = next.close
          BY <2>9, <2>11, <5>1, <5>2, ReadIs
        <5> QED BY <2>10, <3>1, <4>1, <5>3
      <4>2. CASE ~(c.state = 0 /\ Served!has_line(bytes))
        <5>1. e = next BY <2>13, <4>2
        <5> QED BY <2>9, <2>10, <2>11, <5>1
      <4> QED BY <4>1, <4>2
    <3>6. /\ z \in Conn /\ z.state = u /\ z.got = e.got /\ z.r = e.r /\ z.write_b = e.write_b
          /\ z.arrived = e.arrived /\ z.close = FALSE
      BY <3>1, <3>4, <3>5 DEF Conn
    <3>7. Delivers(z) /\ Writes(z) BY <3>5, <3>6 DEF Delivers, Writes
    <3>8. Takes(z) BY <2>5, <2>6, <2>10, <3>3, <3>5, <3>6 DEF Takes
    <3>9. z.state = 0 => z.got = <<>> /\ z.r = <<>>
      <4>1. SUFFICES ASSUME u = 0 PROVE e.got = <<>> /\ e.r = <<>> BY <3>6
      <4>2. c.state = 0 /\ e = next BY <3>1, <3>5, <4>1
      <4> QED BY <2>10, <4>2 DEF GoodConn
    <3> QED BY <3>6, <3>7, <3>8, <3>9 DEF GoodConn
  <2> QED BY <1>5, <2>12, <2>13
<1>6. \/ fin = "reset" /\ z = [c EXCEPT !.close = TRUE]
      \/ z = [c EXCEPT !.state = 5]
      \/ z = c
      \/ /\ c.used # Buffer /\ c.arrived # <<>>
         /\ \/ c.state = 5 /\ z = [next EXCEPT !.used = c.used]
            \/ /\ c.state # 5
               /\ \E e \in IF c.state = 0 /\ Served!has_line(bytes) THEN Served!read(next) ELSE {next} :
                    z = [e EXCEPT !.state = Served!rounds(c.state, bytes)]
  <2>1. CASE fin = "reset" BY <2>1 DEF Served!recv
  <2>2. CASE fin # "reset" /\ (c.used = Buffer \/ (c.arrived = <<>> /\ fin = "closed")) BY <2>2 DEF Served!recv
  <2>3. CASE fin # "reset" /\ ~(c.used = Buffer \/ (c.arrived = <<>> /\ fin = "closed")) /\ c.arrived = <<>>
    BY <2>3 DEF Served!recv
  <2>4. CASE fin # "reset" /\ ~(c.used = Buffer \/ (c.arrived = <<>> /\ fin = "closed")) /\ c.arrived # <<>> /\ c.state = 5
    BY <2>4 DEF Served!recv
  <2>5. CASE fin # "reset" /\ ~(c.used = Buffer \/ (c.arrived = <<>> /\ fin = "closed")) /\ c.arrived # <<>> /\ c.state # 5
    <3>1. z \in {[e EXCEPT !.state = Served!rounds(c.state, bytes)] :
                   e \in IF c.state = 0 /\ Served!has_line(bytes) THEN Served!read(next) ELSE {next}}
      BY <2>5 DEF Served!recv
    <3> HIDE DEF bytes, next
    <3>2. \E e \in IF c.state = 0 /\ Served!has_line(bytes) THEN Served!read(next) ELSE {next} :
            z = [e EXCEPT !.state = Served!rounds(c.state, bytes)]
      BY <3>1
    <3> QED BY <2>5, <3>2
  <2> QED BY <2>1, <2>2, <2>3, <2>4, <2>5
<1> QED BY <1>2, <1>3, <1>4, <1>5, <1>6

\* An event leaves no connection open that is done, and closes none before, but for its client or an error.
LEMMA ProcessIs ==
  ASSUME GoodConn(Served!members), request.bytes \in Seq(Chars),
         NEW events, NEW z \in Served!process_events(events)
  PROVE  /\ GoodConn(z) /\ (z.close => z.failed \/ fin = "reset" \/ z.r = <<>>)
         /\ ~z.close => ~(z.state = 5 /\ z.r = <<>>)
<1> DEFINE m == Served!members
           received == IF "in" \in events THEN Served!recv(m) ELSE {m}
           sent_on(c) == IF "out" \in events /\ ~c.close THEN Served!send(c) ELSE {c}
<1>1. m.close = FALSE BY DEF Served!members
<1>2. PICK e \in UNION {sent_on(c) : c \in received} : z = [e EXCEPT !.close = e.close \/ Served!finished(e)]
  BY DEF Served!process_events
<1>3. PICK c \in received : e \in sent_on(c) BY <1>2
<1> HIDE DEF m
<1>4. GoodConn(c) /\ c.close \in BOOLEAN /\ (c.close => fin = "reset")
  <2>1. CASE "in" \in events
    <3>1. c \in Served!recv(m) BY <1>3, <2>1
    <3>2. GoodConn(m) BY DEF m
    <3>3. GoodConn(c) /\ (c.close => fin = "reset") BY <1>1, <3>1, <3>2, RecvIs
    <3> QED BY <3>3 DEF GoodConn, Conn
  <2>2. CASE ~("in" \in events)
    <3>1. c = m BY <1>3, <2>2
    <3> QED BY <1>1, <3>1 DEF m
  <2> QED BY <2>1, <2>2
<1>5. GoodConn(e) /\ (e.close => e.failed \/ fin = "reset")
  <2>1. CASE "out" \in events /\ ~c.close
    <3>1. e \in Served!send(c) BY <1>3, <2>1
    <3>2. GoodConn(e) /\ (e.close => c.close \/ e.failed) BY <1>4, <3>1, SendIs
    <3> QED BY <1>4, <3>2
  <2>2. CASE ~("out" \in events /\ ~c.close)
    <3>1. e = c BY <1>3, <2>2
    <3> QED BY <1>4, <3>1
  <2> QED BY <2>1, <2>2
<1>6. e \in Conn BY <1>5 DEF GoodConn
<1>7. e.close \in BOOLEAN /\ e.write_b \in BOOLEAN BY <1>6 DEF Conn
<1> DEFINE b == e.close \/ Served!finished(e)
<1>8. b \in BOOLEAN /\ z = [e EXCEPT !.close = b] BY <1>2, <1>7
<1>9. b <=> (e.close \/ (e.state = 5 /\ ~e.write_b)) BY DEF Served!finished
<1> HIDE DEF b
<1>10. /\ z \in Conn /\ z.got = e.got /\ z.r = e.r /\ z.write_b = e.write_b /\ z.state = e.state
       /\ z.arrived = e.arrived /\ z.failed = e.failed /\ z.close = b
  BY <1>6, <1>8 DEF Conn
<1>11. GoodConn(z) BY <1>5, <1>10 DEF GoodConn, Delivers, Writes, Takes
<1>12. (e.write_b <=> e.r # <<>>) BY <1>5 DEF GoodConn, Writes
<1>13. z.close => z.failed \/ fin = "reset" \/ z.r = <<>> BY <1>5, <1>9, <1>10, <1>12
<1>14. ~z.close => ~(z.state = 5 /\ z.r = <<>>) BY <1>9, <1>10, <1>12
<1> QED BY <1>11, <1>13, <1>14

-----------------------------------------------------------------------------
(* The connection.                                                         *)

\* Of the answer nothing is given yet, or the client's bytes and what is left of it make it up; and
\* what has arrived is what the request has behind the bytes that state_ tells of.  An open
\* connection has not done all it has to; a closed one has, or was ended by its client or an error.
ServedInv ==
  /\ request \in Requests /\ GoodConn(Served!members)
  /\ phase = "open" => ~(conn_state = 5 /\ conn_r = <<>>)
  /\ phase = "closed" => failed \/ fin = "reset" \/ conn_r = <<>>

LEMMA BytesIs == ASSUME request \in Requests PROVE request.bytes \in Seq(Chars)
BY ConnectionAssumption DEF Chars

LEMMA MembersAre ==
  /\ Served!members.state = conn_state /\ Served!members.used = used /\ Served!members.write_b = unsent
  /\ Served!members.r = conn_r /\ Served!members.failed = failed /\ Served!members.arrived = arrived
  /\ Served!members.got = answer_got /\ Served!members.room = room /\ Served!members.close = FALSE
BY DEF Served!members

LEMMA InitServed == Served!Init => ServedInv
<1> SUFFICES ASSUME Served!Init PROVE ServedInv OBVIOUS
<1>1. /\ request \in Requests /\ todo = request.bytes /\ answer_got = <<>> /\ arrived = <<>> /\ room = TRUE
      /\ phase = "none" /\ conn_state = 0 /\ used = 0 /\ unsent = FALSE /\ conn_r = <<>> /\ failed = FALSE
  BY DEF Served!Init
<1>2. request.bytes \in Seq(Chars) BY <1>1, BytesIs
<1> DEFINE B == request.bytes
           m == Served!members
<1>3. B \in Seq(Chars) /\ Len(B) \in Nat BY <1>2
<1>4. 0 \in 0..Len(B) /\ 0 \in 0..0 BY <1>3
<1>5. todo = SubSeq(B, 0 + 1, Len(B)) /\ arrived = SubSeq(B, 0 + 1, 0)
  <2>1. todo = B BY <1>1
  <2> HIDE DEF B
  <2> QED BY <1>1, <1>3, <1>4, <2>1, WholePart, NoPart
<1>6. At(B, 0, 0) BY DEF At
<1>7. Takes(m)
  <2>1. m.arrived = arrived /\ m.state = 0 BY <1>1 DEF Served!members
  <2>2. 0 \in 0..Len(B) BY <1>4
  <2> QED BY <1>4, <1>5, <1>6, <2>1, <2>2 DEF Takes
<1>8. m \in Conn
  <2>1. 0 \in 0..Buffer BY ConnectionAssumption
  <2>2. <<>> \in Seq(Nat) /\ <<>> \in Seq(Chars) /\ 0 \in 0..5 OBVIOUS
  <2> QED BY <1>1, <2>1, <2>2 DEF Served!members, Conn
<1>9. m.got = <<>> /\ m.r = <<>> /\ m.write_b = FALSE BY <1>1 DEF Served!members
<1> QED BY <1>1, <1>7, <1>8, <1>9 DEF ServedInv, GoodConn, Delivers, Writes

\* A step of neither the loop nor the network.
LEMMA IdleStep ==
  ASSUME ServedInv, UNCHANGED <<request, todo, Served!members, fin>>,
         phase' = phase \/ phase' \notin {"open", "closed"}
  PROVE  ServedInv'
<1>1. /\ Served!members' = Served!members /\ request' = request /\ todo' = todo /\ fin' = fin OBVIOUS
<1>2. conn_state' = conn_state /\ conn_r' = conn_r /\ failed' = failed BY <1>1, MembersAre DEF Served!members
<1>3. GoodConn(Served!members)' BY <1>1 DEF ServedInv, GoodConn, Takes, Delivers, Writes, Conn, Served!Answer
<1> QED BY <1>1, <1>2, <1>3 DEF ServedInv

LEMMA HandledStep ==
  ASSUME ServedInv, NEW events, NEW z \in Served!process_events(events), Served!becomes(z),
         UNCHANGED <<todo, request, fin>>, phase' = "open" => ~z.close, phase' = "closed" => z.close
  PROVE  ServedInv'
<1>1. /\ GoodConn(z) /\ (z.close => z.failed \/ fin = "reset" \/ z.r = <<>>)
      /\ ~z.close => ~(z.state = 5 /\ z.r = <<>>)
  <2>1. GoodConn(Served!members) /\ request.bytes \in Seq(Chars) BY BytesIs DEF ServedInv
  <2> QED BY <2>1, ProcessIs
<1>2. z \in Conn BY <1>1 DEF GoodConn
<1>3. /\ conn_state' = z.state /\ used' = z.used /\ unsent' = z.write_b /\ conn_r' = z.r /\ failed' = z.failed
      /\ arrived' = z.arrived /\ answer_got' = z.got /\ room' = z.room
  BY DEF Served!becomes
<1> DEFINE m == Served!members'
<1>4. /\ m.state = z.state /\ m.used = z.used /\ m.write_b = z.write_b /\ m.r = z.r /\ m.failed = z.failed
      /\ m.arrived = z.arrived /\ m.got = z.got /\ m.room = z.room /\ m.close = FALSE
  BY <1>3 DEF Served!members
<1>5. /\ conn_state' \in 0..5 /\ used' \in 0..Buffer /\ unsent' \in BOOLEAN /\ conn_r' \in Seq(Nat) /\ failed' \in BOOLEAN
      /\ arrived' \in Seq(Chars) /\ answer_got' \in Seq(Nat) /\ room' \in BOOLEAN
  BY <1>2, <1>3 DEF Conn
<1>6. m \in Conn BY <1>5 DEF Served!members, Conn
<1> HIDE DEF m
<1>7. (m \in Conn /\ (Delivers(z) => Delivers(m)) /\ (Writes(z) => Writes(m)))
  BY <1>4, <1>6 DEF Delivers, Writes
<1>8. GoodConn(Served!members)'
  <2>1. (Served!members \in Conn)' BY <1>6 DEF m, Conn, Chars
  <2>2. Delivers(Served!members)'
    <3>1. Delivers(z) BY <1>1 DEF GoodConn
    <3> QED BY <1>4, <3>1 DEF Delivers, m, Served!Answer
  <2>3. Writes(Served!members)'
    <3>1. Writes(z) BY <1>1 DEF GoodConn
    <3> QED BY <1>4, <3>1 DEF Writes, m
  <2>4. Takes(Served!members)'
    <3> DEFINE B == request.bytes
    <3>1. todo' = todo /\ request' = request OBVIOUS
    <3>2. PICK n \in 0..Len(B) : \E j \in n..Len(B) :
            /\ z.arrived = SubSeq(B, n + 1, j)
            /\ todo = SubSeq(B, j + 1, Len(B))
            /\ Lined(B) => At(B, n, z.state)
      BY <1>1 DEF GoodConn, Takes
    <3>3. PICK j \in n..Len(B) :
            /\ z.arrived = SubSeq(B, n + 1, j)
            /\ todo = SubSeq(B, j + 1, Len(B))
            /\ Lined(B) => At(B, n, z.state)
      BY <3>2
    <3>4. (Served!members.arrived = SubSeq(request.bytes, n + 1, j))' BY <1>4, <3>1, <3>3 DEF m
    <3>5. todo' = SubSeq(request.bytes, j + 1, Len(request.bytes)) BY <3>1, <3>3
    <3>6. Lined(request.bytes) => At(request.bytes, n, z.state) BY <3>3
    <3>7. Served!members'.state = z.state BY <1>4 DEF m
    <3>8. n \in 0..Len(request.bytes) /\ j \in n..Len(request.bytes) BY <3>2, <3>3
    <3> QED BY <3>1, <3>4, <3>5, <3>6, <3>7, <3>8 DEF Takes, Lined, At, Chars
  <2>5. (Served!members.state = 0 => Served!members.got = <<>> /\ Served!members.r = <<>>)'
    BY <1>1, <1>4 DEF GoodConn, m
  <2> QED BY <2>1, <2>2, <2>3, <2>4, <2>5 DEF GoodConn
<1>9. phase' = "open" => ~(conn_state' = 5 /\ conn_r' = <<>>) BY <1>1, <1>3
<1>10. phase' = "closed" => failed' \/ fin' = "reset" \/ conn_r' = <<>> BY <1>1, <1>3
<1> QED BY <1>8, <1>9, <1>10 DEF ServedInv

LEMMA TransmitStep == ASSUME ServedInv, Served!transmit PROVE ServedInv'
<1> DEFINE B == request.bytes
           m == Served!members
<1>1. PICK k \in 1..Len(todo) :
        arrived' = arrived \o SubSeq(todo, 1, k) /\ todo' = SubSeq(todo, k + 1, Len(todo))
  BY DEF Served!transmit
<1>2. /\ request' = request /\ answer_got' = answer_got /\ fin' = fin /\ room' = room /\ phase' = phase
      /\ conn_state' = conn_state /\ used' = used /\ unsent' = unsent /\ conn_r' = conn_r /\ failed' = failed
  BY DEF Served!transmit, Served!connection
<1>3. B \in Seq(Chars) /\ Len(B) \in Nat BY BytesIs DEF ServedInv
<1>4. PICK n \in 0..Len(B) : \E j \in n..Len(B) :
        /\ m.arrived = SubSeq(B, n + 1, j)
        /\ todo = SubSeq(B, j + 1, Len(B))
        /\ Lined(B) => At(B, n, m.state)
  BY DEF ServedInv, GoodConn, Takes
<1>5. PICK j \in n..Len(B) :
        /\ arrived = SubSeq(B, n + 1, j)
        /\ todo = SubSeq(B, j + 1, Len(B))
        /\ Lined(B) => At(B, n, conn_state)
  BY <1>4, MembersAre
<1> DEFINE e == j + k
           f == Len(B)
<1> HIDE DEF B
<1>6. Len(todo) = f - j /\ f \in Nat /\ n \in 0..f /\ j \in n..f /\ f = Len(B)
  <2>1. j \in 0..Len(B) /\ Len(B) \in j..Len(B) BY <1>3
  <2>2. Len(SubSeq(B, j + 1, Len(B))) = Len(B) - j BY <1>3, <2>1, Part
  <2> QED BY <1>3, <1>5, <2>2
<1>7. e \in 0..f /\ e \in j..f /\ e \in n..f /\ k \in 0..(f - j) /\ (f - j) \in k..(f - j) /\ j + (f - j) = f /\ 0 \in 0..(f - j) /\ j + 0 = j
      /\ j \in 0..f /\ f \in j..f
  BY <1>6
<1>8. SubSeq(todo, 1, k) = SubSeq(B, j + 1, e)
  <2> HIDE DEF f
  <2>1. j \in 0..Len(B) /\ f \in j..Len(B) /\ k \in 0..(f - j) BY <1>6, <1>7
  <2>2. SubSeq(SubSeq(B, j + 1, f), 0 + 1, k) = SubSeq(B, (j + 0) + 1, j + k) BY <1>3, <1>7, <2>1, PartOfPart
  <2>3. todo = SubSeq(B, j + 1, f) /\ 0 + 1 = 1 BY <1>5, <1>6
  <2> QED BY <1>7, <2>2, <2>3
<1>9. SubSeq(todo, k + 1, Len(todo)) = SubSeq(B, e + 1, f)
  <2> HIDE DEF f
  <2>1. j \in 0..Len(B) /\ f \in j..Len(B) /\ k \in 0..(f - j) BY <1>6, <1>7
  <2>2. SubSeq(SubSeq(B, j + 1, f), k + 1, f - j) = SubSeq(B, (j + k) + 1, j + (f - j)) BY <1>3, <1>7, <2>1, PartOfPart
  <2>3. todo = SubSeq(B, j + 1, f) /\ Len(todo) = f - j BY <1>5, <1>6
  <2> QED BY <1>7, <2>2, <2>3
<1>10. SubSeq(B, n + 1, j) \o SubSeq(B, j + 1, e) = SubSeq(B, n + 1, e)
  <2>1. n \in 0..Len(B) /\ j \in n..Len(B) /\ e \in j..Len(B) BY <1>6, <1>7
  <2> HIDE DEF e
  <2> QED BY <1>3, <2>1, PartAndPart
<1>11. arrived' = SubSeq(B, n + 1, e) /\ todo' = SubSeq(B, e + 1, f) BY <1>1, <1>5, <1>8, <1>9, <1>10
<1>12. arrived' \in Seq(Chars)
  <2>1. n \in 0..Len(B) /\ e \in n..Len(B) BY <1>6, <1>7
  <2> HIDE DEF e
  <2>2. SubSeq(B, n + 1, e) \in Seq(Chars) BY <1>3, <2>1, Part
  <2> QED BY <1>11, <2>2
<1> HIDE DEF e, f
<1>13. (Served!members \in Conn)'
  <2>1. Served!members \in Conn BY DEF ServedInv, GoodConn
  <2> QED BY <1>2, <1>12, <2>1 DEF Served!members, Conn, Chars
<1>14. (Delivers(Served!members) /\ Writes(Served!members))'
  <2>1. Delivers(Served!members) /\ Writes(Served!members) BY DEF ServedInv, GoodConn
  <2> QED BY <1>2, <2>1 DEF Delivers, Writes, Served!members, Served!Answer
<1>15. Takes(Served!members)'
  <2>1. (Served!members.arrived = SubSeq(request.bytes, n + 1, e))' /\ Served!members'.state = conn_state
    BY <1>2, <1>11 DEF Served!members, B
  <2>2. todo' = SubSeq(request.bytes, e + 1, Len(request.bytes)) BY <1>6, <1>11 DEF B
  <2>3. Lined(request.bytes) => At(request.bytes, n, conn_state) BY <1>5 DEF B
  <2>4. n \in 0..Len(request.bytes) /\ e \in n..Len(request.bytes) BY <1>6, <1>7 DEF B
  <2> QED BY <1>2, <2>1, <2>2, <2>3, <2>4 DEF Takes, Lined, At, Chars
<1>16. (Served!members.state = 0 => Served!members.got = <<>> /\ Served!members.r = <<>>)'
  BY <1>2 DEF ServedInv, GoodConn, Served!members
<1>17. GoodConn(Served!members)' BY <1>13, <1>14, <1>15, <1>16 DEF GoodConn
<1> QED BY <1>2, <1>17 DEF ServedInv

\* The client ends its side, or takes bytes again.
LEMMA ClientStep ==
  ASSUME ServedInv, Served!end \/ Served!take_more PROVE ServedInv'
<1>1. /\ request' = request /\ todo' = todo /\ answer_got' = answer_got /\ arrived' = arrived /\ phase' = phase
      /\ conn_state' = conn_state /\ used' = used /\ unsent' = unsent /\ conn_r' = conn_r /\ failed' = failed
      /\ phase # "closed" /\ (room' = room \/ room' = TRUE)
  BY DEF Served!end, Served!take_more, Served!reachable, Served!client, Served!connection
<1>2. (Served!members \in Conn)'
  <2>1. Served!members \in Conn BY DEF ServedInv, GoodConn
  <2> QED BY <1>1, <2>1 DEF Served!members, Conn, Chars
<1>3. (Delivers(Served!members) /\ Writes(Served!members))'
  <2>1. Delivers(Served!members) /\ Writes(Served!members) BY DEF ServedInv, GoodConn
  <2> QED BY <1>1, <2>1 DEF Delivers, Writes, Served!members, Served!Answer
<1>4. Takes(Served!members)'
  <2>1. Takes(Served!members) BY DEF ServedInv, GoodConn
  <2>2. Served!members'.arrived = Served!members.arrived /\ Served!members'.state = Served!members.state
    BY <1>1 DEF Served!members
  <2> DEFINE c == Served!members
             later == Served!members'
             bytes == request.bytes
  <2>n. PICK n \in 0..Len(bytes) : \E m \in n..Len(bytes) :
          /\ c.arrived = SubSeq(bytes, n + 1, m) /\ todo = SubSeq(bytes, m + 1, Len(bytes))
          /\ Lined(bytes) => At(bytes, n, c.state)
    BY <2>1 DEF Takes
  <2>3. PICK m \in n..Len(bytes) :
          /\ c.arrived = SubSeq(bytes, n + 1, m) /\ todo = SubSeq(bytes, m + 1, Len(bytes))
          /\ Lined(bytes) => At(bytes, n, c.state)
    BY <2>n
  <2>4. request'.bytes = bytes /\ todo' = todo /\ later.arrived = c.arrived /\ later.state = c.state BY <1>1, <2>2
  <2> HIDE DEF c, later, bytes
  <2>5. /\ n \in 0..Len(request'.bytes) /\ m \in n..Len(request'.bytes)
        /\ later.arrived = SubSeq(request'.bytes, n + 1, m)
        /\ todo' = SubSeq(request'.bytes, m + 1, Len(request'.bytes))
        /\ Lined(request'.bytes) => At(request'.bytes, n, later.state)
    BY <2>3, <2>4
  <2> QED BY <2>5 DEF Takes, Lined, At, Chars, later
<1>5. (Served!members.state = 0 => Served!members.got = <<>> /\ Served!members.r = <<>>)'
  BY <1>1 DEF ServedInv, GoodConn, Served!members
<1>6. GoodConn(Served!members)' BY <1>2, <1>3, <1>4, <1>5 DEF GoodConn
<1> QED BY <1>1, <1>6 DEF ServedInv

LEMMA ServedStep == ASSUME ServedInv, [Served!Next]_(Served!vars) PROVE ServedInv'
<1>1. CASE Served!wait
  <2>1. UNCHANGED <<request, todo, Served!members, fin>> /\ phase' = phase
    BY <1>1 DEF Served!wait, Served!client, Served!socket, Served!connection, Served!members
  <2> QED BY <2>1, IdleStep
<1>2. CASE Served!accept
  <2>1. PICK z \in Served!process_events({"in"}) :
          Served!becomes(z) /\ phase' = (IF z.close THEN "gone" ELSE "open")
    BY <1>2 DEF Served!accept
  <2>2. UNCHANGED <<todo, request, fin>> BY <1>2 DEF Served!accept
  <2>3. (phase' = "open" => ~z.close) /\ (phase' = "closed" => z.close) BY <2>1
  <2> QED BY <2>1, <2>2, <2>3, HandledStep
<1>3. CASE Served!event
  <2> DEFINE events == (IF arrived # <<>> \/ fin # "open" THEN {"in"} ELSE {}) \cup (IF room THEN {"out"} ELSE {})
  <2>1. PICK z \in Served!process_events(events) :
          Served!becomes(z) /\ phase' = (IF z.close THEN "closed" ELSE "open")
    BY <1>3 DEF Served!event
  <2>2. UNCHANGED <<todo, request, fin>> BY <1>3 DEF Served!event
  <2>3. (phase' = "open" => ~z.close) /\ (phase' = "closed" => z.close) BY <2>1
  <2> HIDE DEF events
  <2> QED BY <2>1, <2>2, <2>3, HandledStep
<1>4. CASE Served!sweep
  <2>1. UNCHANGED <<request, todo, Served!members, fin>>
    BY <1>4 DEF Served!sweep, Served!client, Served!socket, Served!members
  <2>2. phase' = phase \/ phase' = "gone" BY <1>4 DEF Served!sweep
  <2> QED BY <2>1, <2>2, IdleStep
<1>5. CASE Served!second
  <2>1. UNCHANGED <<request, todo, Served!members, fin>> /\ phase' = phase
    BY <1>5 DEF Served!second, Served!client, Served!socket, Served!connection, Served!members
  <2> QED BY <2>1, IdleStep
<1>6. CASE Served!connect
  <2>1. UNCHANGED <<request, todo, Served!members, fin>> /\ phase' = "backlog"
    BY <1>6 DEF Served!connect, Served!client, Served!socket, Served!members
  <2> QED BY <2>1, IdleStep
<1>7. CASE Served!transmit BY <1>7, TransmitStep
<1>8. CASE Served!end \/ Served!take_more BY <1>8, ClientStep
<1>9. CASE UNCHANGED Served!vars
  <2>1. UNCHANGED <<request, todo, Served!members, fin>> /\ phase' = phase
    BY <1>9 DEF Served!vars, Served!client, Served!socket, Served!connection, Served!members
  <2> QED BY <2>1, IdleStep
<1> QED BY <1>1, <1>2, <1>3, <1>4, <1>5, <1>6, <1>7, <1>8, <1>9 DEF Served!Next, Served!Loop

LEMMA ServedInvariant == Served!Spec => []ServedInv
BY InitServed, ServedStep, PTL DEF Served!Spec

-----------------------------------------------------------------------------
(* What the client is owed.                                                *)

LEMMA GotIs ==
  ASSUME ServedInv
  PROVE  /\ answer_got \in Seq(Nat) /\ conn_r \in Seq(Nat)
         /\ (answer_got = <<>> /\ conn_r = <<>>) \/ answer_got \o conn_r = Served!Answer
BY MembersAre DEF ServedInv, GoodConn, Conn, Delivers

LEMMA Owed == ASSUME ServedInv PROVE Served!AnsweredOnce /\ Served!AnsweredWhole
<1> DEFINE A == Served!Answer
           g == answer_got
<1>1. g \in Seq(Nat) /\ conn_r \in Seq(Nat) /\ ((g = <<>> /\ conn_r = <<>>) \/ g \o conn_r = A) BY GotIs
<1>2. A \in Seq(Nat) /\ Len(A) \in Nat /\ Len(g) \in Nat BY <1>1, AnswerIs
<1> HIDE DEF A
<1>3. Len(g) <= Len(A) /\ g = SubSeq(A, 1, Len(g))
  <2>1. CASE g = <<>>
    <3>1. Len(g) = 0 /\ SubSeq(A, 1, 0) = <<>> BY <1>2, <2>1, SubSeqEmpty
    <3> QED BY <1>2, <2>1, <3>1
  <2>2. CASE g \o conn_r = A
    <3>1. Len(A) = Len(g) + Len(conn_r) /\ Len(conn_r) \in Nat /\ \A i \in 1..Len(g) : A[i] = g[i] BY <1>1, <2>2
    <3>2. Len(g) \in 0..Len(A) /\ 0 \in 0..Len(A) BY <1>2, <3>1
    <3> DEFINE f == SubSeq(A, 0 + 1, Len(g))
    <3>3. f \in Seq(Nat) /\ Len(f) = Len(g) - 0 /\ \A i \in 1..(Len(g) - 0) : f[i] = A[0 + i]
      <4>1. Len(g) \in 0..Len(A) /\ 0 \in 0..Len(A) BY <3>2
      <4> DEFINE b == Len(g)
      <4>2. b \in 0..Len(A) BY <4>1
      <4> HIDE DEF b
      <4>3. /\ SubSeq(A, 0 + 1, b) \in Seq(Nat) /\ Len(SubSeq(A, 0 + 1, b)) = b - 0
            /\ \A i \in 1..(b - 0) : SubSeq(A, 0 + 1, b)[i] = A[0 + i]
        BY <1>2, <4>1, <4>2, Part
      <4> QED BY <4>3 DEF b
    <3>4. f = SubSeq(A, 1, Len(g)) OBVIOUS
    <3> HIDE DEF f, g
    <3>5. Len(f) = Len(g) /\ \A i \in 1..Len(g) : f[i] = g[i]
      <4>1. \A i \in 1..Len(g) : i \in 1..(Len(g) - 0) /\ 0 + i = i BY <1>2
      <4> QED BY <1>2, <3>1, <3>3, <4>1
    <3>6. f = g BY <1>1, <3>3, <3>5, SeqEqual
    <3> QED BY <1>2, <3>1, <3>4, <3>6
  <2> QED BY <1>1, <2>1, <2>2
<1>4. conn_r = <<>> => g = <<>> \/ g = A
  <2> SUFFICES ASSUME conn_r = <<>>, g # <<>> PROVE g = A OBVIOUS
  <2>1. g \o <<>> = A BY <1>1
  <2>2. g \o <<>> = g BY <1>1
  <2> QED BY <2>1, <2>2
<1>5. Served!AnsweredOnce BY <1>3 DEF Served!AnsweredOnce, A
<1>6. phase = "closed" /\ ~failed /\ fin # "reset" => conn_r = <<>> BY DEF ServedInv
<1>7. Served!AnsweredWhole BY <1>4, <1>6 DEF Served!AnsweredWhole, A
<1> QED BY <1>5, <1>7

LEMMA Awaited == ASSUME ServedInv PROVE Served!NothingAwaited
<1> DEFINE B == request.bytes
           l == Len(B)
<1> SUFFICES ASSUME phase = "open", todo = <<>>, arrived = <<>>, conn_r = <<>>, Served!ends(B) PROVE FALSE
  BY DEF Served!NothingAwaited
<1>1. B \in Seq(Chars) /\ l \in Nat BY BytesIs DEF ServedInv
<1>2. PICK n \in 0..l : \E j \in n..l :
        /\ Served!members.arrived = SubSeq(B, n + 1, j)
        /\ todo = SubSeq(B, j + 1, l)
        /\ Lined(B) => At(B, n, Served!members.state)
  BY DEF ServedInv, GoodConn, Takes
<1>3. PICK j \in n..l :
        /\ arrived = SubSeq(B, n + 1, j)
        /\ todo = SubSeq(B, j + 1, l)
        /\ Lined(B) => At(B, n, conn_state)
  BY <1>2, MembersAre
<1>4. \E m \in 4..l : SubSeq(B, m - 3, m) = <<"r", "n", "r", "n">> /\ m = l BY DEF Served!ends
<1>5. \A i \in 1..l : B[i] = "n" <=> (i > 1 /\ B[i - 1] = "r") BY DEF Served!ends
<1>6. Lined(B) BY <1>1, <1>5 DEF Lined
<1> HIDE DEF B
<1>7. n = l
  <2>1. n \in 0..Len(B) /\ j \in n..Len(B) /\ j \in 0..Len(B) /\ Len(B) \in j..Len(B) BY <1>1
  <2>2. Len(SubSeq(B, n + 1, j)) = j - n BY <1>1, <2>1, Part
  <2>3. Len(SubSeq(B, j + 1, Len(B))) = Len(B) - j BY <1>1, <2>1, Part
  <2>4. Len(arrived) = 0 /\ Len(todo) = 0 BY EmptySeq
  <2>5. Len(arrived) = j - n /\ Len(todo) = Len(B) - j BY <1>3, <2>2, <2>3
  <2>6. j - n = 0 /\ Len(B) - j = 0 BY <2>4, <2>5
  <2> QED BY <1>1, <2>1, <2>6
<1>8. l >= 4 /\ B[l] = "n" /\ B[l - 1] = "r" /\ B[l - 2] = "n"
  <2>1. l >= 4 /\ SubSeq(B, l - 3, l) = <<"r", "n", "r", "n">> BY <1>1, <1>4
  <2> DEFINE a == l - 4
  <2>2. a \in 0..Len(B) /\ Len(B) \in a..Len(B) /\ a + 1 = l - 3 /\ l - a = 4 BY <1>1, <2>1
  <2> HIDE DEF a
  <2>3. \A i \in 1..(Len(B) - a) : SubSeq(B, a + 1, Len(B))[i] = B[a + i] BY <1>1, <2>2, Part
  <2>4. SubSeq(B, a + 1, Len(B)) = <<"r", "n", "r", "n">> BY <2>1, <2>2
  <2>5. 4 \in 1..(Len(B) - a) /\ 3 \in 1..(Len(B) - a) /\ 2 \in 1..(Len(B) - a) BY <2>2
  <2>6. a + 4 = l /\ a + 3 = l - 1 /\ a + 2 = l - 2 BY <1>1 DEF a
  <2> DEFINE t == SubSeq(B, a + 1, Len(B))
  <2>7. t = <<"r", "n", "r", "n">> BY <2>4
  <2>8. \A i \in 1..(Len(B) - a) : t[i] = B[a + i] BY <2>3
  <2> HIDE DEF t
  <2>9. t[4] = "n" /\ t[3] = "r" /\ t[2] = "n" BY <2>7
  <2>10. B[a + 4] = "n" /\ B[a + 3] = "r" /\ B[a + 2] = "n" BY <2>5, <2>8, <2>9
  <2> QED BY <2>1, <2>6, <2>10
<1>9. At(B, l, conn_state) BY <1>3, <1>6, <1>7
<1>10. conn_state \in 0..5 /\ conn_state # 5 BY MembersAre DEF ServedInv, GoodConn, Conn
<1>11. l \in 1..l BY <1>1, <1>8
<1>12. CASE conn_state = 0
  <2>1. B[l] = "x" BY <1>9, <1>11, <1>12 DEF At
  <2> QED BY <1>8, <2>1
<1>13. CASE conn_state \in {1, 2, 4} BY <1>8, <1>9, <1>13 DEF At
<1>14. CASE conn_state = 3
  <2>1. l = 2 \/ B[l - 2] = "x" BY <1>9, <1>14 DEF At
  <2>2. l # 2
    <3> HIDE DEF l
    <3> QED BY <1>1, <1>8
  <2>3. B[l - 2] # "x" BY <1>8
  <2> QED BY <2>1, <2>2, <2>3
<1> QED BY <1>10, <1>12, <1>13, <1>14

\* For all sizes, messages, quotas and requests, and however the network cuts what is sent: a client
\* handles what the other wrote, message for message and in order, and closes the link over a length
\* only at a message that is that long (write and send, recv and the reading of messages in
\* bt_peer_link.cpp, over ring_buffer.cpp); the tracker gives its client the bytes of one answer once
\* and in order, closes no connection before all of them are sent unless its client or an error does,
\* and closes it as soon as the request's end is read (recv, send and process_events of connection.cpp).
THEOREM LinksAreFaithful == Wire!Spec /\ Served!Spec => []AnswersFaithful
<1>1. WireInv /\ ServedInv => AnswersFaithful BY Owed, Awaited DEF AnswersFaithful, WireInv
<1> QED BY <1>1, WireInvariant, ServedInvariant, PTL
=================================================================================
