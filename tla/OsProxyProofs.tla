--------------------------- MODULE OsProxyProofs ---------------------------
(***************************************************************************)
(* The streams between the kernel and the Master, for every size of        *)
(* headers, blocks and sockets, every number of requests and every way     *)
(* recv and send split them: the Master gets the kernel's requests whole   *)
(* and in order, the kernel gets the replies whole and in order, and the   *)
(* socket is watched for writing exactly while something is queued.  When  *)
(* one write is outstanding at a time, its block stays in the reader's     *)
(* buffer from its encryption to its answer.                               *)
(***************************************************************************)
EXTENDS OsProxy, SequenceTheorems, FiniteSetTheorems, WellFoundedInduction, TLAPS

---------------------------------------------------------------------------
(* The inductive invariants *)

Stage == {"none", "encrypting", "encrypted", "waiting", "answered"}

OsProxyTypes ==
    /\ issued \in Seq(Type) /\ Len(issued) <= MaxRequests
    /\ kernelOut \in Seq(Unit)
    /\ toVdr \in Seq(Unit)
    /\ toKernel \in Seq(Unit)
    /\ got \in Seq(Unit)
    /\ m_reader \in [cells : Seq(Unit), size : {HDR_SIZE, PACKET_SIZE}, count : Nat]
    /\ Len(m_reader.cells) = PACKET_SIZE
    /\ m_packets \in Seq(Seq(Unit))
    /\ m_writtenCount \in Nat
    /\ handed \in Seq(Number)
    /\ stage \in [Number -> Stage]
    /\ pos \in [Number -> 0 .. BLOCK_SIZE]
    /\ replied \in Seq(Number)
    /\ \A p \in DOMAIN m_fdFuncs : m_fdFuncs[p] \in BOOLEAN

\* The i-th unit of a request, and how many there are.
UnitOf(k, i) == [of |-> k, part |-> i, enc |-> FALSE]
SizeOf(k) == IF issued[k] = "WRITE" THEN PACKET_SIZE ELSE HDR_SIZE

\* The unit the kernel sends after another one.
UnitAfter(u) ==
    IF u.part < SizeOf(u.of) THEN UnitOf(u.of, u.part + 1) ELSE UnitOf(u.of + 1, 1)

\* What the reader has not received yet, and the request it is at.
Coming == toVdr \o kernelOut
Current == Len(handed) + 1

\* Units come one after the other up to the end of the last request.
Sequential(s) ==
    /\ \A i \in 1 .. Len(s) : s[i].of \in DOMAIN issued
    /\ \A i \in 1 .. Len(s) : i < Len(s) => s[i + 1] = UnitAfter(s[i])
    /\ s # << >> => s[Len(s)] = UnitOf(Len(issued), SizeOf(Len(issued)))

InSequence == Sequential(Coming)

\* The reader goes on where it stopped: its buffer holds the beginning of the
\* current request, the size of which it knows once it has the header.
ReaderInStep ==
    /\ \A i \in 1 .. Len(handed) : handed[i] = i
    /\ Len(handed) <= Len(issued)
    /\ Len(handed) = Len(issued) => Coming = << >> /\ m_reader.count = 0
    /\ Len(handed) < Len(issued) =>
           /\ Coming # << >> /\ Coming[1] = UnitOf(Current, m_reader.count + 1)
           /\ m_reader.count < SizeOf(Current)
    /\ m_reader.count >= HDR_SIZE => m_reader.size = SizeOf(Current)
    /\ \A i \in 1 .. HDR_SIZE : i <= m_reader.count => m_reader.cells[i] = UnitOf(Current, i)

\* The function of the writer is called only while there is something to write.
WriterCalled ==
    /\ WatchedWhileQueued
    /\ running = WritePlace => m_packets # << >>

\* Of every packet queued something is left to send.
WriterInStep ==
    /\ \A i \in 1 .. Len(m_packets) : m_packets[i] # << >>
    /\ m_packets = << >> => m_writtenCount = 0
    /\ m_packets # << >> => m_writtenCount < Len(m_packets[1])

\* The Master has what it was handed, and has answered what it has replied to.
MasterInStep ==
    /\ \A k \in Number : stage[k] # "none" => k \in 1 .. Len(handed)
    /\ \A k \in Number : stage[k] = "answered" <=> \E i \in 1 .. Len(replied) : replied[i] = k

StreamInv ==
    /\ OsProxyTypes
    /\ InSequence
    /\ ReaderInStep
    /\ WriterCalled
    /\ WriterInStep
    /\ MasterInStep
    /\ process # "aborted"

\* Nothing is on its way to the kernel, or there, but for replies.
OfAReply(s) == \A i \in 1 .. Len(s) : s[i].of \in Number /\ stage[s[i].of] = "answered"
RepliesOnly ==
    /\ OfAReply(got)
    /\ OfAReply(toKernel)
    /\ \A j \in 1 .. Len(m_packets) : OfAReply(m_packets[j])

\* The kernel waits for one write at most.
OneWrite ==
    \A k, l \in DOMAIN issued :
        issued[k] = "WRITE" /\ issued[l] = "WRITE" /\ Outstanding(k) /\ Outstanding(l) => k = l

\* A write's block arrives in the buffer behind the header ...
BlockArrives ==
    \A i \in HDR_SIZE + 1 .. m_reader.count : m_reader.cells[i] = UnitOf(Current, i)

EncryptedUnit(k, i) == [of |-> k, part |-> i, enc |-> TRUE]

\* ... and is encrypted there as far as the worker has come.
BlockStays ==
    /\ \A k \in Number : stage[k] = "none" => pos[k] = 0
    /\ \A k \in Number : stage[k] = "encrypting" => issued[k] = "WRITE"
    /\ \A k \in DOMAIN issued :
           (issued[k] = "WRITE" /\ stage[k] \in {"encrypting", "encrypted", "waiting"}) =>
               /\ stage[k] # "encrypting" => pos[k] = BLOCK_SIZE
               /\ \A i \in 1 .. BLOCK_SIZE :
                      m_reader.cells[HDR_SIZE + i] =
                          IF i <= pos[k] THEN EncryptedUnit(k, HDR_SIZE + i)
                          ELSE UnitOf(k, HDR_SIZE + i)

BufferInv ==
    /\ StreamInv
    /\ RepliesOnly
    /\ OneWrite
    /\ BlockArrives
    /\ BlockStays

---------------------------------------------------------------------------
(* Sequences *)

\* A set of numbers with something in it has a least one.
LEMMA LeastOf ==
    ASSUME NEW S, S \subseteq Nat, S # {}
    PROVE  \E d \in S : \A e \in S : d <= e
<1>1. PICK d \in S : \A e \in S : <<e, d>> \notin OpToRel(<, Nat)
  BY NatLessThanWellFounded, WFMin
<1>2. \A e \in S : ~(e < d)
  BY <1>1 DEF OpToRel
<1> QED BY <1>2

\* Sizes are positive, and a packet is longer than its header.
LEMMA Sizes ==
    /\ HDR_SIZE \in Nat /\ BLOCK_SIZE \in Nat /\ PACKET_SIZE \in Nat
    /\ HDR_SIZE >= 1 /\ BLOCK_SIZE >= 1 /\ PACKET_SIZE = HDR_SIZE + BLOCK_SIZE
    /\ SockCapacity \in Nat /\ MaxRequests \in Nat
    /\ \A k : SizeOf(k) \in {HDR_SIZE, PACKET_SIZE}
    /\ \A k : SizeOf(k) \in Nat /\ SizeOf(k) >= HDR_SIZE /\ SizeOf(k) <= PACKET_SIZE
BY OsProxyAssumption DEF PACKET_SIZE, SizeOf

\* The units of a request and of a reply.
LEMMA UnitsOfRequest ==
    ASSUME NEW k \in 0 .. MaxRequests, NEW n \in Nat
    PROVE  /\ UnitsOf(k, 1, n) \in Seq(Unit)
           /\ Len(UnitsOf(k, 1, n)) = n
           /\ \A i \in 1 .. n : UnitsOf(k, 1, n)[i] = UnitOf(k, i) /\ UnitOf(k, i) \in Unit
<1>1. UnitsOf(k, 1, n) = [i \in 1 .. n |-> UnitOf(k, i)]
  BY DEF UnitsOf, UnitOf
<1>2. \A i \in 1 .. n : UnitOf(k, i) \in Unit
  BY DEF UnitOf, Unit
<1> QED BY <1>1, <1>2

\* Zeros are units.
LEMMA ZerosAreUnits ==
    ASSUME NEW n \in Nat
    PROVE  Zeros(n) \in Seq(Unit) /\ Len(Zeros(n)) = n
<1>1. Zero \in Unit
  BY OsProxyAssumption DEF Zero, Unit
<1> QED BY <1>1 DEF Zeros

\* The smaller of two numbers.
LEMMA MinOfTwo ==
    ASSUME NEW a \in Int, NEW b \in Int
    PROVE  /\ Min({a, b}) \in {a, b} /\ Min({a, b}) <= a /\ Min({a, b}) <= b
           /\ Min({a, b}) \in Int
BY DEF Min

\* t is the part of a sequence from a to b.
IsPart(t, s, a, b) ==
    /\ t \in Seq(Unit)
    /\ Len(t) = IF a <= b THEN b - a + 1 ELSE 0
    /\ \A i \in 1 .. Len(t) : t[i] = s[a + i - 1]

\* So is what SubSeq takes of it.
LEMMA PartOf ==
    ASSUME NEW s \in Seq(Unit), NEW a \in Nat, NEW b \in Nat, a >= 1, b <= Len(s)
    PROVE  IsPart(SubSeq(s, a, b), s, a, b)
<1>1. \A i \in a .. b : s[i] \in Unit
  BY ElementOfSeq
<1> QED BY <1>1, SubSeqProperties DEF IsPart

\* w is two parts, or three, one after the other.
IsPair(w, s, t) ==
    /\ w \in Seq(Unit)
    /\ Len(w) = Len(s) + Len(t) /\ Len(s) \in Nat /\ Len(t) \in Nat
    /\ \A i \in 1 .. Len(s) + Len(t) : w[i] = IF i <= Len(s) THEN s[i] ELSE t[i - Len(s)]

IsTriple(w, s, t, u) ==
    /\ w \in Seq(Unit)
    /\ Len(w) = Len(s) + Len(t) + Len(u)
    /\ \A i \in 1 .. Len(s) : w[i] = s[i]
    /\ \A i \in 1 .. Len(t) : w[Len(s) + i] = t[i]
    /\ \A i \in 1 .. Len(u) : w[Len(s) + Len(t) + i] = u[i]

\* So is what concatenation makes of them.
LEMMA TwoParts ==
    ASSUME NEW s \in Seq(Unit), NEW t \in Seq(Unit)
    PROVE  IsPair(s \o t, s, t)
BY ConcatProperties DEF IsPair

\* The same of three parts.
LEMMA ThreeParts ==
    ASSUME NEW s \in Seq(Unit), NEW t \in Seq(Unit), NEW u \in Seq(Unit)
    PROVE  IsTriple(s \o t \o u, s, t, u)
<1>1. s \o t \in Seq(Unit) /\ Len(s \o t) = Len(s) + Len(t) /\ Len(s) \in Nat /\ Len(t) \in Nat
      /\ Len(u) \in Nat
  BY ConcatProperties
<1>2. \A i \in 1 .. Len(s) + Len(t) :
        (s \o t)[i] = IF i <= Len(s) THEN s[i] ELSE t[i - Len(s)]
  BY ConcatProperties
<1>3. /\ (s \o t) \o u \in Seq(Unit)
      /\ Len((s \o t) \o u) = Len(s \o t) + Len(u)
      /\ \A i \in 1 .. Len(s \o t) + Len(u) :
           ((s \o t) \o u)[i] = IF i <= Len(s \o t) THEN (s \o t)[i] ELSE u[i - Len(s \o t)]
  BY <1>1, ConcatProperties
<1>4. PICK w : w = (s \o t) \o u
  OBVIOUS
<1>5. w \in Seq(Unit) /\ Len(w) = Len(s) + Len(t) + Len(u)
  BY <1>1, <1>3, <1>4
<1>6. \A i \in 1 .. Len(s) : w[i] = s[i]
  BY <1>1, <1>2, <1>3, <1>4
<1>7. \A i \in 1 .. Len(t) : w[Len(s) + i] = t[i]
  BY <1>1, <1>2, <1>3, <1>4
<1>8. \A i \in 1 .. Len(u) : w[Len(s) + Len(t) + i] = u[i]
  BY <1>1, <1>2, <1>3, <1>4
<1> QED BY <1>4, <1>5, <1>6, <1>7, <1>8 DEF IsTriple

---------------------------------------------------------------------------
(* TcpReader *)

\* The reader with the socket it reads from.
Reading == [cells : Seq(Unit), size : {HDR_SIZE, PACKET_SIZE}, count : Nat, in : Seq(Unit)]

\* n units of a stream were put behind the first c of the memory.
Filled(w, cells, in, c, n) ==
    /\ w \in Seq(Unit)
    /\ Len(w) = PACKET_SIZE
    /\ \A i \in 1 .. PACKET_SIZE :
           w[i] = IF c < i /\ i <= c + n THEN in[i - c] ELSE cells[i]

\* That is what recv does with it.
LEMMA Overwritten ==
    ASSUME NEW cells \in Seq(Unit), Len(cells) = PACKET_SIZE, NEW in \in Seq(Unit),
           NEW c \in Nat, NEW n \in Nat, n <= Len(in), c + n <= PACKET_SIZE
    PROVE  Filled(SubSeq(cells, 1, c) \o SubSeq(in, 1, n) \o SubSeq(cells, c + n + 1, PACKET_SIZE),
                  cells, in, c, n)
<1>w. PICK w : w = SubSeq(cells, 1, c) \o SubSeq(in, 1, n) \o SubSeq(cells, c + n + 1, PACKET_SIZE)
  OBVIOUS
<1> DEFINE x == SubSeq(cells, 1, c)
           y == SubSeq(in, 1, n)
           z == SubSeq(cells, c + n + 1, PACKET_SIZE)
<1>0. PACKET_SIZE \in Nat /\ Len(in) \in Nat
  BY Sizes
<1>1. /\ x \in Seq(Unit) /\ Len(x) = c
      /\ \A i \in 1 .. Len(x) : x[i] = cells[i]
  BY <1>0, PartOf DEF IsPart
<1>2. /\ y \in Seq(Unit) /\ Len(y) = n
      /\ \A i \in 1 .. Len(y) : y[i] = in[i]
  BY <1>0, PartOf DEF IsPart
<1>3. /\ z \in Seq(Unit) /\ Len(z) = PACKET_SIZE - c - n
      /\ \A i \in 1 .. Len(z) : z[i] = cells[c + n + i]
  <2>0. PICK f \in Nat : f = c + n + 1
    OBVIOUS
  <2>a. z = SubSeq(cells, f, PACKET_SIZE) /\ f >= 1 /\ PACKET_SIZE <= Len(cells)
    BY <2>0, <1>0
  <2> HIDE DEF z
  <2>1. /\ z \in Seq(Unit) /\ Len(z) = (IF f <= PACKET_SIZE THEN PACKET_SIZE - f + 1 ELSE 0)
        /\ \A i \in 1 .. Len(z) : z[i] = cells[f + i - 1]
    BY <1>0, <2>a, PartOf DEF IsPart
  <2> QED BY <1>0, <2>0, <2>1
<1> HIDE DEF x, y, z
<1>4. /\ w \in Seq(Unit)
      /\ Len(w) = Len(x) + Len(y) + Len(z)
      /\ \A i \in 1 .. Len(x) : w[i] = x[i]
      /\ \A i \in 1 .. Len(y) : w[Len(x) + i] = y[i]
      /\ \A i \in 1 .. Len(z) : w[Len(x) + Len(y) + i] = z[i]
  <2>1. w = x \o y \o z
    BY <1>w DEF x, y, z
  <2>2. x \in Seq(Unit) /\ y \in Seq(Unit) /\ z \in Seq(Unit)
    BY <1>1, <1>2, <1>3
  <2>3. IsTriple(x \o y \o z, x, y, z)
    BY ONLY <2>2, ThreeParts, Zenon
  <2>4. IsTriple(w, x, y, z)
    BY ONLY <2>1, <2>3, Zenon
  <2> QED BY <2>4 DEF IsTriple
<1>5. ASSUME NEW i \in 1 .. PACKET_SIZE
      PROVE  w[i] = IF c < i /\ i <= c + n THEN in[i - c] ELSE cells[i]
  <2>1. CASE i <= c
    BY <1>0, <1>1, <1>4, <2>1
  <2>2. CASE c < i /\ i <= c + n
    <3> PICK j \in 1 .. n : i = c + j /\ i - c = j
      BY <1>0, <2>2
    <3> QED BY <1>1, <1>2, <1>4, <2>2
  <2>3. CASE c + n < i
    <3>1. PICK j \in 1 .. PACKET_SIZE - c - n : i = c + n + j
      BY <1>0, <2>3
    <3>2. w[Len(x) + Len(y) + j] = z[j] /\ z[j] = cells[c + n + j]
      BY <1>3, <1>4, <3>1
    <3> QED BY <1>1, <1>2, <2>3, <3>1, <3>2
  <2> QED BY <1>0, <2>1, <2>2, <2>3
<1>6. Len(w) = PACKET_SIZE
  BY <1>0, <1>1, <1>2, <1>3, <1>4
<1>7. Filled(w, cells, in, c, n)
  BY <1>4, <1>5, <1>6 DEF Filled
<1> QED BY ONLY <1>w, <1>7, Zenon

\* recv puts the next n units behind those that are there.
LEMMA RecvEffect ==
    ASSUME NEW r \in Reading, Len(r.cells) = PACKET_SIZE, NEW size \in Nat,
           r.count <= size, size <= PACKET_SIZE
    PROVE  \E n \in 0 .. Len(r.in) :
             /\ n = size - r.count \/ (n = Len(r.in) /\ n < size - r.count)
             /\ Recv(r, size) \in Reading
             /\ Recv(r, size).size = r.size
             /\ Recv(r, size).count = r.count + n
             /\ Recv(r, size).in = SubSeq(r.in, n + 1, Len(r.in))
             /\ Filled(Recv(r, size).cells, r.cells, r.in, r.count, n)
<1>0. /\ r.cells \in Seq(Unit) /\ r.in \in Seq(Unit) /\ r.count \in Nat /\ Len(r.in) \in Nat
      /\ PACKET_SIZE \in Nat
  BY Sizes DEF Reading
<1>a. PICK c \in Nat, l \in Nat : c = r.count /\ l = Len(r.in)
  BY <1>0
<1>b. PICK n : n = Min({size - c, l})
  OBVIOUS
<1> DEFINE rest == SubSeq(r.in, n + 1, Len(r.in))
           w == SubSeq(r.cells, 1, c) \o SubSeq(r.in, 1, n) \o SubSeq(r.cells, c + n + 1, PACKET_SIZE)
<1>1. n \in Nat /\ n <= l /\ n <= size - c /\ (n = size - c \/ (n = l /\ n < size - c))
  <2>1. PICK p \in Nat : p = size - c
    BY <1>a
  <2>2. n = Min({p, l}) /\ p \in Int /\ l \in Int
    BY <1>b, <2>1
  <2>3. n \in {p, l} /\ n <= p /\ n <= l
    BY ONLY <2>2, MinOfTwo
  <2> QED BY <2>1, <2>3
<1>2. Recv(r, size) = [r EXCEPT !.cells = w, !.count = c + n, !.in = rest]
  BY <1>a, <1>b DEF Recv
<1>3. Filled(w, r.cells, r.in, c, n)
  <2>1. n <= Len(r.in) /\ c + n <= PACKET_SIZE
    BY <1>0, <1>1, <1>a
  <2> QED BY ONLY <1>0, <1>1, <2>1, Overwritten, Len(r.cells) = PACKET_SIZE, c \in Nat, Zenon
<1>4. rest \in Seq(Unit)
  <2>1. PICK f \in Nat : f = n + 1
    BY <1>1
  <2>2. rest = SubSeq(r.in, f, l) /\ f >= 1 /\ l <= Len(r.in)
    BY <1>1, <1>a, <2>1
  <2>3. SubSeq(r.in, f, l) \in Seq(Unit)
    BY <1>0, <2>2, PartOf DEF IsPart
  <2> QED BY <2>2, <2>3
<1> HIDE DEF rest, w
<1>5. /\ Recv(r, size) \in Reading
      /\ Recv(r, size).size = r.size
      /\ Recv(r, size).count = c + n
      /\ Recv(r, size).in = rest
      /\ Recv(r, size).cells = w
  <2>1. PICK z \in {HDR_SIZE, PACKET_SIZE}, m \in Nat : z = r.size /\ m = c + n
    BY <1>0, <1>1 DEF Reading
  <2>2. Recv(r, size) = [r EXCEPT !.cells = w, !.count = m, !.in = rest]
    BY <1>2, <2>1
  <2>3. PICK r1 : r1 = [r EXCEPT !.cells = w]
    OBVIOUS
  <2>4. r1 = [cells |-> w, size |-> z, count |-> c, in |-> r.in]
    BY <1>a, <2>1, <2>3 DEF Reading
  <2>5. PICK r2 : r2 = [r1 EXCEPT !.count = m]
    OBVIOUS
  <2>6. r2 = [cells |-> w, size |-> z, count |-> m, in |-> r.in]
    BY ONLY <2>4, <2>5
  <2>7. [r2 EXCEPT !.in = rest] = [cells |-> w, size |-> z, count |-> m, in |-> rest]
    BY ONLY <2>6
  <2>8. Recv(r, size) = [r2 EXCEPT !.in = rest]
    BY ONLY <2>2, <2>3, <2>5
  <2>9. w \in Seq(Unit)
    BY <1>3 DEF Filled
  <2> QED BY <1>4, <2>1, <2>7, <2>8, <2>9 DEF Reading
<1>6. n \in 0 .. Len(r.in) /\ (n = size - r.count \/ (n = Len(r.in) /\ n < size - r.count))
  BY <1>1, <1>a
<1> QED BY ONLY <1>3, <1>5, <1>6, <1>a, Zenon DEF rest

\* resize leaves the header alone, and everything when it does not grow.
LEMMA ResizeEffect ==
    ASSUME NEW r \in Reading, Len(r.cells) = PACKET_SIZE, NEW size \in {HDR_SIZE, PACKET_SIZE}
    PROVE  /\ Resize(r, size) \in Reading
           /\ Resize(r, size).size = size
           /\ Resize(r, size).count = r.count
           /\ Resize(r, size).in = r.in
           /\ Len(Resize(r, size).cells) = PACKET_SIZE
           /\ \A i \in 1 .. HDR_SIZE : Resize(r, size).cells[i] = r.cells[i]
           /\ size = HDR_SIZE => Resize(r, size).cells = r.cells
<1>0. r.cells \in Seq(Unit) /\ r.size \in {HDR_SIZE, PACKET_SIZE}
  BY DEF Reading
<1>1. CASE size <= r.size
  BY <1>0, <1>1, Sizes DEF Resize, Reading
<1>2. CASE ~(size <= r.size)
  <2>0. size = PACKET_SIZE /\ r.size = HDR_SIZE /\ size - r.size \in Nat
    BY <1>0, <1>2, Sizes
  <2> DEFINE a == SubSeq(r.cells, 1, r.size)
             b == Zeros(size - r.size)
             c == SubSeq(r.cells, size + 1, PACKET_SIZE)
  <2>1. Resize(r, size) = [cells |-> a \o b \o c, size |-> size, count |-> r.count, in |-> r.in]
    BY <1>2 DEF Resize, Reading
  <2>2. /\ a \in Seq(Unit) /\ Len(a) = HDR_SIZE
        /\ \A i \in 1 .. Len(a) : a[i] = r.cells[i]
    BY <1>0, <2>0, Sizes, PartOf DEF IsPart
  <2>3. b \in Seq(Unit) /\ Len(b) = BLOCK_SIZE
    BY <2>0, Sizes, ZerosAreUnits
  <2>4. c \in Seq(Unit) /\ Len(c) = 0
    <3>1. PICK f \in Nat : f = size + 1
      BY <2>0, Sizes
    <3>2. c = SubSeq(r.cells, f, PACKET_SIZE) /\ f >= 1 /\ ~(f <= PACKET_SIZE)
          /\ PACKET_SIZE <= Len(r.cells) /\ PACKET_SIZE \in Nat
      BY <2>0, <3>1, Sizes
    <3> QED BY <1>0, <3>1, <3>2, PartOf DEF IsPart
  <2> HIDE DEF a, b, c
  <2>5. /\ a \o b \o c \in Seq(Unit) /\ Len(a \o b \o c) = PACKET_SIZE
        /\ \A i \in 1 .. HDR_SIZE : (a \o b \o c)[i] = r.cells[i]
    <3>1. /\ a \o b \o c \in Seq(Unit)
          /\ Len(a \o b \o c) = Len(a) + Len(b) + Len(c)
          /\ \A i \in 1 .. Len(a) : (a \o b \o c)[i] = a[i]
      <4>1. a \in Seq(Unit) /\ b \in Seq(Unit) /\ c \in Seq(Unit)
        BY <2>2, <2>3, <2>4
      <4>2. IsTriple(a \o b \o c, a, b, c)
        BY ONLY <4>1, ThreeParts, Zenon
      <4> QED BY <4>2 DEF IsTriple
    <3> QED BY <2>2, <2>3, <2>4, <3>1, Sizes
  <2>6. r.count \in Nat /\ r.in \in Seq(Unit)
    BY DEF Reading
  <2>7. /\ Resize(r, size) \in Reading
        /\ Resize(r, size).cells = a \o b \o c
        /\ Resize(r, size).size = size
        /\ Resize(r, size).count = r.count
        /\ Resize(r, size).in = r.in
    <3>1. PICK w \in Seq(Unit) : w = a \o b \o c
      BY <2>5
    <3>2. Resize(r, size) = [cells |-> w, size |-> size, count |-> r.count, in |-> r.in]
      BY <2>1, <3>1
    <3> QED BY <2>6, <3>1, <3>2 DEF Reading
  <2>8. size # HDR_SIZE
    BY <2>0, Sizes
  <2> QED BY ONLY <2>5, <2>7, <2>8, Zenon
<1> QED BY <1>1, <1>2

\* Reader r waits for the rest of request k, which comes next.
WaitsFor(r, k) ==
    /\ r \in Reading
    /\ Len(r.cells) = PACKET_SIZE
    /\ r.count < SizeOf(k)
    /\ \A i \in 1 .. Len(r.in) : i <= SizeOf(k) - r.count => r.in[i] = UnitOf(k, r.count + i)
    /\ r.count >= HDR_SIZE => r.size = SizeOf(k)
    /\ \A i \in 1 .. HDR_SIZE : i <= r.count => r.cells[i] = UnitOf(k, i)

\* Reader r has become p by receiving m more units of request k.
Received(p, r, k, m) ==
    /\ p \in Reading
    /\ Len(p.cells) = PACKET_SIZE
    /\ m \in 0 .. Len(r.in)
    /\ p.count = r.count + m
    /\ p.count <= SizeOf(k)
    /\ p.in = SubSeq(r.in, m + 1, Len(r.in))
    /\ p.count >= HDR_SIZE => p.size = SizeOf(k)
    /\ \A i \in 1 .. HDR_SIZE : i <= p.count => p.cells[i] = UnitOf(k, i)
    /\ \A i \in HDR_SIZE + 1 .. PACKET_SIZE :
           i <= p.count => p.cells[i] = IF i <= r.count THEN r.cells[i] ELSE UnitOf(k, i)
    /\ \A i \in HDR_SIZE + 1 .. PACKET_SIZE :
           m = 0 \/ SizeOf(k) = HDR_SIZE => p.cells[i] = r.cells[i]

\* What a complete header says.
LEMMA HeaderOf ==
    ASSUME NEW cells, NEW k, \A i \in 1 .. HDR_SIZE : cells[i] = UnitOf(k, i)
    PROVE  IsHeader(cells) /\ RequestOf(cells) = k /\ OnHeaderCB(cells) = SizeOf(k)
<1>1. HDR_SIZE \in 1 .. HDR_SIZE
  BY Sizes
<1>2. \A i : UnitOf(k, i).part = i /\ UnitOf(k, i).of = k
  BY DEF UnitOf
<1>3. RequestOf(cells) = k
  BY <1>1, <1>2 DEF RequestOf
<1> QED BY <1>2, <1>3 DEF IsHeader, OnHeaderCB, SizeOf

\* A reader that has received nothing.
LEMMA NothingReceived ==
    ASSUME NEW r, NEW k, WaitsFor(r, k)
    PROVE  Received(r, r, k, 0)
<1>1. r.in \in Seq(Unit) /\ r.count \in Nat
  BY DEF WaitsFor, Reading
<1>2. r.in = SubSeq(r.in, 0 + 1, Len(r.in))
  BY <1>1
<1>3. 0 \in 0 .. Len(r.in)
  BY <1>1
<1>4. SizeOf(k) \in Nat
  BY Sizes
<1> QED BY <1>1, <1>2, <1>3, <1>4 DEF WaitsFor, Received

\* recv of the rest of a header.
LEMMA HeaderReceived ==
    ASSUME NEW r, NEW k, WaitsFor(r, k), r.count < HDR_SIZE
    PROVE  \E m \in Nat :
             /\ Recv(r, HDR_SIZE).count <= HDR_SIZE
             /\ Recv(r, HDR_SIZE).count < HDR_SIZE => Received(Recv(r, HDR_SIZE), r, k, m)
             /\ Recv(r, HDR_SIZE).count = HDR_SIZE =>
                  /\ \A i \in 1 .. HDR_SIZE : Recv(r, HDR_SIZE).cells[i] = UnitOf(k, i)
                  /\ Received(Resize(Recv(r, HDR_SIZE), SizeOf(k)), r, k, m)
<1>0. /\ r \in Reading /\ Len(r.cells) = PACKET_SIZE /\ HDR_SIZE \in Nat
      /\ r.count <= HDR_SIZE /\ HDR_SIZE <= PACKET_SIZE /\ r.count \in Nat /\ Len(r.in) \in Nat
  BY Sizes DEF WaitsFor, Reading
<1>1. PICK h : h = Recv(r, HDR_SIZE)
  OBVIOUS
<1>2. PICK n \in 0 .. Len(r.in) :
        /\ n = HDR_SIZE - r.count \/ (n = Len(r.in) /\ n < HDR_SIZE - r.count)
        /\ h \in Reading
        /\ h.size = r.size
        /\ h.count = r.count + n
        /\ h.in = SubSeq(r.in, n + 1, Len(r.in))
        /\ Filled(h.cells, r.cells, r.in, r.count, n)
  BY ONLY <1>0, <1>1, RecvEffect, Zenon
<1>3. PICK c \in Nat : c = r.count
  BY <1>0
<1>4. c + n <= HDR_SIZE
  BY <1>0, <1>2, <1>3
<1>5. \A i \in 1 .. PACKET_SIZE :
        h.cells[i] = IF c < i /\ i <= c + n THEN r.in[i - c] ELSE r.cells[i]
  BY <1>2, <1>3 DEF Filled
<1>6. Len(h.cells) = PACKET_SIZE
  BY <1>2 DEF Filled
<1>7. ASSUME NEW i \in 1 .. HDR_SIZE, i <= c + n
      PROVE  h.cells[i] = UnitOf(k, i)
  <2>0. h.cells[i] = IF c < i /\ i <= c + n THEN r.in[i - c] ELSE r.cells[i]
    BY <1>5, Sizes
  <2>1. CASE i <= c
    BY <1>3, <2>0, <2>1 DEF WaitsFor
  <2>2. CASE c < i
    <3>1. PICK j \in 1 .. Len(r.in) : j = i - c /\ i = c + j
      BY <1>0, <1>2, <1>7, <2>2
    <3>2. j <= SizeOf(k) - c
      BY <3>1, Sizes
    <3>3. r.in[j] = UnitOf(k, c + j)
      BY <1>3, <3>2 DEF WaitsFor
    <3> QED BY <1>7, <2>0, <2>2, <3>1, <3>3
  <2> QED BY <2>1, <2>2
<1>8. \A i \in HDR_SIZE + 1 .. PACKET_SIZE : h.cells[i] = r.cells[i]
  BY <1>4, <1>5, Sizes
<1>9. CASE h.count < HDR_SIZE
  <2>1. Received(h, r, k, n)
    <3>1. h.count <= SizeOf(k) /\ ~(h.count >= HDR_SIZE)
      BY <1>2, <1>3, <1>9, Sizes
    <3>2. \A i \in HDR_SIZE + 1 .. PACKET_SIZE : ~(i <= h.count)
      BY <1>2, <1>3, <1>9, Sizes
    <3>3. \A i \in 1 .. HDR_SIZE : i <= h.count => h.cells[i] = UnitOf(k, i)
      BY <1>2, <1>3, <1>7
    <3> QED BY <1>2, <1>6, <1>8, <3>1, <3>2, <3>3 DEF Received
  <2>2. n \in Nat /\ ~(h.count = HDR_SIZE) /\ h.count <= HDR_SIZE
    BY <1>2, <1>3, <1>9, Sizes
  <2> QED BY ONLY <1>1, <1>9, <2>1, <2>2, Zenon
<1>10. CASE h.count = HDR_SIZE
  <2>1. PICK z \in {HDR_SIZE, PACKET_SIZE} : z = SizeOf(k)
    BY Sizes
  <2>2. PICK p : p = Resize(h, z)
    OBVIOUS
  <2>3. /\ p \in Reading
        /\ p.size = z
        /\ p.count = h.count
        /\ p.in = h.in
        /\ Len(p.cells) = PACKET_SIZE
        /\ \A i \in 1 .. HDR_SIZE : p.cells[i] = h.cells[i]
        /\ z = HDR_SIZE => p.cells = h.cells
    BY ONLY <1>2, <1>6, <2>2, ResizeEffect, z \in {HDR_SIZE, PACKET_SIZE}, Zenon
  <2>4. \A i \in 1 .. HDR_SIZE : h.cells[i] = UnitOf(k, i)
    BY <1>2, <1>3, <1>7, <1>10
  <2>5. n # 0
    BY <1>2, <1>3, <1>10
  <2>6. Received(p, r, k, n)
    <3>1. p.count <= SizeOf(k)
      BY <1>10, <2>3, Sizes
    <3>2. \A i \in HDR_SIZE + 1 .. PACKET_SIZE : ~(i <= p.count)
      BY <1>10, <2>3, Sizes
    <3>3. \A i \in HDR_SIZE + 1 .. PACKET_SIZE : n = 0 \/ SizeOf(k) = HDR_SIZE => p.cells[i] = r.cells[i]
      BY <1>8, <2>1, <2>3, <2>5
    <3>4. p.count = r.count + n /\ p.in = SubSeq(r.in, n + 1, Len(r.in)) /\ p.size = SizeOf(k)
      BY <1>2, <2>1, <2>3
    <3> QED BY <2>3, <2>4, <3>1, <3>2, <3>3, <3>4 DEF Received
  <2>7. n \in Nat /\ ~(h.count < HDR_SIZE) /\ h.count <= HDR_SIZE
    BY <1>10, Sizes
  <2> QED BY <1>1, <2>1, <2>2, <2>4, <2>6, <2>7
<1> QED BY <1>2, <1>3, <1>4, <1>9, <1>10, Sizes

\* TcpReader::ReadHeader
LEMMA ReadHeaderEffect ==
    ASSUME NEW r, NEW k, WaitsFor(r, k)
    PROVE  \E m \in Nat : Received(ReadHeader(r), r, k, m)
<1>0. r.count \in Nat /\ HDR_SIZE \in Nat
  BY Sizes DEF WaitsFor, Reading
<1>1. CASE r.count >= HDR_SIZE
  <2>1. ReadHeader(r) = r
    BY <1>1 DEF ReadHeader
  <2> QED BY <2>1, NothingReceived
<1>2. CASE r.count < HDR_SIZE
  <2>1. PICK h : h = Recv(r, HDR_SIZE)
    OBVIOUS
  <2>2. PICK m \in Nat :
             /\ h.count <= HDR_SIZE
             /\ h.count < HDR_SIZE => Received(h, r, k, m)
             /\ h.count = HDR_SIZE =>
                  /\ \A i \in 1 .. HDR_SIZE : h.cells[i] = UnitOf(k, i)
                  /\ Received(Resize(h, SizeOf(k)), r, k, m)
    BY ONLY <1>2, <2>1, HeaderReceived, WaitsFor(r, k), Zenon
  <2>3. ReadHeader(r) = IF h.count = HDR_SIZE /\ IsHeader(h.cells)
                        THEN Resize(h, OnHeaderCB(h.cells)) ELSE h
    BY <1>0, <1>2, <2>1 DEF ReadHeader
  <2>4. CASE h.count = HDR_SIZE
    <3>1. IsHeader(h.cells) /\ OnHeaderCB(h.cells) = SizeOf(k)
      BY ONLY <2>2, <2>4, HeaderOf, Zenon
    <3> QED BY <2>2, <2>3, <2>4, <3>1
  <2>5. CASE h.count # HDR_SIZE
    <3>1. h.count < HDR_SIZE
      <4>1. h.count \in Int
        BY <1>0, <1>2, <2>1, RecvEffect, Sizes DEF WaitsFor, Reading
      <4> QED BY <1>0, <2>2, <2>5, <4>1
    <3> QED BY <2>2, <2>3, <2>5, <3>1
  <2> QED BY <2>4, <2>5
<1> QED BY <1>0, <1>1, <1>2

\* What follows the units received is the rest of the request.
LEMMA RestComes ==
    ASSUME NEW h, NEW r, NEW k, NEW m \in Nat, WaitsFor(r, k), Received(h, r, k, m)
    PROVE  \A i \in 1 .. Len(h.in) : i <= SizeOf(k) - h.count => h.in[i] = UnitOf(k, h.count + i)
<1>0. /\ r.in \in Seq(Unit) /\ r.count \in Nat /\ Len(r.in) \in Nat /\ SizeOf(k) \in Nat
      /\ m <= Len(r.in) /\ h.count = r.count + m /\ h.in = SubSeq(r.in, m + 1, Len(r.in))
  BY Sizes DEF WaitsFor, Received, Reading
<1>1. PICK c \in Nat, l \in Nat, f \in Nat : c = r.count /\ l = Len(r.in) /\ f = m + 1
  BY <1>0
<1>2. /\ Len(h.in) = IF f <= l THEN l - f + 1 ELSE 0
      /\ \A i \in 1 .. Len(h.in) : h.in[i] = r.in[f + i - 1]
  <2>1. h.in = SubSeq(r.in, f, l) /\ f >= 1 /\ l <= Len(r.in)
    BY <1>0, <1>1
  <2>2. IsPart(SubSeq(r.in, f, l), r.in, f, l)
    BY ONLY <1>0, <2>1, PartOf, f \in Nat, l \in Nat, Zenon
  <2> QED BY ONLY <2>1, <2>2 DEF IsPart
<1>3. SUFFICES ASSUME NEW i \in 1 .. Len(h.in), i <= SizeOf(k) - h.count
               PROVE  h.in[i] = UnitOf(k, h.count + i)
  OBVIOUS
<1>4. PICK j \in 1 .. l : j = m + i /\ j = f + i - 1
  BY <1>0, <1>1, <1>2
<1>5. j <= SizeOf(k) - c /\ c + j = h.count + i
  BY <1>0, <1>1, <1>3, <1>4
<1>6. r.in[j] = UnitOf(k, c + j)
  BY <1>1, <1>5 DEF WaitsFor
<1> QED BY <1>2, <1>4, <1>5, <1>6

\* The rest of the rest of a stream.
LEMMA RestOfRest ==
    ASSUME NEW s \in Seq(Unit), NEW a \in Nat, NEW b \in Nat, a <= Len(s),
           b <= Len(SubSeq(s, a + 1, Len(s)))
    PROVE  /\ a + b <= Len(s)
           /\ SubSeq(SubSeq(s, a + 1, Len(s)), b + 1, Len(SubSeq(s, a + 1, Len(s)))) =
                SubSeq(s, a + b + 1, Len(s))
<1>0. Len(s) \in Nat
  OBVIOUS
<1>l. PICK l \in Nat : l = Len(s)
  BY <1>0
<1>1. PICK f \in Nat : f = a + 1 /\ l = Len(s)
  BY <1>l
<1>2. PICK t : t = SubSeq(s, f, l)
  OBVIOUS
<1>3. t \in Seq(Unit) /\ Len(t) = l - a /\ \A i \in 1 .. Len(t) : t[i] = s[f + i - 1]
  <2>1. f >= 1 /\ l <= Len(s)
    BY <1>0, <1>1
  <2>2. IsPart(t, s, f, l)
    BY ONLY <1>2, <2>1, PartOf, s \in Seq(Unit), f \in Nat, l \in Nat, Zenon
  <2> QED BY <1>0, <1>1, <2>2 DEF IsPart
<1>4. a + b <= l
  BY <1>1, <1>2, <1>3
<1>n. PICK n \in Nat : n = Len(t)
  BY <1>3
<1>g. PICK g \in Nat : g = b + 1
  OBVIOUS
<1>5. PICK q \in Nat : g = b + 1 /\ n = Len(t) /\ q = a + b + 1
  BY <1>n, <1>g
<1>6. SubSeq(t, g, n) = SubSeq(s, q, l)
  <2>1. PICK x, y : x = SubSeq(t, g, n) /\ y = SubSeq(s, q, l)
    OBVIOUS
  <2>2. g >= 1 /\ n <= Len(t) /\ q >= 1 /\ l <= Len(s)
    BY <1>0, <1>1, <1>3, <1>5
  <2>a. IsPart(x, t, g, n)
    BY ONLY <1>3, <2>1, <2>2, PartOf, g \in Nat, n \in Nat, Zenon
  <2>b. IsPart(y, s, q, l)
    BY ONLY <2>1, <2>2, PartOf, s \in Seq(Unit), q \in Nat, l \in Nat, Zenon
  <2>3. x \in Seq(Unit) /\ Len(x) = (IF g <= n THEN n - g + 1 ELSE 0)
        /\ \A i \in 1 .. Len(x) : x[i] = t[g + i - 1]
    BY ONLY <2>a DEF IsPart
  <2>4. y \in Seq(Unit) /\ Len(y) = (IF q <= l THEN l - q + 1 ELSE 0)
        /\ \A i \in 1 .. Len(y) : y[i] = s[q + i - 1]
    BY ONLY <2>b DEF IsPart
  <2>5. Len(x) = Len(y)
    BY <1>1, <1>3, <1>4, <1>5, <2>3, <2>4
  <2>6. ASSUME NEW i \in 1 .. Len(x)
        PROVE  x[i] = y[i]
    <3>1. x[i] = t[g + i - 1] /\ y[i] = s[q + i - 1]
      BY <2>3, <2>4, <2>5
    <3>2. PICK j \in 1 .. Len(t) : j = g + i - 1
      BY <1>5, <2>3
    <3>3. t[j] = s[f + j - 1] /\ f + j - 1 = q + i - 1
      BY <1>1, <1>3, <1>5, <3>2
    <3> QED BY <3>1, <3>2, <3>3
  <2>7. x = y
    BY ONLY <2>3, <2>4, <2>5, <2>6, SeqEqual
  <2> QED BY <2>1, <2>7
<1> QED BY <1>1, <1>2, <1>4, <1>5, <1>6

\* TcpReader::ReadData, after ReadHeader
LEMMA ReadDataEffect ==
    ASSUME NEW h, NEW r, NEW k, NEW m \in Nat, WaitsFor(r, k), Received(h, r, k, m)
    PROVE  \E n \in Nat : Received(ReadData(h), r, k, n)
<1>0. /\ h \in Reading /\ h.count \in Nat /\ h.in \in Seq(Unit) /\ Len(h.in) \in Nat
      /\ SizeOf(k) \in Nat /\ SizeOf(k) <= PACKET_SIZE /\ h.count <= SizeOf(k)
      /\ Len(h.cells) = PACKET_SIZE /\ PACKET_SIZE \in Nat /\ HDR_SIZE \in Nat
      /\ r.count \in Nat /\ r.in \in Seq(Unit) /\ m <= Len(r.in) /\ h.count = r.count + m
      /\ h.in = SubSeq(r.in, m + 1, Len(r.in))
  BY Sizes DEF Received, WaitsFor, Reading
<1>1. CASE h.count < HDR_SIZE \/ h.size = HDR_SIZE
  BY <1>1 DEF ReadData
<1>2. CASE ~(h.count < HDR_SIZE \/ h.size = HDR_SIZE)
  <2>1. h.count >= HDR_SIZE /\ h.size = SizeOf(k) /\ SizeOf(k) = PACKET_SIZE /\ SizeOf(k) # HDR_SIZE
    BY <1>0, <1>2, Sizes DEF Received
  <2>2. PICK p : p = Recv(h, SizeOf(k))
    OBVIOUS
  <2>3. ReadData(h) = p
    BY <1>2, <2>1, <2>2 DEF ReadData
  <2>4. PICK n \in 0 .. Len(h.in) :
        /\ n = SizeOf(k) - h.count \/ (n = Len(h.in) /\ n < SizeOf(k) - h.count)
        /\ p \in Reading
        /\ p.size = h.size
        /\ p.count = h.count + n
        /\ p.in = SubSeq(h.in, n + 1, Len(h.in))
        /\ Filled(p.cells, h.cells, h.in, h.count, n)
    BY ONLY <1>0, <2>2, RecvEffect, Zenon
  <2>5. PICK c \in Nat, d \in Nat : c = h.count /\ d = r.count /\ c = d + m /\ c >= HDR_SIZE
    BY <1>0, <2>1
  <2>6. /\ Len(p.cells) = PACKET_SIZE
        /\ \A i \in 1 .. PACKET_SIZE :
             p.cells[i] = IF c < i /\ i <= c + n THEN h.in[i - c] ELSE h.cells[i]
    BY <2>4, <2>5 DEF Filled
  <2>7. \A i \in 1 .. HDR_SIZE : p.cells[i] = UnitOf(k, i)
    <3>1. \A i \in 1 .. HDR_SIZE : i <= h.count /\ i \in 1 .. PACKET_SIZE /\ ~(c < i)
      BY <1>0, <2>5, Sizes
    <3>2. \A i \in 1 .. HDR_SIZE : h.cells[i] = UnitOf(k, i)
      BY <3>1 DEF Received
    <3> QED BY <2>6, <3>1, <3>2
  <2>8. ASSUME NEW i \in HDR_SIZE + 1 .. PACKET_SIZE, i <= p.count
        PROVE  p.cells[i] = IF i <= d THEN r.cells[i] ELSE UnitOf(k, i)
    <3>1. i \in 1 .. PACKET_SIZE
      BY <1>0, Sizes
    <3>2. CASE i <= c
      <4>1. h.cells[i] = IF i <= d THEN r.cells[i] ELSE UnitOf(k, i)
        BY <2>5, <3>2 DEF Received
      <4>2. p.cells[i] = h.cells[i]
        BY <2>5, <2>6, <3>1, <3>2
      <4> QED BY ONLY <4>1, <4>2
    <3>3. CASE c < i
      <4>0. i <= c + n /\ n <= Len(h.in) /\ n \in Nat /\ i \in Nat
        BY <1>0, <2>4, <2>5, <2>8, Sizes
      <4>1. PICK j \in 1 .. Len(h.in) : j = i - c /\ c + j = i
        BY <1>0, <3>3, <4>0
      <4>2. j <= SizeOf(k) - c
        BY <1>0, <2>1, <4>1
      <4>3. h.in[j] = UnitOf(k, c + j)
        BY ONLY <4>2, <2>5, RestComes, WaitsFor(r, k), Received(h, r, k, m), m \in Nat,
                j \in 1 .. Len(h.in), Zenon
      <4>4. ~(i <= d) /\ i <= c + n
        BY <2>4, <2>5, <2>8, <3>3
      <4> QED BY <2>6, <3>1, <3>3, <4>1, <4>3, <4>4
    <3> QED BY <1>0, <2>5, <3>1, <3>2, <3>3
  <2>9. ASSUME NEW i \in HDR_SIZE + 1 .. PACKET_SIZE, m + n = 0
        PROVE  p.cells[i] = r.cells[i]
    <3>1. m = 0 /\ n = 0 /\ i \in 1 .. PACKET_SIZE
      BY <1>0, <2>9, Sizes
    <3>2. h.cells[i] = r.cells[i]
      BY <3>1 DEF Received
    <3>3. p.cells[i] = h.cells[i]
      BY <2>5, <2>6, <3>1
    <3> QED BY <3>2, <3>3
  <2>10. m + n <= Len(r.in) /\ p.in = SubSeq(r.in, m + n + 1, Len(r.in))
    <3>1. n <= Len(h.in) /\ n \in Nat
      BY <1>0, <2>4
    <3>2. n <= Len(SubSeq(r.in, m + 1, Len(r.in)))
      BY <1>0, <3>1
    <3>3. /\ m + n <= Len(r.in)
          /\ SubSeq(SubSeq(r.in, m + 1, Len(r.in)), n + 1, Len(SubSeq(r.in, m + 1, Len(r.in)))) =
               SubSeq(r.in, m + n + 1, Len(r.in))
      BY ONLY <1>0, <3>1, <3>2, RestOfRest, m \in Nat, Zenon
    <3> QED BY ONLY <1>0, <2>4, <3>3, Zenon
  <2>11. PICK q \in Nat : q = m + n /\ q \in 0 .. Len(r.in) /\ p.count = r.count + q
    BY <1>0, <2>4, <2>5, <2>10
  <2>12. p.count <= SizeOf(k) /\ p.size = SizeOf(k)
    BY <1>0, <2>1, <2>4
  <2>13. Received(p, r, k, q)
    <3>1. p.in = SubSeq(r.in, q + 1, Len(r.in))
      BY <2>10, <2>11
    <3>2. \A i \in HDR_SIZE + 1 .. PACKET_SIZE : q = 0 \/ SizeOf(k) = HDR_SIZE => p.cells[i] = r.cells[i]
      BY <2>1, <2>9, <2>11
    <3>3. \A i \in HDR_SIZE + 1 .. PACKET_SIZE :
             i <= p.count => p.cells[i] = IF i <= r.count THEN r.cells[i] ELSE UnitOf(k, i)
      BY <2>5, <2>8
    <3> QED BY <2>4, <2>6, <2>7, <2>11, <2>12, <3>1, <3>2, <3>3 DEF Received
  <2> QED BY <2>3, <2>13
<1> QED BY <1>1, <1>2

---------------------------------------------------------------------------
(* The stream of requests *)

\* A stream that begins inside a request goes on to the request's end.
LEMMA NextUnits ==
    ASSUME NEW s \in Seq(Unit), Sequential(s), NEW k, NEW c \in Nat,
           s # << >> => s[1] = UnitOf(k, c + 1)
    PROVE  \A i \in 1 .. Len(s) : i <= SizeOf(k) - c => s[i] = UnitOf(k, c + i)
<1>0. Len(s) \in Nat /\ SizeOf(k) \in Nat
  BY Sizes
<1> DEFINE Bad == {i \in 1 .. Len(s) : i <= SizeOf(k) - c /\ s[i] # UnitOf(k, c + i)}
<1>1. SUFFICES ASSUME Bad # {} PROVE FALSE
  OBVIOUS
<1>2. Bad \subseteq Nat
  BY <1>0
<1>3. PICK d \in Bad : \A e \in Bad : d <= e
  <2> HIDE DEF Bad
  <2> QED BY <1>1, <1>2, LeastOf
<1>4. d \in 1 .. Len(s) /\ d <= SizeOf(k) - c /\ s[d] # UnitOf(k, c + d)
  OBVIOUS
<1>5. CASE d = 1
  <2>1. s # << >>
    BY <1>0, <1>4
  <2> QED BY <1>4, <1>5, <2>1
<1>6. CASE d # 1
  <2>1. PICK e \in 1 .. Len(s) : d = e + 1 /\ e < Len(s)
    BY <1>0, <1>4, <1>6
  <2>2. e \notin Bad
    BY <1>0, <1>3, <2>1
  <2>3. s[e] = UnitOf(k, c + e)
    BY <1>0, <1>4, <2>1, <2>2
  <2>4. s[e + 1] = UnitAfter(s[e])
    BY <2>1 DEF Sequential
  <2>5. s[e].part = c + e /\ s[e].of = k
    BY <2>3 DEF UnitOf
  <2>6. c + e < SizeOf(k) /\ c + e + 1 = c + d
    BY <1>0, <1>4, <2>1
  <2>7. UnitAfter(s[e]) = UnitOf(k, c + e + 1)
    BY <2>5, <2>6 DEF UnitAfter
  <2> QED BY <1>4, <2>1, <2>4, <2>6, <2>7
<1> QED BY <1>5, <1>6

\* t is what is left of a stream after m units.
Behind(t, s, m) ==
    /\ t \in Seq(Unit)
    /\ m \in 0 .. Len(s)
    /\ Len(t) = Len(s) - m
    /\ \A i \in 1 .. Len(t) : t[i] = s[m + i]

\* What is left is in sequence too.
LEMMA SequentialBehind ==
    ASSUME NEW s \in Seq(Unit), Sequential(s), NEW t, NEW m \in Nat, Behind(t, s, m)
    PROVE  Sequential(t)
<1>0. Len(s) \in Nat /\ Len(t) \in Nat /\ t \in Seq(Unit) /\ m <= Len(s) /\ Len(t) = Len(s) - m
  BY DEF Behind
<1>1. ASSUME NEW i \in 1 .. Len(t)
      PROVE  t[i].of \in DOMAIN issued /\ (i < Len(t) => t[i + 1] = UnitAfter(t[i]))
  <2>1. PICK j \in 1 .. Len(s) : j = m + i /\ t[i] = s[j]
    BY <1>0 DEF Behind
  <2>2. t[i].of \in DOMAIN issued
    BY <2>1 DEF Sequential
  <2>3. ASSUME i < Len(t) PROVE t[i + 1] = UnitAfter(t[i])
    <3>1. j < Len(s) /\ i + 1 \in 1 .. Len(t) /\ j + 1 = m + (i + 1)
      BY <1>0, <2>1, <2>3
    <3>2. t[i + 1] = s[j + 1]
      <4>1. t[i + 1] = s[m + (i + 1)]
        BY <3>1 DEF Behind
      <4> QED BY ONLY <3>1, <4>1
    <3>3. s[j + 1] = UnitAfter(s[j])
      BY <3>1 DEF Sequential
    <3> QED BY <2>1, <3>2, <3>3
  <2> QED BY <2>2, <2>3
<1>2. ASSUME t # << >> PROVE t[Len(t)] = UnitOf(Len(issued), SizeOf(Len(issued)))
  <2>1. Len(t) \in 1 .. Len(t) /\ s # << >> /\ m + Len(t) = Len(s)
    BY <1>0, <1>2
  <2>2. t[Len(t)] = s[Len(s)]
    BY <2>1 DEF Behind
  <2> QED BY <2>1, <2>2 DEF Sequential
<1> QED BY <1>1, <1>2 DEF Sequential

\* Inside a request more comes, and it is what follows.
LEMMA MoreComes ==
    ASSUME NEW s \in Seq(Unit), Sequential(s), s # << >>, NEW k, NEW c \in Nat,
           s[1] = UnitOf(k, c + 1),
           NEW t, NEW m \in Nat, Behind(t, s, m), c + m < SizeOf(k)
    PROVE  t # << >> /\ t[1] = UnitOf(k, c + m + 1)
<1>0. Len(s) \in Nat /\ SizeOf(k) \in Nat /\ m <= Len(s) /\ Len(t) = Len(s) - m /\ t \in Seq(Unit)
      /\ Len(s) >= 1
  BY Sizes DEF Behind
<1>1. \A i \in 1 .. Len(s) : i <= SizeOf(k) - c => s[i] = UnitOf(k, c + i)
  BY NextUnits
<1>2. m # Len(s)
  <2>1. SUFFICES ASSUME m = Len(s) PROVE FALSE
    OBVIOUS
  <2>2. m \in 1 .. Len(s) /\ m <= SizeOf(k) - c
    BY <1>0, <2>1
  <2>3. s[m] = UnitOf(k, c + m)
    BY <1>1, <2>2
  <2>4. s[m] = UnitOf(Len(issued), SizeOf(Len(issued)))
    BY <2>1 DEF Sequential
  <2>5. k = Len(issued) /\ c + m = SizeOf(Len(issued))
    BY <2>3, <2>4 DEF UnitOf
  <2> QED BY <1>0, <2>5
<1>3. 1 \in 1 .. Len(t) /\ m + 1 \in 1 .. Len(s) /\ m + 1 <= SizeOf(k) - c
  BY <1>0, <1>2
<1>4. t[1] = s[m + 1]
  BY <1>3 DEF Behind
<1>5. s[m + 1] = UnitOf(k, c + (m + 1))
  BY <1>1, <1>3
<1> QED BY <1>0, <1>3, <1>4, <1>5

\* At the end of a request the next one comes, if there is a next one.
LEMMA NextComes ==
    ASSUME NEW s \in Seq(Unit), Sequential(s), s # << >>, NEW k \in Nat, NEW c \in Nat,
           s[1] = UnitOf(k, c + 1), issued \in Seq(Type), c < SizeOf(k),
           NEW t, NEW m \in Nat, Behind(t, s, m), c + m = SizeOf(k)
    PROVE  /\ k \in DOMAIN issued
           /\ k = Len(issued) => t = << >>
           /\ k < Len(issued) => t # << >> /\ t[1] = UnitOf(k + 1, 1)
<1>0. Len(s) \in Nat /\ SizeOf(k) \in Nat /\ m <= Len(s) /\ Len(t) = Len(s) - m /\ t \in Seq(Unit)
      /\ Len(s) >= 1 /\ m >= 1 /\ Len(issued) \in Nat /\ DOMAIN issued = 1 .. Len(issued)
  BY Sizes DEF Behind
<1>1. \A i \in 1 .. Len(s) : i <= SizeOf(k) - c => s[i] = UnitOf(k, c + i)
  BY NextUnits
<1>2. m \in 1 .. Len(s) /\ m <= SizeOf(k) - c
  BY <1>0
<1>3. s[m] = UnitOf(k, SizeOf(k))
  BY <1>1, <1>2
<1>4. s[m].of = k /\ s[m].part = SizeOf(k)
  BY <1>3 DEF UnitOf
<1>5. k \in DOMAIN issued
  BY <1>2, <1>4 DEF Sequential
<1>6. CASE m = Len(s)
  <2>1. t = << >>
    BY <1>0, <1>6
  <2>2. s[m] = UnitOf(Len(issued), SizeOf(Len(issued)))
    BY <1>6 DEF Sequential
  <2>3. k = Len(issued)
    BY <1>3, <2>2 DEF UnitOf
  <2> QED BY <1>0, <1>5, <2>1, <2>3
<1>7. CASE m < Len(s)
  <2>1. m + 1 \in 1 .. Len(s) /\ 1 \in 1 .. Len(t)
    BY <1>0, <1>7
  <2>2. s[m + 1] = UnitAfter(s[m])
    BY <1>2, <1>7 DEF Sequential
  <2>3. s[m + 1] = UnitOf(k + 1, 1)
    BY <1>0, <1>4, <2>2 DEF UnitAfter
  <2>4. s[m + 1].of = k + 1
    BY <2>3 DEF UnitOf
  <2>5. k + 1 \in DOMAIN issued
    BY <2>1, <2>4 DEF Sequential
  <2>6. t[1] = s[m + 1]
    BY <2>1 DEF Behind
  <2>7. PICK l \in Nat : l = Len(issued)
    BY <1>0
  <2>8. k < l /\ k # l
    <3>1. k + 1 \in 1 .. l
      BY <1>0, <2>5, <2>7
    <3> QED BY ONLY <3>1, k \in Nat, l \in Nat
  <2>9. t # << >>
    BY <1>0, <2>1
  <2> QED BY ONLY <1>5, <2>3, <2>6, <2>7, <2>8, <2>9, Zenon
<1>8. m = Len(s) \/ m < Len(s)
  BY <1>0
<1> QED BY ONLY <1>6, <1>7, <1>8, Zenon

\* Some units are received of the first of two parts of a stream.
LEMMA BehindConcat ==
    ASSUME NEW a \in Seq(Unit), NEW b \in Seq(Unit), NEW m \in Nat, m <= Len(a)
    PROVE  Behind(SubSeq(a, m + 1, Len(a)) \o b, a \o b, m)
<1>0. Len(a) \in Nat /\ Len(b) \in Nat
  OBVIOUS
<1>1. PICK l \in Nat : l = Len(a)
  BY <1>0
<1>2. PICK f \in Nat : f = m + 1
  OBVIOUS
<1>3. PICK x : x = SubSeq(a, f, l)
  OBVIOUS
<1>4. IsPart(x, a, f, l)
  <2>1. f >= 1 /\ l <= Len(a)
    BY <1>1, <1>2
  <2> QED BY ONLY <1>3, <2>1, PartOf, a \in Seq(Unit), f \in Nat, l \in Nat, Zenon
<1>5. x \in Seq(Unit) /\ Len(x) = l - m /\ \A i \in 1 .. Len(x) : x[i] = a[f + i - 1]
  BY <1>1, <1>2, <1>4 DEF IsPart
<1>6. /\ a \o b \in Seq(Unit) /\ Len(a \o b) = l + Len(b)
      /\ \A i \in 1 .. l + Len(b) : (a \o b)[i] = IF i <= l THEN a[i] ELSE b[i - l]
  BY <1>1, ConcatProperties
<1>7. /\ x \o b \in Seq(Unit) /\ Len(x \o b) = Len(x) + Len(b)
      /\ \A i \in 1 .. Len(x) + Len(b) : (x \o b)[i] = IF i <= Len(x) THEN x[i] ELSE b[i - Len(x)]
  BY <1>5, ConcatProperties
<1>8. PICK s, t : s = a \o b /\ t = x \o b
  OBVIOUS
<1>9. ASSUME NEW i \in 1 .. Len(t) PROVE t[i] = s[m + i]
  <2>0. i \in 1 .. (l - m) + Len(b) /\ m + i \in 1 .. l + Len(b)
    BY <1>0, <1>1, <1>5, <1>7, <1>8
  <2>1. CASE i <= l - m
    <3>1. t[i] = a[f + i - 1] /\ f + i - 1 = m + i
      BY <1>2, <1>5, <1>7, <1>8, <2>0, <2>1
    <3>2. s[m + i] = a[m + i]
      BY <1>6, <1>8, <2>0, <2>1
    <3> QED BY <3>1, <3>2
  <2>2. CASE ~(i <= l - m)
    <3>1. t[i] = b[i - (l - m)]
      BY <1>5, <1>7, <1>8, <2>0, <2>2
    <3>2. s[m + i] = b[m + i - l] /\ m + i - l = i - (l - m)
      BY <1>6, <1>8, <2>0, <2>2
    <3> QED BY <3>1, <3>2
  <2> QED BY <2>1, <2>2
<1>10. Behind(t, s, m)
  BY <1>0, <1>1, <1>5, <1>6, <1>7, <1>8, <1>9 DEF Behind
<1> QED BY <1>1, <1>2, <1>3, <1>8, <1>10

\* The reader with the socket.
TheReader == [cells |-> m_reader.cells, size |-> m_reader.size,
              count |-> m_reader.count, in |-> toVdr]

\* It waits for the current request.
LEMMA ReaderWaits ==
    ASSUME OsProxyTypes, InSequence, ReaderInStep
    PROVE  WaitsFor(TheReader, Current)
<1>0. /\ toVdr \in Seq(Unit) /\ kernelOut \in Seq(Unit) /\ issued \in Seq(Type) /\ handed \in Seq(Number)
      /\ m_reader.cells \in Seq(Unit) /\ m_reader.count \in Nat
      /\ m_reader.size \in {HDR_SIZE, PACKET_SIZE} /\ Len(m_reader.cells) = PACKET_SIZE
  BY DEF OsProxyTypes
<1>1. /\ TheReader \in Reading /\ TheReader.in = toVdr /\ TheReader.cells = m_reader.cells
      /\ TheReader.count = m_reader.count /\ TheReader.size = m_reader.size
  BY <1>0 DEF TheReader, Reading
<1>2. /\ Coming \in Seq(Unit) /\ Len(Coming) = Len(toVdr) + Len(kernelOut)
      /\ \A i \in 1 .. Len(toVdr) : Coming[i] = toVdr[i]
  BY <1>0, ConcatProperties DEF Coming
<1>k. PICK k : k = Current
  OBVIOUS
<1>3. PICK c \in Nat : k = Current /\ c = m_reader.count
  BY <1>0, <1>k
<1>4. c < SizeOf(k)
  <2>1. CASE Len(handed) < Len(issued)
    BY <1>3, <2>1 DEF ReaderInStep
  <2>2. CASE ~(Len(handed) < Len(issued))
    <3>1. Len(handed) = Len(issued)
      BY <1>0, <2>2 DEF ReaderInStep
    <3>2. c = 0
      BY <1>3, <3>1 DEF ReaderInStep
    <3> QED BY <3>2, Sizes
  <2> QED BY <2>1, <2>2
<1>5. Coming # << >> => Coming[1] = UnitOf(k, c + 1)
  <2>1. SUFFICES ASSUME Coming # << >> PROVE Coming[1] = UnitOf(k, c + 1)
    OBVIOUS
  <2>2. Len(handed) < Len(issued)
    <3>1. Len(handed) # Len(issued)
      BY <2>1 DEF ReaderInStep
    <3>2. Len(handed) <= Len(issued) /\ Len(handed) \in Nat /\ Len(issued) \in Nat
      BY <1>0 DEF ReaderInStep
    <3> QED BY <3>1, <3>2
  <2> QED BY <1>3, <2>2 DEF ReaderInStep
<1>6. \A i \in 1 .. Len(Coming) : i <= SizeOf(k) - c => Coming[i] = UnitOf(k, c + i)
  BY ONLY <1>2, <1>5, NextUnits, InSequence, c \in Nat, Zenon DEF InSequence
<1>7. \A i \in 1 .. Len(toVdr) : i <= SizeOf(k) - c => toVdr[i] = UnitOf(k, c + i)
  <2>1. \A i \in 1 .. Len(toVdr) : i \in 1 .. Len(Coming)
    BY <1>0, <1>2
  <2> QED BY ONLY <1>2, <1>6, <2>1, Zenon
<1>8. /\ m_reader.count >= HDR_SIZE => m_reader.size = SizeOf(Current)
      /\ \A i \in 1 .. HDR_SIZE : i <= m_reader.count => m_reader.cells[i] = UnitOf(Current, i)
  BY DEF ReaderInStep
<1> QED BY <1>0, <1>1, <1>3, <1>4, <1>7, <1>8 DEF WaitsFor

\* TcpReader::Read receives units of the current request, and hands it on when
\* it is there.
LEMMA ReadEffect ==
    ASSUME StreamInv, Read
    PROVE  \E p : \E m \in Nat :
             /\ Received(p, TheReader, Current, m)
             /\ Behind(Coming', Coming, m)
             /\ toVdr' \in Seq(Unit)
             /\ m_reader'.cells = p.cells /\ m_reader'.size = p.size
             /\ m_reader' \in [cells : Seq(Unit), size : {HDR_SIZE, PACKET_SIZE}, count : Nat]
             /\ \/ p.count = SizeOf(Current) /\ m_reader'.count = 0 /\ OnPacketCB(Current)
                \/ /\ p.count < SizeOf(Current) /\ m_reader'.count = p.count
                   /\ UNCHANGED <<handed, stage, process>>
<1>0. OsProxyTypes /\ InSequence /\ ReaderInStep
  BY DEF StreamInv
<1>1. WaitsFor(TheReader, Current)
  BY <1>0, ReaderWaits
<1>2. PICK h : h = ReadHeader(TheReader)
  OBVIOUS
<1>3. PICK p : p = ReadData(h)
  OBVIOUS
<1>4. /\ m_reader' = [cells |-> p.cells, size |-> p.size, count |-> ReadenCount(p)]
      /\ toVdr' = p.in
      /\ IF p.count >= HDR_SIZE /\ ~IsHeader(p.cells)
         THEN process' = "aborted" /\ UNCHANGED <<handed, stage>>
         ELSE IF IsFull(p) THEN OnPacketCB(RequestOf(p.cells))
         ELSE UNCHANGED <<handed, stage, process>>
      /\ kernelOut' = kernelOut
  BY <1>2, <1>3 DEF Read, TheReader, kernelVars
<1>5. PICK l \in Nat : Received(h, TheReader, Current, l)
  BY ONLY <1>1, <1>2, ReadHeaderEffect, Zenon
<1>6. PICK m \in Nat : Received(p, TheReader, Current, m)
  BY ONLY <1>1, <1>3, <1>5, ReadDataEffect, l \in Nat, Zenon
<1>7. PICK k : k = Current
  OBVIOUS
<1>8. /\ p \in Reading /\ p.count \in Nat /\ p.count <= SizeOf(k) /\ SizeOf(k) \in Nat
      /\ p.count >= HDR_SIZE => p.size = SizeOf(k)
      /\ \A i \in 1 .. HDR_SIZE : i <= p.count => p.cells[i] = UnitOf(k, i)
      /\ p.in = SubSeq(toVdr, m + 1, Len(toVdr)) /\ m <= Len(toVdr)
  BY <1>6, <1>7, Sizes DEF Received, Reading, TheReader
<1>9. p.count >= HDR_SIZE => IsHeader(p.cells) /\ RequestOf(p.cells) = k
  <2>1. SUFFICES ASSUME p.count >= HDR_SIZE PROVE IsHeader(p.cells) /\ RequestOf(p.cells) = k
    OBVIOUS
  <2>2. \A i \in 1 .. HDR_SIZE : p.cells[i] = UnitOf(k, i)
    BY <1>8, <2>1, Sizes
  <2> QED BY ONLY <2>2, HeaderOf, Zenon
<1>10. IsFull(p) <=> p.count = SizeOf(k)
  <2>1. SizeOf(k) >= HDR_SIZE
    BY Sizes
  <2> QED BY <1>8, <2>1 DEF IsFull
<1>11. IsFull(p) => p.count >= HDR_SIZE
  BY DEF IsFull
<1>12. Behind(Coming', Coming, m)
  <2>1. toVdr \in Seq(Unit) /\ kernelOut \in Seq(Unit)
    BY <1>0 DEF OsProxyTypes
  <2>2. Behind(SubSeq(toVdr, m + 1, Len(toVdr)) \o kernelOut, toVdr \o kernelOut, m)
    BY ONLY <1>8, <2>1, BehindConcat, m \in Nat, Zenon
  <2>3. Coming' = SubSeq(toVdr, m + 1, Len(toVdr)) \o kernelOut
    BY <1>4, <1>8 DEF Coming
  <2> QED BY <2>2, <2>3 DEF Coming
<1>13. /\ p.cells \in Seq(Unit) /\ p.size \in {HDR_SIZE, PACKET_SIZE} /\ p.in \in Seq(Unit)
  BY <1>8 DEF Reading
<1>14. PICK n \in Nat : n = ReadenCount(p)
  BY <1>8 DEF ReadenCount
<1>15. /\ m_reader'.cells = p.cells /\ m_reader'.size = p.size /\ m_reader'.count = n
       /\ m_reader' \in [cells : Seq(Unit), size : {HDR_SIZE, PACKET_SIZE}, count : Nat]
  BY <1>4, <1>13, <1>14
<1>16. CASE IsFull(p)
  <2>1. OnPacketCB(k)
    BY <1>4, <1>9, <1>11, <1>16
  <2>2. n = 0
    BY <1>14, <1>16 DEF ReadenCount
  <2> QED BY <1>4, <1>6, <1>7, <1>10, <1>12, <1>13, <1>15, <1>16, <2>1, <2>2
<1>17. CASE ~IsFull(p)
  <2>1. UNCHANGED <<handed, stage, process>>
    BY <1>4, <1>9, <1>17
  <2>2. n = p.count
    BY <1>14, <1>17 DEF ReadenCount
  <2>3. p.count < SizeOf(k)
    BY <1>8, <1>10, <1>17
  <2> QED BY <1>4, <1>6, <1>7, <1>12, <1>13, <1>15, <2>1, <2>2, <2>3
<1> QED BY <1>16, <1>17

---------------------------------------------------------------------------
(* The stream invariant, action by action *)

\* The three places and the value for none are different.
LEMMA PlacesDiffer ==
    /\ WritePlace # NoPlace /\ WritePlace # ReadPlace /\ WritePlace # MasterPlace
    /\ ReadPlace # NoPlace /\ MasterPlace # NoPlace
BY DEF WritePlace, NoPlace, ReadPlace, MasterPlace, READ, WRITE

\* The streams and the reader are as they were.
LEMMA StreamFrame ==
    ASSUME InSequence, ReaderInStep, UNCHANGED <<issued, kernelOut, toVdr, m_reader, handed>>
    PROVE  InSequence' /\ ReaderInStep'
<1>1. InSequence'
  BY DEF InSequence, Sequential, Coming, UnitAfter, SizeOf, UnitOf
<1>2. ReaderInStep'
  BY DEF ReaderInStep, Current, Coming, SizeOf, UnitOf
<1> QED BY <1>1, <1>2

\* The writer is as it was, and is not called.
LEMMA WriterFrame ==
    ASSUME WriterCalled, WriterInStep, UNCHANGED <<m_fdFuncs, m_packets, m_writtenCount>>,
           running' = running \/ running' = NoPlace
    PROVE  WriterCalled' /\ WriterInStep'
<1>1. WriterCalled'
  BY PlacesDiffer DEF WriterCalled, WatchedWhileQueued, Registered, WritePlace
<1>2. WriterInStep'
  BY DEF WriterInStep
<1> QED BY <1>1, <1>2

\* The Master is as it was.
LEMMA MasterFrame ==
    ASSUME MasterInStep, UNCHANGED <<handed, stage, replied>>
    PROVE  MasterInStep'
BY DEF MasterInStep

\* KernelReceives
LEMMA StreamKernelReceives ==
    ASSUME StreamInv, KernelReceives
    PROVE  StreamInv'
<1>0. /\ OsProxyTypes /\ InSequence /\ ReaderInStep /\ WriterCalled /\ WriterInStep /\ MasterInStep
      /\ process # "aborted"
  BY DEF StreamInv
<1>1. /\ UNCHANGED <<issued, kernelOut, toVdr, m_reader, handed>>
      /\ UNCHANGED <<m_fdFuncs, m_packets, m_writtenCount, running>>
      /\ UNCHANGED <<handed, stage, replied, pos>> /\ process' = process
      /\ toKernel # << >> /\ got' = Append(got, Head(toKernel)) /\ toKernel' = Tail(toKernel)
  BY DEF KernelReceives, reactorVars, writerVars, masterVars
<1>2. InSequence' /\ ReaderInStep'
  BY <1>0, <1>1, StreamFrame
<1>3. WriterCalled' /\ WriterInStep'
  BY <1>0, <1>1, WriterFrame
<1>4. MasterInStep'
  BY <1>0, <1>1, MasterFrame
<1>5. toKernel' \in Seq(Unit) /\ got' \in Seq(Unit)
  BY <1>0, <1>1 DEF OsProxyTypes
<1>6. OsProxyTypes'
  BY <1>0, <1>1, <1>5 DEF OsProxyTypes
<1> QED BY <1>0, <1>1, <1>2, <1>3, <1>4, <1>6 DEF StreamInv

\* Nothing the invariant is about changes: KernelHangsUp, MasterHasEvent, and
\* steps that change nothing at all.
LEMMA StreamUnchanged ==
    ASSUME StreamInv,
           UNCHANGED <<issued, kernelOut, toVdr, toKernel, got, m_reader, writerVars, masterVars,
                       process, m_fdFuncs, running>>
    PROVE  StreamInv'
<1>0. /\ OsProxyTypes /\ InSequence /\ ReaderInStep /\ WriterCalled /\ WriterInStep /\ MasterInStep
      /\ process # "aborted"
  BY DEF StreamInv
<1>1. /\ UNCHANGED <<issued, kernelOut, toVdr, m_reader, handed>>
      /\ UNCHANGED <<m_fdFuncs, m_packets, m_writtenCount, running>>
      /\ UNCHANGED <<handed, stage, replied, pos>> /\ process' = process
      /\ UNCHANGED <<got, toKernel>>
  BY DEF writerVars, masterVars
<1>2. InSequence' /\ ReaderInStep'
  BY <1>0, <1>1, StreamFrame
<1>3. WriterCalled' /\ WriterInStep'
  BY <1>0, <1>1, WriterFrame
<1>4. MasterInStep'
  BY <1>0, <1>1, MasterFrame
<1>5. OsProxyTypes'
  BY <1>0, <1>1 DEF OsProxyTypes
<1> QED BY <1>0, <1>1, <1>2, <1>3, <1>4, <1>5 DEF StreamInv

\* KernelSends: a unit goes from one part of the stream to the other.
LEMMA StreamKernelSends ==
    ASSUME StreamInv, KernelSends
    PROVE  StreamInv'
<1>0. /\ OsProxyTypes /\ InSequence /\ ReaderInStep /\ WriterCalled /\ WriterInStep /\ MasterInStep
      /\ process # "aborted"
  BY DEF StreamInv
<1>1. /\ UNCHANGED <<issued, m_reader, handed, m_fdFuncs, m_packets, m_writtenCount, running>>
      /\ UNCHANGED <<handed, stage, replied, pos, got, toKernel>> /\ process' = process
      /\ kernelOut # << >> /\ toVdr' = Append(toVdr, Head(kernelOut)) /\ kernelOut' = Tail(kernelOut)
  BY DEF KernelSends, reactorVars, writerVars, masterVars
<1>2. toVdr \in Seq(Unit) /\ kernelOut \in Seq(Unit)
  BY <1>0 DEF OsProxyTypes
<1>3. toVdr' \in Seq(Unit) /\ kernelOut' \in Seq(Unit)
  BY <1>1, <1>2
<1>4. Coming' = Coming
  <2>1. PICK a \in Seq(Unit), b \in Seq(Unit) : a = toVdr /\ b = kernelOut
    BY <1>2
  <2>2. PICK x : x = <<Head(b)>>
    OBVIOUS
  <2>3. b = x \o Tail(b) /\ x \in Seq(Unit) /\ Tail(b) \in Seq(Unit)
    BY <1>1, <2>1, <2>2
  <2>4. Append(a, Head(b)) = a \o x
    BY <1>1, <2>1, <2>2
  <2>5. (a \o x) \o Tail(b) = a \o (x \o Tail(b))
    BY <2>3, ConcatAssociative
  <2> QED BY <1>1, <2>1, <2>3, <2>4, <2>5 DEF Coming
<1>5. InSequence'
  BY <1>0, <1>1, <1>4 DEF InSequence, Sequential, UnitAfter, SizeOf, UnitOf
<1>6. ReaderInStep'
  BY <1>0, <1>1, <1>4 DEF ReaderInStep, Current, SizeOf, UnitOf
<1>7. WriterCalled' /\ WriterInStep'
  BY <1>0, <1>1, WriterFrame
<1>8. MasterInStep'
  BY <1>0, <1>1, MasterFrame
<1>9. OsProxyTypes'
  BY <1>0, <1>1, <1>3 DEF OsProxyTypes
<1> QED BY <1>0, <1>1, <1>5, <1>6, <1>7, <1>8, <1>9 DEF StreamInv

\* The sizes of the requests that are there stay when another is issued.
LEMMA SizesStay ==
    ASSUME issued \in Seq(Type), NEW type \in Type, issued' = Append(issued, type)
    PROVE  /\ issued' \in Seq(Type)
           /\ Len(issued') = Len(issued) + 1
           /\ \A k \in 1 .. Len(issued) : issued'[k] = issued[k] /\ SizeOf(k)' = SizeOf(k)
           /\ issued'[Len(issued) + 1] = type
<1>1. /\ issued' \in Seq(Type)
      /\ Len(issued') = Len(issued) + 1
      /\ \A k \in 1 .. Len(issued) : issued'[k] = issued[k]
      /\ issued'[Len(issued) + 1] = type
  BY AppendProperties
<1> QED BY <1>1 DEF SizeOf

\* KernelIssues: a request goes to the end of the stream.
LEMMA StreamKernelIssues ==
    ASSUME StreamInv, NEW type \in Type, KernelIssues(type)
    PROVE  StreamInv'
<1>0. /\ OsProxyTypes /\ InSequence /\ ReaderInStep /\ WriterCalled /\ WriterInStep /\ MasterInStep
      /\ process # "aborted"
  BY DEF StreamInv
<1>1. /\ UNCHANGED <<toVdr, m_reader, handed, m_fdFuncs, m_packets, m_writtenCount, running>>
      /\ UNCHANGED <<handed, stage, replied, pos, got, toKernel>> /\ process' = process
      /\ kernelOut = << >> /\ Len(issued) < MaxRequests /\ issued' = Append(issued, type)
      /\ kernelOut' = RequestUnits(Len(issued) + 1, type)
  BY DEF KernelIssues, reactorVars, writerVars, masterVars
<1>2. toVdr \in Seq(Unit) /\ issued \in Seq(Type) /\ Len(issued) \in Nat /\ Len(toVdr) \in Nat
      /\ DOMAIN issued = 1 .. Len(issued) /\ handed \in Seq(Number)
  BY <1>0 DEF OsProxyTypes
<1>3. PICK n \in Nat : n = Len(issued)
  BY <1>2
<1>4. /\ issued' \in Seq(Type) /\ Len(issued') = n + 1
      /\ \A k \in 1 .. n : issued'[k] = issued[k] /\ SizeOf(k)' = SizeOf(k)
      /\ issued'[n + 1] = type
  BY ONLY <1>1, <1>2, <1>3, SizesStay, type \in Type
<1>5. PICK z \in Nat : z = SizeOf(n + 1)' /\ z = (IF type = "WRITE" THEN PACKET_SIZE ELSE HDR_SIZE)
                       /\ z >= HDR_SIZE
  <2>1. SizeOf(n + 1)' = IF type = "WRITE" THEN PACKET_SIZE ELSE HDR_SIZE
    BY <1>4 DEF SizeOf
  <2> QED BY <2>1, Sizes
<1>6. /\ kernelOut' \in Seq(Unit) /\ Len(kernelOut') = z
      /\ \A i \in 1 .. z : kernelOut'[i] = UnitOf(n + 1, i)
  <2>1. kernelOut' = UnitsOf(n + 1, 1, z)
    BY <1>1, <1>3, <1>5 DEF RequestUnits
  <2>2. n + 1 \in 0 .. MaxRequests
    BY <1>1, <1>3, Sizes
  <2> QED BY <2>1, <2>2, UnitsOfRequest
<1>7. PICK s, t : s = Coming /\ t = Coming'
  OBVIOUS
<1>8. s = toVdr
  BY <1>1, <1>2, <1>7, ConcatEmptySeq DEF Coming
<1>9. PICK l \in Nat : l = Len(s)
  BY <1>2, <1>8
<1>10. /\ t \in Seq(Unit) /\ Len(t) = l + z
       /\ \A i \in 1 .. l : t[i] = s[i]
       /\ \A j \in 1 .. z : t[l + j] = UnitOf(n + 1, j)
  <2>1. t = s \o kernelOut'
    BY <1>1, <1>7, <1>8 DEF Coming
  <2>2. /\ t \in Seq(Unit) /\ Len(t) = l + z
        /\ \A i \in 1 .. l + z : t[i] = IF i <= l THEN s[i] ELSE kernelOut'[i - l]
    BY <1>2, <1>6, <1>8, <1>9, <2>1, ConcatProperties
  <2>3. ASSUME NEW j \in 1 .. z PROVE t[l + j] = UnitOf(n + 1, j)
    <3>1. l + j \in 1 .. l + z /\ ~(l + j <= l) /\ (l + j) - l = j
      OBVIOUS
    <3> QED BY <1>6, <2>2, <3>1
  <2> QED BY <2>2, <2>3
<1>11. /\ \A i \in 1 .. l : s[i].of \in 1 .. n
       /\ \A i \in 1 .. l : i < l => s[i + 1] = UnitAfter(s[i])
       /\ l # 0 => s[l] = UnitOf(n, SizeOf(n))
  <2>1. Sequential(s)
    BY <1>0, <1>7 DEF InSequence
  <2>2. l # 0 => s # << >>
    BY <1>9
  <2> QED BY <1>2, <1>3, <1>9, <2>1, <2>2 DEF Sequential
<1>12. \A u : u.of \in 1 .. n => UnitAfter(u)' = UnitAfter(u)
  BY <1>4 DEF UnitAfter, UnitOf
<1>13. \A j \in 1 .. z : UnitAfter(UnitOf(n + 1, j))' = IF j < z THEN UnitOf(n + 1, j + 1) ELSE UnitOf(n + 2, 1)
  <2> TAKE j \in 1 .. z
  <2>1. UnitOf(n + 1, j).part = j /\ UnitOf(n + 1, j).of = n + 1
    BY DEF UnitOf
  <2> QED BY <1>5, <2>1 DEF UnitAfter, UnitOf
<1>14. ASSUME NEW i \in 1 .. Len(t)
       PROVE  t[i].of \in 1 .. n + 1 /\ (i < Len(t) => t[i + 1] = UnitAfter(t[i])')
  <2>1. CASE i < l
    <3>1. i \in 1 .. l /\ i + 1 \in 1 .. l
      BY <1>9, <1>10, <2>1
    <3>2. t[i] = s[i] /\ t[i + 1] = s[i + 1] /\ s[i].of \in 1 .. n /\ s[i + 1] = UnitAfter(s[i])
      BY <1>10, <1>11, <2>1, <3>1
    <3>3. UnitAfter(s[i])' = UnitAfter(s[i])
      BY <1>12, <3>2
    <3>4. s[i].of \in 1 .. n + 1
      BY <3>2
    <3> QED BY <3>2, <3>3, <3>4
  <2>2. CASE i = l
    <3>1. 1 \in 1 .. z /\ l \in 1 .. l
      BY <1>5, <1>10, <2>2, Sizes
    <3>2. t[i] = UnitOf(n, SizeOf(n)) /\ t[i].of \in 1 .. n /\ t[i + 1] = UnitOf(n + 1, 1)
      BY <1>10, <1>11, <2>2, <3>1
    <3>3. t[i].part = SizeOf(n) /\ t[i].of = n
      BY <3>2 DEF UnitOf
    <3>4. UnitAfter(t[i]) = UnitOf(n + 1, 1)
      BY <3>3, Sizes DEF UnitAfter
    <3>5. UnitAfter(t[i])' = UnitAfter(t[i])
      BY <1>12, <3>2
    <3>6. t[i].of \in 1 .. n + 1
      BY <3>2
    <3> QED BY <3>2, <3>4, <3>5, <3>6
  <2>3. CASE l < i
    <3>1. PICK j \in 1 .. z : i = l + j
      BY <1>10, <2>3
    <3>2. t[i] = UnitOf(n + 1, j)
      BY <1>10, <3>1
    <3>3. t[i].of \in 1 .. n + 1
      BY <3>2 DEF UnitOf
    <3>4. ASSUME i < Len(t) PROVE t[i + 1] = UnitAfter(t[i])'
      <4>1. j < z /\ j + 1 \in 1 .. z /\ i + 1 = l + (j + 1)
        BY <1>10, <3>1, <3>4
      <4>2. t[l + (j + 1)] = UnitOf(n + 1, j + 1)
        BY <1>10, <4>1
      <4>3. UnitAfter(UnitOf(n + 1, j))' = UnitOf(n + 1, j + 1)
        BY <1>13, <4>1
      <4>4. UnitAfter(t[i])' = UnitAfter(UnitOf(n + 1, j))'
        BY <3>2 DEF UnitAfter, UnitOf
      <4> QED BY <4>1, <4>2, <4>3, <4>4
    <3> QED BY <3>3, <3>4
  <2>4. i < l \/ i = l \/ l < i
    OBVIOUS
  <2> QED BY ONLY <2>1, <2>2, <2>3, <2>4, Zenon
<1>15. t[Len(t)] = UnitOf(n + 1, z)
  <2>1. z \in 1 .. z
    BY <1>5, Sizes
  <2> QED BY <1>10, <2>1
<1>16. InSequence'
  <2>1. DOMAIN issued' = 1 .. n + 1
    BY <1>4
  <2>2. /\ \A i \in 1 .. Len(t) : t[i].of \in DOMAIN issued'
        /\ \A i \in 1 .. Len(t) : i < Len(t) => t[i + 1] = UnitAfter(t[i])'
        /\ t[Len(t)] = UnitOf(Len(issued'), SizeOf(Len(issued))')
    <3>1. SizeOf(Len(issued))' = SizeOf(n + 1)'
      BY <1>4 DEF SizeOf
    <3> QED BY <1>4, <1>5, <1>14, <1>15, <2>1, <3>1
  <2>3. Sequential(t)'
    BY <2>2 DEF Sequential, UnitOf
  <2>4. InSequence' = Sequential(t)'
    BY <1>7 DEF InSequence, Sequential, UnitAfter, SizeOf, UnitOf
  <2> QED BY <2>3, <2>4
<1>17. ReaderInStep'
  <2>0. /\ \A i \in 1 .. Len(handed) : handed[i] = i
        /\ Len(handed) <= n /\ Len(handed) \in Nat
        /\ Len(handed) = n => s = << >> /\ m_reader.count = 0
        /\ Len(handed) < n => /\ s # << >> /\ s[1] = UnitOf(Current, m_reader.count + 1)
                              /\ m_reader.count < SizeOf(Current)
        /\ m_reader.count >= HDR_SIZE => m_reader.size = SizeOf(Current)
        /\ \A i \in 1 .. HDR_SIZE : i <= m_reader.count => m_reader.cells[i] = UnitOf(Current, i)
    BY <1>0, <1>2, <1>3, <1>7 DEF ReaderInStep
  <2>1. UNCHANGED <<m_reader, handed, Current>>
    BY <1>1 DEF Current
  <2>2. Len(handed) < n + 1 /\ t # << >>
    BY <1>5, <1>10, <2>0, Sizes
  <2>3. /\ t[1] = UnitOf(Current, m_reader.count + 1)
        /\ m_reader.count < SizeOf(Current)'
        /\ m_reader.count >= HDR_SIZE => m_reader.size = SizeOf(Current)'
    <3>1. CASE Len(handed) = n
      <4>1. Current = n + 1 /\ s = << >> /\ m_reader.count = 0 /\ l = 0
        BY <1>9, <2>0, <3>1 DEF Current
      <4>2. SizeOf(Current)' = z
        BY <1>5, <2>1, <4>1 DEF SizeOf
      <4>3. 1 \in 1 .. z /\ t[l + 1] = UnitOf(n + 1, 1)
        BY <1>5, <1>10, Sizes
      <4> QED BY <1>5, <4>1, <4>2, <4>3, Sizes
    <3>2. CASE Len(handed) < n
      <4>1. Current \in 1 .. n
        BY <2>0, <3>2 DEF Current
      <4>2. SizeOf(Current)' = SizeOf(Current)
        BY <1>4, <2>1, <4>1 DEF SizeOf
      <4>3. t[1] = s[1]
        BY <1>9, <1>10, <2>0, <3>2
      <4> QED BY <2>0, <3>2, <4>2, <4>3
    <3> QED BY <2>0, <3>1, <3>2
  <2>4. Len(handed) # n + 1 /\ Len(handed) <= n + 1
    BY <2>0
  <2> QED BY <1>4, <1>7, <2>0, <2>1, <2>2, <2>3, <2>4 DEF ReaderInStep, UnitOf
<1>18. WriterCalled' /\ WriterInStep'
  BY <1>0, <1>1, WriterFrame
<1>19. MasterInStep'
  BY <1>0, <1>1, MasterFrame
<1>20. OsProxyTypes'
  <2>1. Len(issued') <= MaxRequests
    BY <1>1, <1>3, <1>4, Sizes
  <2> QED BY <1>0, <1>1, <1>4, <1>6, <2>1 DEF OsProxyTypes
<1> QED BY <1>0, <1>1, <1>16, <1>17, <1>18, <1>19, <1>20 DEF StreamInv

\* The worker changes one cell behind the header.
LEMMA EncryptEffect ==
    ASSUME OsProxyTypes, NEW j \in HDR_SIZE + 1 .. PACKET_SIZE,
           m_reader' = [m_reader EXCEPT !.cells[j].enc = ~@]
    PROVE  /\ m_reader' \in [cells : Seq(Unit), size : {HDR_SIZE, PACKET_SIZE}, count : Nat]
           /\ Len(m_reader'.cells) = PACKET_SIZE
           /\ m_reader'.size = m_reader.size /\ m_reader'.count = m_reader.count
           /\ m_reader'.cells[j] = [m_reader.cells[j] EXCEPT !.enc = ~@]
           /\ \A i \in 1 .. PACKET_SIZE : i # j => m_reader'.cells[i] = m_reader.cells[i]
           /\ \A i \in 1 .. HDR_SIZE : m_reader'.cells[i] = m_reader.cells[i]
<1>0. /\ m_reader \in [cells : Seq(Unit), size : {HDR_SIZE, PACKET_SIZE}, count : Nat]
      /\ m_reader.cells \in Seq(Unit) /\ Len(m_reader.cells) = PACKET_SIZE
      /\ PACKET_SIZE \in Nat /\ HDR_SIZE \in Nat
  BY Sizes DEF OsProxyTypes
<1>1. PICK c \in Seq(Unit) : c = m_reader.cells
  BY <1>0
<1>2. j \in 1 .. Len(c) /\ Len(c) = PACKET_SIZE
  BY <1>0, <1>1
<1>3. c[j] \in Unit
  BY <1>2, ElementOfSeq
<1>4. PICK u : u = [c[j] EXCEPT !.enc = ~@]
  OBVIOUS
<1>5. u \in Unit
  BY <1>3, <1>4 DEF Unit
<1>6. PICK d : d = [c EXCEPT ![j] = u]
  OBVIOUS
<1>7. /\ d \in Seq(Unit) /\ Len(d) = Len(c)
      /\ \A i \in 1 .. Len(c) : d[i] = IF i = j THEN u ELSE c[i]
  BY ONLY <1>2, <1>5, <1>6, ExceptSeq, c \in Seq(Unit)
<1>8. m_reader' = [m_reader EXCEPT !.cells = d]
  BY <1>1, <1>4, <1>6
<1>9. m_reader' = [cells |-> d, size |-> m_reader.size, count |-> m_reader.count]
  BY <1>0, <1>8
<1>10. /\ m_reader'.cells = d /\ m_reader'.size = m_reader.size /\ m_reader'.count = m_reader.count
       /\ m_reader' \in [cells : Seq(Unit), size : {HDR_SIZE, PACKET_SIZE}, count : Nat]
  <2>1. m_reader.size \in {HDR_SIZE, PACKET_SIZE} /\ m_reader.count \in Nat
    BY <1>0
  <2>2. m_reader'.cells = d /\ m_reader'.size = m_reader.size /\ m_reader'.count = m_reader.count
    BY ONLY <1>9
  <2>3. d \in Seq(Unit)
    BY <1>7
  <2>4. PICK y, n : y = m_reader.size /\ n = m_reader.count
    OBVIOUS
  <2>5. m_reader' = [cells |-> d, size |-> y, count |-> n] /\ y \in {HDR_SIZE, PACKET_SIZE} /\ n \in Nat
    BY ONLY <1>9, <2>1, <2>4
  <2>6. m_reader' \in [cells : Seq(Unit), size : {HDR_SIZE, PACKET_SIZE}, count : Nat]
    BY ONLY <2>3, <2>5
  <2> QED BY <2>2, <2>6
<1>11. \A i \in 1 .. HDR_SIZE : i \in 1 .. PACKET_SIZE /\ i # j
  BY <1>0, Sizes
<1> QED BY <1>1, <1>2, <1>4, <1>7, <1>10, <1>11

\* EncryptPart
LEMMA StreamEncryptPart ==
    ASSUME StreamInv, NEW k \in Number, EncryptPart(k)
    PROVE  StreamInv'
<1>0. /\ OsProxyTypes /\ InSequence /\ ReaderInStep /\ WriterCalled /\ WriterInStep /\ MasterInStep
      /\ process # "aborted"
  BY DEF StreamInv
<1>1. /\ UNCHANGED <<issued, kernelOut, toVdr, handed, m_fdFuncs, m_packets, m_writtenCount, running>>
      /\ UNCHANGED <<replied, got, toKernel>> /\ process' = process
      /\ stage[k] = "encrypting"
  BY DEF EncryptPart, reactorVars, writerVars, kernelVars
<1>2. stage \in [Number -> Stage] /\ pos \in [Number -> 0 .. BLOCK_SIZE]
  BY <1>0 DEF OsProxyTypes
<1>3. WriterCalled' /\ WriterInStep'
  BY <1>0, <1>1, WriterFrame
<1>4. CASE pos[k] < BLOCK_SIZE
  <2>1. /\ m_reader' = [m_reader EXCEPT !.cells[HDR_SIZE + pos[k] + 1].enc = ~@]
        /\ pos' = [pos EXCEPT ![k] = @ + 1]
        /\ stage' = stage
    BY <1>4 DEF EncryptPart
  <2>2. PICK j \in HDR_SIZE + 1 .. PACKET_SIZE : j = HDR_SIZE + pos[k] + 1
    BY <1>2, <1>4, Sizes
  <2>3. /\ m_reader' \in [cells : Seq(Unit), size : {HDR_SIZE, PACKET_SIZE}, count : Nat]
        /\ Len(m_reader'.cells) = PACKET_SIZE
        /\ m_reader'.size = m_reader.size /\ m_reader'.count = m_reader.count
        /\ \A i \in 1 .. HDR_SIZE : m_reader'.cells[i] = m_reader.cells[i]
    BY <1>0, <2>1, <2>2, EncryptEffect
  <2>4. pos' \in [Number -> 0 .. BLOCK_SIZE]
    BY <1>2, <1>4, <2>1, Sizes
  <2>5. InSequence'
    BY <1>0, <1>1 DEF InSequence, Sequential, Coming, UnitAfter, SizeOf, UnitOf
  <2>6. ReaderInStep'
    BY <1>0, <1>1, <2>3 DEF ReaderInStep, Current, Coming, SizeOf, UnitOf
  <2>7. MasterInStep'
    BY <1>0, <1>1, <2>1, MasterFrame
  <2>8. OsProxyTypes'
    BY <1>0, <1>1, <2>1, <2>3, <2>4 DEF OsProxyTypes
  <2> QED BY <1>0, <1>1, <1>3, <2>5, <2>6, <2>7, <2>8 DEF StreamInv
<1>5. CASE ~(pos[k] < BLOCK_SIZE)
  <2>1. stage' = [stage EXCEPT ![k] = "encrypted"] /\ UNCHANGED <<m_reader, pos>>
    BY <1>5 DEF EncryptPart
  <2>2. InSequence' /\ ReaderInStep'
    BY <1>0, <1>1, <2>1, StreamFrame
  <2>3. MasterInStep'
    BY <1>0, <1>1, <1>2, <2>1 DEF MasterInStep
  <2>4. stage' \in [Number -> Stage]
    BY <1>2, <2>1 DEF Stage
  <2>5. OsProxyTypes'
    BY <1>0, <1>1, <2>1, <2>4 DEF OsProxyTypes
  <2> QED BY <1>0, <1>1, <1>3, <2>2, <2>3, <2>5 DEF StreamInv
<1> QED BY <1>4, <1>5

\* ReactorStep: the writer's function is called when it is there, and entries
\* without a function go at the end of a pass.
LEMMA StreamReactorStep ==
    ASSUME StreamInv, ReactorStep
    PROVE  StreamInv'
<1>0. /\ OsProxyTypes /\ InSequence /\ ReaderInStep /\ WriterCalled /\ WriterInStep /\ MasterInStep
      /\ process # "aborted"
  BY DEF StreamInv
<1>1. /\ UNCHANGED <<issued, kernelOut, toVdr, m_reader, handed>>
      /\ UNCHANGED <<m_packets, m_writtenCount>>
      /\ UNCHANGED <<handed, stage, replied, pos>> /\ process' = process
      /\ UNCHANGED <<got, toKernel>>
  BY DEF ReactorStep, kernelVars, writerVars, masterVars
<1>2. InSequence' /\ ReaderInStep'
  BY <1>0, <1>1, StreamFrame
<1>3. WriterInStep'
  BY <1>0, <1>1 DEF WriterInStep
<1>4. MasterInStep'
  BY <1>0, <1>1, MasterFrame
<1>5. WriterCalled' /\ \A p \in DOMAIN m_fdFuncs' : m_fdFuncs'[p] \in BOOLEAN
  <2>0. \A p \in DOMAIN m_fdFuncs : m_fdFuncs[p] \in BOOLEAN
    BY <1>0 DEF OsProxyTypes
  <2>1. CASE Select(IsReady)
    <3>1. UNCHANGED <<m_fdFuncs, running>>
      BY <2>1 DEF Select
    <3> QED BY <1>0, <1>1, <2>0, <3>1, WriterFrame
  <2>2. CASE EndPass
    <3>1. running' = running /\ m_fdFuncs' = [p \in Registered |-> TRUE]
      BY <2>2 DEF EndPass, CleanEmptyFunctions
    <3>2. Registered' = Registered
      BY <3>1 DEF Registered
    <3> QED BY <1>0, <1>1, <3>1, <3>2 DEF WriterCalled, WatchedWhileQueued, WritePlace
  <2>3. CASE \E p \in Places : ActivateFuncIfFdRdyIMP(p)
    <3>1. PICK p \in Places : ActivateFuncIfFdRdyIMP(p)
      BY <2>3
    <3>2. /\ m_fdFuncs' = m_fdFuncs /\ p \in DOMAIN m_fdFuncs
          /\ running' = IF p \in m_fdsets /\ m_fdFuncs[p] THEN p ELSE NoPlace
      BY <3>1 DEF ActivateFuncIfFdRdyIMP
    <3>3. Registered' = Registered
      BY <3>2 DEF Registered
    <3>4. running' = WritePlace => WritePlace \in Registered
      BY <3>2, PlacesDiffer DEF Registered
    <3> QED BY <1>0, <1>1, <2>0, <3>2, <3>3, <3>4 DEF WriterCalled, WatchedWhileQueued, WritePlace
  <2> QED BY <2>1, <2>2, <2>3 DEF ReactorStep
<1>6. OsProxyTypes'
  BY <1>0, <1>1, <1>5 DEF OsProxyTypes
<1> QED BY <1>0, <1>1, <1>2, <1>3, <1>4, <1>5, <1>6 DEF StreamInv

\* Read
LEMMA StreamRead ==
    ASSUME StreamInv, Read
    PROVE  StreamInv'
<1>0. /\ OsProxyTypes /\ InSequence /\ ReaderInStep /\ WriterCalled /\ WriterInStep /\ MasterInStep
      /\ process # "aborted"
  BY DEF StreamInv
<1>1. /\ UNCHANGED <<issued, kernelOut, m_packets, m_writtenCount, m_fdFuncs>>
      /\ UNCHANGED <<replied, pos, got, toKernel>> /\ running' = NoPlace
  BY DEF Read, kernelVars, writerVars
<1>2. PICK p : \E m \in Nat :
             /\ Received(p, TheReader, Current, m)
             /\ Behind(Coming', Coming, m)
             /\ toVdr' \in Seq(Unit)
             /\ m_reader'.cells = p.cells /\ m_reader'.size = p.size
             /\ m_reader' \in [cells : Seq(Unit), size : {HDR_SIZE, PACKET_SIZE}, count : Nat]
             /\ \/ p.count = SizeOf(Current) /\ m_reader'.count = 0 /\ OnPacketCB(Current)
                \/ /\ p.count < SizeOf(Current) /\ m_reader'.count = p.count
                   /\ UNCHANGED <<handed, stage, process>>
  BY ReadEffect
<1>3. PICK m \in Nat :
             /\ Received(p, TheReader, Current, m)
             /\ Behind(Coming', Coming, m)
             /\ toVdr' \in Seq(Unit)
             /\ m_reader'.cells = p.cells /\ m_reader'.size = p.size
             /\ m_reader' \in [cells : Seq(Unit), size : {HDR_SIZE, PACKET_SIZE}, count : Nat]
             /\ \/ p.count = SizeOf(Current) /\ m_reader'.count = 0 /\ OnPacketCB(Current)
                \/ /\ p.count < SizeOf(Current) /\ m_reader'.count = p.count
                   /\ UNCHANGED <<handed, stage, process>>
  BY <1>2
<1>4. PICK k, s, t : k = Current /\ s = Coming /\ t = Coming'
  OBVIOUS
<1>5. /\ s \in Seq(Unit) /\ issued \in Seq(Type) /\ handed \in Seq(Number) /\ Len(handed) \in Nat
      /\ Len(issued) \in Nat /\ k \in Nat /\ k = Len(handed) + 1 /\ m_reader.count \in Nat
      /\ DOMAIN issued = 1 .. Len(issued) /\ Len(issued) <= MaxRequests
      /\ stage \in [Number -> Stage]
  <2>1. toVdr \in Seq(Unit) /\ kernelOut \in Seq(Unit) /\ issued \in Seq(Type) /\ handed \in Seq(Number)
        /\ m_reader.count \in Nat /\ Len(issued) <= MaxRequests /\ stage \in [Number -> Stage]
    BY <1>0 DEF OsProxyTypes
  <2>2. s \in Seq(Unit)
    BY <1>4, <2>1, ConcatProperties DEF Coming
  <2> QED BY <1>4, <2>1, <2>2 DEF Current
<1>6. /\ Len(p.cells) = PACKET_SIZE /\ p.count = m_reader.count + m
      /\ p.count >= HDR_SIZE => p.size = SizeOf(k)
      /\ \A i \in 1 .. HDR_SIZE : i <= p.count => p.cells[i] = UnitOf(k, i)
  BY <1>3, <1>4 DEF Received, TheReader
<1>7. InSequence'
  <2>1. Sequential(t)
    BY ONLY <1>0, <1>3, <1>4, <1>5, SequentialBehind, m \in Nat, Zenon DEF InSequence
  <2> QED BY <1>1, <1>4, <2>1 DEF InSequence, Sequential, UnitAfter, SizeOf, UnitOf
<1>8. PICK c \in Nat : c = m_reader.count
  BY <1>5
<1>9. c < SizeOf(k)
  BY <1>0, <1>4, <1>8, ReaderWaits DEF WaitsFor, TheReader
<1>10. \A j : SizeOf(j)' = SizeOf(j)
  BY <1>1 DEF SizeOf
<1>11. /\ \A i \in 1 .. Len(handed) : handed[i] = i
       /\ Len(handed) <= Len(issued)
       /\ Len(handed) = Len(issued) => s = << >> /\ c = 0
       /\ Len(handed) < Len(issued) => s # << >> /\ s[1] = UnitOf(k, c + 1)
  BY <1>0, <1>4, <1>8 DEF ReaderInStep
<1>12. Behind(t, s, m)
  BY <1>3, <1>4
<1>13. CASE p.count < SizeOf(k) /\ m_reader'.count = p.count /\ UNCHANGED <<handed, stage, process>>
  <2>1. UNCHANGED Current
    BY <1>13 DEF Current
  <2>2. Len(handed) < Len(issued) => t # << >> /\ t[1] = UnitOf(k, p.count + 1)
    <3>1. SUFFICES ASSUME Len(handed) < Len(issued) PROVE t # << >> /\ t[1] = UnitOf(k, c + m + 1)
      BY <1>6, <1>8
    <3>2. Sequential(s) /\ s # << >> /\ s[1] = UnitOf(k, c + 1) /\ c + m < SizeOf(k) /\ s \in Seq(Unit)
      BY <1>0, <1>4, <1>5, <1>6, <1>8, <1>11, <1>13, <3>1 DEF InSequence
    <3> QED BY ONLY <1>12, <3>2, MoreComes, c \in Nat, m \in Nat, Zenon
  <2>3. Len(handed) = Len(issued) => t = << >> /\ p.count = 0
    <3>1. SUFFICES ASSUME Len(handed) = Len(issued) PROVE t = << >> /\ p.count = 0
      OBVIOUS
    <3>2. s = << >> /\ c = 0 /\ t \in Seq(Unit) /\ m \in 0 .. Len(s) /\ Len(t) = Len(s) - m
      BY <1>11, <1>12, <3>1 DEF Behind
    <3>3. m = 0 /\ Len(t) = 0
      BY <3>2
    <3>4. t = << >>
      BY ONLY <3>2, <3>3
    <3> QED BY <1>6, <1>8, <3>2, <3>3, <3>4
  <2>4. ReaderInStep'
    BY <1>1, <1>3, <1>4, <1>6, <1>10, <1>11, <1>13, <2>1, <2>2, <2>3 DEF ReaderInStep, UnitOf
  <2>5. MasterInStep'
    BY <1>0, <1>1, <1>13, MasterFrame
  <2>6. OsProxyTypes'
    BY <1>0, <1>1, <1>3, <1>6, <1>13 DEF OsProxyTypes
  <2>7. WriterCalled' /\ WriterInStep'
    BY <1>0, <1>1, WriterFrame
  <2> QED BY <1>0, <1>7, <1>13, <2>4, <2>5, <2>6, <2>7 DEF StreamInv
<1>14. CASE p.count = SizeOf(k) /\ m_reader'.count = 0 /\ OnPacketCB(k)
  <2>1. Len(handed) < Len(issued)
    <3>1. SUFFICES ASSUME Len(handed) = Len(issued) PROVE FALSE
      BY <1>5, <1>11
    <3>2. m = 0 /\ c = 0
      BY <1>5, <1>11, <1>12, <3>1 DEF Behind
    <3> QED BY <1>6, <1>8, <1>9, <1>14, <3>2
  <2>2. /\ k \in DOMAIN issued
        /\ k = Len(issued) => t = << >>
        /\ k < Len(issued) => t # << >> /\ t[1] = UnitOf(k + 1, 1)
    <3>1. c + m = SizeOf(k) /\ Sequential(s) /\ s # << >> /\ s[1] = UnitOf(k, c + 1)
      BY <1>0, <1>4, <1>6, <1>8, <1>11, <1>14, <2>1 DEF InSequence
    <3>2. s \in Seq(Unit) /\ k \in Nat /\ issued \in Seq(Type)
      BY <1>5
    <3> QED BY ONLY <1>9, <1>12, <3>1, <3>2, NextComes, c \in Nat, m \in Nat, Zenon
  <2>3. k \in Number /\ k <= Len(issued)
    <3>1. PICK l \in Nat : l = Len(issued)
      BY <1>5
    <3>2. k \in 1 .. l /\ l <= MaxRequests /\ MaxRequests \in Nat
      BY <1>5, <2>2, <3>1, Sizes
    <3>3. k \in 1 .. MaxRequests /\ k <= l
      BY ONLY <3>2, l \in Nat
    <3> QED BY <3>1, <3>3 DEF Number
  <2>4. /\ handed' \in Seq(Number) /\ Len(handed') = k /\ Current' = k + 1
        /\ \A i \in 1 .. k : handed'[i] = i
    <3>1. handed' = Append(handed, k)
      BY <1>14 DEF OnPacketCB
    <3>2. /\ handed' \in Seq(Number) /\ Len(handed') = Len(handed) + 1
          /\ \A i \in 1 .. Len(handed) : handed'[i] = handed[i]
          /\ handed'[Len(handed) + 1] = k
      BY <1>5, <2>3, <3>1, AppendProperties
    <3> QED BY <1>5, <1>11, <3>2 DEF Current
  <2>5. ReaderInStep'
    <3>1. ~(m_reader'.count >= HDR_SIZE) /\ \A i \in 1 .. HDR_SIZE : ~(i <= m_reader'.count)
      BY <1>14, Sizes
    <3>2. k < Len(issued) => m_reader'.count < SizeOf(Current)'
      <4>1. SizeOf(Current)' \in {HDR_SIZE, PACKET_SIZE}
        BY Sizes DEF SizeOf
      <4> QED BY <1>14, <4>1, Sizes
    <3>3. k < Len(issued) => t[1] = UnitOf(Current, m_reader.count + 1)'
      BY <1>14, <2>2, <2>4 DEF UnitOf
    <3> QED BY <1>1, <1>4, <1>14, <2>2, <2>3, <2>4, <3>1, <3>2, <3>3 DEF ReaderInStep
  <2>6. /\ stage' \in [Number -> Stage]
        /\ stage' = [stage EXCEPT ![k] = IF issued[k] = "READ" THEN "waiting"
                       ELSE IF issued[k] = "WRITE" THEN "encrypting" ELSE "none"]
    BY <1>5, <1>14, <2>3 DEF OnPacketCB, Stage
  <2>7. MasterInStep'
    <3>1. stage[k] # "answered" /\ \A i \in 1 .. Len(handed) : i \in 1 .. k
      <4>1. k \notin 1 .. Len(handed)
        BY <1>5
      <4> QED BY <1>0, <1>5, <2>3, <4>1 DEF MasterInStep
    <3>2. k \in 1 .. k
      BY <1>5
    <3>3. \A j \in Number : j # k => stage'[j] = stage[j]
      BY <1>5, <2>6
    <3>4. stage'[k] # "answered"
      BY <1>5, <2>3, <2>6
    <3> QED BY <1>0, <1>1, <2>3, <2>4, <3>1, <3>2, <3>3, <3>4 DEF MasterInStep
  <2>8. OsProxyTypes'
    BY <1>0, <1>1, <1>3, <1>6, <2>4, <2>6 DEF OsProxyTypes
  <2>9. WriterCalled' /\ WriterInStep'
    BY <1>0, <1>1, WriterFrame
  <2>10. process' # "aborted"
    BY <1>0, <1>14 DEF OnPacketCB
  <2> QED BY <1>7, <2>5, <2>7, <2>8, <2>9, <2>10 DEF StreamInv
<1> QED BY <1>3, <1>4, <1>13, <1>14

\* send takes some of what is left of a packet, or nothing.
LEMMA SentEffect ==
    ASSUME NEW packet \in Seq(Unit), m_writtenCount \in Nat, toKernel \in Seq(Unit),
           m_writtenCount <= Len(packet)
    PROVE  \E n \in Nat :
             /\ m_writtenCount + n <= Len(packet)
             /\ Sent(packet) = SubSeq(packet, m_writtenCount + 1, m_writtenCount + n)
             /\ Sent(packet) \in Seq(Unit)
             /\ Len(Sent(packet)) = n
<1>0. Len(packet) \in Nat /\ Len(toKernel) \in Nat /\ SockCapacity \in Nat
  BY Sizes
<1>1. PICK w \in Nat : w = m_writtenCount
  OBVIOUS
<1>types. Len(packet) - w \in Int /\ SockCapacity - Len(toKernel) \in Int
  BY <1>0
<1>2. PICK a \in Int : a = Len(packet) - w
  BY ONLY <1>types, Zenon
<1>3. PICK b \in Int : b = SockCapacity - Len(toKernel)
  BY ONLY <1>types, Zenon
<1>4. PICK q : q = Min({a, b})
  OBVIOUS
<1>5. q \in Int /\ q <= a
  BY ONLY <1>4, MinOfTwo, a \in Int, b \in Int
<1>6. Sent(packet) = SubSeq(packet, w + 1, w + q)
  BY <1>1, <1>2, <1>3, <1>4 DEF Sent
<1>7. PICK n \in Nat : n = IF q >= 0 THEN q ELSE 0
  BY <1>5
<1>8. w + n <= Len(packet)
  BY <1>0, <1>1, <1>2, <1>5, <1>7
<1>9. SubSeq(packet, w + 1, w + q) = SubSeq(packet, w + 1, w + n)
  <2>1. CASE q >= 0
    BY <1>7, <2>1
  <2>2. CASE ~(q >= 0)
    <3>1. PICK f \in Int, l \in Int, g \in Int : f = w + 1 /\ l = w + q /\ g = w + n
      BY <1>5
    <3>2. l < f /\ g < f
      BY <1>5, <1>7, <2>2, <3>1
    <3>3. SubSeq(packet, f, l) = << >> /\ SubSeq(packet, f, g) = << >>
      BY ONLY <3>2, SubSeqEmpty, f \in Int, l \in Int, g \in Int
    <3> QED BY <3>1, <3>3
  <2> QED BY <2>1, <2>2
<1>10. SubSeq(packet, w + 1, w + n) \in Seq(Unit) /\ Len(SubSeq(packet, w + 1, w + n)) = n
  <2>1. PICK f \in Nat, g \in Nat : f = w + 1 /\ g = w + n
    OBVIOUS
  <2>2. f >= 1 /\ g <= Len(packet)
    BY <1>8, <2>1
  <2>3. IsPart(SubSeq(packet, f, g), packet, f, g)
    BY ONLY <2>2, PartOf, f \in Nat, g \in Nat, packet \in Seq(Unit), Zenon
  <2>4. SubSeq(packet, f, g) \in Seq(Unit) /\ Len(SubSeq(packet, f, g)) = IF f <= g THEN g - f + 1 ELSE 0
    BY ONLY <2>3 DEF IsPart
  <2> QED BY <2>1, <2>4
<1> QED BY <1>1, <1>6, <1>8, <1>9, <1>10

\* What the Master writes for a reply: packets with something in them that make
\* the reply.
LEMMA ReplyEffect ==
    ASSUME NEW k \in Number
    PROVE  LET header == SubSeq(ReplyUnits(k), 1, HDR_SIZE)
               data == SubSeq(ReplyUnits(k), HDR_SIZE + 1, Len(ReplyUnits(k)))
           IN  /\ ReplyUnits(k) \in Seq(Unit)
               /\ \A i \in 1 .. Len(ReplyUnits(k)) : ReplyUnits(k)[i] = UnitOf(k, i)
               /\ header \in Seq(Unit) /\ Len(header) = HDR_SIZE
               /\ data \in Seq(Unit)
               /\ issued[k] = "READ" => Len(data) = BLOCK_SIZE
               /\ header \o data = ReplyUnits(k)
               /\ issued[k] # "READ" => header = ReplyUnits(k)
               /\ Len(ReplyUnits(k)) = IF issued[k] = "READ" THEN PACKET_SIZE ELSE HDR_SIZE
<1>0. k \in 0 .. MaxRequests
  BY Sizes DEF Number
<1>1. PICK z \in Nat : z = (IF issued[k] = "READ" THEN PACKET_SIZE ELSE HDR_SIZE) /\ HDR_SIZE <= z
  BY Sizes
<1>2. PICK u : u = ReplyUnits(k)
  OBVIOUS
<1>3. u \in Seq(Unit) /\ Len(u) = z /\ \A i \in 1 .. z : u[i] = UnitOf(k, i)
  <2>1. u = UnitsOf(k, 1, z)
    BY <1>1, <1>2 DEF ReplyUnits
  <2> QED BY <1>0, <2>1, UnitsOfRequest
<1>4. PICK h, d : h = SubSeq(u, 1, HDR_SIZE) /\ d = SubSeq(u, HDR_SIZE + 1, Len(u))
  OBVIOUS
<1>5. PICK f \in Nat : f = HDR_SIZE + 1
  BY Sizes
<1>6. IsPart(h, u, 1, HDR_SIZE)
  <2>1. 1 \in Nat /\ 1 >= 1 /\ HDR_SIZE \in Nat /\ HDR_SIZE <= Len(u)
    BY <1>1, <1>3, Sizes
  <2> QED BY ONLY <1>3, <1>4, <2>1, PartOf, Zenon
<1>7. IsPart(d, u, f, z)
  <2>1. d = SubSeq(u, f, z) /\ f >= 1 /\ z <= Len(u)
    BY <1>3, <1>4, <1>5, Sizes
  <2> QED BY ONLY <1>3, <2>1, PartOf, f \in Nat, z \in Nat, Zenon
<1>8. h \in Seq(Unit) /\ Len(h) = HDR_SIZE
  BY <1>6, Sizes DEF IsPart
<1>9. d \in Seq(Unit) /\ (issued[k] = "READ" => Len(d) = BLOCK_SIZE)
  BY <1>1, <1>5, <1>7, Sizes DEF IsPart
<1>10. h \o d = u
  <2>1. 1 \in 1 .. Len(u) + 1 /\ HDR_SIZE \in 1 - 1 .. Len(u) /\ Len(u) \in HDR_SIZE .. Len(u)
    BY <1>1, <1>3, Sizes
  <2>2. SubSeq(u, 1, HDR_SIZE) \o SubSeq(u, HDR_SIZE + 1, Len(u)) = SubSeq(u, 1, Len(u))
    BY <1>3, <2>1, ConcatAdjacentSubSeq
  <2>3. SubSeq(u, 1, Len(u)) = u
    BY <1>3, SubSeqFull
  <2> QED BY <1>4, <2>2, <2>3
<1>11. issued[k] # "READ" => h = u
  <2>1. SUFFICES ASSUME issued[k] # "READ" PROVE h = u
    OBVIOUS
  <2>2. HDR_SIZE = Len(u)
    BY <1>1, <1>3, <2>1
  <2> QED BY <1>3, <1>4, <2>2, SubSeqFull
<1> QED BY <1>1, <1>2, <1>3, <1>4, <1>8, <1>9, <1>10, <1>11

\* Functions and entries after AddFD and RemFD.
LEMMA FdChanges ==
    ASSUME \A p \in DOMAIN m_fdFuncs : m_fdFuncs[p] \in BOOLEAN
    PROVE  /\ AddFD(WritePlace) => /\ WritePlace \in Registered'
                                   /\ \A p \in DOMAIN m_fdFuncs' : m_fdFuncs'[p] \in BOOLEAN
           /\ RemFD(WritePlace) => /\ WritePlace \notin Registered'
                                   /\ \A p \in DOMAIN m_fdFuncs' : m_fdFuncs'[p] \in BOOLEAN
<1>1. ASSUME AddFD(WritePlace)
      PROVE  /\ WritePlace \in Registered'
             /\ \A p \in DOMAIN m_fdFuncs' : m_fdFuncs'[p] \in BOOLEAN
  <2>1. m_fdFuncs' = [k \in DOMAIN m_fdFuncs \cup {WritePlace} |->
                        IF k = WritePlace THEN TRUE ELSE m_fdFuncs[k]]
    BY <1>1 DEF AddFD, Put
  <2> QED BY <2>1 DEF Registered, WritePlace
<1>2. ASSUME RemFD(WritePlace)
      PROVE  /\ WritePlace \notin Registered'
             /\ \A p \in DOMAIN m_fdFuncs' : m_fdFuncs'[p] \in BOOLEAN
  <2>1. m_fdFuncs' = [k \in DOMAIN m_fdFuncs \cup {WritePlace} |->
                        IF k = WritePlace THEN FALSE ELSE m_fdFuncs[k]]
    BY <1>2 DEF RemFD, Put
  <2> QED BY <2>1 DEF Registered, WritePlace
<1> QED BY <1>1, <1>2

\* What WriteCB does when the connection is up.
LEMMA WriteCBEffect ==
    ASSUME StreamInv, WriteCB, ~hungUp
    PROVE  m_packets # << >> /\ SendFront(Head(m_packets)) /\ process' = process
<1>1. m_packets # << >>
  BY DEF StreamInv, WriterCalled, WriteCB
<1> QED BY <1>1 DEF WriteCB

\* WriteCB
LEMMA StreamWriteCB ==
    ASSUME StreamInv, WriteCB
    PROVE  StreamInv'
<1>0. /\ OsProxyTypes /\ InSequence /\ ReaderInStep /\ WriterCalled /\ WriterInStep /\ MasterInStep
      /\ process # "aborted"
  BY DEF StreamInv
<1>1. /\ UNCHANGED <<issued, kernelOut, toVdr, m_reader, handed>>
      /\ UNCHANGED <<stage, replied, pos, got>> /\ running' = NoPlace
  BY DEF WriteCB, kernelVars, masterVars
<1>2. InSequence' /\ ReaderInStep'
  BY <1>0, <1>1, StreamFrame
<1>3. MasterInStep'
  BY <1>0, <1>1, MasterFrame
<1>4. CASE hungUp
  <2>1. process' = "exited" /\ UNCHANGED <<toKernel, m_packets, m_writtenCount, m_fdFuncs>>
    BY <1>4 DEF WriteCB, writerVars
  <2>2. WriterCalled' /\ WriterInStep'
    BY <1>0, <1>1, <2>1, WriterFrame
  <2>3. OsProxyTypes'
    BY <1>0, <1>1, <2>1 DEF OsProxyTypes
  <2> QED BY <1>0, <1>2, <1>3, <2>1, <2>2, <2>3 DEF StreamInv
<1>5. CASE ~hungUp
  <2>1. m_packets # << >> /\ SendFront(Head(m_packets)) /\ process' = process
    BY <1>5, WriteCBEffect
  <2>2. /\ m_packets \in Seq(Seq(Unit)) /\ m_writtenCount \in Nat /\ toKernel \in Seq(Unit)
        /\ \A p \in DOMAIN m_fdFuncs : m_fdFuncs[p] \in BOOLEAN
    BY <1>0 DEF OsProxyTypes
  <2>3. /\ Head(m_packets) \in Seq(Unit) /\ Head(m_packets) = m_packets[1]
        /\ Len(m_packets) \in Nat /\ Len(m_packets) >= 1
        /\ Tail(m_packets) \in Seq(Seq(Unit)) /\ Len(Tail(m_packets)) = Len(m_packets) - 1
        /\ \A i \in 1 .. Len(Tail(m_packets)) : Tail(m_packets)[i] = m_packets[i + 1]
    BY <2>1, <2>2, HeadTailProperties
  <2>4. PICK packet \in Seq(Unit) : packet = Head(m_packets)
    BY <2>3
  <2>5. m_writtenCount < Len(packet) /\ Len(packet) \in Nat
    BY <1>0, <2>1, <2>3, <2>4 DEF WriterInStep
  <2>6. PICK n \in Nat :
             /\ m_writtenCount + n <= Len(packet)
             /\ Sent(packet) = SubSeq(packet, m_writtenCount + 1, m_writtenCount + n)
             /\ Sent(packet) \in Seq(Unit)
             /\ Len(Sent(packet)) = n
    <3>1. m_writtenCount <= Len(packet)
      BY <2>2, <2>5
    <3> QED BY <2>2, <3>1, SentEffect
  <2>7. toKernel' \in Seq(Unit)
    <3>1. toKernel' = toKernel \o Sent(packet)
      BY <2>1, <2>4 DEF SendFront
    <3> QED BY <2>2, <2>6, <3>1, ConcatProperties
  <2>8. CASE m_writtenCount + n = Len(packet)
    <3>1. /\ m_writtenCount' = 0 /\ m_packets' = Tail(m_packets)
          /\ IF Len(m_packets) = 1 THEN RemFD(WritePlace) ELSE UNCHANGED m_fdFuncs
      BY <2>1, <2>4, <2>6, <2>8 DEF SendFront
    <3>2. WriterInStep'
      <4>1. \A i \in 1 .. Len(m_packets') : m_packets'[i] # << >>
        <5>1. \A i \in 1 .. Len(m_packets') : i + 1 \in 1 .. Len(m_packets) /\ m_packets'[i] = m_packets[i + 1]
          BY <2>3, <3>1
        <5> QED BY <1>0, <5>1 DEF WriterInStep
      <4>2. m_packets' # << >> => m_writtenCount' < Len(m_packets'[1])
        <5>1. SUFFICES ASSUME m_packets' # << >> PROVE 0 < Len(m_packets'[1])
          BY <3>1
        <5>2. 1 \in 1 .. Len(m_packets')
          BY <2>3, <3>1, <5>1
        <5>3. m_packets'[1] \in Seq(Unit) /\ m_packets'[1] # << >>
          BY <2>3, <3>1, <4>1, <5>2, ElementOfSeq
        <5> QED BY ONLY <5>3, EmptySeq
      <4> QED BY <3>1, <4>1, <4>2 DEF WriterInStep
    <3>3. WriterCalled' /\ \A p \in DOMAIN m_fdFuncs' : m_fdFuncs'[p] \in BOOLEAN
      <4>1. CASE Len(m_packets) = 1
        <5>1. m_packets' = << >>
          BY <2>3, <3>1, <4>1
        <5>2. WritePlace \notin Registered' /\ \A p \in DOMAIN m_fdFuncs' : m_fdFuncs'[p] \in BOOLEAN
          BY <2>2, <3>1, <4>1, FdChanges
        <5> QED BY <1>1, <5>1, <5>2, PlacesDiffer DEF WriterCalled, WatchedWhileQueued, WritePlace
      <4>2. CASE Len(m_packets) # 1
        <5>1. m_packets' # << >> /\ m_fdFuncs' = m_fdFuncs
          <6>1. Len(Tail(m_packets)) # 0
            BY <2>3, <4>2
          <6>2. Tail(m_packets) # << >>
            <7>1. Len(<< >>) = 0
              OBVIOUS
            <7> QED BY ONLY <6>1, <7>1, Zenon
          <6> QED BY <3>1, <4>2, <6>2
        <5>2. Registered' = Registered /\ WritePlace \in Registered
          BY <1>0, <2>1, <5>1 DEF Registered, WriterCalled, WatchedWhileQueued
        <5> QED BY <1>1, <2>2, <5>1, <5>2, PlacesDiffer DEF WriterCalled, WatchedWhileQueued, WritePlace
      <4> QED BY <4>1, <4>2
    <3>4. OsProxyTypes'
      BY <1>0, <1>1, <2>3, <2>7, <3>1, <3>3 DEF OsProxyTypes
    <3> QED BY <1>0, <1>2, <1>3, <2>1, <3>2, <3>3, <3>4 DEF StreamInv
  <2>9. CASE m_writtenCount + n # Len(packet)
    <3>1. m_writtenCount' = m_writtenCount + n /\ UNCHANGED <<m_packets, m_fdFuncs>>
      BY <2>1, <2>4, <2>6, <2>9 DEF SendFront
    <3>2. m_writtenCount' < Len(packet) /\ m_writtenCount' \in Nat
      BY <2>2, <2>5, <2>6, <2>9, <3>1
    <3>3. WriterInStep'
      BY <1>0, <2>1, <2>3, <2>4, <3>1, <3>2 DEF WriterInStep
    <3>4. WriterCalled'
      BY <1>0, <1>1, <3>1, PlacesDiffer DEF WriterCalled, WatchedWhileQueued, Registered, WritePlace
    <3>5. OsProxyTypes'
      BY <1>0, <1>1, <2>7, <3>1, <3>2 DEF OsProxyTypes
    <3> QED BY <1>0, <1>2, <1>3, <2>1, <3>3, <3>4, <3>5 DEF StreamInv
  <2> QED BY <2>8, <2>9
<1> QED BY <1>4, <1>5

\* MasterCB: a write goes on to its minions, or a reply is queued.
LEMMA StreamMasterCB ==
    ASSUME StreamInv, NEW k \in Number, MasterCB(k)
    PROVE  StreamInv'
<1>0. /\ OsProxyTypes /\ InSequence /\ ReaderInStep /\ WriterCalled /\ WriterInStep /\ MasterInStep
      /\ process # "aborted"
  BY DEF StreamInv
<1>1. /\ UNCHANGED <<issued, kernelOut, toVdr, m_reader, handed>>
      /\ UNCHANGED <<m_writtenCount, pos, got, toKernel>> /\ running' = NoPlace /\ process' = process
  BY DEF MasterCB, kernelVars
<1>2. InSequence' /\ ReaderInStep'
  BY <1>0, <1>1, StreamFrame
<1>3. /\ stage \in [Number -> Stage] /\ m_packets \in Seq(Seq(Unit)) /\ m_writtenCount \in Nat
      /\ replied \in Seq(Number) /\ \A p \in DOMAIN m_fdFuncs : m_fdFuncs[p] \in BOOLEAN
  BY <1>0 DEF OsProxyTypes
<1>4. CASE stage[k] = "encrypted" /\ stage' = [stage EXCEPT ![k] = "waiting"]
           /\ UNCHANGED <<m_fdFuncs, m_packets, replied>>
  <2>1. WriterCalled' /\ WriterInStep'
    BY <1>0, <1>1, <1>4, WriterFrame
  <2>2. MasterInStep'
    BY <1>0, <1>1, <1>3, <1>4 DEF MasterInStep
  <2>3. stage' \in [Number -> Stage]
    BY <1>3, <1>4 DEF Stage
  <2>4. OsProxyTypes'
    BY <1>0, <1>1, <1>4, <2>3 DEF OsProxyTypes
  <2> QED BY <1>0, <1>1, <1>2, <2>1, <2>2, <2>4 DEF StreamInv
<1>5. CASE stage[k] = "waiting" /\ stage' = [stage EXCEPT ![k] = "answered"] /\ Reply(k)
  <2> DEFINE header == SubSeq(ReplyUnits(k), 1, HDR_SIZE)
             data == SubSeq(ReplyUnits(k), HDR_SIZE + 1, Len(ReplyUnits(k)))
             packets == IF issued[k] = "READ" THEN <<header, data>> ELSE <<header>>
  <2>1. Write(packets) /\ replied' = Append(replied, k)
    BY <1>5 DEF Reply
  <2>2. header \in Seq(Unit) /\ Len(header) = HDR_SIZE /\ data \in Seq(Unit)
        /\ (issued[k] = "READ" => Len(data) = BLOCK_SIZE)
    BY ReplyEffect
  <2> HIDE DEF header, data
  <2>3. header # << >> /\ (issued[k] = "READ" => data # << >>)
    BY <2>2, Sizes
  <2>4. /\ packets \in Seq(Seq(Unit)) /\ Len(packets) \in Nat /\ Len(packets) >= 1
        /\ \A i \in 1 .. Len(packets) : packets[i] # << >>
    <3>1. CASE issued[k] = "READ"
      <4>1. packets = <<header, data>>
        BY <3>1
      <4> HIDE DEF packets
      <4> QED BY <2>2, <2>3, <3>1, <4>1
    <3>2. CASE issued[k] # "READ"
      <4>1. packets = <<header>>
        BY <3>2
      <4> HIDE DEF packets
      <4> QED BY <2>2, <2>3, <4>1
    <3> QED BY <3>1, <3>2
  <2> HIDE DEF packets
  <2>5. /\ m_packets' = m_packets \o packets
        /\ IF m_packets = << >> THEN AddFD(WritePlace) ELSE UNCHANGED m_fdFuncs
    BY <2>1 DEF Write
  <2>6. PICK l \in Nat, q \in Nat : l = Len(m_packets) /\ q = Len(packets) /\ q >= 1
    BY <1>3, <2>4
  <2>7. /\ m_packets' \in Seq(Seq(Unit)) /\ Len(m_packets') = l + q
        /\ \A i \in 1 .. l + q : m_packets'[i] = IF i <= l THEN m_packets[i] ELSE packets[i - l]
    BY <1>3, <2>4, <2>5, <2>6, ConcatProperties
  <2>8. m_packets' # << >> /\ 1 \in 1 .. l + q
    BY <2>6, <2>7
  <2>9. \A i \in 1 .. Len(m_packets') : m_packets'[i] # << >>
    <3>1. TAKE i \in 1 .. Len(m_packets')
    <3>2. CASE i <= l
      BY <1>0, <2>6, <2>7, <3>2 DEF WriterInStep
    <3>3. CASE ~(i <= l)
      <4>1. i - l \in 1 .. q
        BY <2>6, <2>7, <3>3
      <4> QED BY <2>4, <2>6, <2>7, <3>3, <4>1
    <3> QED BY <3>2, <3>3
  <2>10. m_writtenCount' < Len(m_packets'[1])
    <3>1. CASE m_packets = << >>
      <4>1. m_writtenCount' = 0
        BY <1>0, <1>1, <3>1 DEF WriterInStep
      <4>2. m_packets'[1] \in Seq(Unit) /\ m_packets'[1] # << >>
        BY <2>7, <2>8, <2>9, ElementOfSeq
      <4>3. Len(m_packets'[1]) \in Nat \ {0}
        BY ONLY <4>2, EmptySeq
      <4> QED BY <4>1, <4>3
    <3>2. CASE m_packets # << >>
      <4>1. m_packets'[1] = m_packets[1]
        BY <1>3, <2>6, <2>7, <2>8, <3>2
      <4>2. m_writtenCount < Len(m_packets[1])
        BY <1>0, <3>2 DEF WriterInStep
      <4> QED BY <1>1, <4>1, <4>2
    <3> QED BY <3>1, <3>2
  <2>11. WriterInStep'
    BY <2>8, <2>9, <2>10 DEF WriterInStep
  <2>12. WriterCalled' /\ \A p \in DOMAIN m_fdFuncs' : m_fdFuncs'[p] \in BOOLEAN
    <3>1. WritePlace \in Registered' /\ \A p \in DOMAIN m_fdFuncs' : m_fdFuncs'[p] \in BOOLEAN
      <4>1. CASE m_packets = << >>
        BY <1>3, <2>5, <4>1, FdChanges
      <4>2. CASE m_packets # << >>
        <5>1. m_fdFuncs' = m_fdFuncs /\ WritePlace \in Registered
          BY <1>0, <2>5, <4>2 DEF WriterCalled, WatchedWhileQueued
        <5> QED BY <1>3, <5>1 DEF Registered
      <4> QED BY <4>1, <4>2
    <3> QED BY <1>1, <2>8, <3>1, PlacesDiffer DEF WriterCalled, WatchedWhileQueued, WritePlace
  <2>13. /\ replied' \in Seq(Number) /\ Len(replied') = Len(replied) + 1 /\ Len(replied) \in Nat
         /\ \A i \in 1 .. Len(replied) : replied'[i] = replied[i]
         /\ replied'[Len(replied) + 1] = k
    BY <1>3, <2>1, AppendProperties
  <2>14. MasterInStep'
    <3>1. \A j \in Number : stage'[j] = IF j = k THEN "answered" ELSE stage[j]
      BY <1>3, <1>5
    <3>2. \A j \in Number : stage'[j] # "none" => j \in 1 .. Len(handed')
      BY <1>0, <1>1, <1>5, <3>1 DEF MasterInStep
    <3>3. ASSUME NEW j \in Number
          PROVE  stage'[j] = "answered" <=> \E i \in 1 .. Len(replied') : replied'[i] = j
      <4>1. CASE j = k
        <5>1. Len(replied) + 1 \in 1 .. Len(replied')
          BY <2>13
        <5> QED BY <2>13, <3>1, <4>1, <5>1
      <4>2. CASE j # k
        <5>1. stage'[j] = stage[j]
          BY <3>1, <4>2
        <5>2. stage[j] = "answered" <=> \E i \in 1 .. Len(replied) : replied[i] = j
          BY <1>0 DEF MasterInStep
        <5>3. (\E i \in 1 .. Len(replied) : replied[i] = j) <=> \E i \in 1 .. Len(replied') : replied'[i] = j
          <6>1. \A i \in 1 .. Len(replied) : i \in 1 .. Len(replied')
            BY <2>13
          <6>2. \A i \in 1 .. Len(replied') : i \in 1 .. Len(replied) \/ i = Len(replied) + 1
            BY <2>13
          <6> QED BY <2>13, <4>2, <6>1, <6>2
        <5> QED BY <5>1, <5>2, <5>3
      <4> QED BY <4>1, <4>2
    <3> QED BY <3>2, <3>3 DEF MasterInStep
  <2>15. stage' \in [Number -> Stage]
    BY <1>3, <1>5 DEF Stage
  <2>16. OsProxyTypes'
    BY <1>0, <1>1, <2>7, <2>12, <2>13, <2>15 DEF OsProxyTypes
  <2> QED BY <1>0, <1>1, <1>2, <2>11, <2>12, <2>14, <2>16 DEF StreamInv
<1> QED BY <1>4, <1>5 DEF MasterCB

\* The beginning.
LEMMA StreamInit ==
    ASSUME OsProxyInit
    PROVE  StreamInv
<1>0. /\ issued = << >> /\ kernelOut = << >> /\ toVdr = << >> /\ toKernel = << >> /\ got = << >>
      /\ m_packets = << >> /\ m_writtenCount = 0 /\ handed = << >> /\ replied = << >>
      /\ stage = [k \in Number |-> "none"] /\ pos = [k \in Number |-> 0] /\ process = "runs"
      /\ m_reader = [cells |-> Zeros(PACKET_SIZE), size |-> HDR_SIZE, count |-> 0]
      /\ m_fdFuncs = [p \in {MasterPlace, ReadPlace} |-> TRUE] /\ running = NoPlace
  BY DEF OsProxyInit, ReactorInit
<1>1. Coming = << >> /\ Coming \in Seq(Unit)
  BY <1>0, ConcatEmptySeq, EmptySeq DEF Coming
<1>2. PICK z \in Seq(Unit) : z = Zeros(PACKET_SIZE) /\ Len(z) = PACKET_SIZE
  BY Sizes, ZerosAreUnits
<1>3. /\ m_reader \in [cells : Seq(Unit), size : {HDR_SIZE, PACKET_SIZE}, count : Nat]
      /\ m_reader.cells = z /\ m_reader.size = HDR_SIZE /\ m_reader.count = 0
  BY <1>0, <1>2
<1>4. OsProxyTypes
  <2>1. stage \in [Number -> Stage] /\ pos \in [Number -> 0 .. BLOCK_SIZE]
    BY <1>0, Sizes DEF Stage
  <2>2. \A p \in DOMAIN m_fdFuncs : m_fdFuncs[p] \in BOOLEAN
    BY <1>0
  <2>3. /\ issued \in Seq(Type) /\ Len(issued) <= MaxRequests /\ handed \in Seq(Number)
        /\ replied \in Seq(Number) /\ m_packets \in Seq(Seq(Unit)) /\ m_writtenCount \in Nat
    BY <1>0, Sizes
  <2>4. /\ kernelOut \in Seq(Unit) /\ toVdr \in Seq(Unit) /\ toKernel \in Seq(Unit) /\ got \in Seq(Unit)
    BY <1>0
  <2>5. Len(m_reader.cells) = PACKET_SIZE
    BY <1>2, <1>3
  <2> QED BY ONLY <1>3, <2>1, <2>2, <2>3, <2>4, <2>5, Zenon DEF OsProxyTypes
<1>5. InSequence
  BY <1>1 DEF InSequence, Sequential
<1>6. ReaderInStep
  BY <1>0, <1>1, <1>3, Sizes DEF ReaderInStep
<1>7. WriterCalled
  BY <1>0, PlacesDiffer DEF WriterCalled, WatchedWhileQueued, Registered
<1>8. WriterInStep
  BY <1>0 DEF WriterInStep
<1>9. MasterInStep
  BY <1>0 DEF MasterInStep
<1> QED BY <1>0, <1>4, <1>5, <1>6, <1>7, <1>8, <1>9 DEF StreamInv

\* Every step keeps it.
LEMMA StreamNext ==
    ASSUME StreamInv, [OsProxyNext]_vars
    PROVE  StreamInv'
<1>1. CASE \E type \in Type : KernelIssues(type)
  BY <1>1, StreamKernelIssues
<1>2. CASE KernelSends
  BY <1>2, StreamKernelSends
<1>3. CASE KernelReceives
  BY <1>3, StreamKernelReceives
<1>4. CASE KernelHangsUp
  BY <1>4, StreamUnchanged DEF KernelHangsUp, reactorVars
<1>5. CASE WorkerThread
  BY <1>5, StreamEncryptPart DEF WorkerThread
<1>6. CASE MasterHasEvent
  BY <1>6, StreamUnchanged DEF MasterHasEvent, BecomesReady, kernelVars
<1>7. CASE ReactorStep
  BY <1>7, StreamReactorStep
<1>8. CASE Read
  BY <1>8, StreamRead
<1>9. CASE WriteCB
  BY <1>9, StreamWriteCB
<1>10. CASE \E k \in Number : MasterCB(k)
  BY <1>10, StreamMasterCB
<1>11. CASE UNCHANGED vars
  BY <1>11, StreamUnchanged DEF vars, reactorVars, kernelVars
<1> QED BY <1>1, <1>2, <1>3, <1>4, <1>5, <1>6, <1>7, <1>8, <1>9, <1>10, <1>11 DEF OsProxyNext, ReactorThread

\* The stream invariant holds all the time.
LEMMA StreamAlways == OsProxySpec => []StreamInv
<1>1. OsProxyInit => StreamInv
  BY StreamInit
<1>2. StreamInv /\ [OsProxyNext]_vars => StreamInv'
  BY StreamNext
<1> QED BY <1>1, <1>2, PTL DEF OsProxySpec

\* TcpReader and OsProxy: however recv splits the stream, the Master gets the
\* kernel's requests whole, each once and in order, and no assert fails.
THEOREM RequestsOrdered == OsProxySpec => []RequestsArriveInOrder
<1>1. StreamInv => RequestsArriveInOrder
  <2>1. SUFFICES ASSUME StreamInv PROVE RequestsArriveInOrder
    OBVIOUS
  <2>2. process # "aborted" /\ handed \in Seq(Number) /\ (\A i \in 1 .. Len(handed) : handed[i] = i)
        /\ Len(handed) <= Len(issued)
    BY <2>1 DEF StreamInv, OsProxyTypes, ReaderInStep
  <2>3. handed = [i \in DOMAIN handed |-> i]
    BY <2>2
  <2> QED BY <2>2, <2>3 DEF RequestsArriveInOrder
<1> QED BY <1>1, StreamAlways, PTL

\* TcpWriter: the socket is watched for writing exactly while a packet is queued,
\* whichever callback of the pass queued the first or sent the last one.
THEOREM WatchedExactly == OsProxySpec => []WatchedWhileQueued
<1>1. StreamInv => WatchedWhileQueued
  BY DEF StreamInv, WriterCalled
<1> QED BY <1>1, StreamAlways, PTL

---------------------------------------------------------------------------
(* Only replies go to the kernel *)

\* A request that is answered stays so.
LEMMA AnsweredStays ==
    ASSUME StreamInv, [OsProxyNext]_vars, NEW j \in Number, stage[j] = "answered"
    PROVE  stage'[j] = "answered"
<1>0. /\ stage \in [Number -> Stage] /\ handed \in Seq(Number) /\ Len(handed) \in Nat
      /\ Current = Len(handed) + 1
      /\ \A k \in Number : stage[k] # "none" => k \in 1 .. Len(handed)
  BY DEF StreamInv, OsProxyTypes, MasterInStep, Current
<1>1. CASE stage' = stage
  BY <1>1
<1>2. CASE WorkerThread
  <2>1. PICK k \in Number : EncryptPart(k)
    BY <1>2 DEF WorkerThread
  <2>2. stage[k] = "encrypting" /\ (stage' = stage \/ stage' = [stage EXCEPT ![k] = "encrypted"])
    BY <2>1 DEF EncryptPart
  <2> QED BY <1>0, <2>2
<1>3. CASE Read
  <2>1. OnPacketCB(Current) \/ stage' = stage
    BY <1>3, ReadEffect
  <2>2. OnPacketCB(Current) => \E v : stage' = [stage EXCEPT ![Current] = v]
    BY DEF OnPacketCB
  <2>3. j # Current
    BY <1>0
  <2> QED BY <1>0, <2>1, <2>2, <2>3
<1>4. CASE \E k \in Number : MasterCB(k)
  <2>1. PICK k \in Number : MasterCB(k)
    BY <1>4
  <2>2. (\E v : stage' = [stage EXCEPT ![k] = v]) /\ stage[k] # "answered"
    BY <2>1 DEF MasterCB
  <2> QED BY <1>0, <2>2
<1>5. stage' = stage \/ WorkerThread \/ Read \/ \E k \in Number : MasterCB(k)
  <2>1. (\E type \in Type : KernelIssues(type)) => stage' = stage
    BY DEF KernelIssues, masterVars
  <2>2. KernelSends => stage' = stage
    BY DEF KernelSends, masterVars
  <2>3. KernelReceives => stage' = stage
    BY DEF KernelReceives, masterVars
  <2>4. KernelHangsUp => stage' = stage
    BY DEF KernelHangsUp, masterVars
  <2>5. MasterHasEvent => stage' = stage
    BY DEF MasterHasEvent, masterVars
  <2>6. ReactorStep => stage' = stage
    BY DEF ReactorStep, masterVars
  <2>7. WriteCB => stage' = stage
    BY DEF WriteCB, masterVars
  <2>8. UNCHANGED vars => stage' = stage
    BY DEF vars, masterVars
  <2> QED BY <2>1, <2>2, <2>3, <2>4, <2>5, <2>6, <2>7, <2>8 DEF OsProxyNext, ReactorThread
<1> QED BY <1>1, <1>2, <1>3, <1>4, <1>5

\* So what belongs to replies does so later.
LEMMA RepliesStay ==
    ASSUME StreamInv, [OsProxyNext]_vars, NEW s, OfAReply(s)
    PROVE  OfAReply(s)'
BY AnsweredStays DEF OfAReply

\* Replies together.
LEMMA RepliesJoined ==
    ASSUME NEW s \in Seq(Unit), NEW t \in Seq(Unit), OfAReply(s), OfAReply(t)
    PROVE  OfAReply(s \o t)
<1>0. Len(s) \in Nat /\ Len(t) \in Nat
  OBVIOUS
<1>1. /\ Len(s \o t) = Len(s) + Len(t)
      /\ \A i \in 1 .. Len(s) + Len(t) : (s \o t)[i] = IF i <= Len(s) THEN s[i] ELSE t[i - Len(s)]
  BY ConcatProperties
<1>2. PICK u : u = s \o t
  OBVIOUS
<1>3. ASSUME NEW i \in 1 .. Len(u) PROVE u[i].of \in Number /\ stage[u[i].of] = "answered"
  <2>1. CASE i <= Len(s)
    <3>1. u[i] = s[i] /\ i \in 1 .. Len(s)
      BY <1>0, <1>1, <1>2, <2>1
    <3> QED BY <3>1 DEF OfAReply
  <2>2. CASE ~(i <= Len(s))
    <3>1. u[i] = t[i - Len(s)] /\ i - Len(s) \in 1 .. Len(t)
      BY <1>0, <1>1, <1>2, <2>2
    <3> QED BY <3>1 DEF OfAReply
  <2> QED BY <2>1, <2>2
<1> QED BY <1>2, <1>3 DEF OfAReply

\* A part of a reply is one of a reply.
LEMMA RepliesParted ==
    ASSUME NEW s \in Seq(Unit), OfAReply(s), NEW a \in Nat, NEW b \in Nat, a >= 1, b <= Len(s)
    PROVE  OfAReply(SubSeq(s, a, b))
<1>1. PICK t : t = SubSeq(s, a, b)
  OBVIOUS
<1>2. IsPart(t, s, a, b)
  BY ONLY <1>1, PartOf, s \in Seq(Unit), a \in Nat, b \in Nat, a >= 1, b <= Len(s), Zenon
<1>3. ASSUME NEW i \in 1 .. Len(t) PROVE t[i].of \in Number /\ stage[t[i].of] = "answered"
  <2>1. t[i] = s[a + i - 1] /\ a + i - 1 \in 1 .. Len(s)
    BY <1>2 DEF IsPart
  <2> QED BY <2>1 DEF OfAReply
<1> QED BY <1>1, <1>3 DEF OfAReply

\* Every step keeps RepliesOnly.
LEMMA RepliesNext ==
    ASSUME StreamInv, RepliesOnly, [OsProxyNext]_vars
    PROVE  RepliesOnly'
<1>0. /\ toKernel \in Seq(Unit) /\ got \in Seq(Unit) /\ m_packets \in Seq(Seq(Unit))
      /\ m_writtenCount \in Nat /\ stage \in [Number -> Stage]
      /\ OfAReply(got) /\ OfAReply(toKernel) /\ \A j \in 1 .. Len(m_packets) : OfAReply(m_packets[j])
  BY DEF StreamInv, OsProxyTypes, RepliesOnly
<1>1. PICK g, x, q : g = got /\ x = toKernel /\ q = m_packets
  OBVIOUS
<1>2. OfAReply(g)' /\ OfAReply(x)' /\ \A j \in 1 .. Len(q) : OfAReply(q[j])'
  BY <1>0, <1>1, RepliesStay
<1>3. got' = g => OfAReply(got)'
  BY <1>2 DEF OfAReply
<1>4. toKernel' = x => OfAReply(toKernel)'
  BY <1>2 DEF OfAReply
<1>5. m_packets' = q => \A j \in 1 .. Len(m_packets') : OfAReply(m_packets[j])'
  BY <1>2 DEF OfAReply
<1>6. CASE UNCHANGED <<got, toKernel, m_packets>>
  BY <1>1, <1>3, <1>4, <1>5, <1>6 DEF RepliesOnly
<1>7. CASE KernelReceives
  <2>1. /\ got' = Append(g, Head(x)) /\ toKernel' = Tail(x) /\ x # << >> /\ m_packets' = q
    BY <1>1, <1>7 DEF KernelReceives, writerVars
  <2>2. PICK a, b : a = <<Head(x)>> /\ b = Tail(x)
    OBVIOUS
  <2>3. /\ a \in Seq(Unit) /\ g \in Seq(Unit) /\ got' = g \o a /\ Len(x) \in Nat /\ Len(x) >= 1 /\ x \in Seq(Unit)
        /\ Len(a) = 1 /\ a[1] = x[1]
    <3>1. x \in Seq(Unit) /\ g \in Seq(Unit)
      BY <1>0, <1>1
    <3>2. Head(x) \in Unit /\ Head(x) = x[1] /\ Len(x) \in Nat /\ Len(x) >= 1
      BY <2>1, <3>1
    <3>3. a \in Seq(Unit) /\ Len(a) = 1 /\ a[1] = x[1]
      BY <2>2, <3>2
    <3>4. got' = g \o a
      BY <2>1, <2>2, <3>1, <3>2, AppendIsConcat
    <3> QED BY <3>1, <3>2, <3>3, <3>4
  <2>4. OfAReply(a)
    <3>1. 1 \in 1 .. Len(x)
      BY <2>3
    <3>2. x[1].of \in Number /\ stage[x[1].of] = "answered"
      BY <1>0, <1>1, <3>1 DEF OfAReply
    <3>3. \A i \in 1 .. Len(a) : a[i] = x[1]
      BY <2>3
    <3> QED BY <3>2, <3>3 DEF OfAReply
  <2>5. PICK ga : ga = g \o a
    OBVIOUS
  <2>6. OfAReply(ga)
    BY ONLY <1>0, <1>1, <2>3, <2>4, <2>5, RepliesJoined, Zenon
  <2>7. OfAReply(ga)'
    BY <2>6, RepliesStay
  <2>8. OfAReply(b)
    <3>1. \A i \in 1 .. Len(b) : b[i] = x[i + 1] /\ i + 1 \in 1 .. Len(x)
      BY <2>1, <2>2, <2>3, HeadTailProperties
    <3> QED BY <1>0, <1>1, <3>1 DEF OfAReply
  <2>9. OfAReply(b)'
    BY <2>8, RepliesStay
  <2>10. OfAReply(got)' /\ OfAReply(toKernel)'
    BY <2>1, <2>2, <2>3, <2>5, <2>7, <2>9 DEF OfAReply
  <2> QED BY <1>5, <2>1, <2>10 DEF RepliesOnly
<1>8. CASE WriteCB /\ ~hungUp
  <2>1. m_packets # << >> /\ SendFront(Head(m_packets)) /\ got' = got
    BY <1>8, WriteCBEffect DEF WriteCB, kernelVars
  <2>2. Head(m_packets) \in Seq(Unit) /\ Head(m_packets) = m_packets[1] /\ 1 \in 1 .. Len(m_packets)
        /\ Len(m_packets) \in Nat
    BY <1>0, <2>1
  <2>3. PICK packet \in Seq(Unit) : packet = Head(m_packets)
    BY <2>2
  <2>4. OfAReply(packet)
    BY <1>0, <2>2, <2>3
  <2>5. m_writtenCount < Len(packet) /\ Len(packet) \in Nat
    BY <2>1, <2>2, <2>3 DEF StreamInv, WriterInStep
  <2>6. PICK n \in Nat :
             /\ m_writtenCount + n <= Len(packet)
             /\ Sent(packet) = SubSeq(packet, m_writtenCount + 1, m_writtenCount + n)
             /\ Sent(packet) \in Seq(Unit)
             /\ Len(Sent(packet)) = n
    <3>1. m_writtenCount <= Len(packet)
      BY <1>0, <2>5
    <3> QED BY <1>0, <3>1, SentEffect
  <2>7. OfAReply(Sent(packet))
    <3>1. PICK a \in Nat, b \in Nat : a = m_writtenCount + 1 /\ b = m_writtenCount + n
      BY <1>0
    <3>2. a >= 1 /\ b <= Len(packet)
      BY <1>0, <2>6, <3>1
    <3>3. OfAReply(SubSeq(packet, a, b))
      BY ONLY <2>4, <3>2, RepliesParted, a \in Nat, b \in Nat, packet \in Seq(Unit), Zenon
    <3> QED BY <2>6, <3>1, <3>3
  <2>8. OfAReply(toKernel)'
    <3>1. PICK y : y = toKernel \o Sent(packet)
      OBVIOUS
    <3>2. OfAReply(y)
      BY ONLY <1>0, <2>6, <2>7, <3>1, RepliesJoined, Zenon
    <3>3. OfAReply(y)'
      BY <3>2, RepliesStay
    <3>4. toKernel' = y
      BY <2>1, <2>3, <3>1 DEF SendFront
    <3> QED BY <3>3, <3>4 DEF OfAReply
  <2>9. \A j \in 1 .. Len(m_packets') : OfAReply(m_packets[j])'
    <3>1. CASE m_packets' = m_packets
      BY <1>1, <1>5, <3>1
    <3>2. CASE m_packets' = Tail(m_packets)
      <4>1. \A j \in 1 .. Len(m_packets') : m_packets'[j] = q[j + 1] /\ j + 1 \in 1 .. Len(q)
        BY <1>0, <1>1, <2>1, <2>2, <3>2, HeadTailProperties
      <4> QED BY <1>2, <4>1 DEF OfAReply
    <3> QED BY <2>1, <3>1, <3>2 DEF SendFront
  <2> QED BY <1>1, <1>3, <2>1, <2>8, <2>9 DEF RepliesOnly
<1>9. CASE \E k \in Number : MasterCB(k)
  <2>1. PICK k \in Number : MasterCB(k)
    BY <1>9
  <2>2. UNCHANGED <<got, toKernel>>
    BY <2>1 DEF MasterCB, kernelVars
  <2>3. CASE m_packets' = m_packets
    BY <1>6, <2>2, <2>3
  <2>4. CASE stage' = [stage EXCEPT ![k] = "answered"] /\ Reply(k)
    <3> DEFINE header == SubSeq(ReplyUnits(k), 1, HDR_SIZE)
               data == SubSeq(ReplyUnits(k), HDR_SIZE + 1, Len(ReplyUnits(k)))
               packets == IF issued[k] = "READ" THEN <<header, data>> ELSE <<header>>
    <3>1. m_packets' = m_packets \o packets
      BY <2>4 DEF Reply, Write
    <3>2. /\ header \in Seq(Unit) /\ data \in Seq(Unit)
          /\ ReplyUnits(k) \in Seq(Unit) /\ Len(header) = HDR_SIZE
          /\ \A i \in 1 .. Len(ReplyUnits(k)) : ReplyUnits(k)[i] = UnitOf(k, i)
          /\ header \o data = ReplyUnits(k)
      BY ReplyEffect
    <3> HIDE DEF header, data
    <3>3. PICK h, d \in Seq(Unit) : h = header /\ d = data
      BY <3>2
    <3>4. (\A i \in 1 .. Len(h) : h[i].of = k) /\ (\A i \in 1 .. Len(d) : d[i].of = k)
      <4>1. PICK u \in Seq(Unit) : u = ReplyUnits(k)
        BY <3>2
      <4>2. \A i \in 1 .. Len(u) : u[i].of = k
        <5>1. \A i \in 1 .. Len(u) : u[i] = UnitOf(k, i)
          BY ONLY <3>2, <4>1, Zenon
        <5>2. \A i : UnitOf(k, i).of = k
          BY DEF UnitOf
        <5> QED BY ONLY <5>1, <5>2, Zenon
      <4>3. /\ Len(u) = Len(h) + Len(d) /\ Len(h) \in Nat /\ Len(d) \in Nat
            /\ \A i \in 1 .. Len(h) + Len(d) : u[i] = IF i <= Len(h) THEN h[i] ELSE d[i - Len(h)]
        <5>1. u = h \o d
          BY ONLY <3>2, <3>3, <4>1, Zenon
        <5>2. IsPair(h \o d, h, d)
          BY ONLY TwoParts, h \in Seq(Unit), d \in Seq(Unit), Zenon
        <5>3. IsPair(u, h, d)
          BY ONLY <5>1, <5>2, Zenon
        <5> QED BY <5>3 DEF IsPair
      <4>4. \A i \in 1 .. Len(h) : u[i] = h[i] /\ i \in 1 .. Len(u)
        BY <4>3
      <4>5. ASSUME NEW i \in 1 .. Len(d) PROVE d[i].of = k
        <5>1. Len(h) + i \in 1 .. Len(u) /\ ~(Len(h) + i <= Len(h)) /\ (Len(h) + i) - Len(h) = i
          BY <4>3
        <5>2. u[Len(h) + i] = d[i]
          BY <4>3, <5>1
        <5> QED BY <4>2, <5>1, <5>2
      <4> QED BY <4>2, <4>4, <4>5
    <3>5. stage'[k] = "answered"
      BY <1>0, <2>4
    <3>6. OfAReply(h)' /\ OfAReply(d)'
      BY <3>4, <3>5 DEF OfAReply
    <3>7. PICK r \in Seq(Seq(Unit)) : r = packets /\ \A i \in 1 .. Len(r) : r[i] \in {h, d}
      <4>1. CASE issued[k] = "READ"
        <5>1. packets = <<h, d>>
          BY <3>3, <4>1
        <5> HIDE DEF packets
        <5> QED BY <5>1
      <4>2. CASE issued[k] # "READ"
        <5>1. packets = <<h>>
          BY <3>3, <4>2
        <5> HIDE DEF packets
        <5>2. packets \in Seq(Seq(Unit)) /\ Len(packets) = 1 /\ packets[1] = h
          BY <5>1
        <5>3. \A i \in 1 .. Len(packets) : packets[i] \in {h, d}
          BY <5>2
        <5> QED BY <5>2, <5>3
      <4> QED BY <4>1, <4>2
    <3>8. \A i \in 1 .. Len(r) : OfAReply(r[i])'
      BY <3>6, <3>7 DEF OfAReply
    <3>9. \A j \in 1 .. Len(m_packets') : OfAReply(m_packets[j])'
      <4>1. /\ Len(m_packets') = Len(q) + Len(r) /\ Len(q) \in Nat /\ Len(r) \in Nat
            /\ \A i \in 1 .. Len(q) + Len(r) : m_packets'[i] = IF i <= Len(q) THEN q[i] ELSE r[i - Len(q)]
        BY <1>0, <1>1, <3>1, <3>7, ConcatProperties
      <4>2. ASSUME NEW j \in 1 .. Len(m_packets') PROVE OfAReply(m_packets[j])'
        <5>1. CASE j <= Len(q)
          <6>1. m_packets'[j] = q[j] /\ j \in 1 .. Len(q)
            BY <4>1, <5>1
          <6> QED BY <1>2, <6>1 DEF OfAReply
        <5>2. CASE ~(j <= Len(q))
          <6>1. m_packets'[j] = r[j - Len(q)] /\ j - Len(q) \in 1 .. Len(r)
            BY <4>1, <5>2
          <6> QED BY <3>8, <6>1 DEF OfAReply
        <5> QED BY <5>1, <5>2
      <4> QED BY <4>2
    <3> QED BY <1>1, <1>3, <1>4, <2>2, <3>9 DEF RepliesOnly
  <2> QED BY <2>1, <2>3, <2>4 DEF MasterCB
<1>10. UNCHANGED <<got, toKernel, m_packets>> \/ KernelReceives \/ (WriteCB /\ ~hungUp)
       \/ \E k \in Number : MasterCB(k)
  <2>1. (\E type \in Type : KernelIssues(type)) => UNCHANGED <<got, toKernel, m_packets>>
    BY DEF KernelIssues, writerVars
  <2>2. KernelSends => UNCHANGED <<got, toKernel, m_packets>>
    BY DEF KernelSends, writerVars
  <2>3. KernelHangsUp => UNCHANGED <<got, toKernel, m_packets>>
    BY DEF KernelHangsUp, writerVars
  <2>4. WorkerThread => UNCHANGED <<got, toKernel, m_packets>>
    BY DEF WorkerThread, EncryptPart, kernelVars, writerVars
  <2>5. MasterHasEvent => UNCHANGED <<got, toKernel, m_packets>>
    BY DEF MasterHasEvent, kernelVars, writerVars
  <2>6. ReactorStep => UNCHANGED <<got, toKernel, m_packets>>
    BY DEF ReactorStep, kernelVars, writerVars
  <2>7. Read => UNCHANGED <<got, toKernel, m_packets>>
    BY DEF Read, kernelVars, writerVars
  <2>8. WriteCB /\ hungUp => UNCHANGED <<got, toKernel, m_packets>>
    BY DEF WriteCB, kernelVars, writerVars
  <2>9. UNCHANGED vars => UNCHANGED <<got, toKernel, m_packets>>
    BY DEF vars, kernelVars, writerVars
  <2> QED BY <2>1, <2>2, <2>3, <2>4, <2>5, <2>6, <2>7, <2>8, <2>9 DEF OsProxyNext, ReactorThread
<1> QED BY <1>6, <1>7, <1>8, <1>9, <1>10

---------------------------------------------------------------------------
(* The block of a write in the reader's buffer *)

\* The kernel waits for a request that the Master has not answered.
LEMMA UnansweredOutstanding ==
    ASSUME StreamInv, RepliesOnly, NEW k \in DOMAIN issued, stage[k] # "answered"
    PROVE  Outstanding(k)
<1>0. issued \in Seq(Type) /\ Len(issued) <= MaxRequests /\ got \in Seq(Unit) /\ OfAReply(got)
  BY DEF StreamInv, OsProxyTypes, RepliesOnly
<1>1. k \in Number
  BY <1>0, Sizes DEF Number
<1>2. PICK u : u = ReplyUnits(k)
  OBVIOUS
<1>3. /\ u \in Seq(Unit) /\ \A i \in 1 .. Len(u) : u[i] = UnitOf(k, i)
      /\ Len(u) = IF issued[k] = "READ" THEN PACKET_SIZE ELSE HDR_SIZE
  BY <1>1, <1>2, ReplyEffect
<1>4. Len(u) \in 1 .. Len(u)
  BY <1>3, Sizes
<1>5. Last(u) = UnitOf(k, Len(u))
  BY <1>3, <1>4 DEF Last
<1>6. Last(u).of = k
  BY <1>5 DEF UnitOf
<1>7. \A i \in DOMAIN got : got[i] # Last(u)
  <2>1. DOMAIN got = 1 .. Len(got)
    BY <1>0
  <2> QED BY <1>0, <1>6, <2>1 DEF OfAReply
<1> QED BY <1>2, <1>7 DEF Outstanding, Range

\* A write of which the kernel waits for the answer, and another: the same.
LEMMA UnansweredWrites ==
    ASSUME StreamInv, RepliesOnly, OneWrite,
           NEW k \in DOMAIN issued, issued[k] = "WRITE", stage[k] # "answered",
           NEW l \in DOMAIN issued, issued[l] = "WRITE", stage[l] # "answered"
    PROVE  k = l
<1>1. Outstanding(k) /\ Outstanding(l)
  BY UnansweredOutstanding
<1> QED BY <1>1 DEF OneWrite

\* While the Master has a write, what is being received is not one.
LEMMA NoSecondWrite ==
    ASSUME StreamInv, RepliesOnly, OneWrite, NEW k \in DOMAIN issued, issued[k] = "WRITE",
           stage[k] \in {"encrypting", "encrypted", "waiting"}, Len(handed) < Len(issued)
    PROVE  SizeOf(Current) = HDR_SIZE
<1>0. /\ issued \in Seq(Type) /\ Len(issued) <= MaxRequests /\ Len(issued) \in Nat
      /\ handed \in Seq(Number) /\ Len(handed) \in Nat
      /\ \A j \in Number : stage[j] # "none" => j \in 1 .. Len(handed)
      /\ DOMAIN issued = 1 .. Len(issued)
  BY DEF StreamInv, OsProxyTypes, MasterInStep
<1>1. k \in Number /\ Current \in DOMAIN issued /\ Current \in Number /\ Current \notin 1 .. Len(handed)
  BY <1>0, Sizes DEF Number, Current
<1>2. stage[Current] # "answered" /\ k # Current
  BY <1>0, <1>1
<1>3. issued[Current] # "WRITE"
  BY <1>1, <1>2, UnansweredWrites
<1> QED BY <1>3 DEF SizeOf

\* Last(ReplyUnits(k)) does not depend on later requests.
LEMMA OutstandingStays ==
    ASSUME StreamInv, NEW type \in Type, KernelIssues(type), NEW k \in DOMAIN issued
    PROVE  Outstanding(k)' => Outstanding(k)
<1>0. issued \in Seq(Type) /\ Len(issued) \in Nat /\ DOMAIN issued = 1 .. Len(issued)
  BY DEF StreamInv, OsProxyTypes
<1>1. issued' = Append(issued, type) /\ got' = got
  BY DEF KernelIssues
<1>2. issued'[k] = issued[k]
  BY <1>0, <1>1, SizesStay
<1>3. ReplyUnits(k)' = ReplyUnits(k)
  BY <1>2 DEF ReplyUnits
<1> QED BY <1>1, <1>3 DEF Outstanding

\* A write is issued when no other is outstanding.
LEMMA NoneOutstanding ==
    ASSUME StreamInv, MaxWrites = 1, KernelIssues("WRITE"), NEW k \in DOMAIN issued,
           issued[k] = "WRITE"
    PROVE  ~Outstanding(k)
<1>0. issued \in Seq(Type) /\ Len(issued) <= MaxRequests /\ Len(issued) \in Nat
  BY DEF StreamInv, OsProxyTypes
<1>1. PICK W : W = {j \in Number : Outstanding(j) /\ issued[j] = "WRITE"}
  OBVIOUS
<1>2. Cardinality(W) < 1
  BY <1>1 DEF KernelIssues
<1>3. IsFiniteSet(Number)
  BY Sizes, FS_Interval DEF Number
<1>4. W \in SUBSET Number
  BY <1>1
<1>5. IsFiniteSet(W)
  BY ONLY <1>3, <1>4, FS_Subset
<1>6. Cardinality(W) \in Nat
  BY ONLY <1>5, FS_CardinalityType
<1>7. Cardinality(W) = 0
  BY <1>2, <1>6
<1>8. W = {}
  BY ONLY <1>5, <1>7, FS_EmptySet
<1>9. k \in Number
  BY <1>0, Sizes DEF Number
<1> QED BY <1>1, <1>8, <1>9

\* The kernel keeps to one write.
LEMMA OneWriteNext ==
    ASSUME StreamInv, MaxWrites = 1, OneWrite, [OsProxyNext]_vars
    PROVE  OneWrite'
<1>0. issued \in Seq(Type) /\ Len(issued) \in Nat /\ DOMAIN issued = 1 .. Len(issued) /\ got \in Seq(Unit)
  BY DEF StreamInv, OsProxyTypes
<1>1. CASE UNCHANGED <<issued, got>>
  BY <1>1 DEF OneWrite, Outstanding, ReplyUnits
<1>2. CASE KernelReceives
  <2>1. issued' = issued /\ got' = Append(got, Head(toKernel)) /\ toKernel # << >> /\ toKernel \in Seq(Unit)
    BY <1>2 DEF KernelReceives, StreamInv, OsProxyTypes
  <2>2. Head(toKernel) \in Unit
    BY <2>1
  <2>3. PICK u \in Unit : u = Head(toKernel)
    BY <2>2
  <2>4. Range(got) \subseteq Range(got')
    <3>1. \A i \in DOMAIN got : i \in DOMAIN got' /\ got'[i] = got[i]
      BY <1>0, <2>1, <2>3, AppendProperties
    <3> QED BY <3>1 DEF Range
  <2>5. \A k : Outstanding(k)' => Outstanding(k)
    BY <2>1, <2>4 DEF Outstanding, ReplyUnits
  <2> QED BY <2>1, <2>5 DEF OneWrite
<1>3. CASE \E type \in Type : KernelIssues(type)
  <2>1. PICK type \in Type : KernelIssues(type)
    BY <1>3
  <2>2. issued' = Append(issued, type)
    BY <2>1 DEF KernelIssues
  <2>3. PICK n \in Nat : n = Len(issued)
    BY <1>0
  <2>4. /\ issued' \in Seq(Type) /\ Len(issued') = n + 1
        /\ \A k \in 1 .. n : issued'[k] = issued[k]
        /\ issued'[n + 1] = type
    BY ONLY <1>0, <2>2, <2>3, SizesStay, type \in Type
  <2>5. DOMAIN issued' = 1 .. n + 1 /\ DOMAIN issued = 1 .. n
    BY <1>0, <2>3, <2>4
  <2>6. \A k \in 1 .. n : Outstanding(k)' => Outstanding(k)
    BY <2>1, <2>5, OutstandingStays
  <2>7. SUFFICES ASSUME NEW k \in 1 .. n + 1, NEW l \in 1 .. n + 1,
                        issued'[k] = "WRITE", issued'[l] = "WRITE", Outstanding(k)', Outstanding(l)'
                 PROVE  k = l
    BY <2>5 DEF OneWrite
  <2>8. \A j \in 1 .. n + 1 : j \in 1 .. n \/ j = n + 1
    BY <2>3
  <2>9. CASE k \in 1 .. n /\ l \in 1 .. n
    BY <2>4, <2>5, <2>6, <2>7, <2>9 DEF OneWrite
  <2>10. CASE type # "WRITE"
    BY <2>4, <2>5, <2>6, <2>7, <2>8, <2>10 DEF OneWrite
  <2>11. CASE type = "WRITE"
    <3>1. \A j \in 1 .. n : issued[j] = "WRITE" => ~Outstanding(j)
      BY <2>1, <2>5, <2>11, NoneOutstanding
    <3>2. \A j \in 1 .. n : ~(issued'[j] = "WRITE" /\ Outstanding(j)')
      BY <2>4, <2>6, <3>1
    <3>3. k \notin 1 .. n /\ l \notin 1 .. n
      BY <2>7, <3>2
    <3> QED BY <2>8, <3>3
  <2> QED BY <2>10, <2>11
<1>4. UNCHANGED <<issued, got>> \/ KernelReceives \/ \E type \in Type : KernelIssues(type)
  <2>1. KernelSends => UNCHANGED <<issued, got>>
    BY DEF KernelSends
  <2>2. KernelHangsUp => UNCHANGED <<issued, got>>
    BY DEF KernelHangsUp
  <2>3. WorkerThread => UNCHANGED <<issued, got>>
    BY DEF WorkerThread, EncryptPart, kernelVars
  <2>4. MasterHasEvent => UNCHANGED <<issued, got>>
    BY DEF MasterHasEvent, kernelVars
  <2>5. ReactorThread => UNCHANGED <<issued, got>>
    BY DEF ReactorThread, ReactorStep, Read, WriteCB, MasterCB, kernelVars
  <2>6. UNCHANGED vars => UNCHANGED <<issued, got>>
    BY DEF vars, kernelVars
  <2> QED BY <2>1, <2>2, <2>3, <2>4, <2>5, <2>6 DEF OsProxyNext
<1> QED BY <1>1, <1>2, <1>3, <1>4

\* What the block's place depends on is as it was.
LEMMA BlockFrame ==
    ASSUME BlockArrives, BlockStays, UNCHANGED <<issued, m_reader, handed, stage, pos>>
    PROVE  BlockArrives' /\ BlockStays'
<1>1. BlockArrives'
  BY DEF BlockArrives, Current, UnitOf
<1>2. BlockStays'
  BY DEF BlockStays, UnitOf, EncryptedUnit
<1> QED BY <1>1, <1>2

\* KernelIssues
LEMMA BlockKernelIssues ==
    ASSUME StreamInv, BlockArrives, BlockStays, NEW type \in Type, KernelIssues(type)
    PROVE  BlockArrives' /\ BlockStays'
<1>0. /\ issued \in Seq(Type) /\ Len(issued) \in Nat /\ Len(handed) <= Len(issued) /\ Len(handed) \in Nat
      /\ \A j \in Number : stage[j] # "none" => j \in 1 .. Len(handed)
      /\ DOMAIN issued = 1 .. Len(issued) /\ Len(issued) < MaxRequests
      /\ stage \in [Number -> Stage]
  BY DEF StreamInv, OsProxyTypes, MasterInStep, ReaderInStep, KernelIssues
<1>1. UNCHANGED <<m_reader, handed, stage, pos>> /\ issued' = Append(issued, type)
  BY DEF KernelIssues, masterVars
<1>2. PICK n \in Nat : n = Len(issued)
  BY <1>0
<1>3. /\ issued' \in Seq(Type) /\ Len(issued') = n + 1
      /\ \A k \in 1 .. n : issued'[k] = issued[k]
  BY ONLY <1>0, <1>1, <1>2, SizesStay, type \in Type
<1>4. DOMAIN issued' = 1 .. n + 1
  BY <1>3
<1>5. n + 1 \in Number /\ stage[n + 1] = "none"
  BY <1>0, <1>2, Sizes DEF Number
<1>6. \A k \in Number : stage[k] = "encrypting" => issued'[k] = "WRITE"
  <2>1. \A k \in Number : stage[k] = "encrypting" => k \in 1 .. n
    BY <1>0, <1>2
  <2> QED BY <1>3, <2>1 DEF BlockStays
<1>7. \A k \in DOMAIN issued' : stage[k] # "none" => k \in DOMAIN issued /\ issued'[k] = issued[k]
  BY <1>0, <1>2, <1>3, <1>4, <1>5
<1>8. BlockArrives'
  BY <1>1 DEF BlockArrives, Current, UnitOf
<1>9. ASSUME NEW k \in DOMAIN issued', issued'[k] = "WRITE",
             stage[k] \in {"encrypting", "encrypted", "waiting"}
      PROVE  /\ stage[k] # "encrypting" => pos[k] = BLOCK_SIZE
             /\ \A i \in 1 .. BLOCK_SIZE :
                      m_reader.cells[HDR_SIZE + i] =
                          IF i <= pos[k] THEN EncryptedUnit(k, HDR_SIZE + i)
                          ELSE UnitOf(k, HDR_SIZE + i)
  <2>1. k \in DOMAIN issued /\ issued[k] = "WRITE"
    BY <1>7, <1>9
  <2> QED BY <1>9, <2>1 DEF BlockStays
<1>10. \A k \in Number : stage[k] = "none" => pos[k] = 0
  BY DEF BlockStays
<1>11. BlockStays'
  BY <1>1, <1>6, <1>9, <1>10 DEF BlockStays, UnitOf, EncryptedUnit
<1> QED BY <1>8, <1>11

\* Encrypting a unit of a request.
LEMMA Toggled ==
    ASSUME NEW k, NEW j, NEW u, u = UnitOf(k, j)
    PROVE  [u EXCEPT !.enc = ~@] = EncryptedUnit(k, j)
<1>1. (~u.enc) = TRUE
  BY DEF UnitOf
<1>2. [u EXCEPT !.enc = ~@] = [u EXCEPT !.enc = TRUE]
  BY <1>1
<1>3. PICK t : t = TRUE
  OBVIOUS
<1>4. [u EXCEPT !.enc = t] = [of |-> k, part |-> j, enc |-> t]
  BY DEF UnitOf
<1> QED BY <1>2, <1>3, <1>4, Zenon DEF EncryptedUnit

\* EncryptPart: the buffer is the block of the only write.
LEMMA BlockEncryptPart ==
    ASSUME StreamInv, RepliesOnly, OneWrite, BlockArrives, BlockStays, NEW k \in Number, EncryptPart(k)
    PROVE  BlockArrives' /\ BlockStays'
<1>0. /\ OsProxyTypes
      /\ issued \in Seq(Type) /\ Len(issued) \in Nat /\ Len(handed) <= Len(issued) /\ Len(handed) \in Nat
      /\ \A j \in Number : stage[j] # "none" => j \in 1 .. Len(handed)
      /\ DOMAIN issued = 1 .. Len(issued) /\ Len(issued) <= MaxRequests
      /\ stage \in [Number -> Stage] /\ pos \in [Number -> 0 .. BLOCK_SIZE] /\ m_reader.count \in Nat
  BY DEF StreamInv, OsProxyTypes, MasterInStep, ReaderInStep
<1>1. UNCHANGED <<issued, handed>> /\ stage[k] = "encrypting"
  BY DEF EncryptPart, kernelVars
<1>2. issued[k] = "WRITE" /\ k \in DOMAIN issued
  BY <1>0, <1>1 DEF BlockStays
<1>3. m_reader.count <= HDR_SIZE
  <2>1. CASE Len(handed) < Len(issued)
    <3>1. SizeOf(Current) = HDR_SIZE
      BY <1>1, <1>2, <2>1, NoSecondWrite
    <3>2. m_reader.count < SizeOf(Current)
      BY <2>1 DEF StreamInv, ReaderInStep
    <3> QED BY <1>0, <3>1, <3>2, Sizes
  <2>2. CASE ~(Len(handed) < Len(issued))
    <3>1. Len(handed) = Len(issued)
      BY <1>0, <2>2
    <3> QED BY <3>1, Sizes DEF StreamInv, ReaderInStep
  <2> QED BY <2>1, <2>2
<1>4. \A l \in DOMAIN issued : issued[l] = "WRITE" /\ stage[l] \in {"encrypting", "encrypted", "waiting"}
                                 => l = k
  BY <1>1, <1>2, UnansweredWrites
<1>5. \A i \in 1 .. BLOCK_SIZE :
         m_reader.cells[HDR_SIZE + i] = IF i <= pos[k] THEN EncryptedUnit(k, HDR_SIZE + i)
                                        ELSE UnitOf(k, HDR_SIZE + i)
  BY <1>1, <1>2 DEF BlockStays
<1>6. CASE pos[k] < BLOCK_SIZE
  <2>1. /\ m_reader' = [m_reader EXCEPT !.cells[HDR_SIZE + pos[k] + 1].enc = ~@]
        /\ pos' = [pos EXCEPT ![k] = @ + 1] /\ stage' = stage
    BY <1>6 DEF EncryptPart
  <2>2. PICK p \in 0 .. BLOCK_SIZE : p = pos[k] /\ p < BLOCK_SIZE
    BY <1>0, <1>6
  <2>3. PICK j \in HDR_SIZE + 1 .. PACKET_SIZE : j = HDR_SIZE + pos[k] + 1 /\ j = HDR_SIZE + (p + 1)
    BY <2>2, Sizes
  <2>4. /\ m_reader'.count = m_reader.count
        /\ m_reader'.cells[j] = [m_reader.cells[j] EXCEPT !.enc = ~@]
        /\ \A i \in 1 .. PACKET_SIZE : i # j => m_reader'.cells[i] = m_reader.cells[i]
    BY <1>0, <2>1, <2>3, EncryptEffect
  <2>5. m_reader.cells[j] = UnitOf(k, j)
    <3>1. p + 1 \in 1 .. BLOCK_SIZE /\ ~(p + 1 <= pos[k])
      BY <2>2, Sizes
    <3> QED BY <1>5, <2>3, <3>1
  <2>6. m_reader'.cells[j] = EncryptedUnit(k, j)
    <3>1. PICK u : u = m_reader.cells[j]
      OBVIOUS
    <3>2. u = UnitOf(k, j)
      BY <2>5, <3>1
    <3>3. [u EXCEPT !.enc = ~@] = EncryptedUnit(k, j)
      BY <3>2, Toggled
    <3> QED BY <2>4, <3>1, <3>3, Zenon
  <2>7. pos'[k] = p + 1 /\ \A l \in Number : l # k => pos'[l] = pos[l]
    BY <1>0, <2>1, <2>2
  <2>8. ASSUME NEW i \in 1 .. BLOCK_SIZE
        PROVE  m_reader'.cells[HDR_SIZE + i] = IF i <= pos'[k] THEN EncryptedUnit(k, HDR_SIZE + i)
                                               ELSE UnitOf(k, HDR_SIZE + i)
    <3>1. CASE i = p + 1
      <4>1. HDR_SIZE + i = j /\ i <= pos'[k]
        BY <2>2, <2>3, <2>7, <3>1
      <4> QED BY <2>6, <4>1
    <3>2. CASE i # p + 1
      <4>1. HDR_SIZE + i \in 1 .. PACKET_SIZE /\ HDR_SIZE + i # j /\ (i <= pos'[k] <=> i <= pos[k])
        BY <2>2, <2>3, <2>7, <3>2, Sizes
      <4>2. m_reader'.cells[HDR_SIZE + i] = m_reader.cells[HDR_SIZE + i]
        BY <2>4, <4>1
      <4> QED BY <1>5, <4>1, <4>2
    <3> QED BY <3>1, <3>2
  <2>9. BlockArrives'
    <3>1. \A i \in HDR_SIZE + 1 .. m_reader'.count : FALSE
      BY <1>0, <1>3, <2>4, Sizes
    <3> QED BY <3>1 DEF BlockArrives
  <2>10. \A l \in Number : stage[l] = "none" => pos'[l] = 0
    BY <1>1, <2>7 DEF BlockStays
  <2>11. \A l \in Number : stage[l] = "encrypting" => issued[l] = "WRITE"
    BY DEF BlockStays
  <2>12. BlockStays'
    BY <1>1, <1>4, <2>1, <2>8, <2>10, <2>11 DEF BlockStays, UnitOf, EncryptedUnit
  <2> QED BY <2>9, <2>12
<1>7. CASE ~(pos[k] < BLOCK_SIZE)
  <2>1. stage' = [stage EXCEPT ![k] = "encrypted"] /\ UNCHANGED <<m_reader, pos>>
    BY <1>7 DEF EncryptPart
  <2>2. pos[k] = BLOCK_SIZE
    BY <1>0, <1>7, Sizes
  <2>3. \A l \in Number : stage'[l] = IF l = k THEN "encrypted" ELSE stage[l]
    BY <1>0, <2>1
  <2>4. BlockArrives'
    BY <1>1, <2>1 DEF BlockArrives, Current, UnitOf
  <2>5. ASSUME NEW l \in DOMAIN issued, issued[l] = "WRITE",
               stage'[l] \in {"encrypting", "encrypted", "waiting"}
        PROVE  l = k
    <3>1. l \in Number
      BY <1>0, Sizes DEF Number
    <3> QED BY <1>4, <2>3, <2>5, <3>1
  <2>6. \A l \in Number : stage'[l] = "none" => pos[l] = 0
    BY <2>3 DEF BlockStays
  <2>7. \A l \in Number : stage'[l] = "encrypting" => issued[l] = "WRITE"
    BY <2>3 DEF BlockStays
  <2>8. BlockStays'
    BY <1>1, <1>5, <2>1, <2>2, <2>5, <2>6, <2>7 DEF BlockStays, UnitOf, EncryptedUnit
  <2> QED BY <2>4, <2>8
<1> QED BY <1>6, <1>7

\* MasterCB
LEMMA BlockMasterCB ==
    ASSUME StreamInv, BlockArrives, BlockStays, NEW k \in Number, MasterCB(k)
    PROVE  BlockArrives' /\ BlockStays'
<1>0. stage \in [Number -> Stage] /\ issued \in Seq(Type) /\ Len(issued) <= MaxRequests
  BY DEF StreamInv, OsProxyTypes
<1>1. UNCHANGED <<issued, m_reader, handed, pos>>
  BY DEF MasterCB, kernelVars
<1>2. \/ stage[k] = "encrypted" /\ stage' = [stage EXCEPT ![k] = "waiting"]
      \/ stage[k] = "waiting" /\ stage' = [stage EXCEPT ![k] = "answered"]
  BY DEF MasterCB
<1>3. \A l \in Number : /\ stage'[l] = "none" => stage[l] = "none"
                        /\ stage'[l] = "encrypting" => stage[l] = "encrypting"
                        /\ stage'[l] = "encrypted" => stage[l] = "encrypted"
                        /\ stage'[l] = "waiting" => stage[l] \in {"encrypted", "waiting"}
  BY <1>0, <1>2
<1>4. \A l \in DOMAIN issued : l \in Number
  BY <1>0, Sizes DEF Number
<1>5. BlockArrives'
  BY <1>1 DEF BlockArrives, Current, UnitOf
<1>6. \A l \in DOMAIN issued : stage'[l] \in {"encrypting", "encrypted", "waiting"} =>
         stage[l] \in {"encrypting", "encrypted", "waiting"} /\ (stage'[l] # "encrypting" => stage[l] # "encrypting")
  BY <1>3, <1>4
<1>7. \A l \in Number : stage'[l] = "none" => pos[l] = 0
  BY <1>3 DEF BlockStays
<1>8. \A l \in Number : stage'[l] = "encrypting" => issued[l] = "WRITE"
  BY <1>3 DEF BlockStays
<1>9. ASSUME NEW l \in DOMAIN issued, issued[l] = "WRITE",
             stage'[l] \in {"encrypting", "encrypted", "waiting"}
      PROVE  /\ stage'[l] # "encrypting" => pos[l] = BLOCK_SIZE
             /\ \A i \in 1 .. BLOCK_SIZE :
                      m_reader.cells[HDR_SIZE + i] =
                          IF i <= pos[l] THEN EncryptedUnit(l, HDR_SIZE + i)
                          ELSE UnitOf(l, HDR_SIZE + i)
  BY <1>6, <1>9 DEF BlockStays
<1>10. BlockStays'
  BY <1>1, <1>7, <1>8, <1>9 DEF BlockStays, UnitOf, EncryptedUnit
<1> QED BY <1>5, <1>10

\* Read: a write's block arrives when no other write is in the buffer, and other
\* requests are shorter than its place.
LEMMA BlockRead ==
    ASSUME StreamInv, RepliesOnly, OneWrite, BlockArrives, BlockStays, Read
    PROVE  BlockArrives' /\ BlockStays'
<1>0. /\ OsProxyTypes /\ InSequence /\ ReaderInStep /\ MasterInStep
  BY DEF StreamInv
<1>1. UNCHANGED <<issued, pos, kernelOut>>
  BY DEF Read, kernelVars
<1>2. PICK p : \E m \in Nat :
             /\ Received(p, TheReader, Current, m)
             /\ Behind(Coming', Coming, m)
             /\ toVdr' \in Seq(Unit)
             /\ m_reader'.cells = p.cells /\ m_reader'.size = p.size
             /\ m_reader' \in [cells : Seq(Unit), size : {HDR_SIZE, PACKET_SIZE}, count : Nat]
             /\ \/ p.count = SizeOf(Current) /\ m_reader'.count = 0 /\ OnPacketCB(Current)
                \/ /\ p.count < SizeOf(Current) /\ m_reader'.count = p.count
                   /\ UNCHANGED <<handed, stage, process>>
  BY ReadEffect
<1>3. PICK m \in Nat :
             /\ Received(p, TheReader, Current, m)
             /\ Behind(Coming', Coming, m)
             /\ m_reader'.cells = p.cells
             /\ \/ p.count = SizeOf(Current) /\ m_reader'.count = 0 /\ OnPacketCB(Current)
                \/ /\ p.count < SizeOf(Current) /\ m_reader'.count = p.count
                   /\ UNCHANGED <<handed, stage, process>>
  BY <1>2
<1>4. PICK k, s, t : k = Current /\ s = Coming /\ t = Coming'
  OBVIOUS
<1>5. /\ s \in Seq(Unit) /\ issued \in Seq(Type) /\ handed \in Seq(Number) /\ Len(handed) \in Nat
      /\ Len(issued) \in Nat /\ k \in Nat /\ k = Len(handed) + 1
      /\ DOMAIN issued = 1 .. Len(issued) /\ Len(issued) <= MaxRequests
      /\ stage \in [Number -> Stage]
  <2>1. toVdr \in Seq(Unit) /\ kernelOut \in Seq(Unit) /\ issued \in Seq(Type) /\ handed \in Seq(Number)
        /\ Len(issued) <= MaxRequests /\ stage \in [Number -> Stage]
    BY <1>0 DEF OsProxyTypes
  <2>2. s \in Seq(Unit)
    BY <1>4, <2>1, ConcatProperties DEF Coming
  <2> QED BY <1>4, <2>1, <2>2 DEF Current
<1>6. m_reader.count \in Nat
  BY <1>0 DEF OsProxyTypes
<1>7. PICK c \in Nat : c = m_reader.count
  BY <1>6
<1>8. /\ p.count = c + m
      /\ \A i \in HDR_SIZE + 1 .. PACKET_SIZE :
           i <= p.count => p.cells[i] = IF i <= c THEN m_reader.cells[i] ELSE UnitOf(k, i)
      /\ \A i \in HDR_SIZE + 1 .. PACKET_SIZE :
           m = 0 \/ SizeOf(k) = HDR_SIZE => p.cells[i] = m_reader.cells[i]
  BY <1>3, <1>4, <1>7 DEF Received, TheReader
<1>9. /\ Len(handed) <= Len(issued)
      /\ Len(handed) = Len(issued) => s = << >> /\ c = 0
      /\ Len(handed) < Len(issued) => s # << >> /\ s[1] = UnitOf(k, c + 1)
  BY <1>0, <1>4, <1>7 DEF ReaderInStep
<1>10. Behind(t, s, m)
  BY <1>3, <1>4
<1>11. Len(handed) = Len(issued) => m = 0 /\ c = 0
  BY <1>5, <1>9, <1>10 DEF Behind
<1>12. ASSUME NEW i \in HDR_SIZE + 1 .. PACKET_SIZE, i <= p.count
       PROVE  m_reader'.cells[i] = UnitOf(k, i)
  <2>1. CASE i <= c
    <3>1. i \in HDR_SIZE + 1 .. m_reader.count
      BY <1>7, <2>1, Sizes
    <3>2. m_reader.cells[i] = UnitOf(k, i)
      BY <1>4, <3>1 DEF BlockArrives
    <3> QED BY <1>3, <1>8, <1>12, <2>1, <3>2
  <2>2. CASE ~(i <= c)
    BY <1>3, <1>8, <1>12, <2>2
  <2> QED BY <2>1, <2>2
<1>13. ASSUME NEW l \in DOMAIN issued, issued[l] = "WRITE",
              stage[l] \in {"encrypting", "encrypted", "waiting"}
       PROVE  \A i \in 1 .. BLOCK_SIZE : m_reader'.cells[HDR_SIZE + i] = m_reader.cells[HDR_SIZE + i]
  <2>1. m = 0 \/ SizeOf(k) = HDR_SIZE
    <3>1. CASE Len(handed) < Len(issued)
      BY <1>4, <1>13, <3>1, NoSecondWrite
    <3>2. CASE ~(Len(handed) < Len(issued))
      BY <1>5, <1>9, <1>11, <3>2
    <3> QED BY <3>1, <3>2
  <2>2. \A i \in 1 .. BLOCK_SIZE : HDR_SIZE + i \in HDR_SIZE + 1 .. PACKET_SIZE
    BY Sizes
  <2> QED BY <1>3, <1>8, <2>1, <2>2
<1>14. \A l \in DOMAIN issued : l \in Number
  BY <1>5, Sizes DEF Number
<1>15. SizeOf(k) \in Nat /\ SizeOf(k) <= PACKET_SIZE /\ HDR_SIZE <= SizeOf(k) /\ HDR_SIZE > 0
  BY Sizes DEF SizeOf
<1>16. CASE p.count < SizeOf(k) /\ m_reader'.count = p.count /\ UNCHANGED <<handed, stage>>
  <2>1. Current' = k
    BY <1>4, <1>16 DEF Current
  <2>2. BlockArrives'
    <3>1. \A i \in HDR_SIZE + 1 .. m_reader'.count : i \in HDR_SIZE + 1 .. PACKET_SIZE /\ i <= p.count
      BY <1>8, <1>15, <1>16, Sizes
    <3>2. \A i \in HDR_SIZE + 1 .. m_reader'.count : m_reader'.cells[i] = UnitOf(k, i)
      BY <1>12, <3>1
    <3> QED BY <2>1, <3>2 DEF BlockArrives, UnitOf
  <2>3. ASSUME NEW l \in DOMAIN issued, issued[l] = "WRITE",
               stage[l] \in {"encrypting", "encrypted", "waiting"}
        PROVE  /\ stage[l] # "encrypting" => pos[l] = BLOCK_SIZE
               /\ \A i \in 1 .. BLOCK_SIZE :
                      m_reader'.cells[HDR_SIZE + i] =
                          IF i <= pos[l] THEN EncryptedUnit(l, HDR_SIZE + i)
                          ELSE UnitOf(l, HDR_SIZE + i)
    BY <1>13, <2>3 DEF BlockStays
  <2>4. /\ \A l \in Number : stage[l] = "none" => pos[l] = 0
        /\ \A l \in Number : stage[l] = "encrypting" => issued[l] = "WRITE"
    BY DEF BlockStays
  <2>5. BlockStays'
    BY <1>1, <1>16, <2>3, <2>4 DEF BlockStays, UnitOf, EncryptedUnit
  <2> QED BY <2>2, <2>5
<1>17. CASE p.count = SizeOf(k) /\ m_reader'.count = 0 /\ OnPacketCB(k)
  <2>1. Len(handed) < Len(issued)
    <3>1. SUFFICES ASSUME Len(handed) = Len(issued) PROVE FALSE
      BY <1>5, <1>9
    <3>2. p.count = 0
      BY <1>8, <1>11, <3>1
    <3> QED BY <1>15, <1>17, <3>2, Sizes
  <2>2. k \in DOMAIN issued /\ k \in Number /\ k \notin 1 .. Len(handed)
    BY <1>5, <1>14, <2>1
  <2>3. stage[k] = "none" /\ pos[k] = 0
    BY <1>0, <2>2 DEF MasterInStep, BlockStays
  <2>4. stage' = [stage EXCEPT ![k] = IF issued[k] = "READ" THEN "waiting"
                       ELSE IF issued[k] = "WRITE" THEN "encrypting" ELSE "none"]
    BY <1>17 DEF OnPacketCB
  <2>5. /\ \A l \in Number : l # k => stage'[l] = stage[l]
        /\ issued[k] = "WRITE" => stage'[k] = "encrypting"
        /\ stage'[k] = "encrypting" => issued[k] = "WRITE"
    BY <1>5, <2>2, <2>4
  <2>6. BlockArrives'
    <3>1. \A i \in HDR_SIZE + 1 .. m_reader'.count : FALSE
      BY <1>17, Sizes
    <3> QED BY <3>1 DEF BlockArrives
  <2>7. ASSUME NEW l \in DOMAIN issued, issued[l] = "WRITE",
               stage'[l] \in {"encrypting", "encrypted", "waiting"}
        PROVE  /\ stage'[l] # "encrypting" => pos[l] = BLOCK_SIZE
               /\ \A i \in 1 .. BLOCK_SIZE :
                      m_reader'.cells[HDR_SIZE + i] =
                          IF i <= pos[l] THEN EncryptedUnit(l, HDR_SIZE + i)
                          ELSE UnitOf(l, HDR_SIZE + i)
    <3>1. CASE l = k
      <4>1. p.count = PACKET_SIZE
        BY <1>17, <2>7, <3>1 DEF SizeOf
      <4>2. \A i \in 1 .. BLOCK_SIZE :
               HDR_SIZE + i \in HDR_SIZE + 1 .. PACKET_SIZE /\ HDR_SIZE + i <= p.count /\ ~(i <= 0)
        BY <4>1, Sizes
      <4>3. \A i \in 1 .. BLOCK_SIZE : m_reader'.cells[HDR_SIZE + i] = UnitOf(k, HDR_SIZE + i)
        BY <1>12, <4>2
      <4> QED BY <2>3, <2>5, <2>7, <3>1, <4>2, <4>3
    <3>2. CASE l # k
      <4>1. stage[l] = stage'[l]
        BY <1>14, <2>5, <3>2
      <4>2. stage[l] \in {"encrypting", "encrypted", "waiting"}
        BY <2>7, <4>1
      <4>3. \A i \in 1 .. BLOCK_SIZE : m_reader'.cells[HDR_SIZE + i] = m_reader.cells[HDR_SIZE + i]
        BY <1>13, <2>7, <4>2
      <4> QED BY <2>7, <4>1, <4>2, <4>3 DEF BlockStays
    <3> QED BY <3>1, <3>2
  <2>8. \A l \in Number : stage'[l] = "none" => pos[l] = 0
    BY <2>3, <2>5 DEF BlockStays
  <2>9. \A l \in Number : stage'[l] = "encrypting" => issued[l] = "WRITE"
    BY <2>5 DEF BlockStays
  <2>10. BlockStays'
    BY <1>1, <2>7, <2>8, <2>9 DEF BlockStays, UnitOf, EncryptedUnit
  <2> QED BY <2>6, <2>10
<1> QED BY <1>3, <1>4, <1>16, <1>17

\* The buffer invariant holds at first.
LEMMA BufferInit ==
    ASSUME OsProxyInit
    PROVE  BufferInv
<1>1. StreamInv
  BY StreamInit
<1>2. /\ issued = << >> /\ got = << >> /\ toKernel = << >> /\ m_packets = << >>
      /\ m_reader.count = 0
      /\ stage = [k \in Number |-> "none"] /\ pos = [k \in Number |-> 0]
  BY DEF OsProxyInit
<1>3. RepliesOnly
  BY <1>2 DEF RepliesOnly, OfAReply
<1>4. \A k : k \notin DOMAIN issued
  BY <1>2
<1>5. OneWrite
  BY <1>4 DEF OneWrite
<1>6. BlockArrives
  <2>1. \A i \in HDR_SIZE + 1 .. m_reader.count : FALSE
    BY <1>2, Sizes
  <2> QED BY <2>1 DEF BlockArrives
<1>7. BlockStays
  BY <1>2, <1>4 DEF BlockStays
<1> QED BY <1>1, <1>3, <1>5, <1>6, <1>7 DEF BufferInv

\* Every step keeps the buffer invariant.
LEMMA BufferNext ==
    ASSUME MaxWrites = 1, BufferInv, [OsProxyNext]_vars
    PROVE  BufferInv'
<1>0. StreamInv /\ RepliesOnly /\ OneWrite /\ BlockArrives /\ BlockStays
  BY DEF BufferInv
<1>1. StreamInv'
  BY <1>0, StreamNext
<1>2. RepliesOnly'
  BY <1>0, RepliesNext
<1>3. OneWrite'
  BY <1>0, OneWriteNext
<1>4. BlockArrives' /\ BlockStays'
  <2>1. CASE UNCHANGED <<issued, m_reader, handed, stage, pos>>
    BY <1>0, <2>1, BlockFrame
  <2>2. CASE \E type \in Type : KernelIssues(type)
    BY <1>0, <2>2, BlockKernelIssues
  <2>3. CASE \E k \in Number : EncryptPart(k)
    BY <1>0, <2>3, BlockEncryptPart
  <2>4. CASE \E k \in Number : MasterCB(k)
    BY <1>0, <2>4, BlockMasterCB
  <2>5. CASE Read
    BY <1>0, <2>5, BlockRead
  <2>6. KernelSends \/ KernelReceives \/ KernelHangsUp \/ MasterHasEvent \/ ReactorStep \/ WriteCB
          \/ UNCHANGED vars
        => UNCHANGED <<issued, m_reader, handed, stage, pos>>
    <3>1. KernelSends => UNCHANGED <<issued, m_reader, handed, stage, pos>>
      BY DEF KernelSends, masterVars
    <3>2. KernelReceives => UNCHANGED <<issued, m_reader, handed, stage, pos>>
      BY DEF KernelReceives, masterVars
    <3>3. KernelHangsUp => UNCHANGED <<issued, m_reader, handed, stage, pos>>
      BY DEF KernelHangsUp, masterVars
    <3>4. MasterHasEvent => UNCHANGED <<issued, m_reader, handed, stage, pos>>
      BY DEF MasterHasEvent, masterVars, kernelVars
    <3>5. ReactorStep => UNCHANGED <<issued, m_reader, handed, stage, pos>>
      BY DEF ReactorStep, masterVars, kernelVars
    <3>6. WriteCB => UNCHANGED <<issued, m_reader, handed, stage, pos>>
      BY DEF WriteCB, masterVars, kernelVars
    <3>7. UNCHANGED vars => UNCHANGED <<issued, m_reader, handed, stage, pos>>
      BY DEF vars, masterVars, kernelVars
    <3> QED BY <3>1, <3>2, <3>3, <3>4, <3>5, <3>6, <3>7
  <2> QED BY <2>1, <2>2, <2>3, <2>4, <2>5, <2>6 DEF OsProxyNext, WorkerThread, ReactorThread
<1> QED BY <1>1, <1>2, <1>3, <1>4 DEF BufferInv

\* OsProxy hands the Master a pointer into TcpReader's own buffer.  With one write
\* outstanding at a time the block stays there, whole and encrypted, from its
\* encryption to its answer, although the buffer is resized and filled for the
\* reads that come meanwhile.
THEOREM BufferKept ==
    ASSUME MaxWrites = 1
    PROVE  OsProxySpec => []WriteStaysInTheBuffer
<1>1. OsProxyInit => BufferInv
  BY BufferInit
<1>2. BufferInv /\ [OsProxyNext]_vars => BufferInv'
  BY BufferNext
<1>3. BufferInv => WriteStaysInTheBuffer
  <2>1. SUFFICES ASSUME BufferInv, NEW k \in DOMAIN issued, issued[k] = "WRITE",
                        stage[k] \in {"encrypted", "waiting"}, NEW i \in 1 .. BLOCK_SIZE
                 PROVE  m_reader.cells[HDR_SIZE + i] = EncryptedUnit(k, HDR_SIZE + i)
    BY DEF WriteStaysInTheBuffer, EncryptedUnit
  <2>2. pos[k] = BLOCK_SIZE
    BY <2>1 DEF BufferInv, BlockStays
  <2>3. i <= pos[k]
    BY <2>2, Sizes
  <2> QED BY <2>1, <2>3 DEF BufferInv, BlockStays
<1> QED BY <1>1, <1>2, <1>3, PTL DEF OsProxySpec

---------------------------------------------------------------------------
(* Packets after one another *)

\* f is what the first packets make, one packet more at a time.
Joins(f, s, n) == f = [i \in 1 .. n |-> IF i = 1 THEN s[i] ELSE f[i - 1] \o s[i]]

\* There is such a function up to every length.
LEMMA JoinsExist ==
    ASSUME NEW s, NEW n \in Nat
    PROVE  \E f : Joins(f, s, n)
<1>1. SUFFICES ASSUME ~\E f : Joins(f, s, n) PROVE FALSE
  OBVIOUS
<1>2. PICK D : D = {d \in Nat : ~\E f : Joins(f, s, d)}
  OBVIOUS
<1>3. D \subseteq Nat /\ D # {}
  BY <1>1, <1>2
<1>4. PICK d \in D : \A e \in D : d <= e
  BY <1>3, LeastOf
<1>5. d # 0
  <2>1. SUFFICES ASSUME d = 0 PROVE FALSE
    OBVIOUS
  <2>2. PICK f : f = [i \in 1 .. 0 |-> 0]
    OBVIOUS
  <2>3. f = [i \in 1 .. 0 |-> IF i = 1 THEN s[i] ELSE f[i - 1] \o s[i]]
    BY <2>2
  <2>4. Joins(f, s, 0)
    BY <2>3 DEF Joins
  <2> QED BY <1>2, <1>4, <2>1, <2>4
<1>6. PICK c \in Nat : d = c + 1
  BY <1>3, <1>5
<1>7. c \notin D
  BY <1>3, <1>4, <1>6
<1>8. PICK f : Joins(f, s, c)
  BY <1>2, <1>7
<1>9. PICK g : g = [i \in 1 .. d |-> IF i = d THEN (IF i = 1 THEN s[i] ELSE f[i - 1] \o s[i]) ELSE f[i]]
  OBVIOUS
<1>10. f = [i \in 1 .. c |-> IF i = 1 THEN s[i] ELSE f[i - 1] \o s[i]]
  BY <1>8 DEF Joins
<1>11. ASSUME NEW i \in 1 .. d
       PROVE  g[i] = IF i = 1 THEN s[i] ELSE g[i - 1] \o s[i]
  <2>1. i # 1 => i - 1 \in 1 .. d /\ i - 1 # d
    BY <1>6
  <2>2. i # 1 => g[i - 1] = f[i - 1]
    BY <1>9, <2>1
  <2>3. CASE i = d
    BY <1>9, <2>2, <2>3
  <2>4. CASE i # d
    <3>1. i \in 1 .. c
      BY <1>6, <2>4
    <3>2. f[i] = IF i = 1 THEN s[i] ELSE f[i - 1] \o s[i]
      BY <1>10, <3>1
    <3>3. g[i] = f[i]
      BY <1>9, <2>4
    <3> QED BY <2>2, <3>2, <3>3
  <2> QED BY <2>3, <2>4
<1>12. PICK h : h = [i \in 1 .. d |-> IF i = 1 THEN s[i] ELSE g[i - 1] \o s[i]]
  OBVIOUS
<1>13. g = h
  BY <1>9, <1>11, <1>12
<1>14. Joins(g, s, d)
  BY <1>12, <1>13 DEF Joins
<1> QED BY <1>2, <1>4, <1>14

\* FlattenSeq takes the last value of it.
LEMMA Flattened ==
    ASSUME NEW s \in Seq(Seq(Unit)), Len(s) # 0
    PROVE  \E f : Joins(f, s, Len(s)) /\ FlattenSeq(s) = f[Len(s)]
<1>1. PICK n \in Nat : n = Len(s)
  OBVIOUS
<1>2. PICK g : g = CHOOSE f : f = [i \in 1 .. n |-> IF i = 1 THEN s[i] ELSE f[i - 1] \o s[i]]
  OBVIOUS
<1>3. \E f : f = [i \in 1 .. n |-> IF i = 1 THEN s[i] ELSE f[i - 1] \o s[i]]
  BY JoinsExist DEF Joins
<1>4. g = [i \in 1 .. n |-> IF i = 1 THEN s[i] ELSE g[i - 1] \o s[i]]
  BY <1>2, <1>3
<1>5. FlattenSeq(s) = LET f == CHOOSE f : f = [i \in 1 .. Len(s) |-> IF i = 1 THEN s[i] ELSE f[i - 1] \o s[i]]
                      IN  f[Len(s)]
  BY DEF FlattenSeq
<1>6. FlattenSeq(s) = g[n]
  BY <1>1, <1>2, <1>5
<1> QED BY <1>1, <1>4, <1>6 DEF Joins

\* What the function's values are.
LEMMA JoinsSteps ==
    ASSUME NEW s \in Seq(Seq(Unit)), NEW n \in Nat, n <= Len(s), NEW f, Joins(f, s, n)
    PROVE  /\ \A i \in 1 .. n : f[i] = IF i = 1 THEN s[i] ELSE f[i - 1] \o s[i]
           /\ \A i \in 1 .. n : f[i] \in Seq(Unit)
<1>1. f = [i \in 1 .. n |-> IF i = 1 THEN s[i] ELSE f[i - 1] \o s[i]]
  BY DEF Joins
<1>2. \A i \in 1 .. n : f[i] = IF i = 1 THEN s[i] ELSE f[i - 1] \o s[i]
  BY <1>1
<1>3. \A i \in 1 .. n : s[i] \in Seq(Unit)
  BY ElementOfSeq
<1>4. ASSUME NEW j \in 1 .. n, f[j] \notin Seq(Unit) PROVE FALSE
  <2>1. PICK D : D = {d \in 1 .. n : f[d] \notin Seq(Unit)}
    OBVIOUS
  <2>2. D \subseteq Nat /\ D # {}
    BY <1>4, <2>1
  <2>3. PICK d \in D : \A e \in D : d <= e
    BY <2>2, LeastOf
  <2>4. d \in 1 .. n /\ f[d] \notin Seq(Unit)
    BY <2>1
  <2>5. d # 1
    BY <1>2, <1>3, <2>4
  <2>6. PICK c \in 1 .. n : c = d - 1
    BY <2>4, <2>5
  <2>7. c \notin D
    BY <2>3, <2>4, <2>6
  <2>8. f[c] \in Seq(Unit) /\ s[d] \in Seq(Unit)
    BY <1>3, <2>1, <2>4, <2>7
  <2>9. f[d] = f[c] \o s[d]
    BY <1>2, <2>4, <2>5, <2>6
  <2> QED BY <2>4, <2>8, <2>9, ConcatProperties
<1> QED BY <1>2, <1>4

\* No packets.
LEMMA FlattenNone == FlattenSeq(<< >>) = << >>
BY DEF FlattenSeq

\* What packets make is a sequence of units.
LEMMA FlattenType ==
    ASSUME NEW s \in Seq(Seq(Unit))
    PROVE  FlattenSeq(s) \in Seq(Unit)
<1>1. CASE Len(s) = 0
  <2>1. s = << >>
    BY <1>1
  <2>2. FlattenSeq(s) = << >>
    BY <2>1, FlattenNone
  <2> QED BY <2>2, EmptySeq
<1>2. CASE Len(s) # 0
  <2>1. PICK n \in Nat : n = Len(s) /\ n \in 1 .. n
    BY <1>2
  <2>2. PICK f : Joins(f, s, n) /\ FlattenSeq(s) = f[n]
    BY <1>2, <2>1, Flattened
  <2> QED BY <2>1, <2>2, JoinsSteps
<1> QED BY <1>1, <1>2

\* One packet more.
LEMMA FlattenAppend ==
    ASSUME NEW s \in Seq(Seq(Unit)), NEW p \in Seq(Unit)
    PROVE  FlattenSeq(Append(s, p)) = FlattenSeq(s) \o p
<1>1. PICK n \in Nat : n = Len(s)
  OBVIOUS
<1>2. PICK t \in Seq(Seq(Unit)) : t = Append(s, p)
  BY AppendProperties
<1>3. Len(t) = n + 1 /\ (\A i \in 1 .. n : t[i] = s[i]) /\ t[n + 1] = p
  BY <1>1, <1>2, AppendProperties
<1>4. Len(t) # 0 /\ n + 1 \in Nat /\ n + 1 <= Len(t)
  BY <1>3
<1>5. PICK g : Joins(g, t, n + 1) /\ FlattenSeq(t) = g[n + 1]
  BY <1>3, <1>4, Flattened
<1>6. \A i \in 1 .. n + 1 : g[i] = IF i = 1 THEN t[i] ELSE g[i - 1] \o t[i]
  BY <1>4, <1>5, JoinsSteps
<1>7. CASE n = 0
  <2>1. s = << >>
    <3>1. Len(s) = 0
      BY <1>1, <1>7
    <3> QED BY <3>1
  <2>2. FlattenSeq(t) = p
    BY <1>3, <1>5, <1>6, <1>7
  <2> QED BY <1>2, <2>1, <2>2, FlattenNone, ConcatEmptySeq
<1>8. CASE n # 0
  <2>1. PICK f : Joins(f, s, n) /\ FlattenSeq(s) = f[n]
    BY <1>1, <1>8, Flattened
  <2>2. \A i \in 1 .. n : f[i] = IF i = 1 THEN s[i] ELSE f[i - 1] \o s[i]
    <3>1. n <= Len(s)
      BY <1>1
    <3> QED BY <2>1, <3>1, JoinsSteps
  <2>3. ASSUME NEW j \in 1 .. n, g[j] # f[j] PROVE FALSE
    <3>1. PICK D : D = {d \in 1 .. n : g[d] # f[d]}
      OBVIOUS
    <3>2. D \subseteq Nat /\ D # {}
      <4>1. j \in D
        BY <2>3, <3>1, Zenon
      <4>2. \A d \in 1 .. n : d \in Nat
        OBVIOUS
      <4> QED BY <3>1, <4>1, <4>2, Zenon
    <3>3. PICK d \in D : \A e \in D : d <= e
      BY <3>2, LeastOf
    <3>4. d \in 1 .. n /\ d \in 1 .. n + 1 /\ g[d] # f[d] /\ t[d] = s[d]
      BY <1>3, <3>1
    <3>5. d # 1
      BY <1>6, <2>2, <3>4
    <3>6. PICK c \in 1 .. n : c = d - 1
      BY <3>4, <3>5
    <3>7. c \notin D
      BY <3>3, <3>4, <3>6
    <3>8. g[c] = f[c]
      BY <3>1, <3>7
    <3>9. g[d] = g[c] \o t[d] /\ f[d] = f[c] \o s[d]
      BY <1>6, <2>2, <3>4, <3>5, <3>6
    <3> QED BY <3>4, <3>8, <3>9
  <2>4. g[n] = f[n]
    <3>1. n \in 1 .. n
      BY <1>8
    <3> QED BY <2>3, <3>1
  <2>5. g[n + 1] = g[n] \o t[n + 1]
    <3>1. n + 1 \in 1 .. n + 1 /\ n + 1 # 1 /\ (n + 1) - 1 = n
      BY <1>8
    <3> QED BY <1>6, <3>1
  <2> QED BY <1>2, <1>3, <1>5, <2>1, <2>4, <2>5
<1> QED BY <1>7, <1>8

\* The first packet and the others.
LEMMA FlattenFirst ==
    ASSUME NEW s \in Seq(Seq(Unit)), Len(s) # 0
    PROVE  FlattenSeq(s) = s[1] \o FlattenSeq(Tail(s))
<1>1. PICK n \in Nat : n = Len(s) /\ n >= 1
  OBVIOUS
<1>2. PICK t : t = Tail(s)
  OBVIOUS
<1>3. PICK m \in Nat : n = m + 1
  BY <1>1
<1>4. t \in Seq(Seq(Unit)) /\ Len(t) = m /\ \A i \in 1 .. m : t[i] = s[i + 1]
  <2>1. s # << >>
    BY <1>1
  <2>2. t \in Seq(Seq(Unit)) /\ Len(t) = Len(s) - 1 /\ \A i \in 1 .. Len(t) : t[i] = s[i + 1]
    BY <1>2, <2>1, HeadTailProperties
  <2>3. Len(s) - 1 = m
    BY <1>1, <1>3
  <2> QED BY <2>2, <2>3
<1>5. PICK f : Joins(f, s, n) /\ FlattenSeq(s) = f[n]
  BY <1>1, Flattened
<1>6. \A i \in 1 .. n : f[i] = IF i = 1 THEN s[i] ELSE f[i - 1] \o s[i]
  <2>1. n <= Len(s)
    BY <1>1
  <2> QED BY <1>5, <2>1, JoinsSteps
<1>7. \A i \in 1 .. n : s[i] \in Seq(Unit)
  BY <1>1, ElementOfSeq
<1>8. PICK a \in Seq(Unit) : a = s[1]
  BY <1>1, <1>7
<1>9. CASE m = 0
  <2>1. t = << >>
    BY <1>4, <1>9
  <2>2. FlattenSeq(s) = a
    BY <1>3, <1>5, <1>6, <1>8, <1>9
  <2>3. FlattenSeq(t) = << >>
    BY <2>1, FlattenNone
  <2>4. a \o << >> = a
    BY ConcatEmptySeq
  <2> QED BY <1>2, <1>8, <2>2, <2>3, <2>4, Zenon
<1>10. CASE m # 0
  <2>1. PICK g : Joins(g, t, m) /\ FlattenSeq(t) = g[m]
    BY <1>4, <1>10, Flattened
  <2>2. /\ \A i \in 1 .. m : g[i] = IF i = 1 THEN t[i] ELSE g[i - 1] \o t[i]
        /\ \A i \in 1 .. m : g[i] \in Seq(Unit)
    <3>1. m <= Len(t) /\ t \in Seq(Seq(Unit)) /\ Joins(g, t, m)
      BY <1>4, <2>1
    <3> QED BY ONLY <3>1, JoinsSteps, m \in Nat, Zenon
  <2>3. ASSUME NEW j \in 1 .. m, f[j + 1] # a \o g[j] PROVE FALSE
    <3>1. PICK D : D = {d \in 1 .. m : f[d + 1] # a \o g[d]}
      OBVIOUS
    <3>2. D \subseteq Nat /\ D # {}
      <4>1. j \in D
        BY <2>3, <3>1, Zenon
      <4>2. \A d \in 1 .. m : d \in Nat
        OBVIOUS
      <4> QED BY <3>1, <4>1, <4>2, Zenon
    <3>3. PICK d \in D : \A e \in D : d <= e
      BY <3>2, LeastOf
    <3>4. d \in 1 .. m /\ d + 1 \in 1 .. n /\ d + 1 # 1 /\ f[d + 1] # a \o g[d] /\ t[d] = s[d + 1]
      BY <1>3, <1>4, <3>1
    <3>5. f[d + 1] = f[d] \o t[d]
      <4>1. (d + 1) - 1 = d
        BY <3>4
      <4> QED BY <1>6, <3>4, <4>1
    <3>6. d # 1
      <4>1. SUFFICES ASSUME d = 1 PROVE FALSE
        OBVIOUS
      <4>2. f[1] = a /\ g[1] = t[1]
        BY <1>1, <1>6, <1>8, <2>2, <3>4, <4>1
      <4> QED BY <3>4, <3>5, <4>1, <4>2
    <3>7. PICK c \in 1 .. m : c = d - 1 /\ d = c + 1
      BY <3>4, <3>6
    <3>8. c \notin D
      BY <3>3, <3>4, <3>7
    <3>9. f[d] = a \o g[c]
      BY <3>1, <3>7, <3>8
    <3>10. g[d] = g[c] \o t[d]
      BY <2>2, <3>4, <3>6, <3>7
    <3>11. PICK b \in Seq(Unit), e \in Seq(Unit) : b = g[c] /\ e = t[d]
      BY <1>4, <2>2, <3>4, <3>7, ElementOfSeq
    <3>12. (a \o b) \o e = a \o (b \o e)
      BY ConcatAssociative
    <3> QED BY <3>4, <3>5, <3>9, <3>10, <3>11, <3>12, Zenon
  <2>4. f[m + 1] = a \o g[m]
    BY <1>10, <2>3
  <2> QED BY <1>2, <1>3, <1>5, <1>8, <2>1, <2>4
<1> QED BY <1>9, <1>10

\* A part of the first of two sequences.
LEMMA FrontPart ==
    ASSUME NEW s \in Seq(Unit), NEW t \in Seq(Unit), NEW a \in Nat, NEW b \in Nat, a >= 1, b <= Len(s)
    PROVE  SubSeq(s \o t, a, b) = SubSeq(s, a, b)
<1>1. PICK u : u = s \o t
  OBVIOUS
<1>2. u \in Seq(Unit) /\ Len(u) = Len(s) + Len(t)
      /\ \A i \in 1 .. Len(s) + Len(t) : u[i] = IF i <= Len(s) THEN s[i] ELSE t[i - Len(s)]
  BY <1>1, ConcatProperties
<1>3. b <= Len(u)
  BY <1>2
<1>4. PICK x, y : x = SubSeq(u, a, b) /\ y = SubSeq(s, a, b)
  OBVIOUS
<1>5. IsPart(x, u, a, b)
  BY ONLY <1>2, <1>3, <1>4, PartOf, a \in Nat, b \in Nat, a >= 1, Zenon
<1>6. IsPart(y, s, a, b)
  BY ONLY <1>4, PartOf, s \in Seq(Unit), a \in Nat, b \in Nat, a >= 1, b <= Len(s), Zenon
<1>7. x \in Seq(Unit) /\ y \in Seq(Unit) /\ Len(x) = Len(y)
  BY <1>5, <1>6 DEF IsPart
<1>8. ASSUME NEW i \in 1 .. Len(x) PROVE x[i] = y[i]
  <2>1. PICK j \in Nat : j = a + i - 1 /\ j \in 1 .. Len(s)
    BY <1>5 DEF IsPart
  <2>2. x[i] = u[j] /\ y[i] = s[j]
    BY <1>5, <1>6, <1>7, <2>1 DEF IsPart
  <2>3. j <= Len(s) /\ j \in 1 .. Len(s) + Len(t)
    BY <2>1
  <2> QED BY <1>2, <2>2, <2>3
<1>9. x = y
  BY ONLY <1>7, <1>8, SeqEqual
<1> QED BY <1>1, <1>4, <1>9

\* Behind the first of two sequences comes the second.
LEMMA BackPart ==
    ASSUME NEW s \in Seq(Unit), NEW t \in Seq(Unit)
    PROVE  SubSeq(s \o t, Len(s) + 1, Len(s \o t)) = t
<1>1. PICK u : u = s \o t
  OBVIOUS
<1>2. u \in Seq(Unit) /\ Len(u) = Len(s) + Len(t)
      /\ \A i \in 1 .. Len(s) + Len(t) : u[i] = IF i <= Len(s) THEN s[i] ELSE t[i - Len(s)]
  BY <1>1, ConcatProperties
<1>3. PICK a \in Nat, b \in Nat : a = Len(s) + 1 /\ b = Len(u)
  BY <1>2
<1>4. PICK x : x = SubSeq(u, a, b)
  OBVIOUS
<1>5. IsPart(x, u, a, b)
  <2>1. a >= 1 /\ b <= Len(u)
    BY <1>3
  <2> QED BY ONLY <1>2, <1>4, <2>1, PartOf, a \in Nat, b \in Nat, Zenon
<1>6. x \in Seq(Unit) /\ Len(x) = Len(t)
  BY <1>2, <1>3, <1>5 DEF IsPart
<1>7. ASSUME NEW i \in 1 .. Len(x) PROVE x[i] = t[i]
  <2>1. x[i] = u[a + i - 1]
    BY <1>5 DEF IsPart
  <2>2. PICK j \in Nat : j = a + i - 1
    BY <1>6
  <2>3. j \in 1 .. Len(s) + Len(t) /\ ~(j <= Len(s)) /\ j - Len(s) = i
    BY <1>3, <1>6, <2>2
  <2> QED BY <1>2, <2>1, <2>2, <2>3
<1>8. x = t
  BY ONLY <1>6, <1>7, SeqEqual, t \in Seq(Unit)
<1> QED BY <1>1, <1>3, <1>4, <1>8

\* What is left of a queue to which something is added.
LEMMA MoreToSend ==
    ASSUME NEW q \in Seq(Unit), NEW u \in Seq(Unit), NEW w \in Nat, w <= Len(q)
    PROVE  SubSeq(q \o u, w + 1, Len(q \o u)) = SubSeq(q, w + 1, Len(q)) \o u
<1>1. PICK x : x = q \o u
  OBVIOUS
<1>2. x \in Seq(Unit) /\ Len(x) = Len(q) + Len(u)
  BY <1>1, ConcatProperties
<1>types. w + 1 \in Nat /\ Len(q) \in Nat /\ Len(x) \in Nat
  BY <1>2
<1>3. PICK a \in Nat, b \in Nat, c \in Nat : a = w + 1 /\ b = Len(q) /\ c = Len(x)
  BY <1>types, Zenon
<1>4. a \in 1 .. Len(x) + 1 /\ b \in a - 1 .. Len(x) /\ c \in b .. Len(x) /\ a >= 1 /\ b <= Len(q)
  BY <1>2, <1>3
<1>5. SubSeq(x, a, b) \o SubSeq(x, b + 1, c) = SubSeq(x, a, c)
  BY ONLY <1>2, <1>4, ConcatAdjacentSubSeq
<1>6. SubSeq(x, a, b) = SubSeq(q, a, b)
  BY ONLY <1>1, <1>4, FrontPart, q \in Seq(Unit), u \in Seq(Unit), a \in Nat, b \in Nat, Zenon
<1>7. SubSeq(x, b + 1, c) = u
  BY <1>1, <1>3, BackPart
<1> QED BY <1>1, <1>3, <1>5, <1>6, <1>7

\* Of the packets s, which make q, w units are sent and n of the first follow.
FollowsSent(q, s, w, n) ==
    /\ SubSeq(q, w + 1, Len(q)) = SubSeq(s[1], w + 1, w + n) \o SubSeq(q, w + n + 1, Len(q))
    /\ w + n = Len(s[1]) => SubSeq(q, w + n + 1, Len(q)) = FlattenSeq(Tail(s))
    /\ SubSeq(q, w + n + 1, Len(q)) \in Seq(Unit)
    /\ w <= Len(q)

\* What is left of a queue after some of its first packet.
LEMMA LessToSend ==
    ASSUME NEW s \in Seq(Seq(Unit)), Len(s) # 0, NEW w \in Nat, NEW n \in Nat, w + n <= Len(s[1]),
           NEW q, q = FlattenSeq(s)
    PROVE  FollowsSent(q, s, w, n)
<1>0. s[1] \in Seq(Unit) /\ Tail(s) \in Seq(Seq(Unit))
  <2>1. s # << >> /\ 1 \in 1 .. Len(s)
    OBVIOUS
  <2> QED BY <2>1, HeadTailProperties, ElementOfSeq
<1>1. PICK p \in Seq(Unit), r \in Seq(Unit) : p = s[1] /\ r = FlattenSeq(Tail(s))
  BY <1>0, FlattenType
<1>2. q = p \o r
  BY <1>1, FlattenFirst
<1>3. q \in Seq(Unit) /\ Len(q) = Len(p) + Len(r) /\ Len(p) \in Nat /\ Len(r) \in Nat
  BY <1>2, ConcatProperties
<1>types. w + 1 \in Nat /\ w + n \in Nat /\ Len(q) \in Nat
  BY <1>3
<1>4. PICK a \in Nat, b \in Nat, c \in Nat : a = w + 1 /\ b = w + n /\ c = Len(q)
  BY <1>types, Zenon
<1>5. a \in 1 .. Len(q) + 1 /\ b \in a - 1 .. Len(q) /\ c \in b .. Len(q) /\ a >= 1 /\ b <= Len(p)
  BY <1>1, <1>3, <1>4
<1>6. SubSeq(q, a, b) \o SubSeq(q, b + 1, c) = SubSeq(q, a, c)
  BY ONLY <1>3, <1>5, ConcatAdjacentSubSeq
<1>7. SubSeq(q, a, b) = SubSeq(p, a, b)
  BY ONLY <1>2, <1>5, FrontPart, p \in Seq(Unit), r \in Seq(Unit), a \in Nat, b \in Nat, Zenon
<1>8. b = Len(p) => SubSeq(q, b + 1, c) = r
  BY <1>2, <1>4, BackPart
<1>9. SubSeq(q, b + 1, c) \in Seq(Unit)
  <2>1. PICK e \in Nat : e = b + 1 /\ e >= 1
    OBVIOUS
  <2>2. c <= Len(q)
    BY <1>4, <1>3
  <2>3. IsPart(SubSeq(q, e, c), q, e, c)
    BY ONLY <1>3, <2>1, <2>2, PartOf, e \in Nat, c \in Nat, Zenon
  <2> QED BY <2>1, <2>3 DEF IsPart
<1>10. w <= Len(q)
  BY <1>1, <1>3
<1> QED BY <1>1, <1>4, <1>6, <1>7, <1>8, <1>9, <1>10 DEF FollowsSent

\* Brackets do not matter.
Regrouped(a, b, c, d) == (a \o (b \o c)) \o d = (a \o b) \o (c \o d)

\* So it is for units.
LEMMA Regroup ==
    ASSUME NEW a \in Seq(Unit), NEW b \in Seq(Unit), NEW c \in Seq(Unit), NEW d \in Seq(Unit)
    PROVE  Regrouped(a, b, c, d)
<1>1. PICK ab \in Seq(Unit) : ab = a \o b
  BY ConcatProperties
<1>2. (a \o b) \o c = a \o (b \o c)
  BY ConcatAssociative
<1>3. (ab \o c) \o d = ab \o (c \o d)
  BY ConcatAssociative
<1> QED BY <1>1, <1>2, <1>3, Zenon DEF Regrouped

\* A unit that goes from one sequence to another.
LEMMA OneOver ==
    ASSUME NEW g \in Seq(Unit), NEW x \in Seq(Unit), x # << >>
    PROVE  Append(g, Head(x)) \o Tail(x) = g \o x
<1>1. PICK h \in Unit, t \in Seq(Unit) : h = Head(x) /\ t = Tail(x)
  BY HeadTailProperties
<1>2. <<h>> \in Seq(Unit)
  OBVIOUS
<1>3. PICK e \in Seq(Unit) : e = <<h>>
  BY <1>2
<1>4. Append(g, h) = g \o e
  BY <1>3, AppendIsConcat
<1>5. x = e \o t
  BY <1>1, <1>3
<1>6. (g \o e) \o t = g \o (e \o t)
  BY ConcatAssociative
<1> QED BY <1>1, <1>4, <1>5, <1>6, Zenon

\* The replies that were given.
Given == [i \in DOMAIN replied |-> ReplyUnits(replied[i])]
Left == SubSeq(FlattenSeq(m_packets), m_writtenCount + 1, Len(FlattenSeq(m_packets)))

\* The property with names for its parts.
LEMMA WholeMeans == ReplyStreamIsWhole <=> (got \o toKernel) \o Left = FlattenSeq(Given)
BY DEF ReplyStreamIsWhole, Left, Given

\* What is left to send is a sequence of units.
LEMMA LeftIsUnits ==
    ASSUME StreamInv
    PROVE  /\ Left \in Seq(Unit) /\ FlattenSeq(m_packets) \in Seq(Unit)
           /\ m_writtenCount <= Len(FlattenSeq(m_packets))
<1>1. m_packets \in Seq(Seq(Unit)) /\ m_writtenCount \in Nat
  BY DEF StreamInv, OsProxyTypes
<1>2. PICK q \in Seq(Unit) : q = FlattenSeq(m_packets)
  BY <1>1, FlattenType
<1>3. m_writtenCount <= Len(q)
  <2>1. CASE m_packets = << >>
    <3>1. m_writtenCount = 0 /\ Len(q) \in Nat
      BY <2>1 DEF StreamInv, WriterInStep
    <3> QED BY <3>1
  <2>2. CASE m_packets # << >>
    <3>1. m_writtenCount < Len(m_packets[1]) /\ Len(m_packets) # 0 /\ 1 \in 1 .. Len(m_packets)
      BY <1>1, <2>2 DEF StreamInv, WriterInStep
    <3>2. m_packets[1] \in Seq(Unit)
      BY <1>1, <3>1, ElementOfSeq
    <3>3. PICK w \in Nat : w = m_writtenCount
      BY <1>1
    <3>4. 0 \in Nat /\ w + 0 <= Len(m_packets[1])
      BY <3>1, <3>2, <3>3
    <3>5. FollowsSent(q, m_packets, w, 0)
      BY ONLY <1>1, <1>2, <3>1, <3>4, LessToSend, w \in Nat
    <3> QED BY <3>3, <3>5 DEF FollowsSent
  <2> QED BY <2>1, <2>2
<1>types. m_writtenCount + 1 \in Nat /\ Len(q) \in Nat
  BY <1>1
<1>4. PICK a \in Nat, b \in Nat : a = m_writtenCount + 1 /\ b = Len(q)
  BY <1>types, Zenon
<1>5. a >= 1 /\ b <= Len(q)
  BY <1>1, <1>4
<1>6. IsPart(SubSeq(q, a, b), q, a, b)
  BY ONLY <1>5, PartOf, a \in Nat, b \in Nat, q \in Seq(Unit), Zenon
<1>7. Left \in Seq(Unit)
  BY <1>2, <1>4, <1>6 DEF IsPart, Left
<1> QED BY <1>2, <1>3, <1>7

\* Every reply given is one to a request issued.
LEMMA GivenTypes ==
    ASSUME StreamInv
    PROVE  /\ Given \in Seq(Seq(Unit)) /\ Len(Given) = Len(replied)
           /\ \A i \in DOMAIN replied : replied[i] \in DOMAIN issued
<1>1. replied \in Seq(Number) /\ DOMAIN replied = 1 .. Len(replied) /\ Len(replied) \in Nat
  BY DEF StreamInv, OsProxyTypes
<1>2. \A i \in 1 .. Len(replied) : replied[i] \in Number
  BY <1>1, ElementOfSeq
<1>3. \A i \in 1 .. Len(replied) : ReplyUnits(replied[i]) \in Seq(Unit)
  BY <1>2, ReplyEffect
<1>4. Given \in Seq(Seq(Unit)) /\ Len(Given) = Len(replied)
  BY <1>1, <1>3 DEF Given
<1>5. \A i \in 1 .. Len(replied) : replied[i] \in 1 .. Len(handed)
  BY <1>2 DEF StreamInv, MasterInStep
<1>6. Len(handed) <= Len(issued) /\ Len(handed) \in Nat /\ Len(issued) \in Nat /\ DOMAIN issued = 1 .. Len(issued)
  BY DEF StreamInv, ReaderInStep, OsProxyTypes
<1>7. \A i \in DOMAIN replied : replied[i] \in DOMAIN issued
  BY <1>1, <1>5, <1>6
<1> QED BY <1>4, <1>7

\* WriteCB: what it sends is what was left, in front.
LEMMA WholeWriteCB ==
    ASSUME StreamInv, ReplyStreamIsWhole, WriteCB
    PROVE  ReplyStreamIsWhole'
<1>1. UNCHANGED <<issued, got, replied>>
  BY DEF WriteCB, kernelVars, masterVars
<1>2. CASE hungUp
  <2>1. UNCHANGED <<toKernel, m_packets, m_writtenCount>>
    BY <1>2 DEF WriteCB, writerVars
  <2> QED BY <1>1, <2>1 DEF ReplyStreamIsWhole, ReplyUnits
<1>3. CASE ~hungUp
  <2>1. m_packets # << >> /\ SendFront(Head(m_packets))
    BY <1>3, WriteCBEffect
  <2>2. /\ m_packets \in Seq(Seq(Unit)) /\ m_writtenCount \in Nat /\ toKernel \in Seq(Unit)
        /\ got \in Seq(Unit) /\ Len(m_packets) # 0
    BY <2>1 DEF StreamInv, OsProxyTypes
  <2>3. Head(m_packets) \in Seq(Unit) /\ Head(m_packets) = m_packets[1]
    BY <2>1, <2>2, HeadTailProperties
  <2>4. PICK packet \in Seq(Unit) : packet = Head(m_packets) /\ packet = m_packets[1]
    BY <2>3
  <2>5. m_writtenCount < Len(packet)
    BY <2>1, <2>4 DEF StreamInv, WriterInStep
  <2>6. PICK n \in Nat :
             /\ m_writtenCount + n <= Len(packet)
             /\ Sent(packet) = SubSeq(packet, m_writtenCount + 1, m_writtenCount + n)
             /\ Sent(packet) \in Seq(Unit)
             /\ Len(Sent(packet)) = n
    <3>1. m_writtenCount <= Len(packet)
      BY <2>2, <2>5
    <3> QED BY <2>2, <3>1, SentEffect
  <2>7. PICK w \in Nat : w = m_writtenCount
    BY <2>2
  <2>8. PICK q : q = FlattenSeq(m_packets)
    OBVIOUS
  <2>9. w + n <= Len(m_packets[1])
    BY <2>4, <2>6, <2>7
  <2>10. /\ SubSeq(q, w + 1, Len(q)) = SubSeq(m_packets[1], w + 1, w + n) \o SubSeq(q, w + n + 1, Len(q))
         /\ w + n = Len(m_packets[1]) => SubSeq(q, w + n + 1, Len(q)) = FlattenSeq(Tail(m_packets))
         /\ SubSeq(q, w + n + 1, Len(q)) \in Seq(Unit)
    <3>1. FollowsSent(q, m_packets, w, n)
      BY ONLY <2>2, <2>8, <2>9, LessToSend, w \in Nat, n \in Nat
    <3> QED BY <3>1 DEF FollowsSent
  <2>11. PICK l \in Seq(Unit), s \in Seq(Unit) : l = SubSeq(q, w + n + 1, Len(q)) /\ s = Sent(packet)
    BY <2>6, <2>10
  <2>12. Left = s \o l
    BY <2>4, <2>6, <2>7, <2>8, <2>10, <2>11 DEF Left
  <2>13. toKernel' = toKernel \o s
    BY <2>1, <2>4, <2>11 DEF SendFront
  <2>14. Left' = l
    <3>1. CASE w + n = Len(packet)
      <4>1. m_writtenCount' = 0 /\ m_packets' = Tail(m_packets)
        BY <2>1, <2>4, <2>6, <2>7, <3>1 DEF SendFront
      <4>2. FlattenSeq(m_packets') = l
        BY <2>4, <2>10, <2>11, <3>1, <4>1
      <4>3. SubSeq(l, 1, Len(l)) = l
        BY SubSeqFull
      <4> QED BY <4>1, <4>2, <4>3 DEF Left
    <3>2. CASE w + n # Len(packet)
      <4>1. m_writtenCount' = w + n /\ m_packets' = m_packets
        BY <2>1, <2>4, <2>6, <2>7, <3>2 DEF SendFront
      <4> QED BY <2>8, <2>11, <4>1 DEF Left
    <3> QED BY <3>1, <3>2
  <2>15. PICK g \in Seq(Unit), x \in Seq(Unit) : g = got /\ x = toKernel
    BY <2>2
  <2>16. (g \o (x \o s)) \o l = (g \o x) \o (s \o l)
    <3>1. g \in Seq(Unit) /\ x \in Seq(Unit) /\ s \in Seq(Unit) /\ l \in Seq(Unit)
      BY <2>11, <2>15
    <3>2. Regrouped(g, x, s, l)
      BY ONLY <3>1, Regroup, Zenon
    <3> QED BY <3>2 DEF Regrouped
  <2>17. Given' = Given
    BY <1>1 DEF Given, ReplyUnits
  <2>18. (got \o toKernel) \o Left = FlattenSeq(Given)
    BY WholeMeans
  <2>19. ((got \o toKernel) \o Left = FlattenSeq(Given))'
    BY <1>1, <2>12, <2>13, <2>14, <2>15, <2>16, <2>17, <2>18
  <2> QED BY <2>19 DEF ReplyStreamIsWhole, Left, Given
<1> QED BY <1>2, <1>3

\* KernelReceives: a unit leaves the socket.
LEMMA WholeKernelReceives ==
    ASSUME StreamInv, ReplyStreamIsWhole, KernelReceives
    PROVE  ReplyStreamIsWhole'
<1>1. /\ UNCHANGED <<issued, m_packets, m_writtenCount, replied>>
      /\ got' = Append(got, Head(toKernel)) /\ toKernel' = Tail(toKernel) /\ toKernel # << >>
  BY DEF KernelReceives, writerVars, masterVars
<1>2. got \in Seq(Unit) /\ toKernel \in Seq(Unit)
  BY DEF StreamInv, OsProxyTypes
<1>3. got' \o toKernel' = got \o toKernel
  BY <1>1, <1>2, OneOver
<1> QED BY <1>1, <1>3 DEF ReplyStreamIsWhole, ReplyUnits

\* KernelIssues: the replies given are to earlier requests.
LEMMA WholeKernelIssues ==
    ASSUME StreamInv, ReplyStreamIsWhole, NEW type \in Type, KernelIssues(type)
    PROVE  ReplyStreamIsWhole'
<1>1. UNCHANGED <<got, toKernel, m_packets, m_writtenCount, replied>> /\ issued' = Append(issued, type)
  BY DEF KernelIssues, writerVars, masterVars
<1>2. issued \in Seq(Type) /\ DOMAIN issued = 1 .. Len(issued)
  BY DEF StreamInv, OsProxyTypes
<1>3. \A k \in DOMAIN issued : issued'[k] = issued[k]
  BY <1>1, <1>2, SizesStay
<1>4. \A k \in DOMAIN issued : ReplyUnits(k)' = ReplyUnits(k)
  BY <1>3 DEF ReplyUnits
<1>5. \A i \in DOMAIN replied : ReplyUnits(replied[i])' = ReplyUnits(replied[i])
  <2>1. SUFFICES ASSUME NEW i \in DOMAIN replied PROVE ReplyUnits(replied[i])' = ReplyUnits(replied[i])
    OBVIOUS
  <2>2. PICK k \in DOMAIN issued : k = replied[i]
    BY GivenTypes
  <2> QED BY <1>1, <1>4, <2>2
<1>6. Given' = Given
  BY <1>1, <1>5 DEF Given
<1>7. Left' = Left
  BY <1>1 DEF Left
<1>8. ((got \o toKernel) \o Left = FlattenSeq(Given))'
  BY <1>1, <1>6, <1>7, WholeMeans
<1> QED BY <1>8 DEF ReplyStreamIsWhole, Left, Given

\* MasterCB: a reply goes behind what is queued.
LEMMA WholeMasterCB ==
    ASSUME StreamInv, ReplyStreamIsWhole, NEW k \in Number, MasterCB(k)
    PROVE  ReplyStreamIsWhole'
<1>1. UNCHANGED <<issued, got, toKernel, m_writtenCount>>
  BY DEF MasterCB, kernelVars
<1>2. CASE UNCHANGED <<m_packets, replied>>
  BY <1>1, <1>2 DEF ReplyStreamIsWhole, ReplyUnits
<1>3. CASE Reply(k)
  <2>1. /\ m_packets \in Seq(Seq(Unit)) /\ m_writtenCount \in Nat /\ toKernel \in Seq(Unit)
        /\ got \in Seq(Unit) /\ replied \in Seq(Number) /\ Len(replied) \in Nat
        /\ DOMAIN replied = 1 .. Len(replied)
    BY DEF StreamInv, OsProxyTypes
  <2>2. PICK u, h, d : u = ReplyUnits(k) /\ h = SubSeq(ReplyUnits(k), 1, HDR_SIZE)
                         /\ d = SubSeq(ReplyUnits(k), HDR_SIZE + 1, Len(ReplyUnits(k)))
    OBVIOUS
  <2>3. /\ u \in Seq(Unit) /\ h \in Seq(Unit) /\ d \in Seq(Unit) /\ h \o d = u
        /\ issued[k] # "READ" => h = u
    BY <2>2, ReplyEffect
  <2>4. m_packets' = m_packets \o (IF issued[k] = "READ" THEN <<h, d>> ELSE <<h>>)
        /\ replied' = Append(replied, k)
    BY <1>3, <2>2 DEF Reply, Write
  <2>5. PICK q \in Seq(Unit) : q = FlattenSeq(m_packets)
    BY LeftIsUnits
  <2>6. PICK p \in Seq(Seq(Unit)) : p = m_packets
    BY <2>1
  <2>7. FlattenSeq(m_packets') = q \o u
    <3>1. p \o <<h>> = Append(p, h)
      BY <2>3, AppendIsConcat
    <3>2. FlattenSeq(Append(p, h)) = q \o h
      BY <2>3, <2>5, <2>6, FlattenAppend
    <3>3. CASE issued[k] # "READ"
      BY <2>3, <2>4, <2>6, <3>1, <3>2, <3>3
    <3>4. CASE issued[k] = "READ"
      <4>1. PICK r \in Seq(Seq(Unit)) : r = Append(p, h)
        BY <2>3, AppendProperties
      <4>2. p \o <<h, d>> = Append(r, d)
        BY <2>3, <4>1
      <4>3. FlattenSeq(Append(r, d)) = FlattenSeq(r) \o d
        BY <2>3, FlattenAppend
      <4>4. (q \o h) \o d = q \o (h \o d)
        <5>1. h \in Seq(Unit) /\ d \in Seq(Unit)
          BY <2>3
        <5> QED BY ONLY <5>1, q \in Seq(Unit), ConcatAssociative
      <4> QED BY <2>3, <2>4, <2>6, <3>2, <3>4, <4>1, <4>2, <4>3, <4>4
    <3> QED BY <3>3, <3>4
  <2>8. Left' = Left \o u
    <3>1. PICK w \in Nat : w = m_writtenCount /\ w <= Len(q)
      BY <2>1, <2>5, LeftIsUnits
    <3>2. SubSeq(q \o u, w + 1, Len(q \o u)) = SubSeq(q, w + 1, Len(q)) \o u
      BY <2>3, <3>1, MoreToSend
    <3>3. m_writtenCount' = w
      BY <1>1, <3>1
    <3> QED BY <2>5, <2>7, <3>1, <3>2, <3>3 DEF Left
  <2>9. PICK v \in Seq(Seq(Unit)) : v = Given /\ Len(v) = Len(replied)
    BY GivenTypes
  <2>10. Given' = Append(v, u)
    <3>1. PICK n \in Nat : n = Len(replied)
      BY <2>1
    <3>2. /\ replied' \in Seq(Number) /\ Len(replied') = n + 1
          /\ \A i \in 1 .. n : replied'[i] = replied[i]
          /\ replied'[n + 1] = k
      BY <2>1, <2>4, <3>1, AppendProperties
    <3>3. DOMAIN replied' = 1 .. n + 1
      BY <3>2
    <3>4. PICK y : y = Append(v, u)
      OBVIOUS
    <3>5. y \in Seq(Seq(Unit)) /\ Len(y) = n + 1 /\ (\A i \in 1 .. n : y[i] = v[i]) /\ y[n + 1] = u
      BY <2>3, <2>9, <3>1, <3>4, AppendProperties
    <3>6. \A i \in 1 .. n : v[i] = ReplyUnits(replied[i])
      BY <2>1, <2>9, <3>1 DEF Given
    <3>7. \A j : ReplyUnits(j)' = ReplyUnits(j)
      BY <1>1 DEF ReplyUnits
    <3>8. ASSUME NEW i \in 1 .. n + 1 PROVE ReplyUnits(replied[i])' = y[i]
      <4>1. PICK j : j = replied'[i]
        OBVIOUS
      <4>2. ReplyUnits(replied[i])' = ReplyUnits(j)
        BY <1>1, <4>1 DEF ReplyUnits
      <4>3. CASE i \in 1 .. n
        BY <3>2, <3>5, <3>6, <4>1, <4>2, <4>3
      <4>4. CASE i = n + 1
        BY <2>2, <3>2, <3>5, <4>1, <4>2, <4>4
      <4>5. i \in 1 .. n \/ i = n + 1
        OBVIOUS
      <4> QED BY <4>3, <4>4, <4>5
    <3>9. y = [i \in 1 .. n + 1 |-> y[i]]
      BY <3>5, LenProperties
    <3>10. Given' = [i \in 1 .. n + 1 |-> ReplyUnits(replied[i])']
      BY <3>3 DEF Given
    <3>11. Given' = y
      BY <3>8, <3>9, <3>10
    <3> QED BY <3>4, <3>11
  <2>11. FlattenSeq(Append(v, u)) = FlattenSeq(v) \o u
    BY <2>3, FlattenAppend
  <2>12. PICK z \in Seq(Unit) : z = got \o toKernel
    BY <2>1, ConcatProperties
  <2>13. PICK l \in Seq(Unit) : l = Left
    BY LeftIsUnits
  <2>14. (z \o l) \o u = z \o (l \o u)
    <3>1. u \in Seq(Unit)
      BY <2>3
    <3> QED BY ONLY <3>1, z \in Seq(Unit), l \in Seq(Unit), ConcatAssociative
  <2>15. z \o l = FlattenSeq(v)
    BY <2>9, <2>12, <2>13, WholeMeans
  <2>16. got' \o toKernel' = z
    BY <1>1, <2>12
  <2>17. ((got \o toKernel) \o Left = FlattenSeq(Given))'
    BY <2>8, <2>10, <2>11, <2>13, <2>14, <2>15, <2>16
  <2> QED BY <2>17 DEF ReplyStreamIsWhole, Left, Given
<1> QED BY <1>2, <1>3 DEF MasterCB

\* The property holds at first.
LEMMA WholeInit ==
    ASSUME OsProxyInit
    PROVE  ReplyStreamIsWhole
<1>1. got = << >> /\ toKernel = << >> /\ m_packets = << >> /\ m_writtenCount = 0 /\ replied = << >>
  BY DEF OsProxyInit
<1>2. FlattenSeq(m_packets) = << >> /\ Len(<< >>) = 0
  BY <1>1, FlattenNone
<1>3. Given = << >>
  BY <1>1 DEF Given
<1>4. SubSeq(<< >>, 1, 0) = << >>
  OBVIOUS
<1>5. Left = << >>
  <2>1. 0 + 1 = 1
    OBVIOUS
  <2> QED BY <1>1, <1>2, <1>4, <2>1 DEF Left
<1>6. << >> \o << >> = << >>
  OBVIOUS
<1>7. (got \o toKernel) \o Left = FlattenSeq(Given)
  BY <1>1, <1>3, <1>5, <1>6, FlattenNone
<1> QED BY <1>7, WholeMeans

\* Every step keeps the property.
LEMMA WholeNext ==
    ASSUME StreamInv, ReplyStreamIsWhole, [OsProxyNext]_vars
    PROVE  ReplyStreamIsWhole'
<1>1. CASE UNCHANGED <<issued, got, toKernel, m_packets, m_writtenCount, replied>>
  BY <1>1 DEF ReplyStreamIsWhole, ReplyUnits
<1>2. CASE \E type \in Type : KernelIssues(type)
  BY <1>2, WholeKernelIssues
<1>3. CASE KernelReceives
  BY <1>3, WholeKernelReceives
<1>4. CASE WriteCB
  BY <1>4, WholeWriteCB
<1>5. CASE \E k \in Number : MasterCB(k)
  BY <1>5, WholeMasterCB
<1>6. KernelSends \/ KernelHangsUp \/ WorkerThread \/ MasterHasEvent \/ ReactorStep \/ Read \/ UNCHANGED vars
        => UNCHANGED <<issued, got, toKernel, m_packets, m_writtenCount, replied>>
  <2>1. KernelSends => UNCHANGED <<issued, got, toKernel, m_packets, m_writtenCount, replied>>
    BY DEF KernelSends, writerVars, masterVars
  <2>2. KernelHangsUp => UNCHANGED <<issued, got, toKernel, m_packets, m_writtenCount, replied>>
    BY DEF KernelHangsUp, writerVars, masterVars
  <2>3. WorkerThread => UNCHANGED <<issued, got, toKernel, m_packets, m_writtenCount, replied>>
    BY DEF WorkerThread, EncryptPart, writerVars, kernelVars
  <2>4. MasterHasEvent => UNCHANGED <<issued, got, toKernel, m_packets, m_writtenCount, replied>>
    BY DEF MasterHasEvent, writerVars, kernelVars, masterVars
  <2>5. ReactorStep => UNCHANGED <<issued, got, toKernel, m_packets, m_writtenCount, replied>>
    BY DEF ReactorStep, writerVars, kernelVars, masterVars
  <2>6. Read => UNCHANGED <<issued, got, toKernel, m_packets, m_writtenCount, replied>>
    BY DEF Read, writerVars, kernelVars
  <2>7. UNCHANGED vars => UNCHANGED <<issued, got, toKernel, m_packets, m_writtenCount, replied>>
    BY DEF vars, writerVars, kernelVars, masterVars
  <2> QED BY <2>1, <2>2, <2>3, <2>4, <2>5, <2>6, <2>7
<1> QED BY <1>1, <1>2, <1>3, <1>4, <1>5, <1>6 DEF OsProxyNext, ReactorThread

\* TcpWriter: however send splits the packets, and whichever replies are written
\* meanwhile, what the kernel has received, what is in the socket and what is
\* queued make the replies, whole and in the order the Master gave them.
THEOREM RepliesWhole == OsProxySpec => []ReplyStreamIsWhole
<1>1. OsProxyInit => ReplyStreamIsWhole
  BY WholeInit
<1>2. StreamInv /\ ReplyStreamIsWhole /\ [OsProxyNext]_vars => ReplyStreamIsWhole'
  BY WholeNext
<1> QED BY <1>1, <1>2, StreamAlways, PTL DEF OsProxySpec
===========================================================================
