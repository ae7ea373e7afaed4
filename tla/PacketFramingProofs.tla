-------------------------- MODULE PacketFramingProofs --------------------------
(***************************************************************************)
(* Theorems about PacketFraming, for any number of packets of any sizes,   *)
(* and any reads: as long as no session is destroyed under its handler, no *)
(* block of memory is freed twice, used after it was freed, or lost, and   *)
(* packets are read as they were sent.                                     *)
(***************************************************************************)
EXTENDS PacketFraming, Integers, FiniteSetTheorems, SequenceTheorems, NaturalsInduction,
        WellFoundedInduction, TLAPS

(***************************************************************************)
(* The invariant.  First what is where in memory.                          *)
(***************************************************************************)
Unit == (1..Sent) \X Nat
Block == [data : Seq(Unit), size : Nat, frees : Nat]

\* A header that was read and asks for content is there, and the callback and the queue
\* hold one block at most, for nothing is read while they hold one.
KindsInv ==
    /\ TypeOK
    /\ heap \in Seq(Block) /\ stream \in Seq(Unit)
    /\ recvPacket.readed => recvPacket.head.blk # 0
    /\ queue # <<>> => want = 0 /\ Len(queue) = 1 /\ hand = 0
    /\ hand # 0 => want = 0

\* The blocks that a packet will free.
Owned(buff) == IF buff.own THEN {buff.blk} ELSE {}
Held(p) == Owned(p.head) \cup Owned(p.body)

\* A block is in one place, and in none once it was freed.
Apart(p) == p.head.own /\ p.body.own /\ p.head.blk = p.body.blk => p.head.blk = 0
Parts(k) == {list[k].head.blk, list[k].body.blk} \ {0}

OnceInv ==
    /\ \A b \in Blocks :
          /\ heap[b].frees <= 1
          /\ b \in Held(recvPacket) =>
                heap[b].frees = 0 /\ b \notin Held(packet) /\ ~Listed(b) /\ ~Queued(b)
          /\ b \in Held(packet) => heap[b].frees = 0 /\ ~Listed(b) /\ ~Queued(b)
          /\ Listed(b) => heap[b].frees = 0 /\ ~Queued(b)
          /\ Queued(b) => heap[b].frees = 0
    /\ Apart(recvPacket) /\ Apart(packet)
    /\ \A k \in DOMAIN list : list[k].head.blk # list[k].body.blk
    /\ \A k, l \in DOMAIN list : Parts(k) \cap Parts(l) # {} => k = l
    /\ recvPacket.readed => recvPacket.head.own

(***************************************************************************)
(* The units on their way.                                                 *)
(***************************************************************************)
Header(k) == [i \in 1..HeaderSize |-> << k, i >>]
Body(k) == [i \in 1..sent[k] |-> << k, HeaderSize + i >>]

\* The packets after the k-th.
Rest(k) == FlattenSeq([j \in 1..(Sent - k) |-> Whole(k + j)])

IsHeader(b, k) == b \in Blocks /\ heap[b].data = Header(k) /\ heap[b].size = sent[k]
IsBody(b, k) == b \in Blocks /\ heap[b].data = Body(k)
IsPacket(p, k) ==
    /\ IsHeader(p.head.blk, k)
    /\ sent[k] # 0 => IsBody(p.body.blk, k)
    /\ ~stale /\ sent[k] = 0 => p.body.blk = 0

\* The block that was read and that the handler has not taken yet, 0 for none.
Pending == IF hand # 0 THEN hand ELSE IF queue # <<>> THEN queue[1] ELSE 0

\* The packet that is being read.
Count == Len(taken) + Len(list)
Reads(k) ==
    IF recvPacket.readed
    THEN /\ k \in 1..Sent /\ IsHeader(recvPacket.head.blk, k) /\ sent[k] # 0
         /\ \/ Pending = 0 /\ want = sent[k] /\ stream = Body(k) \o Rest(k)
            \/ Pending # 0 /\ IsBody(Pending, k) /\ stream = Rest(k)
    ELSE \/ Pending = 0 /\ want = HeaderSize /\ stream = Rest(k - 1)
         \/ k \in 1..Sent /\ Pending # 0 /\ IsHeader(Pending, k) /\ stream = Body(k) \o Rest(k)

Item == [read : Seq(Unit), export : Seq(Unit)]

FramedInv ==
    /\ ~listed => list = <<>>
    /\ short = 0 =>
          /\ taken \in Seq(Item) /\ Count \in 0..Sent
          /\ \A k \in Nat : open /\ k = Count + 1 => Reads(k)
          /\ \A k \in Nat : \A i \in DOMAIN list : k = Len(taken) + i => IsPacket(list[i], k)
          /\ \A k \in DOMAIN taken : taken[k].read = Whole(k)
          /\ ~stale => \A k \in DOMAIN taken : Fits(sent[k]) => taken[k].export = Whole(k)

--------------------------------------------------------------------------------
(***************************************************************************)
(* Memory.  What is freed, and of what types what is left is.              *)
(***************************************************************************)
BufferOf(n) == [blk : 0..n, own : BOOLEAN]
PacketOf(n) == [head : BufferOf(n), body : BufferOf(n), readed : BOOLEAN]

\* g is h with the blocks of B freed once more.
Freed(h, g, B) ==
    /\ g \in Seq(Block) /\ Len(g) = Len(h)
    /\ \A c \in 1..Len(h) :
          /\ g[c].data = h[c].data /\ g[c].size = h[c].size
          /\ g[c].frees = IF c \in B THEN h[c].frees + 1 ELSE h[c].frees

\* Packets of a heap are packets of a larger one.
LEMMA Grows ==
    ASSUME NEW n \in Nat, NEW m \in Nat, n <= m
    PROVE  /\ BufferOf(n) \subseteq BufferOf(m) /\ PacketOf(n) \subseteq PacketOf(m)
           /\ Seq(PacketOf(n)) \subseteq Seq(PacketOf(m)) /\ Seq(1..n) \subseteq Seq(1..m)
<1>1. 0..n \subseteq 0..m /\ 1..n \subseteq 1..m
  OBVIOUS
<1>2. BufferOf(n) \subseteq BufferOf(m)
  BY <1>1 DEF BufferOf
<1>3. PacketOf(n) \subseteq PacketOf(m)
  BY <1>2 DEF PacketOf
<1> QED BY <1>1, <1>2, <1>3

\* Packets are those of the heap, whatever size it has now or after a step.
LEMMA Packets ==
    /\ Packet = PacketOf(Len(heap)) /\ Packet' = PacketOf(Len(heap'))
BY DEF Packet, PacketOf, Buffer, BufferOf

\* free frees its blocks once, and touches no others.
LEMMA FreeFrees == ASSUME NEW h \in Seq(Block), NEW B PROVE Freed(h, free(h, B), B)
<1> DEFINE g == free(h, B)
<1>1. Len(h) \in Nat /\ DOMAIN h = 1..Len(h) /\ \A c \in 1..Len(h) : h[c] \in Block
  OBVIOUS
<1>2. g = [c \in 1..Len(h) |-> IF c \in B THEN [h[c] EXCEPT !.frees = @ + 1] ELSE h[c]]
  BY <1>1 DEF free
<1>3. ASSUME NEW x \in Block PROVE [x EXCEPT !.frees = @ + 1] \in Block
  BY DEF Block
<1>4. g \in [1..Len(h) -> Block]
  BY <1>1, <1>2, <1>3
<1>5. g \in Seq(Block) /\ Len(g) = Len(h)
  BY <1>1, <1>4
<1>6. ASSUME NEW c \in 1..Len(h)
      PROVE  /\ g[c].data = h[c].data /\ g[c].size = h[c].size
             /\ g[c].frees = IF c \in B THEN h[c].frees + 1 ELSE h[c].frees
  <2>1. g[c] = IF c \in B THEN [h[c] EXCEPT !.frees = @ + 1] ELSE h[c]
    BY <1>2
  <2> QED BY <1>1, <2>1 DEF Block
<1> QED BY <1>5, <1>6 DEF Freed

\* release frees the block of a buffer that owns one.
LEMMA ReleaseFrees ==
    ASSUME NEW h \in Seq(Block), NEW buff \in BufferOf(Len(h))
    PROVE  Freed(h, release(h, buff), Owned(buff))
<1>1. CASE buff.own /\ buff.blk # 0
  BY <1>1, FreeFrees DEF release, Owned
<1>2. CASE ~(buff.own /\ buff.blk # 0)
  <2>1. release(h, buff) = h /\ \A c \in 1..Len(h) : c \notin Owned(buff)
    BY <1>2 DEF release, Owned
  <2> QED BY <2>1 DEF Freed
<1> QED BY <1>1, <1>2

\* clear releases the header and then the body.
LEMMA ClearFrees ==
    ASSUME NEW h \in Seq(Block), NEW p \in PacketOf(Len(h))
    PROVE  /\ Freed(h, release(h, p.head), Owned(p.head))
           /\ Freed(release(h, p.head), clear(h, p), Owned(p.body))
<1>1. p.head \in BufferOf(Len(h)) /\ p.body \in BufferOf(Len(h))
  BY DEF PacketOf
<1>2. Freed(h, release(h, p.head), Owned(p.head))
  BY <1>1, ReleaseFrees
<1>3. release(h, p.head) \in Seq(Block) /\ Len(release(h, p.head)) = Len(h)
  BY <1>2 DEF Freed
<1> QED BY <1>1, <1>2, <1>3, ReleaseFrees DEF clear

\* Clearing frees what the packet owned, and nothing is freed less than it was.
LEMMA ClearKinds ==
    ASSUME NEW h \in Seq(Block), NEW p \in PacketOf(Len(h))
    PROVE  /\ clear(h, p) \in Seq(Block) /\ Len(clear(h, p)) = Len(h)
           /\ \A c \in 1..Len(h) :
                 /\ clear(h, p)[c].data = h[c].data /\ clear(h, p)[c].size = h[c].size
                 /\ clear(h, p)[c].frees = 0 =>
                       h[c].frees = 0 /\ c \notin Owned(p.head) \cup Owned(p.body)
                 /\ ~(c \in Owned(p.head) /\ c \in Owned(p.body)) =>
                       clear(h, p)[c].frees = h[c].frees +
                          (IF c \in Owned(p.head) \cup Owned(p.body) THEN 1 ELSE 0)
<1> DEFINE g == release(h, p.head)
           f == clear(h, p)
<1>1. Freed(h, g, Owned(p.head)) /\ Freed(g, f, Owned(p.body))
  BY ClearFrees
<1> HIDE DEF g, f
<1>2. f \in Seq(Block) /\ Len(f) = Len(h) /\ Len(g) = Len(h)
  BY <1>1 DEF Freed
<1>3. ASSUME NEW c \in 1..Len(h)
      PROVE  /\ f[c].data = h[c].data /\ f[c].size = h[c].size
             /\ f[c].frees = 0 => h[c].frees = 0 /\ c \notin Owned(p.head) \cup Owned(p.body)
             /\ ~(c \in Owned(p.head) /\ c \in Owned(p.body)) =>
                   f[c].frees = h[c].frees +
                      (IF c \in Owned(p.head) \cup Owned(p.body) THEN 1 ELSE 0)
  <2>0. h[c] \in Block
    OBVIOUS
  <2>1. h[c].frees \in Nat
    BY <2>0 DEF Block
  <2>2. /\ g[c].data = h[c].data /\ g[c].size = h[c].size
        /\ g[c].frees = IF c \in Owned(p.head) THEN h[c].frees + 1 ELSE h[c].frees
    BY <1>1 DEF Freed
  <2>3. /\ f[c].data = g[c].data /\ f[c].size = g[c].size
        /\ f[c].frees = IF c \in Owned(p.body) THEN g[c].frees + 1 ELSE g[c].frees
    BY <1>1, <1>2 DEF Freed
  <2> QED BY <2>1, <2>2, <2>3
<1> QED BY <1>2, <1>3 DEF f

--------------------------------------------------------------------------------
(***************************************************************************)
(* The stream.  The library's induction theorems have operators for        *)
(* parameters; here what is to be shown of all numbers is shown by their   *)
(* least counterexample.                                                   *)
(***************************************************************************)
\* A set of numbers that is not empty has a least one.
LEMMA Least == ASSUME NEW T \in SUBSET Nat, T # {} PROVE \E n \in T : \A m \in T : n <= m
<1> DEFINE R == {ss \in Nat \X Nat : ss[1] < ss[2]}
<1>1. IsWellFoundedOn(R, Nat)
  BY NatLessThanWellFounded DEF OpToRel
<1>2. PICK x \in T : \A y \in T : ~(<<y, x>> \in R)
  BY <1>1, WFMin
<1>3. \A y \in T : ~(y < x) /\ y \in Nat /\ x \in Nat
  BY <1>2
<1>4. \A y \in T : x <= y
  BY <1>3
<1> QED BY <1>4

\* The function in FlattenSeq: the first i sequences of q, one after the other.
Flattens(q, n, f) == f = [i \in 1..n |-> IF i = 1 THEN q[i] ELSE f[i - 1] \o q[i]]

\* There is one.
LEMMA FlattensExists ==
    ASSUME NEW q, NEW l \in Nat
    PROVE  \E f : Flattens(q, l, f)
<1> DEFINE Bad == {n \in 0..l : ~ \E f : Flattens(q, n, f)}
<1>1. SUFFICES ASSUME Bad # {} PROVE FALSE
  OBVIOUS
<1>2. PICK n \in Bad : \A m \in Bad : n <= m
  <2>1. Bad \in SUBSET Nat
    OBVIOUS
  <2> HIDE DEF Bad
  <2> QED BY <1>1, <2>1, Least
<1>3. n # 0
  <2>1. Flattens(q, 0, [i \in 1..0 |-> <<>>])
    BY DEF Flattens
  <2> QED BY <1>2, <2>1
<1>4. n \in Nat /\ n - 1 \in 0..l /\ n - 1 \notin Bad
  BY <1>2, <1>3
<1>5. PICK f : Flattens(q, n - 1, f)
  BY <1>4
<1> DEFINE last == IF n = 1 THEN q[n] ELSE f[n - 1] \o q[n]
           g == [i \in 1..n |-> IF i = n THEN last ELSE f[i]]
<1>6. ASSUME NEW i \in 1..n PROVE g[i] = IF i = 1 THEN q[i] ELSE g[i - 1] \o q[i]
  <2>1. CASE i = n
    BY <1>3, <1>4, <2>1
  <2>2. CASE i # n
    <3>1. i \in 1..(n - 1) /\ g[i] = f[i] /\ (i # 1 => i - 1 \in 1..(n - 1) /\ g[i - 1] = f[i - 1])
      BY <1>4, <2>2
    <3>2. f[i] = IF i = 1 THEN q[i] ELSE f[i - 1] \o q[i]
      BY <1>5, <3>1 DEF Flattens
    <3> QED BY <3>1, <3>2
  <2> QED BY <2>1, <2>2
<1>7. g = [i \in 1..n |-> IF i = 1 THEN q[i] ELSE g[i - 1] \o q[i]]
  <2> HIDE DEF g
  <2>1. g = [i \in 1..n |-> g[i]]
    BY DEF g
  <2> QED BY <1>6, <2>1
<1>8. Flattens(q, n, g)
  BY <1>7 DEF Flattens
<1> QED BY <1>2, <1>8

\* FlattenSeq by that function.
LEMMA FlattenSeqIs ==
    ASSUME NEW S, NEW q \in Seq(Seq(S)), q # <<>>
    PROVE  \E f : /\ Flattens(q, Len(q), f) /\ FlattenSeq(q) = f[Len(q)]
                  /\ \A i \in 1..Len(q) : f[i] \in Seq(S)
<1> DEFINE f == CHOOSE f : Flattens(q, Len(q), f)
<1>0. Len(q) \in Nat /\ Len(q) # 0 /\ \A i \in 1..Len(q) : q[i] \in Seq(S)
  BY EmptySeq
<1>1. Flattens(q, Len(q), f)
  BY <1>0, FlattensExists
<1>2. FlattenSeq(q) = f[Len(q)]
  BY <1>0 DEF FlattenSeq, Flattens
<1> HIDE DEF f
<1>3. \A i \in 1..Len(q) : f[i] = IF i = 1 THEN q[i] ELSE f[i - 1] \o q[i]
  BY <1>1 DEF Flattens
<1> DEFINE Bad == {i \in 1..Len(q) : f[i] \notin Seq(S)}
<1>4. SUFFICES ASSUME Bad # {} PROVE FALSE
  BY <1>1, <1>2
<1>5. PICK i \in Bad : \A m \in Bad : i <= m
  <2>1. Bad \in SUBSET Nat
    BY <1>0
  <2> HIDE DEF Bad
  <2> QED BY <1>4, <2>1, Least
<1>6. i \in 1..Len(q) /\ f[i] \notin Seq(S) /\ i # 1
  BY <1>0, <1>3, <1>5
<1>7. i - 1 \in 1..Len(q) /\ i - 1 \notin Bad
  BY <1>0, <1>5, <1>6
<1>8. f[i - 1] \in Seq(S)
  BY <1>7
<1>9. f[i] = f[i - 1] \o q[i] /\ q[i] \in Seq(S)
  BY <1>0, <1>3, <1>6
<1> HIDE DEF Bad
<1> QED BY <1>6, <1>8, <1>9, ConcatProperties

\* Sequences, one after the other, are a sequence.
LEMMA FlattenSeqType ==
    ASSUME NEW S, NEW q \in Seq(Seq(S))
    PROVE  FlattenSeq(q) \in Seq(S)
<1>1. CASE q = <<>>
  BY <1>1 DEF FlattenSeq
<1>2. CASE q # <<>>
  <2>1. Len(q) \in 1..Len(q)
    BY <1>2, EmptySeq
  <2> QED BY <1>2, <2>1, FlattenSeqIs
<1> QED BY <1>1, <1>2

\* The first sequence comes first, and then those after it.
LEMMA FlattenSeqSplits ==
    ASSUME NEW S, NEW q \in Seq(Seq(S)), NEW r \in Seq(Seq(S)),
           Len(q) = Len(r) + 1, \A i \in 1..Len(r) : r[i] = q[i + 1]
    PROVE  q[1] \in Seq(S) /\ FlattenSeq(q) = q[1] \o FlattenSeq(r)
<1>0. /\ Len(r) \in Nat /\ Len(q) \in Nat /\ q # <<>>
      /\ \A i \in 1..Len(q) : q[i] \in Seq(S)
  BY EmptySeq
<1>a. \A x, y, z \in Seq(S) : (x \o y) \o z = x \o (y \o z)
  BY ConcatAssociative, SMTT(30)
<1>1. PICK f : /\ Flattens(q, Len(q), f) /\ FlattenSeq(q) = f[Len(q)]
               /\ \A i \in 1..Len(q) : f[i] \in Seq(S)
  BY <1>0, FlattenSeqIs
<1>2. \A i \in 1..Len(q) : f[i] = IF i = 1 THEN q[i] ELSE f[i - 1] \o q[i]
  BY <1>1 DEF Flattens
<1>3. 1 \in 1..Len(q) /\ q[1] \in Seq(S) /\ f[1] = q[1]
  BY <1>0, <1>2
<1>4. CASE r = <<>>
  <2>1. Len(q) = 1 /\ FlattenSeq(r) = <<>>
    BY <1>4 DEF FlattenSeq
  <2> QED BY <1>1, <1>3, <2>1, ConcatEmptySeq
<1>5. CASE r # <<>>
  <2>1. PICK g : /\ Flattens(r, Len(r), g) /\ FlattenSeq(r) = g[Len(r)]
                 /\ \A i \in 1..Len(r) : g[i] \in Seq(S)
    BY <1>5, FlattenSeqIs
  <2>2. \A i \in 1..Len(r) : g[i] = IF i = 1 THEN r[i] ELSE g[i - 1] \o r[i]
    BY <2>1 DEF Flattens
  <2> DEFINE Good(i) == f[i + 1] = q[1] \o g[i]
             Bad == {i \in 1..Len(r) : ~Good(i)}
  <2>3. Bad = {}
    <3> HIDE DEF Good
    <3>1. SUFFICES ASSUME Bad # {} PROVE FALSE
      OBVIOUS
    <3>2. PICK i \in Bad : \A m \in Bad : i <= m
      <4>1. Bad \in SUBSET Nat
        BY <1>0
      <4> HIDE DEF Bad
      <4> QED BY <3>1, <4>1, Least
    <3>3. /\ i \in 1..Len(r) /\ i + 1 \in 1..Len(q) /\ i + 1 # 1 /\ (i + 1) - 1 = i
          /\ ~Good(i)
      BY <1>0, <3>2
    <3> HIDE DEF Bad
    <3>4. f[i + 1] = f[i] \o r[i] /\ r[i] \in Seq(S)
      <4>1. f[i + 1] = f[(i + 1) - 1] \o q[i + 1] /\ r[i] = q[i + 1]
        BY <1>2, <3>3
      <4>2. f[(i + 1) - 1] = f[i]
        BY <3>3
      <4>3. r[i] \in Seq(S)
        BY <3>3, ElementOfSeq
      <4> QED BY <4>1, <4>2, <4>3
    <3>5. CASE i = 1
      <4>1. g[1] = r[1]
        BY <2>2, <3>3, <3>5
      <4> QED BY <1>3, <3>3, <3>4, <3>5, <4>1 DEF Good
    <3>6. CASE i # 1
      <4>0. i \in 1..Len(r) /\ i - 1 \in 1..Len(r) /\ (i - 1) + 1 = i /\ ~(i <= i - 1)
        BY <1>0, <3>3, <3>6
      <4>1. Good(i - 1)
        BY <3>2, <4>0 DEF Bad
      <4>2. f[i] = q[1] \o g[i - 1]
        BY <4>0, <4>1 DEF Good
      <4>3. g[i] = g[i - 1] \o r[i] /\ g[i - 1] \in Seq(S)
        BY <2>1, <2>2, <3>6, <4>0
      <4>4. q[1] \in Seq(S) /\ r[i] \in Seq(S)
        BY <1>3, <3>4
      <4>5. (q[1] \o g[i - 1]) \o r[i] = q[1] \o (g[i - 1] \o r[i])
        BY <1>a, <4>3, <4>4
      <4> QED BY <3>3, <3>4, <4>2, <4>3, <4>5 DEF Good
    <3> QED BY <3>5, <3>6
  <2>4. Len(r) \in 1..Len(r)
    BY <1>0, <1>5, EmptySeq
  <2>5. f[Len(r) + 1] = q[1] \o g[Len(r)]
    BY <2>3, <2>4
  <2> QED BY <1>1, <1>3, <2>1, <2>5
<1> QED BY <1>4, <1>5

\* A packet and its header are no larger than may be asked for.
LEMMA SizesFit ==
    /\ Sent \in Nat /\ HeaderSize \in Nat /\ HeaderSize # 0 /\ MaxPacketSize \in Nat
    /\ HeaderSize <= MaxPacketSize
    /\ sent \in [1..Sent -> Bodies] =>
          \A k \in 1..Sent : sent[k] \in Nat /\ sent[k] <= MaxPacketSize
<1>1. \A x \in Bodies : x \in Nat /\ x <= MaxPacketSize
  BY FramingAssumption
<1> QED BY <1>1, FramingAssumption

\* The packets that are to come are the next one, and those after it.
LEMMA RestSplits ==
    ASSUME sent \in [1..Sent -> Bodies]
    PROVE  /\ \A k \in 0..Sent : Rest(k) \in Seq(Unit)
           /\ Rest(Sent) = <<>>
           /\ \A k \in 1..Sent : Rest(k - 1) = Whole(k) \o Rest(k)
<1> DEFINE Tails(k) == [j \in 1..(Sent - k) |-> Whole(k + j)]
<1>0. Sent \in Nat /\ HeaderSize \in Nat /\ \A k \in 1..Sent : sent[k] \in Nat
  BY SizesFit
<1>1. ASSUME NEW k \in 1..Sent PROVE Whole(k) \in Seq(Unit)
  <2>1. HeaderSize + sent[k] \in Nat
    BY <1>0
  <2>2. \A i \in 1..(HeaderSize + sent[k]) : << k, i >> \in Unit
    BY <2>1 DEF Unit
  <2> QED BY <2>1, <2>2 DEF Whole
<1>2. ASSUME NEW k \in 0..Sent PROVE Tails(k) \in Seq(Seq(Unit)) /\ Len(Tails(k)) = Sent - k
  <2>1. Sent - k \in Nat /\ \A j \in 1..(Sent - k) : k + j \in 1..Sent
    BY <1>0
  <2> QED BY <1>1, <2>1
<1>3. \A k \in 0..Sent : Rest(k) \in Seq(Unit)
  BY <1>2, FlattenSeqType DEF Rest
<1>4. Rest(Sent) = <<>>
  <2>1. Len(Tails(Sent)) = 0 /\ Tails(Sent) = <<>>
    BY <1>0
  <2> QED BY <2>1 DEF Rest, FlattenSeq
<1>5. ASSUME NEW k \in 1..Sent PROVE Rest(k - 1) = Whole(k) \o Rest(k)
  <2>1. k - 1 \in 0..Sent /\ k \in 0..Sent /\ Sent - (k - 1) = (Sent - k) + 1 /\ Sent - k \in Nat
        /\ (k - 1) + 1 = k /\ k \in Nat
    BY <1>0
  <2>2. /\ Tails(k - 1) \in Seq(Seq(Unit)) /\ Tails(k) \in Seq(Seq(Unit))
        /\ Len(Tails(k - 1)) = Len(Tails(k)) + 1
    BY <1>2, <2>1
  <2>3. Tails(k - 1)[1] = Whole(k)
    BY <2>1
  <2>4. ASSUME NEW i \in 1..Len(Tails(k)) PROVE Tails(k)[i] = Tails(k - 1)[i + 1]
    <3>1. i \in 1..(Sent - k) /\ i + 1 \in 1..(Sent - (k - 1)) /\ (k - 1) + (i + 1) = k + i
      BY <1>2, <2>1
    <3> QED BY <3>1
  <2> HIDE DEF Tails
  <2>5. FlattenSeq(Tails(k - 1)) = Whole(k) \o FlattenSeq(Tails(k))
    BY <2>2, <2>3, <2>4, FlattenSeqSplits
  <2> QED BY <2>5 DEF Rest, Tails
<1> QED BY <1>3, <1>4, <1>5

--------------------------------------------------------------------------------
(***************************************************************************)
(* What onRecv does with a block.                                          *)
(***************************************************************************)
\* What setData makes of m_recvPacket.
LEMMA setDataKinds ==
    ASSUME KindsInv, NEW h \in Seq(Block), Len(heap) <= Len(h), NEW b \in 1..Len(h)
    PROVE  LET p == setData(h, recvPacket, b)
           IN  /\ p \in PacketOf(Len(h)) /\ p.head.blk # 0
               /\ p.head = IF recvPacket.readed THEN recvPacket.head ELSE [blk |-> b, own |-> TRUE]
               /\ p.body = IF recvPacket.readed THEN [blk |-> b, own |-> TRUE] ELSE recvPacket.body
               /\ p.readed = (~recvPacket.readed /\ h[b].size # 0)
<1>1. recvPacket \in PacketOf(Len(h)) /\ (recvPacket.readed => recvPacket.head.blk # 0)
  <2>1. Len(heap) \in Nat /\ Len(h) \in Nat
    BY DEF KindsInv
  <2> QED BY <2>1, Grows, Packets DEF KindsInv, TypeOK
<1>2. /\ recvPacket = [head |-> recvPacket.head, body |-> recvPacket.body, readed |-> recvPacket.readed]
      /\ recvPacket.head \in BufferOf(Len(h)) /\ recvPacket.body \in BufferOf(Len(h))
      /\ recvPacket.readed \in BOOLEAN
  BY <1>1 DEF PacketOf
<1>3. [blk |-> b, own |-> TRUE] \in BufferOf(Len(h)) /\ b # 0
  BY DEF BufferOf
<1> DEFINE p == setData(h, recvPacket, b)
           new == [blk |-> b, own |-> TRUE]
           part == IF recvPacket.readed THEN [recvPacket EXCEPT !.body = new]
                                        ELSE [recvPacket EXCEPT !.head = new]
<1>a. p = [part EXCEPT !.readed = ~recvPacket.readed /\ h[part.head.blk].size # 0]
  BY DEF setData
<1> HIDE DEF p
<1>4. CASE recvPacket.readed
  <2>0. part = [head |-> recvPacket.head, body |-> new, readed |-> recvPacket.readed]
    BY <1>2, <1>4
  <2>1. p = [head |-> recvPacket.head, body |-> new, readed |-> FALSE]
    BY <1>a, <1>4, <2>0
  <2>2. p \in PacketOf(Len(h)) /\ p.head.blk # 0
    BY <1>1, <1>2, <1>3, <1>4, <2>1 DEF PacketOf
  <2>3. (~recvPacket.readed /\ h[b].size # 0) = FALSE
    BY <1>4
  <2>4. /\ p.head = recvPacket.head /\ p.body = new
        /\ p.readed = (~recvPacket.readed /\ h[b].size # 0)
    BY <2>1, <2>3
  <2> QED BY <1>4, <2>2, <2>4 DEF p
<1>5. CASE ~recvPacket.readed
  <2>0. part = [head |-> new, body |-> recvPacket.body, readed |-> recvPacket.readed]
    BY <1>2, <1>5
  <2>1. p = [head |-> new, body |-> recvPacket.body, readed |-> h[b].size # 0]
    <3>1. part.head.blk = b /\ (~recvPacket.readed /\ h[part.head.blk].size # 0) = (h[b].size # 0)
      BY <1>5, <2>0
    <3> HIDE DEF part
    <3> QED BY <1>a, <2>0, <3>1
  <2>2. p \in PacketOf(Len(h)) /\ p.head.blk # 0
    BY <1>1, <1>2, <1>3, <2>1 DEF PacketOf
  <2> QED BY <1>5, <2>1, <2>2 DEF p
<1> QED BY <1>4, <1>5

\* What onRecv makes of the heap, m_recvPacket and the list.
LEMMA onRecvKinds ==
    ASSUME KindsInv, NEW h \in Seq(Block), Len(heap) <= Len(h), NEW b \in 1..Len(h),
           NEW freed \in BOOLEAN, onRecv(h, b, freed)
    PROVE  LET p == setData(h, recvPacket, b)
           IN  /\ heap' \in Seq(Block) /\ Len(heap') = Len(h)
               /\ \A c \in 1..Len(h) :
                     /\ heap'[c].data = h[c].data /\ heap'[c].size = h[c].size
                     /\ heap'[c].frees = h[c].frees
                           + (IF c \in Owned(Replaced(recvPacket)) THEN 1 ELSE 0)
                           + (IF freed /\ c = b THEN 1 ELSE 0)
               /\ recvPacket' = IF listed /\ ~p.readed THEN detach(p) ELSE p
               /\ list' = IF listed /\ ~p.readed THEN Append(list, detach(p)) ELSE list
               /\ recvPacket' \in PacketOf(Len(h)) /\ list' \in Seq(PacketOf(Len(h)))
               /\ recvPacket'.readed => recvPacket'.head.blk # 0
               /\ want' \in 0..MaxPacketSize /\ (Throws(h, p) => want' = 0)
<1> DEFINE p == setData(h, recvPacket, b)
           h1 == release(h, Replaced(recvPacket))
<1>0. p \in PacketOf(Len(h)) /\ p.head.blk # 0
  BY setDataKinds
<1>1. Len(heap) \in Nat /\ Len(h) \in Nat /\ recvPacket \in PacketOf(Len(h))
      /\ list \in Seq(PacketOf(Len(h)))
  <2>1. Len(heap) \in Nat /\ Len(h) \in Nat
    BY DEF KindsInv
  <2> QED BY <2>1, Grows, Packets DEF KindsInv, TypeOK
<1>2. Freed(h, h1, Owned(Replaced(recvPacket)))
  <2>1. Replaced(recvPacket) \in BufferOf(Len(h))
    BY <1>1 DEF Replaced, PacketOf
  <2> QED BY <2>1, ReleaseFrees
<1>3. heap' = IF freed THEN free(h1, {b}) ELSE h1
  BY DEF onRecv
<1>4. isReady(p) <=> ~p.readed
  BY <1>0 DEF isReady
<1>5. IF ~p.readed THEN onSessionRecv(h1, p) ELSE recvPacket' = p /\ UNCHANGED << list, taken >>
  BY <1>4 DEF onRecv
<1>6. want' = recv(h1, p)
  BY DEF onRecv
<1> HIDE DEF p, h1
<1>7. /\ heap' \in Seq(Block) /\ Len(heap') = Len(h)
      /\ \A c \in 1..Len(h) :
            /\ heap'[c].data = h[c].data /\ heap'[c].size = h[c].size
            /\ heap'[c].frees = h[c].frees
                  + (IF c \in Owned(Replaced(recvPacket)) THEN 1 ELSE 0)
                  + (IF freed /\ c = b THEN 1 ELSE 0)
  <2>0. h1 \in Seq(Block) /\ Len(h1) = Len(h)
    BY <1>2 DEF Freed
  <2>1. ASSUME NEW c \in 1..Len(h)
        PROVE  /\ h1[c].data = h[c].data /\ h1[c].size = h[c].size /\ h[c].frees \in Nat
               /\ h1[c].frees = h[c].frees + (IF c \in Owned(Replaced(recvPacket)) THEN 1 ELSE 0)
    <3>1. h[c] \in Block
      OBVIOUS
    <3>2. h[c].frees \in Nat
      BY <3>1 DEF Block
    <3> QED BY <1>2, <3>2 DEF Freed
  <2>2. CASE freed
    <3>1. Freed(h1, heap', {b})
      BY <1>3, <2>0, <2>2, FreeFrees
    <3>2. heap' \in Seq(Block) /\ Len(heap') = Len(h)
      BY <2>0, <3>1 DEF Freed
    <3>3. ASSUME NEW c \in 1..Len(h)
          PROVE  /\ heap'[c].data = h1[c].data /\ heap'[c].size = h1[c].size
                 /\ heap'[c].frees = IF c = b THEN h1[c].frees + 1 ELSE h1[c].frees
      BY <2>0, <3>1 DEF Freed
    <3> QED BY <2>1, <2>2, <3>2, <3>3
  <2>3. CASE ~freed
    <3>1. heap' = h1
      BY <1>3, <2>3
    <3> QED BY <2>0, <2>1, <2>3, <3>1
  <2> QED BY <2>2, <2>3
<1>8. /\ recvPacket' = IF listed /\ ~p.readed THEN detach(p) ELSE p
      /\ list' = IF listed /\ ~p.readed THEN Append(list, detach(p)) ELSE list
  BY <1>5 DEF onSessionRecv
<1>9. detach(p) \in PacketOf(Len(h)) /\ detach(p).head.blk = p.head.blk /\ detach(p).readed = p.readed
  BY <1>0 DEF detach, PacketOf, BufferOf
<1>10. /\ recvPacket' \in PacketOf(Len(h)) /\ list' \in Seq(PacketOf(Len(h)))
       /\ recvPacket'.readed => recvPacket'.head.blk # 0
  BY <1>0, <1>1, <1>8, <1>9
<1>11. want' \in 0..MaxPacketSize /\ (Throws(h, p) => want' = 0)
  <2>1. p.head.blk \in 1..Len(h)
    BY <1>0, <1>1 DEF PacketOf, BufferOf
  <2>2. h1[p.head.blk] \in Block /\ h1[p.head.blk].size = h[p.head.blk].size
    BY <1>2, <2>1 DEF Freed
  <2>3. h1[p.head.blk].size \in Nat
    BY <2>2 DEF Block
  <2> QED BY <1>6, <2>2, <2>3, SizesFit DEF recv, Throws
<1> QED BY <1>7, <1>8, <1>10, <1>11 DEF p

(***************************************************************************)
(* The steps, and the types.                                               *)
(***************************************************************************)
\* What a read brings, and where it goes.
LEMMA onRecvCallbackReads ==
    ASSUME KindsInv, NEW n \in 1..MaxPacketSize, onRecvCallback(n)
    PROVE  /\ open /\ queue = <<>> /\ hand = 0 /\ n <= want /\ n <= Len(stream)
           /\ SubSeq(stream, 1, n) \in Seq(Unit) /\ Len(SubSeq(stream, 1, n)) = n
           /\ stream' \in Seq(Unit) /\ want' = 0
           /\ \/ queue' = << Len(heap) + 1 >> /\ hand' = 0
              \/ queue' = <<>> /\ hand' = Len(heap) + 1
           /\ UNCHANGED << recvPacket, list, taken, stale, packet, raced >>
           /\ \E size \in Nat :
                 /\ heap' \in Seq(Block) /\ Len(heap') = Len(heap) + 1
                 /\ \A c \in Blocks : heap'[c] = heap[c]
                 /\ heap'[Len(heap) + 1] =
                       [data |-> SubSeq(stream, 1, n), size |-> size, frees |-> 0]
                 /\ recvPacket.readed \/ size \in SizeField(SubSeq(stream, 1, n))
<1> DEFINE data == SubSeq(stream, 1, n)
<1>1. /\ Len(stream) \in Nat /\ want \in Nat /\ n \in Nat /\ n >= 1 /\ Len(heap) \in Nat
      /\ DOMAIN heap = 1..Len(heap) /\ stream \in Seq(Unit) /\ heap \in Seq(Block)
      /\ sent \in [1..Sent -> Bodies]
  BY FramingAssumption DEF KindsInv, TypeOK
<1>2. open /\ n <= want /\ n <= Len(stream)
  <2>1. open /\ n \in 1..Smaller(want, Len(stream))
    BY DEF onRecvCallback
  <2> QED BY <1>1, <2>1 DEF Smaller
<1>3. queue = <<>> /\ hand = 0
  BY <1>1, <1>2 DEF KindsInv
<1>4. data \in Seq(Unit) /\ Len(data) = n
  <2>1. \A i \in 1..n : stream[i] \in Unit
    BY <1>1, <1>2
  <2> QED BY <1>1, <2>1, SubSeqProperties
<1>5. stream' \in Seq(Unit)
  <2>1. stream' = SubSeq(stream, n + 1, Len(stream))
    BY DEF onRecvCallback
  <2>2. \A i \in (n + 1)..Len(stream) : stream[i] \in Unit
    BY <1>1
  <2> QED BY <1>1, <2>1, <2>2, SubSeqProperties
<1>6. PICK size \in IF recvPacket.readed THEN {0} ELSE SizeField(data) :
              heap' = Append(heap, [data |-> data, size |-> size, frees |-> 0])
  BY DEF onRecvCallback
<1>7. size \in Nat /\ (recvPacket.readed \/ size \in SizeField(data))
  <2>1. CASE recvPacket.readed
    BY <1>6, <2>1
  <2>2. CASE ~recvPacket.readed /\ Len(data) = HeaderSize
    <3>1. data[HeaderSize] \in Unit
      BY <1>4, <2>2, SizesFit
    <3>2. sent[data[HeaderSize][1]] \in Nat
      BY <1>1, <3>1, SizesFit DEF Unit
    <3> QED BY <1>6, <2>2, <3>2, FramingAssumption DEF SizeField
  <2>3. CASE ~recvPacket.readed /\ Len(data) # HeaderSize
    BY <1>6, <2>3, FramingAssumption DEF SizeField
  <2> QED BY <2>1, <2>2, <2>3
<1> DEFINE block == [data |-> data, size |-> size, frees |-> 0]
<1>8. block \in Block
  BY <1>4, <1>7 DEF Block
<1>9. /\ heap' \in Seq(Block) /\ Len(heap') = Len(heap) + 1 /\ heap'[Len(heap) + 1] = block
      /\ \A c \in 1..Len(heap) : heap'[c] = heap[c]
  <2>1. heap' = Append(heap, block)
    BY <1>6
  <2> HIDE DEF block
  <2> QED BY <1>1, <1>8, <2>1, AppendProperties
<1>10. /\ want' = 0 /\ UNCHANGED << recvPacket, list, taken, stale, packet, raced >>
       /\ IF suspended THEN queue' = Append(queue, Len(heap) + 1) /\ hand' = hand
                       ELSE hand' = Len(heap) + 1 /\ queue' = queue
  BY DEF onRecvCallback
<1>11. \/ queue' = << Len(heap) + 1 >> /\ hand' = 0
       \/ queue' = <<>> /\ hand' = Len(heap) + 1
  BY <1>3, <1>10
<1> QED BY <1>1, <1>2, <1>3, <1>4, <1>5, <1>7, <1>9, <1>10, <1>11 DEF Blocks

\* What the timer calls the handler with, and what it leaves in the queue.
LEMMA processReadReads ==
    ASSUME KindsInv, processRead
    PROVE  /\ open /\ queue # <<>> /\ Len(queue) = 1 /\ hand = 0 /\ Head(queue) = queue[1]
           /\ Head(queue) \in 1..Len(heap) /\ \A c : Queued(c) <=> c = Head(queue)
           /\ \E freed \in BOOLEAN :
                 /\ onRecv(heap, Head(queue), freed)
                 /\ queue' = IF freed THEN <<>> ELSE queue
                 /\ freed <=> ~Throws(heap, setData(heap, recvPacket, Head(queue)))
           /\ UNCHANGED << listed, sent, stream, open, suspended, hand, packet, short, raced >>
<1>1. Len(heap) \in Nat /\ DOMAIN heap = 1..Len(heap)
  BY DEF KindsInv
<1>2. open /\ queue # <<>> /\ Len(queue) = 1 /\ hand = 0 /\ queue \in Seq(1..Len(heap))
  BY <1>1 DEF processRead, KindsInv, TypeOK, Blocks
<1>3. Head(queue) = queue[1] /\ Head(queue) \in 1..Len(heap) /\ Tail(queue) = <<>>
  <2>1. Head(queue) = queue[1] /\ 1 \in 1..Len(queue)
    BY <1>2
  <2>2. queue[1] \in 1..Len(heap)
    BY <1>2, <2>1, ElementOfSeq
  <2>3. Tail(queue) = <<>>
    <3>1. Tail(queue) \in Seq(1..Len(heap)) /\ Len(Tail(queue)) = Len(queue) - 1
      BY <1>2, HeadTailProperties
    <3>2. Len(Tail(queue)) = 0
      BY <1>2, <3>1
    <3> QED BY <3>1, <3>2, EmptySeq
  <2> QED BY <2>1, <2>2, <2>3
<1>4. \A c : Queued(c) <=> c = Head(queue)
  BY <1>2, <1>3 DEF Queued
<1>5. /\ UNCHANGED << listed, sent, stream, open, suspended, hand, packet, short, raced >>
      /\ onRecv(heap, Head(queue), ~Throws(heap, setData(heap, recvPacket, Head(queue))))
      /\ queue' = IF Throws(heap, setData(heap, recvPacket, Head(queue))) THEN queue
                  ELSE Tail(queue)
  BY DEF processRead
<1>6. CASE Throws(heap, setData(heap, recvPacket, Head(queue)))
  <2>1. onRecv(heap, Head(queue), FALSE) /\ queue' = queue
    BY <1>5, <1>6 DEF onRecv
  <2> QED BY <1>2, <1>3, <1>4, <1>5, <1>6, <2>1
<1>7. CASE ~Throws(heap, setData(heap, recvPacket, Head(queue)))
  <2>1. onRecv(heap, Head(queue), TRUE) /\ queue' = <<>>
    BY <1>3, <1>5, <1>7 DEF onRecv
  <2> QED BY <1>2, <1>3, <1>4, <1>5, <1>7, <2>1
<1> QED BY <1>6, <1>7

\* The types hold at first, ...
LEMMA KindsInit == Init => KindsInv
<1> SUFFICES ASSUME Init PROVE KindsInv
  OBVIOUS
<1>1. NoBuffer \in Buffer /\ EmptyPacket \in Packet
  BY DEF NoBuffer, EmptyPacket, Packet, Buffer, Init
<1>2. stream \in Seq(Unit)
  <2>1. Sent - 0 = Sent /\ 0 \in 0..Sent /\ \A j \in 1..Sent : 0 + j = j
    BY FramingAssumption
  <2>2. [j \in 1..Sent |-> Whole(j)] = [j \in 1..(Sent - 0) |-> Whole(0 + j)]
    BY <2>1
  <2>3. stream = Rest(0)
    BY <2>2 DEF Init, Rest
  <2> QED BY <2>1, <2>3, RestSplits DEF Init
<1>3. HeaderSize \in 0..MaxPacketSize /\ 0 \in 0..MaxShort
  BY FramingAssumption, SizesFit
<1>4. list \in Seq(Packet) /\ queue \in Seq(Blocks) /\ hand \in 0..Len(heap)
  BY DEF Init
<1>5. TypeOK
  BY <1>1, <1>3, <1>4 DEF Init, TypeOK
<1> QED BY <1>2, <1>5 DEF Init, KindsInv, EmptyPacket

\* What onRecv leaves, with what the step around it did.
LEMMA onRecvTyped ==
    ASSUME KindsInv, NEW h \in Seq(Block), Len(heap) <= Len(h), NEW b \in 1..Len(h),
           NEW freed \in BOOLEAN, onRecv(h, b, freed),
           UNCHANGED << listed, sent, open, suspended, packet >>,
           stream' \in Seq(Unit), short' \in 0..MaxShort, hand' = 0,
           queue' = <<>> \/ (queue' = queue /\ Throws(h, setData(h, recvPacket, b)))
    PROVE  KindsInv'
<1>1. /\ heap' \in Seq(Block) /\ Len(heap') = Len(h)
      /\ recvPacket' \in PacketOf(Len(h)) /\ list' \in Seq(PacketOf(Len(h)))
      /\ recvPacket'.readed => recvPacket'.head.blk # 0
      /\ want' \in 0..MaxPacketSize
      /\ (Throws(h, setData(h, recvPacket, b)) => want' = 0)
  BY onRecvKinds
<1>2. packet' \in PacketOf(Len(h))
  <2>1. Len(heap) \in Nat /\ Len(h) \in Nat
    BY DEF KindsInv
  <2> QED BY <2>1, Grows, Packets DEF KindsInv, TypeOK
<1>3. Packet' = PacketOf(Len(heap'))
  BY Packets
<1>4. queue' \in Seq(Blocks') /\ hand' \in 0..Len(heap')
  <2>1. 0 \in 0..Len(heap') /\ DOMAIN heap' = 1..Len(h)
    BY <1>1
  <2>3. <<>> \in Seq(1..Len(h))
    OBVIOUS
  <2>2. queue \in Seq(1..Len(h))
    <3>1. Len(heap) \in Nat /\ Len(h) \in Nat /\ queue \in Seq(1..Len(heap))
      BY DEF KindsInv, TypeOK, Blocks
    <3> QED BY <3>1, Grows
  <2>4. queue' \in Seq(1..Len(h))
    BY <2>2, <2>3
  <2> QED BY <2>1, <2>4 DEF Blocks
<1>5. TypeOK'
  BY <1>1, <1>2, <1>3, <1>4 DEF KindsInv, TypeOK
<1>6. queue' # <<>> => want' = 0 /\ Len(queue') = 1 /\ hand' = 0
  BY <1>1 DEF KindsInv
<1> QED BY <1>1, <1>5, <1>6 DEF KindsInv

\* ... and every step keeps them.
LEMMA KindsStep == KindsInv /\ [Next]_vars => KindsInv'
<1> SUFFICES ASSUME KindsInv, [Next]_vars PROVE KindsInv'
  OBVIOUS
<1>0. Len(heap) \in Nat /\ DOMAIN heap = 1..Len(heap)
  BY DEF KindsInv
<1>1. ASSUME NEW n \in 1..MaxPacketSize, onRecvCallback(n) PROVE KindsInv'
  <2>1. UNCHANGED << listed, sent, open, suspended, packet >> /\ short' \in 0..MaxShort
    <3>1. /\ UNCHANGED << listed, sent, open, suspended, packet >>
          /\ short' = IF n < want THEN short + 1 ELSE short
          /\ short' <= MaxShort
      BY <1>1 DEF onRecvCallback
    <3> QED BY <3>1, FramingAssumption DEF KindsInv, TypeOK
  <2>2. /\ stream' \in Seq(Unit) /\ heap' \in Seq(Block) /\ Len(heap') = Len(heap) + 1
        /\ want' = 0 /\ UNCHANGED << recvPacket, list >>
        /\ \/ queue' = << Len(heap) + 1 >> /\ hand' = 0
           \/ queue' = <<>> /\ hand' = Len(heap) + 1
    BY <1>1, onRecvCallbackReads
  <2>3. DOMAIN heap' = 1..(Len(heap) + 1) /\ hand' \in 0..Len(heap')
        /\ (queue' = <<>> \/ (Len(queue') = 1 /\ hand' = 0))
    BY <1>0, <2>2
  <2>4. queue' \in Seq(Blocks')
    <3> DEFINE b == Len(heap) + 1
               S == 1..b
    <3>1. b \in S /\ Blocks' = S
      BY <1>0, <2>3 DEF Blocks
    <3>2. queue' = << b >> \/ queue' = <<>>
      BY <2>2
    <3> HIDE DEF b, S
    <3>3. << b >> \in Seq(S) /\ <<>> \in Seq(S)
      BY <3>1
    <3> QED BY <3>1, <3>2, <3>3
  <2>5. recvPacket' \in Packet' /\ packet' \in Packet' /\ list' \in Seq(Packet')
    <3>1. /\ PacketOf(Len(heap)) \subseteq PacketOf(Len(heap) + 1)
          /\ Seq(PacketOf(Len(heap))) \subseteq Seq(PacketOf(Len(heap) + 1))
      BY <1>0, Grows
    <3>2. /\ recvPacket \in PacketOf(Len(heap)) /\ packet \in PacketOf(Len(heap))
          /\ list \in Seq(PacketOf(Len(heap)))
      BY Packets DEF KindsInv, TypeOK
    <3>3. Packet' = PacketOf(Len(heap) + 1)
      BY <2>2, Packets
    <3> QED BY <2>1, <2>2, <3>1, <3>2, <3>3
  <2>6. TypeOK'
    BY <2>1, <2>2, <2>3, <2>4, <2>5, SizesFit DEF KindsInv, TypeOK
  <2> QED BY <2>2, <2>3, <2>6 DEF KindsInv
<1>2. CASE processRead
  <2>1. PICK freed \in BOOLEAN :
                 /\ onRecv(heap, Head(queue), freed)
                 /\ queue' = IF freed THEN <<>> ELSE queue
                 /\ freed <=> ~Throws(heap, setData(heap, recvPacket, Head(queue)))
    BY <1>2, processReadReads
  <2>2. /\ Head(queue) \in 1..Len(heap) /\ hand = 0
        /\ UNCHANGED << listed, sent, stream, open, suspended, hand, packet, short >>
    BY <1>2, processReadReads
  <2>3. /\ heap \in Seq(Block) /\ Len(heap) <= Len(heap) /\ hand' = 0
        /\ stream' \in Seq(Unit) /\ short' \in 0..MaxShort
        /\ UNCHANGED << listed, sent, open, suspended, packet >>
    BY <1>0, <2>2 DEF KindsInv, TypeOK
  <2>4. queue' = <<>> \/ (queue' = queue /\ Throws(heap, setData(heap, recvPacket, Head(queue))))
    BY <2>1
  <2>5. PICK b \in 1..Len(heap) : b = Head(queue)
    BY <2>2
  <2> QED BY <2>1, <2>3, <2>4, <2>5, onRecvTyped
<1>7. CASE handle /\ open
  <2>1. /\ hand # 0 /\ hand' = 0 /\ onRecv(heap, hand, FALSE)
        /\ UNCHANGED << listed, sent, stream, open, suspended, queue, packet, short >>
    BY <1>7 DEF handle
  <2>2. hand \in 1..Len(heap) /\ queue = <<>>
    BY <1>0, <2>1 DEF KindsInv, TypeOK
  <2>3. /\ heap \in Seq(Block) /\ Len(heap) <= Len(heap) /\ FALSE \in BOOLEAN
        /\ stream' \in Seq(Unit) /\ short' \in 0..MaxShort /\ queue' = <<>>
        /\ UNCHANGED << listed, sent, open, suspended, packet >>
    BY <1>0, <2>1, <2>2 DEF KindsInv, TypeOK
  <2>4. PICK b \in 1..Len(heap) : b = hand
    BY <2>2
  <2> QED BY <2>1, <2>3, <2>4, onRecvTyped
<1>8. CASE handle /\ ~open
  <2>1. /\ heap' = free(heap, {hand}) \/ heap' = heap
        /\ hand' = 0
        /\ UNCHANGED << listed, sent, stream, open, suspended, queue, packet, short,
                        recvPacket, want, list >>
    BY <1>8 DEF handle
  <2>2. heap' \in Seq(Block) /\ Len(heap') = Len(heap)
    <3>1. heap \in Seq(Block)
      BY DEF KindsInv
    <3> QED BY <2>1, <3>1, FreeFrees DEF Freed
  <2>3. Packet' = Packet /\ Blocks' = Blocks /\ 0 \in 0..Len(heap')
    <3>1. DOMAIN heap' = DOMAIN heap
      BY <1>0, <2>2
    <3> QED BY <1>0, <2>2, <3>1, Packets DEF Blocks
  <2>4. TypeOK'
    BY <2>1, <2>3 DEF KindsInv, TypeOK
  <2> QED BY <2>1, <2>2, <2>4 DEF KindsInv
<1>3. ASSUME NEW b \in BOOLEAN, suspendDispatch(b) PROVE KindsInv'
  BY <1>3 DEF suspendDispatch, KindsInv, TypeOK, Packet, Buffer, Blocks
<1>4. CASE close
  <2>1. recvPacket \in PacketOf(Len(heap)) /\ heap \in Seq(Block)
    BY Packets DEF KindsInv, TypeOK
  <2>2. clear(heap, recvPacket) \in Seq(Block) /\ Len(clear(heap, recvPacket)) = Len(heap)
    BY <2>1, ClearKinds
  <2>3. /\ heap' = free(clear(heap, recvPacket), Range(queue))
        /\ open' = FALSE /\ want' = 0 /\ queue' = <<>> /\ recvPacket' = EmptyPacket
        /\ UNCHANGED << listed, sent, stream, suspended, hand, list, packet, short >>
    BY <1>4 DEF close
  <2>4. heap' \in Seq(Block) /\ Len(heap') = Len(heap)
    BY <2>2, <2>3, FreeFrees DEF Freed
  <2>5. Packet' = PacketOf(Len(heap)) /\ EmptyPacket \in PacketOf(Len(heap))
    BY <1>0, <2>4, Packets DEF EmptyPacket, NoBuffer, PacketOf, BufferOf
  <2>6. /\ Packet = Packet' /\ 0 \in 0..MaxPacketSize
        /\ queue' \in Seq(Blocks') /\ recvPacket' \in Packet'
    BY <2>3, <2>5, Packets, SizesFit
  <2>7. TypeOK'
    BY <2>3, <2>4, <2>6 DEF KindsInv, TypeOK
  <2> QED BY <2>3, <2>4, <2>7 DEF KindsInv, EmptyPacket
<1>5. CASE queryRecvPacket
  <2>1. /\ list # <<>> /\ heap' = clear(heap, packet) /\ packet' = attach(Head(list))
        /\ list' = Tail(list)
        /\ UNCHANGED << listed, sent, stream, recvPacket, want, open, suspended, hand, queue,
                        short >>
    BY <1>5 DEF queryRecvPacket
  <2>2. /\ packet \in PacketOf(Len(heap)) /\ heap \in Seq(Block)
        /\ list \in Seq(PacketOf(Len(heap))) /\ recvPacket \in PacketOf(Len(heap))
    BY Packets DEF KindsInv, TypeOK
  <2>3. heap' \in Seq(Block) /\ Len(heap') = Len(heap) /\ DOMAIN heap' = DOMAIN heap
    <3>1. heap' \in Seq(Block) /\ Len(heap') = Len(heap)
      BY <2>1, <2>2, ClearKinds
    <3> QED BY <1>0, <3>1
  <2>4. Head(list) \in PacketOf(Len(heap)) /\ list' \in Seq(PacketOf(Len(heap)))
    BY <2>1, <2>2
  <2>5. packet' \in PacketOf(Len(heap))
    BY <2>1, <2>4 DEF attach, PacketOf, BufferOf
  <2>6. TypeOK'
    BY <2>1, <2>2, <2>3, <2>4, <2>5, Packets DEF KindsInv, TypeOK, Blocks
  <2> QED BY <2>1, <2>3, <2>6 DEF KindsInv
<1>6. CASE UNCHANGED vars
  BY <1>6 DEF vars, KindsInv, TypeOK, Packet, Buffer, Blocks
<1> QED BY <1>1, <1>2, <1>3, <1>4, <1>5, <1>6, <1>7, <1>8 DEF Next

--------------------------------------------------------------------------------
(***************************************************************************)
(* Nothing leaks.                                                          *)
(***************************************************************************)
\* Owners speaks of the blocks that the two packets hold.
LEMMA OwnersHeld == \A b : Owners(b) # {} <=> b \in Held(recvPacket) \cup Held(packet)
<1> TAKE b
<1>1. /\ << "recv", "head" >> \in Owners(b) <=> b \in Owned(recvPacket.head)
      /\ << "recv", "body" >> \in Owners(b) <=> b \in Owned(recvPacket.body)
      /\ << "app", "head" >> \in Owners(b) <=> b \in Owned(packet.head)
      /\ << "app", "body" >> \in Owners(b) <=> b \in Owned(packet.body)
  BY DEF Owners, Owned
<1>2. Owners(b) \subseteq {<< "recv", "head" >>, << "recv", "body" >>,
                           << "app", "head" >>, << "app", "body" >>}
  BY DEF Owners
<1> HIDE DEF Owners
<1> QED BY <1>1, <1>2 DEF Held

\* The blocks of the packet that is listed.
LEMMA ListedAppend ==
    ASSUME NEW S, NEW p \in S, list \in Seq(S), list' = Append(list, p)
    PROVE  \A c : Listed(c)' <=> Listed(c) \/ c = p.head.blk \/ c = p.body.blk
<1>1. /\ Len(list') = Len(list) + 1 /\ Len(list) \in Nat /\ list'[Len(list) + 1] = p
      /\ DOMAIN list = 1..Len(list) /\ DOMAIN list' = 1..(Len(list) + 1)
      /\ \A k \in 1..Len(list) : list'[k] = list[k]
  OBVIOUS
<1>2. \A k \in 1..(Len(list) + 1) : k \in 1..Len(list) \/ k = Len(list) + 1
  BY <1>1
<1>3. \A k \in 1..Len(list) : k \in 1..(Len(list) + 1)
  BY <1>1
<1>4. Len(list) + 1 \in 1..(Len(list) + 1)
  BY <1>1
<1> QED BY <1>1, <1>2, <1>3, <1>4 DEF Listed

\* ... and once the first was taken away.
LEMMA ListedTail ==
    ASSUME NEW S, list \in Seq(S), list # <<>>, list' = Tail(list)
    PROVE  \A c : Listed(c) <=> Listed(c)' \/ c = Head(list).head.blk \/ c = Head(list).body.blk
<1>1. /\ Len(list') = Len(list) - 1 /\ Len(list) \in Nat /\ Len(list) # 0 /\ Head(list) = list[1]
      /\ DOMAIN list = 1..Len(list) /\ DOMAIN list' = 1..(Len(list) - 1)
      /\ \A k \in 1..(Len(list) - 1) : list'[k] = list[k + 1]
  OBVIOUS
<1>2. \A k \in 1..Len(list) : k = 1 \/ (k - 1 \in 1..(Len(list) - 1) /\ list'[k - 1] = list[k])
  BY <1>1
<1>3. \A k \in 1..(Len(list) - 1) : k + 1 \in 1..Len(list)
  BY <1>1
<1>4. 1 \in 1..Len(list)
  BY <1>1
<1> TAKE c
<1>5. Listed(c) => Listed(c)' \/ c = Head(list).head.blk \/ c = Head(list).body.blk
  <2>1. SUFFICES ASSUME NEW k \in 1..Len(list), list[k].head.blk = c \/ list[k].body.blk = c
                 PROVE  Listed(c)' \/ c = Head(list).head.blk \/ c = Head(list).body.blk
    BY <1>1 DEF Listed
  <2> QED BY <1>1, <1>2, <2>1 DEF Listed
<1>6. Listed(c)' => Listed(c)
  <2>1. SUFFICES ASSUME NEW k \in 1..(Len(list) - 1), list'[k].head.blk = c \/ list'[k].body.blk = c
                 PROVE  Listed(c)
    BY <1>1 DEF Listed
  <2> QED BY <1>1, <1>3, <2>1 DEF Listed
<1>7. c = Head(list).head.blk \/ c = Head(list).body.blk => Listed(c)
  BY <1>1, <1>4 DEF Listed
<1> QED BY <1>5, <1>6, <1>7

Used(c) == c \in Held(recvPacket) \/ c \in Held(packet) \/ Listed(c)

\* A block stays where it was, goes on to the list, or is freed.
LEMMA onRecvKeeps ==
    ASSUME KindsInv, NEW h \in Seq(Block), Len(heap) <= Len(h), NEW b \in 1..Len(h),
           NEW freed \in BOOLEAN, onRecv(h, b, freed), packet' = packet,
           NEW c \in 1..Len(h), heap'[c].frees = 0, h[c].frees = 0 => c = b \/ Used(c)
    PROVE  Used(c)'
<1> DEFINE p == setData(h, recvPacket, b)
<1>1. /\ p \in PacketOf(Len(h))
      /\ p.head = IF recvPacket.readed THEN recvPacket.head ELSE [blk |-> b, own |-> TRUE]
      /\ p.body = IF recvPacket.readed THEN [blk |-> b, own |-> TRUE] ELSE recvPacket.body
  BY setDataKinds
<1>2. /\ heap'[c].frees = h[c].frees
                           + (IF c \in Owned(Replaced(recvPacket)) THEN 1 ELSE 0)
                           + (IF freed /\ c = b THEN 1 ELSE 0)
      /\ recvPacket' = IF listed /\ ~p.readed THEN detach(p) ELSE p
      /\ list' = IF listed /\ ~p.readed THEN Append(list, detach(p)) ELSE list
  BY onRecvKinds
<1> HIDE DEF p
<1>3. h[c].frees = 0 /\ c \notin Owned(Replaced(recvPacket))
  <2>1. h[c] \in Block
    OBVIOUS
  <2>2. h[c].frees \in Nat
    BY <2>1 DEF Block
  <2> QED BY <1>2, <2>2
<1>4. c \in Held(p) \/ c \in Held(packet) \/ Listed(c)
  BY <1>1, <1>3 DEF Used, Held, Owned, Replaced
<1>5. CASE listed /\ ~p.readed
  <2>1. list' = Append(list, detach(p))
    BY <1>2, <1>5
  <2>2. c \in Held(p) => c = detach(p).head.blk \/ c = detach(p).body.blk
    BY <1>1 DEF Held, Owned, detach, PacketOf, BufferOf
  <2>3. \A x : Listed(x)' <=> Listed(x) \/ x = detach(p).head.blk \/ x = detach(p).body.blk
    <3> DEFINE S == Packet \cup {detach(p)}
    <3>1. list \in Seq(S) /\ detach(p) \in S
      BY DEF KindsInv, TypeOK
    <3> HIDE DEF S
    <3> QED BY <2>1, <3>1, ListedAppend
  <2> QED BY <1>4, <2>2, <2>3 DEF Used
<1>6. CASE ~(listed /\ ~p.readed)
  <2>1. recvPacket' = p /\ list' = list
    BY <1>2, <1>6
  <2>2. Listed(c)' <=> Listed(c)
    BY <2>1 DEF Listed
  <2> QED BY <1>4, <2>1, <2>2 DEF Used
<1> QED BY <1>5, <1>6

\* NothingLeaks without the counting of owners.
LeakFree == ~raced => \A b \in Blocks : heap[b].frees = 0 => Used(b) \/ Queued(b)

\* NothingLeaks, by Used.
LEMMA LeaksIs == NothingLeaks <=> LeakFree
BY OwnersHeld DEF NothingLeaks, LeakFree, Used

\* A session that was destroyed under its handler stays that.
LEMMA RacedStays == [Next]_vars => (raced => raced')
BY DEF Next, vars, onRecvCallback, handle, processRead, suspendDispatch, close, queryRecvPacket

\* No step loses a block.
LEMMA LeakStep == KindsInv /\ LeakFree /\ [Next]_vars => LeakFree'
<1> SUFFICES ASSUME KindsInv, LeakFree, [Next]_vars PROVE LeakFree'
  OBVIOUS
<1>0. /\ Len(heap) \in Nat /\ DOMAIN heap = 1..Len(heap) /\ Blocks = 1..Len(heap)
      /\ heap \in Seq(Block) /\ KindsInv'
      /\ Blocks' = 1..Len(heap') /\ \A c \in Blocks : heap[c].frees \in Nat
  <2>1. KindsInv'
    BY KindsStep
  <2>2. \A c \in 1..Len(heap) : heap[c] \in Block
    BY DEF KindsInv
  <2>3. \A c \in 1..Len(heap) : heap[c].frees \in Nat
    BY <2>2 DEF Block
  <2> QED BY <2>1, <2>3 DEF KindsInv, Blocks
<1>b. SUFFICES ASSUME ~raced', NEW c \in Blocks', heap'[c].frees = 0
               PROVE  Used(c)' \/ Queued(c)'
  BY DEF LeakFree
<1>a. \A x \in Blocks : heap[x].frees = 0 => Used(x) \/ Queued(x)
  BY <1>b, RacedStays DEF LeakFree
<1>1. ASSUME NEW n \in 1..MaxPacketSize, onRecvCallback(n) PROVE Used(c)' \/ Queued(c)'
  <2>1. /\ queue = <<>> /\ hand = 0 /\ UNCHANGED << recvPacket, packet, list >>
        /\ \/ queue' = << Len(heap) + 1 >> /\ hand' = 0
           \/ queue' = <<>> /\ hand' = Len(heap) + 1
        /\ Len(heap') = Len(heap) + 1 /\ \A x \in Blocks : heap'[x] = heap[x]
    BY <1>1, onRecvCallbackReads
  <2>2. c \in Blocks \/ c = Len(heap) + 1
    BY <1>0, <1>b, <2>1
  <2>3. CASE c = Len(heap) + 1
    BY <1>0, <2>1, <2>3 DEF Queued
  <2>4. CASE c \in Blocks
    <3>1. Used(c) \/ Queued(c)
      BY <1>a, <1>b, <2>1, <2>4
    <3>2. ~Queued(c)
      BY <2>1 DEF Queued
    <3> QED BY <2>1, <3>1, <3>2 DEF Used, Listed
  <2> QED BY <2>2, <2>3, <2>4
<1>2. CASE processRead
  <2>1. PICK freed \in BOOLEAN : onRecv(heap, Head(queue), freed)
    BY <1>2, processReadReads
  <2>2. packet' = packet /\ Head(queue) \in 1..Len(heap) /\ \A x : Queued(x) => x = Head(queue)
    BY <1>2, processReadReads
  <2>3. PICK b \in 1..Len(heap) : b = Head(queue)
    BY <2>2
  <2>a. Len(heap) <= Len(heap)
    BY <1>0
  <2>4. Len(heap') = Len(heap)
    BY <1>0, <2>a, <2>1, <2>3, onRecvKinds
  <2>5. c \in 1..Len(heap) /\ (heap[c].frees = 0 => c = b \/ Used(c))
    BY <1>0, <1>a, <1>b, <2>2, <2>3, <2>4
  <2>6. Used(c)'
    BY <1>0, <1>b, <2>a, <2>1, <2>2, <2>3, <2>5, onRecvKeeps
  <2> QED BY <2>6
<1>7. CASE handle /\ open
  <2>1. hand # 0 /\ onRecv(heap, hand, FALSE) /\ packet' = packet
    BY <1>7 DEF handle
  <2>2. queue = <<>> /\ hand \in 1..Len(heap)
    BY <1>0, <2>1 DEF KindsInv, TypeOK
  <2>3. \A x : Queued(x) => x = hand
    BY <2>2 DEF Queued
  <2>4. PICK b \in 1..Len(heap) : b = hand
    BY <2>2
  <2>a. Len(heap) <= Len(heap) /\ FALSE \in BOOLEAN
    BY <1>0
  <2>5. Len(heap') = Len(heap)
    BY <1>0, <2>a, <2>1, <2>4, onRecvKinds
  <2>6. c \in 1..Len(heap) /\ (heap[c].frees = 0 => c = b \/ Used(c))
    BY <1>0, <1>a, <1>b, <2>3, <2>4, <2>5
  <2>7. Used(c)'
    BY <1>0, <1>b, <2>a, <2>1, <2>4, <2>6, onRecvKeeps
  <2> QED BY <2>7
<1>8. CASE handle /\ ~open
  <2>1. heap' = free(heap, {hand}) /\ UNCHANGED << recvPacket, list, packet, queue >>
    BY <1>8, <1>b DEF handle
  <2>2. Freed(heap, heap', {hand})
    BY <1>0, <2>1, FreeFrees
  <2>3. c \in Blocks
    BY <1>0, <1>b, <2>2 DEF Freed
  <2>4. c # hand /\ heap[c].frees = 0
    BY <1>0, <1>b, <2>2, <2>3 DEF Freed
  <2>5. Used(c) \/ Queued(c)
    BY <1>a, <2>3, <2>4
  <2> QED BY <2>1, <2>4, <2>5 DEF Used, Queued, Listed
<1>3. ASSUME NEW b \in BOOLEAN, suspendDispatch(b) PROVE Used(c)' \/ Queued(c)'
  BY <1>0, <1>3, <1>a, <1>b DEF suspendDispatch, Used, Queued, Listed, Blocks
<1>4. CASE close
  <2>1. recvPacket \in PacketOf(Len(heap)) /\ heap \in Seq(Block)
    BY Packets DEF KindsInv, TypeOK
  <2> DEFINE g == clear(heap, recvPacket)
  <2>2. g \in Seq(Block) /\ Len(g) = Len(heap)
        /\ \A x \in 1..Len(heap) : g[x].frees = 0 => heap[x].frees = 0 /\ x \notin Held(recvPacket)
    BY <2>1, ClearKinds DEF Held
  <2> HIDE DEF g
  <2>3. /\ heap' = free(g, Range(queue))
        /\ UNCHANGED << list, packet, hand >>
    BY <1>4 DEF close, g
  <2>4. Freed(g, heap', Range(queue))
    BY <2>2, <2>3, FreeFrees
  <2>5. c \in 1..Len(heap)
    BY <1>0, <1>b, <2>2, <2>4 DEF Freed
  <2>6. g[c].frees = 0 /\ c \notin Range(queue)
    <3>1. g[c] \in Block
      BY <2>2, <2>5
    <3>2. g[c].frees \in Nat
      BY <3>1 DEF Block
    <3> QED BY <1>b, <2>2, <2>4, <2>5, <3>2 DEF Freed
  <2>7. (Queued(c) => Queued(c)') /\ (Listed(c) <=> Listed(c)')
    BY <2>3, <2>6 DEF Queued, Range, Listed
  <2> QED BY <1>0, <1>a, <2>2, <2>3, <2>5, <2>6, <2>7 DEF Used
<1>5. CASE queryRecvPacket
  <2>1. /\ list # <<>> /\ heap' = clear(heap, packet) /\ packet' = attach(Head(list))
        /\ list' = Tail(list) /\ UNCHANGED << recvPacket, hand, queue >>
    BY <1>5 DEF queryRecvPacket
  <2>2. /\ packet \in PacketOf(Len(heap)) /\ heap \in Seq(Block)
        /\ list \in Seq(PacketOf(Len(heap)))
    BY Packets DEF KindsInv, TypeOK
  <2>3. c \in 1..Len(heap) /\ heap[c].frees = 0 /\ c \notin Held(packet)
    <3>1. /\ heap' \in Seq(Block) /\ Len(heap') = Len(heap)
          /\ \A x \in 1..Len(heap) : heap'[x].frees = 0 =>
                heap[x].frees = 0 /\ x \notin Owned(packet.head) \cup Owned(packet.body)
      BY <2>1, <2>2, ClearKinds
    <3>2. c \in 1..Len(heap)
      <4>1. DOMAIN heap' = 1..Len(heap)
        BY <3>1
      <4> QED BY <1>b, <4>1 DEF Blocks
    <3> QED BY <1>b, <3>1, <3>2 DEF Held
  <2>4. Listed(c) => Listed(c)' \/ c = Head(list).head.blk \/ c = Head(list).body.blk
    BY <2>1, <2>2, ListedTail
  <2>5. Head(list) \in PacketOf(Len(heap))
    BY <2>1, <2>2
  <2>6. c = Head(list).head.blk \/ c = Head(list).body.blk => c \in Held(packet')
    BY <2>1, <2>5 DEF Held, Owned, attach, PacketOf, BufferOf
  <2>7. Queued(c)' <=> Queued(c)
    BY <2>1 DEF Queued
  <2> QED BY <1>0, <1>a, <2>1, <2>3, <2>4, <2>6, <2>7 DEF Used
<1>6. CASE UNCHANGED vars
  BY <1>0, <1>6, <1>a, <1>b DEF vars, Used, Queued, Listed, Blocks
<1> QED BY <1>1, <1>2, <1>3, <1>4, <1>5, <1>6, <1>7, <1>8 DEF Next

--------------------------------------------------------------------------------
(***************************************************************************)
(* One owner.                                                              *)
(***************************************************************************)
\* Blocks of the heap are numbered from 1, and what packets and lists hold is in the heap.
LEMMA InHeap ==
    ASSUME KindsInv
    PROVE  /\ Len(heap) \in Nat /\ DOMAIN heap = 1..Len(heap) /\ Blocks = 1..Len(heap)
           /\ Held(recvPacket) \subseteq 0..Len(heap) /\ Held(packet) \subseteq 0..Len(heap)
           /\ \A c : Listed(c) \/ Queued(c) => c \in 0..Len(heap)
           /\ \A c \in Blocks : heap[c].frees \in Nat
           /\ 0 \notin Blocks /\ Len(heap) + 1 \notin 0..Len(heap)
<1>1. Len(heap) \in Nat /\ DOMAIN heap = 1..Len(heap) /\ Blocks = 1..Len(heap)
  BY DEF KindsInv, Blocks
<1>2. /\ recvPacket \in PacketOf(Len(heap)) /\ packet \in PacketOf(Len(heap))
      /\ list \in Seq(PacketOf(Len(heap))) /\ queue \in Seq(1..Len(heap))
  BY <1>1, Packets DEF KindsInv, TypeOK
<1>3. Held(recvPacket) \subseteq 0..Len(heap) /\ Held(packet) \subseteq 0..Len(heap)
  BY <1>2 DEF Held, Owned, PacketOf, BufferOf
<1>4. ASSUME NEW c, Listed(c) PROVE c \in 0..Len(heap)
  <2>1. PICK k \in DOMAIN list : list[k].head.blk = c \/ list[k].body.blk = c
    BY <1>4 DEF Listed
  <2>2. list[k] \in PacketOf(Len(heap))
    BY <1>2, <2>1
  <2> QED BY <2>1, <2>2 DEF PacketOf, BufferOf
<1>5. ASSUME NEW c, Queued(c) PROVE c \in 0..Len(heap)
  <2>0. hand \in 0..Len(heap)
    BY DEF KindsInv, TypeOK
  <2>1. SUFFICES ASSUME ~(c = hand) PROVE c \in 0..Len(heap)
    BY <2>0
  <2>3. PICK k \in DOMAIN queue : queue[k] = c
    BY <1>5, <2>1 DEF Queued
  <2>2. c \in 1..Len(heap)
    BY <1>2, <2>3
  <2> QED BY <1>1, <2>2
<1>6. ASSUME NEW c \in Blocks PROVE heap[c].frees \in Nat
  <2>1. heap[c] \in Block
    BY <1>1 DEF KindsInv
  <2> QED BY <2>1 DEF Block
<1> QED BY <1>1, <1>3, <1>4, <1>5, <1>6

\* The first conjunct of OnceInv.
Single(c) ==
    /\ heap[c].frees <= 1
    /\ c \in Held(recvPacket) =>
          heap[c].frees = 0 /\ c \notin Held(packet) /\ ~Listed(c) /\ ~Queued(c)
    /\ c \in Held(packet) => heap[c].frees = 0 /\ ~Listed(c) /\ ~Queued(c)
    /\ Listed(c) => heap[c].frees = 0 /\ ~Queued(c)
    /\ Queued(c) => heap[c].frees = 0

\* The conjuncts about the list.
ListApart ==
    /\ \A k \in DOMAIN list : list[k].head.blk # list[k].body.blk
    /\ \A k, l \in DOMAIN list : Parts(k) \cap Parts(l) # {} => k = l

\* OnceInv, by Single and ListApart.
LEMMA OnceIs ==
    OnceInv <=> /\ \A c \in Blocks : Single(c)
                /\ Apart(recvPacket) /\ Apart(packet) /\ ListApart
                /\ recvPacket.readed => recvPacket.head.own
BY DEF OnceInv, Single, ListApart

\* A list with one more packet, whose blocks are in no other.
LEMMA ListApartAppend ==
    ASSUME NEW S, NEW p \in S, list \in Seq(S), list' = Append(list, p), ListApart,
           p.head.blk # p.body.blk,
           \A c \in {p.head.blk, p.body.blk} : c # 0 => ~Listed(c)
    PROVE  ListApart'
<1>0. PICK n : n = Len(list) + 1
  OBVIOUS
<1>1. /\ Len(list) \in Nat /\ list'[n] = p
      /\ DOMAIN list = 1..Len(list) /\ DOMAIN list' = 1..n
      /\ \A k \in 1..Len(list) : list'[k] = list[k]
  BY <1>0
<1>2. \A k \in 1..n : k \in 1..Len(list) \/ k = n
  BY <1>0, <1>1
<1>3. \A k \in DOMAIN list' : list'[k].head.blk # list'[k].body.blk
  BY <1>1, <1>2 DEF ListApart
<1>4. \A k \in 1..Len(list) : Parts(k)' = Parts(k)
  BY <1>1 DEF Parts
<1>5. \A k \in 1..Len(list) : Parts(k) \cap ({p.head.blk, p.body.blk} \ {0}) = {}
  BY <1>1 DEF Parts, Listed
<1>6. Parts(n)' = {p.head.blk, p.body.blk} \ {0}
  BY <1>1 DEF Parts
<1>7. ASSUME NEW k \in 1..n, NEW l \in 1..n,
             Parts(k)' \cap Parts(l)' # {}
      PROVE  k = l
  <2>1. CASE k \in 1..Len(list) /\ l \in 1..Len(list)
    BY <1>1, <1>4, <1>7, <2>1 DEF ListApart
  <2>2. CASE k = n \/ l = n
    BY <1>2, <1>4, <1>5, <1>6, <1>7, <2>2
  <2> QED BY <1>2, <2>1, <2>2
<1> QED BY <1>1, <1>3, <1>7 DEF ListApart

\* A list without its first packet: what is left shares nothing with it.
LEMMA ListApartTail ==
    ASSUME NEW S, list \in Seq(S), list # <<>>, list' = Tail(list), ListApart
    PROVE  /\ ListApart'
           /\ Head(list).head.blk # Head(list).body.blk
           /\ \A c \in {Head(list).head.blk, Head(list).body.blk} : c # 0 => ~Listed(c)'
<1>1. /\ Len(list) \in Nat /\ Len(list) # 0 /\ Head(list) = list[1]
      /\ DOMAIN list = 1..Len(list) /\ DOMAIN list' = 1..(Len(list) - 1)
      /\ \A k \in 1..(Len(list) - 1) : list'[k] = list[k + 1]
  OBVIOUS
<1>2. 1 \in 1..Len(list) /\ \A k \in 1..(Len(list) - 1) : k + 1 \in 1..Len(list) /\ k + 1 # 1
  BY <1>1
<1>3. \A k \in 1..(Len(list) - 1) : Parts(k)' = Parts(k + 1)
  BY <1>1 DEF Parts
<1>4. \A k \in DOMAIN list' : list'[k].head.blk # list'[k].body.blk
  BY <1>1, <1>2 DEF ListApart
<1>5. \A k, l \in 1..(Len(list) - 1) : Parts(k + 1) \cap Parts(l + 1) # {} => k = l
  <2> TAKE k, l \in 1..(Len(list) - 1)
  <2>1. Parts(k + 1) \cap Parts(l + 1) # {} => k + 1 = l + 1
    BY <1>1, <1>2 DEF ListApart
  <2> QED BY <1>1, <2>1
<1>6. ListApart'
  BY <1>1, <1>3, <1>4, <1>5 DEF ListApart
<1>7. ASSUME NEW c \in {Head(list).head.blk, Head(list).body.blk}, c # 0, Listed(c)'
      PROVE  FALSE
  <2>1. PICK k \in 1..(Len(list) - 1) : list'[k].head.blk = c \/ list'[k].body.blk = c
    BY <1>1, <1>7 DEF Listed
  <2>2. c \in Parts(k + 1) /\ c \in Parts(1)
    BY <1>1, <1>2, <1>7, <2>1 DEF Parts
  <2> QED BY <1>1, <1>2, <2>2 DEF ListApart
<1> QED BY <1>1, <1>2, <1>6, <1>7 DEF ListApart

\* The block that onRecv takes is in the packet, or goes on with it to the list.
LEMMA onRecvOnce ==
    ASSUME KindsInv, OnceInv, NEW b \in Blocks, Queued(b), onRecv(heap, b, FALSE),
           packet' = packet, \A c : ~Queued(c)', ~(listed /\ stale')
    PROVE  OnceInv'
<1> DEFINE p == setData(heap, recvPacket, b)
           other == IF recvPacket.readed THEN recvPacket.head ELSE recvPacket.body
<1>1. /\ Len(heap) \in Nat /\ DOMAIN heap = 1..Len(heap) /\ Blocks = 1..Len(heap)
      /\ heap \in Seq(Block) /\ Len(heap) <= Len(heap)
      /\ \A c \in Blocks : heap[c].frees \in Nat
      /\ 0 \notin Blocks /\ b # 0 /\ b \in 1..Len(heap)
  BY InHeap DEF KindsInv
<1>14. /\ b \notin Held(recvPacket) /\ b \notin Held(packet) /\ ~Listed(b)
       /\ heap[b].frees = 0
  BY OnceIs DEF Single
<1>2. /\ p \in PacketOf(Len(heap)) /\ p.head.blk # 0
      /\ p.head = IF recvPacket.readed THEN recvPacket.head ELSE [blk |-> b, own |-> TRUE]
      /\ p.body = IF recvPacket.readed THEN [blk |-> b, own |-> TRUE] ELSE recvPacket.body
      /\ p.readed = (~recvPacket.readed /\ heap[b].size # 0)
  BY <1>1, setDataKinds
<1>3. /\ heap' \in Seq(Block) /\ Len(heap') = Len(heap)
      /\ \A c \in 1..Len(heap) :
            /\ heap'[c].frees = heap[c].frees
                  + (IF c \in Owned(Replaced(recvPacket)) THEN 1 ELSE 0)
                  + (IF FALSE /\ c = b THEN 1 ELSE 0)
      /\ recvPacket' = IF listed /\ ~p.readed THEN detach(p) ELSE p
      /\ list' = IF listed /\ ~p.readed THEN Append(list, detach(p)) ELSE list
  <2>1. FALSE \in BOOLEAN
    OBVIOUS
  <2> QED BY <1>1, <2>1, onRecvKinds
<1>4. Blocks' = 1..Len(heap)
  BY <1>3 DEF Blocks
<1>5. listed /\ ~p.readed /\ ~recvPacket.readed => p.body.blk = 0
  <2>1. stale' = (stale \/ (isReady(p) /\ heap[p.head.blk].size = 0 /\ p.body.blk # 0))
    BY DEF onRecv
  <2> HIDE DEF p
  <2>2. ASSUME ~p.readed, ~recvPacket.readed PROVE heap[p.head.blk].size = 0 /\ isReady(p)
    <3>1. heap[b].size = 0
      BY <1>2, <2>2
    <3>2. p.head.blk = b
      BY <1>2, <2>2
    <3> QED BY <1>2, <2>2, <3>1, <3>2 DEF isReady
  <2> QED BY <2>1, <2>2
<1> HIDE DEF p
<1>6. \A c \in Blocks : Single(c)
  BY OnceIs
<1>7. Apart(recvPacket) /\ Apart(packet) /\ ListApart /\ (recvPacket.readed => recvPacket.head.own)
  BY OnceIs
<1>8. \A c : c \in Held(p) <=> c = b \/ c \in Owned(other)
  BY <1>2 DEF Held, Owned
<1>9. /\ Held(recvPacket) = Owned(other) \cup Owned(Replaced(recvPacket))
      /\ \A c : c \in Owned(other) /\ c \in Owned(Replaced(recvPacket)) => c = 0
  BY <1>7 DEF Held, Owned, Replaced, Apart
<1> HIDE DEF other
<1>10. ASSUME NEW c \in 1..Len(heap)
       PROVE  /\ heap'[c].frees <= 1
              /\ c \in Held(p) => heap'[c].frees = 0 /\ c \notin Held(packet) /\ ~Listed(c)
              /\ c \in Held(packet) => heap'[c].frees = 0 /\ ~Listed(c)
              /\ Listed(c) => heap'[c].frees = 0
  <2>1. CASE c = b
    <3>1. c \notin Held(recvPacket) /\ c \notin Held(packet) /\ ~Listed(c)
      BY <1>14, <2>1
    <3>2. heap'[c].frees = 0
      BY <1>3, <1>9, <1>14, <2>1, <3>1
    <3> QED BY <3>1, <3>2
  <2>2. CASE c # b
    <3>1. c # 0 /\ Single(c) /\ heap[c].frees \in Nat
      BY <1>1, <1>6, <2>2
    <3>2. heap'[c].frees = heap[c].frees + (IF c \in Owned(Replaced(recvPacket)) THEN 1 ELSE 0)
      BY <1>3, <3>1
    <3>3. c \in Held(p) => c \in Held(recvPacket) /\ c \notin Owned(Replaced(recvPacket))
      BY <1>8, <1>9, <2>2, <3>1
    <3>4. c \in Owned(Replaced(recvPacket)) => c \in Held(recvPacket) /\ heap'[c].frees = heap[c].frees + 1
      BY <1>9, <3>2
    <3>5. c \notin Owned(Replaced(recvPacket)) => heap'[c].frees = heap[c].frees
      BY <3>1, <3>2
    <3>6. heap'[c].frees <= 1
      BY <3>1, <3>4, <3>5 DEF Single
    <3>7. c \in Held(p) => heap'[c].frees = 0 /\ c \notin Held(packet) /\ ~Listed(c)
      BY <3>1, <3>3, <3>5 DEF Single
    <3>8. c \in Held(packet) => heap'[c].frees = 0 /\ ~Listed(c)
      BY <3>1, <3>4, <3>5 DEF Single
    <3>9. Listed(c) => heap'[c].frees = 0
      BY <3>1, <3>4, <3>5 DEF Single
    <3> QED BY <3>6, <3>7, <3>8, <3>9
  <2> QED BY <2>1, <2>2
<1>11. CASE listed /\ ~p.readed
  <2>1. recvPacket' = detach(p) /\ list' = Append(list, detach(p))
    BY <1>3, <1>11
  <2>2. /\ ~detach(p).head.own /\ ~detach(p).body.own /\ detach(p).readed = p.readed
        /\ detach(p).head.blk = p.head.blk /\ detach(p).body.blk = p.body.blk
        /\ detach(p) \in PacketOf(Len(heap))
    BY <1>2 DEF detach, PacketOf, BufferOf
  <2>3. Held(recvPacket') = {} /\ Apart(recvPacket') /\ ~recvPacket'.readed
    BY <1>11, <2>1, <2>2 DEF Held, Owned, Apart
  <2>4. \A c \in {p.head.blk, p.body.blk} : c # 0 => c \in Held(p)
    BY <1>2, <1>5, <1>7, <1>11 DEF Held, Owned
  <2>5. p.head.blk # p.body.blk
    <3>1. CASE recvPacket.readed
      <4>1. recvPacket.head.blk \in Held(recvPacket)
        BY <1>7, <3>1 DEF Held, Owned
      <4> QED BY <1>2, <1>14, <3>1, <4>1
    <3>2. CASE ~recvPacket.readed
      BY <1>1, <1>2, <1>5, <1>11, <3>2
    <3> QED BY <3>1, <3>2
  <2>6. p.head.blk \in 0..Len(heap) /\ p.body.blk \in 0..Len(heap)
    BY <1>2 DEF PacketOf, BufferOf
  <2>7. \A c \in {p.head.blk, p.body.blk} : c # 0 => ~Listed(c)
    BY <1>1, <1>10, <2>4, <2>6
  <2> DEFINE S == Packet \cup {detach(p)}
  <2>8. list \in Seq(S) /\ detach(p) \in S
    BY DEF KindsInv, TypeOK
  <2> HIDE DEF S
  <2>9. ListApart'
    BY <1>7, <2>1, <2>2, <2>5, <2>7, <2>8, ListApartAppend
  <2>10. \A c : Listed(c)' <=> Listed(c) \/ c = p.head.blk \/ c = p.body.blk
    BY <2>1, <2>2, <2>8, ListedAppend
  <2>11. ASSUME NEW c \in Blocks' PROVE Single(c)'
    <3>1. c \in 1..Len(heap) /\ c # 0 /\ ~Queued(c)' /\ c \notin Held(recvPacket')
      BY <1>1, <1>4, <2>3
    <3>2. c = p.head.blk \/ c = p.body.blk => c \in Held(p)
      BY <2>4, <3>1
    <3>3. Listed(c)' => heap'[c].frees = 0
      BY <1>10, <2>10, <3>1, <3>2
    <3>4. c \in Held(packet)' => heap'[c].frees = 0 /\ ~Listed(c)'
      BY <1>10, <2>10, <3>1, <3>2 DEF Held
    <3> QED BY <1>10, <3>1, <3>3, <3>4 DEF Single, Held
  <2>12. Apart(packet)'
    BY <1>7 DEF Apart
  <2>13. OnceInv' <=> /\ \A c \in Blocks' : Single(c)'
                      /\ Apart(recvPacket)' /\ Apart(packet)' /\ ListApart'
                      /\ recvPacket'.readed => recvPacket'.head.own
    BY DEF OnceInv, Single, ListApart
  <2> QED BY <2>3, <2>9, <2>11, <2>12, <2>13 DEF Apart
<1>12. CASE ~(listed /\ ~p.readed)
  <2>1. recvPacket' = p /\ list' = list
    BY <1>3, <1>12
  <2>2. \A c : Listed(c)' <=> Listed(c)
    BY <2>1 DEF Listed
  <2>3. ASSUME NEW c \in Blocks' PROVE Single(c)'
    BY <1>4, <1>10, <2>1, <2>2 DEF Single, Held
  <2>4. ListApart'
    BY <1>7, <2>1 DEF ListApart, Parts
  <2>5. Apart(p)
    <3>1. CASE recvPacket.readed
      <4>1. recvPacket.head.blk \in Held(recvPacket)
        BY <1>7, <3>1 DEF Held, Owned
      <4> QED BY <1>2, <1>14, <3>1, <4>1 DEF Apart
    <3>2. CASE ~recvPacket.readed
      <4>1. recvPacket.body.own => recvPacket.body.blk \in Held(recvPacket)
        BY DEF Held, Owned
      <4> QED BY <1>2, <1>14, <3>2, <4>1 DEF Apart
    <3> QED BY <3>1, <3>2
  <2>6. p.readed => p.head.own
    <3>1. p.readed => ~recvPacket.readed
      BY <1>2
    <3>2. ~recvPacket.readed => p.head.own
      BY <1>2
    <3> QED BY <3>1, <3>2
  <2>7. OnceInv' <=> /\ \A c \in Blocks' : Single(c)'
                     /\ Apart(recvPacket)' /\ Apart(packet)' /\ ListApart'
                     /\ recvPacket'.readed => recvPacket'.head.own
    BY DEF OnceInv, Single, ListApart
  <2>8. Apart(recvPacket)' /\ Apart(packet)'
    BY <1>7, <2>1, <2>5 DEF Apart
  <2> QED BY <2>1, <2>3, <2>4, <2>6, <2>7, <2>8
<1> QED BY <1>11, <1>12

\* Every step keeps blocks in one place, unless it disturbs ownership.
LEMMA OnceStep ==
    KindsInv /\ (Undisturbed => OnceInv) /\ [Next]_vars => (Undisturbed' => OnceInv')
<1> SUFFICES ASSUME KindsInv, Undisturbed => OnceInv, [Next]_vars, Undisturbed' PROVE OnceInv'
  OBVIOUS
<1>0. OnceInv
  <2>1. Undisturbed
    <3>1. listed' = listed /\ (stale => stale') /\ (redispatched => redispatched')
      <4>1. ASSUME NEW n \in 1..MaxPacketSize, onRecvCallback(n)
            PROVE  UNCHANGED << listed, stale, redispatched >>
        BY <4>1 DEF onRecvCallback
      <4>2. CASE processRead
        BY <4>2 DEF processRead, onRecv
      <4>5. CASE handle
        BY <4>5 DEF handle, onRecv
      <4>3. ASSUME NEW b \in BOOLEAN, suspendDispatch(b)
            PROVE  UNCHANGED << listed, stale, redispatched >>
        BY <4>3 DEF suspendDispatch
      <4>4. CASE close \/ queryRecvPacket \/ UNCHANGED vars
        BY <4>4 DEF close, queryRecvPacket, vars
      <4> QED BY <4>1, <4>2, <4>3, <4>4, <4>5 DEF Next
    <3> QED BY <3>1, RacedStays DEF Undisturbed
  <2> QED BY <2>1
<1>a. /\ Len(heap) \in Nat /\ DOMAIN heap = 1..Len(heap) /\ Blocks = 1..Len(heap)
      /\ Held(recvPacket) \subseteq 0..Len(heap) /\ Held(packet) \subseteq 0..Len(heap)
      /\ \A c : Listed(c) \/ Queued(c) => c \in 0..Len(heap)
      /\ \A c \in Blocks : heap[c].frees \in Nat
      /\ 0 \notin Blocks /\ Len(heap) + 1 \notin 0..Len(heap)
  BY InHeap
<1>b. /\ recvPacket \in PacketOf(Len(heap)) /\ packet \in PacketOf(Len(heap))
      /\ list \in Seq(PacketOf(Len(heap))) /\ heap \in Seq(Block)
  BY Packets DEF KindsInv, TypeOK
<1>c. /\ \A c \in Blocks : Single(c)
      /\ Apart(recvPacket) /\ Apart(packet) /\ ListApart
      /\ recvPacket.readed => recvPacket.head.own
  BY <1>0, OnceIs
<1>d. OnceInv' <=> /\ \A c \in Blocks' : Single(c)'
                   /\ Apart(recvPacket)' /\ Apart(packet)' /\ ListApart'
                   /\ recvPacket'.readed => recvPacket'.head.own
  BY DEF OnceInv, Single, ListApart
<1>1. ASSUME NEW n \in 1..MaxPacketSize, onRecvCallback(n) PROVE OnceInv'
  <2>1. PICK b : b = Len(heap) + 1
    OBVIOUS
  <2>2. /\ queue = <<>> /\ hand = 0 /\ UNCHANGED << recvPacket, list, packet >>
        /\ (queue' = << b >> /\ hand' = 0) \/ (queue' = <<>> /\ hand' = b)
        /\ heap' \in Seq(Block) /\ Len(heap') = b
        /\ \A x \in Blocks : heap'[x] = heap[x]
    BY <1>1, <2>1, onRecvCallbackReads
  <2>3. heap'[b].frees = 0
    <3>1. PICK size \in Nat :
             heap'[Len(heap) + 1] = [data |-> SubSeq(stream, 1, n), size |-> size, frees |-> 0]
      BY <1>1, onRecvCallbackReads
    <3> QED BY <2>1, <3>1
  <2>4. b # 0 /\ Blocks' = 1..b /\ \A c \in Blocks' : c = b \/ (c \in Blocks /\ c # b)
    BY <1>a, <2>1, <2>2 DEF Blocks
  <2>5. \A c : (Listed(c)' <=> Listed(c)) /\ (Queued(c)' <=> c = b) /\ ~Queued(c)
    BY <2>2, <2>4 DEF Listed, Queued
  <2>6. b \notin Held(recvPacket) /\ b \notin Held(packet) /\ ~Listed(b)
    BY <1>a, <2>1
  <2>7. ASSUME NEW c \in Blocks' PROVE Single(c)'
    <3>1. Held(recvPacket)' = Held(recvPacket) /\ Held(packet)' = Held(packet)
      BY <2>2
    <3>2. CASE c = b
      <4>1. heap'[c].frees = 0 /\ c \notin Held(recvPacket)' /\ c \notin Held(packet)' /\ ~Listed(c)'
        BY <2>3, <2>5, <2>6, <3>1, <3>2
      <4> QED BY <4>1 DEF Single
    <3>3. CASE c \in Blocks /\ c # b
      BY <1>c, <2>2, <2>5, <3>1, <3>3 DEF Single
    <3> QED BY <2>4, <3>2, <3>3
  <2>8. ListApart'
    BY <1>c, <2>2 DEF ListApart, Parts
  <2> QED BY <1>c, <1>d, <2>2, <2>7, <2>8 DEF Apart
<1>7. CASE handle /\ open
  <2>1. hand # 0 /\ hand' = 0 /\ onRecv(heap, hand, FALSE) /\ UNCHANGED << packet, queue, listed >>
    BY <1>7 DEF handle
  <2>2. hand \in Blocks /\ queue = <<>> /\ Queued(hand)
    BY <1>a, <2>1 DEF KindsInv, TypeOK, Queued
  <2>3. \A c : ~Queued(c)'
    BY <2>1, <2>2 DEF Queued
  <2>4. ~(listed /\ stale')
    BY <2>1 DEF Undisturbed
  <2>5. PICK b \in Blocks : b = hand
    BY <2>2
  <2> QED BY <1>0, <2>1, <2>2, <2>3, <2>4, <2>5, onRecvOnce
<1>8. CASE handle /\ ~open
  <2>1. /\ heap' = free(heap, {hand}) /\ hand # 0 /\ hand' = 0
        /\ UNCHANGED << recvPacket, list, packet, queue >>
    BY <1>8 DEF handle, Undisturbed
  <2>2. Freed(heap, heap', {hand})
    BY <1>b, <2>1, FreeFrees
  <2>3. hand \in Blocks /\ queue = <<>> /\ Queued(hand) /\ Blocks' = Blocks
    BY <1>a, <2>1, <2>2 DEF KindsInv, TypeOK, Queued, Freed, Blocks
  <2>4. \A c : (Listed(c)' <=> Listed(c)) /\ ~Queued(c)'
    BY <2>1, <2>3 DEF Listed, Queued
  <2>5. ASSUME NEW c \in Blocks' PROVE Single(c)'
    <3>1. c \in Blocks /\ Single(c) /\ Single(hand) /\ heap[c].frees \in Nat
      BY <1>a, <1>c, <2>3
    <3>2. Held(recvPacket)' = Held(recvPacket) /\ Held(packet)' = Held(packet)
      BY <2>1
    <3>3. heap'[c].frees = IF c = hand THEN heap[c].frees + 1 ELSE heap[c].frees
      BY <1>a, <2>2, <3>1 DEF Freed
    <3>4. CASE c = hand
      <4>1. /\ heap[c].frees = 0 /\ c \notin Held(recvPacket) /\ c \notin Held(packet)
            /\ ~Listed(c)
        BY <2>3, <3>1, <3>4 DEF Single
      <4> QED BY <2>4, <3>2, <3>3, <3>4, <4>1 DEF Single
    <3>5. CASE c # hand
      BY <2>4, <3>1, <3>2, <3>3, <3>5 DEF Single
    <3> QED BY <3>4, <3>5
  <2>6. ListApart'
    BY <1>c, <2>1 DEF ListApart, Parts
  <2> QED BY <1>c, <1>d, <2>1, <2>5, <2>6 DEF Apart
<1>2. ~processRead
  BY DEF processRead, Undisturbed
<1>3. ASSUME NEW b \in BOOLEAN, suspendDispatch(b) PROVE OnceInv'
  <2>1. UNCHANGED << heap, recvPacket, packet, list, hand, queue >>
    BY <1>3 DEF suspendDispatch
  <2>2. \A c : (Listed(c)' <=> Listed(c)) /\ (Queued(c)' <=> Queued(c)) /\ (Single(c)' <=> Single(c))
    BY <2>1 DEF Listed, Queued, Single, Held, Owned
  <2>3. Blocks' = Blocks /\ (ListApart' <=> ListApart)
    BY <2>1 DEF Blocks, ListApart, Parts
  <2> QED BY <1>c, <1>d, <2>1, <2>2, <2>3 DEF Apart
<1>4. CASE close
  <2> DEFINE g == clear(heap, recvPacket)
  <2>1. g \in Seq(Block) /\ Len(g) = Len(heap)
        /\ \A x \in 1..Len(heap) : g[x].frees = heap[x].frees + (IF x \in Held(recvPacket) THEN 1 ELSE 0)
    <3>1. \A x \in 1..Len(heap) : ~(x \in Owned(recvPacket.head) /\ x \in Owned(recvPacket.body))
      BY <1>a, <1>c DEF Apart, Owned
    <3> QED BY <1>b, <3>1, ClearKinds DEF Held
  <2> HIDE DEF g
  <2>2. /\ heap' = free(g, Range(queue)) /\ queue' = <<>> /\ recvPacket' = EmptyPacket
        /\ UNCHANGED << list, packet, hand >>
    BY <1>4 DEF close, g
  <2>3. Freed(g, heap', Range(queue))
    BY <2>1, <2>2, FreeFrees
  <2>4. \A c : Queued(c) <=> c \in Range(queue) \/ Queued(c)'
    BY <2>2 DEF Queued, Range
  <2>10. \A c : ~(Queued(c)' /\ c \in Range(queue))
    BY <2>2 DEF Queued, Range, KindsInv
  <2>5. Blocks' = 1..Len(heap)
    BY <2>1, <2>3 DEF Freed, Blocks
  <2>6. \A c \in 1..Len(heap) : heap'[c].frees = heap[c].frees
             + (IF c \in Held(recvPacket) THEN 1 ELSE 0) + (IF c \in Range(queue) THEN 1 ELSE 0)
    <3> TAKE c \in 1..Len(heap)
    <3>1. heap'[c].frees = IF c \in Range(queue) THEN g[c].frees + 1 ELSE g[c].frees
      BY <2>1, <2>3 DEF Freed
    <3> QED BY <1>a, <2>1, <3>1
  <2>7. /\ Held(recvPacket)' = {} /\ Apart(recvPacket)' /\ ~recvPacket'.readed
        /\ Held(packet)' = Held(packet) /\ \A c : Listed(c)' <=> Listed(c)
    BY <2>2 DEF EmptyPacket, NoBuffer, Held, Owned, Apart, Listed
  <2>8. ASSUME NEW c \in Blocks' PROVE Single(c)'
    <3>1. c \in Blocks /\ Single(c) /\ heap[c].frees \in Nat
      BY <1>a, <1>c, <2>5
    <3>2. heap'[c].frees = heap[c].frees
             + (IF c \in Held(recvPacket) THEN 1 ELSE 0) + (IF c \in Range(queue) THEN 1 ELSE 0)
      BY <2>5, <2>6
    <3>a. (c \in Range(queue) => Queued(c)) /\ (Queued(c)' => Queued(c) /\ c \notin Range(queue))
      BY <2>4, <2>10
    <3>3. heap'[c].frees <= 1
      BY <3>1, <3>2, <3>a DEF Single
    <3>4. c \in Held(packet) \/ Listed(c) \/ Queued(c)' => heap'[c].frees = 0
      BY <3>1, <3>2, <3>a DEF Single
    <3>5. (c \in Held(packet) => ~Listed(c)) /\ (c \in Held(packet) \/ Listed(c) => ~Queued(c)')
      BY <3>1, <3>a DEF Single
    <3> QED BY <2>7, <3>3, <3>4, <3>5 DEF Single
  <2>9. ListApart' /\ Apart(packet)'
    BY <1>c, <2>2 DEF ListApart, Parts, Apart
  <2> QED BY <1>d, <2>7, <2>8, <2>9
<1>5. CASE queryRecvPacket
  <2>1. /\ list # <<>> /\ heap' = clear(heap, packet) /\ packet' = attach(Head(list))
        /\ list' = Tail(list) /\ UNCHANGED << recvPacket, hand, queue >>
    BY <1>5 DEF queryRecvPacket
  <2>2. /\ Len(heap') = Len(heap) /\ heap' \in Seq(Block)
        /\ \A x \in 1..Len(heap) : heap'[x].frees = heap[x].frees + (IF x \in Held(packet) THEN 1 ELSE 0)
    <3>1. \A x \in 1..Len(heap) : ~(x \in Owned(packet.head) /\ x \in Owned(packet.body))
      BY <1>a, <1>c DEF Apart, Owned
    <3> QED BY <1>b, <2>1, <3>1, ClearKinds DEF Held
  <2>3. Blocks' = Blocks
    BY <1>a, <2>2 DEF Blocks
  <2>4. /\ ListApart' /\ Head(list).head.blk # Head(list).body.blk
        /\ \A c \in {Head(list).head.blk, Head(list).body.blk} : c # 0 => ~Listed(c)'
    BY <1>b, <1>c, <2>1, ListApartTail
  <2>5. \A c : Listed(c) <=> Listed(c)' \/ c = Head(list).head.blk \/ c = Head(list).body.blk
    BY <1>b, <2>1, ListedTail
  <2>6. Head(list) \in PacketOf(Len(heap))
    BY <1>b, <2>1
  <2>7. /\ packet'.head.blk = Head(list).head.blk /\ packet'.body.blk = Head(list).body.blk
        /\ packet'.head.own = TRUE /\ packet'.body.own = TRUE
    BY <2>1, <2>6 DEF attach, PacketOf, BufferOf
  <2>8. Apart(packet)' /\ \A c : c \in Held(packet)' <=> c = Head(list).head.blk \/ c = Head(list).body.blk
    BY <2>4, <2>7 DEF Apart, Held, Owned
  <2>9. Held(recvPacket)' = Held(recvPacket) /\ \A c : Queued(c)' <=> Queued(c)
    BY <2>1 DEF Queued
  <2>10. ASSUME NEW c \in Blocks' PROVE Single(c)'
    <3>1. c \in Blocks /\ c # 0 /\ Single(c) /\ heap[c].frees \in Nat
          /\ heap'[c].frees = heap[c].frees + (IF c \in Held(packet) THEN 1 ELSE 0)
      BY <1>a, <1>c, <2>2, <2>3
    <3>2. c \in Held(packet)' => Listed(c) /\ ~Listed(c)'
      BY <2>4, <2>5, <2>8, <3>1
    <3>3. Listed(c)' => Listed(c)
      BY <2>5
    <3>4. heap'[c].frees <= 1
      BY <3>1 DEF Single
    <3>5. c \in Held(recvPacket) \/ Listed(c) \/ Queued(c) => heap'[c].frees = 0
      BY <3>1 DEF Single
    <3> QED BY <2>9, <3>1, <3>2, <3>3, <3>4, <3>5 DEF Single
  <2>11. Apart(recvPacket)' /\ (recvPacket'.readed => recvPacket'.head.own)
    BY <1>c, <2>1 DEF Apart
  <2> QED BY <1>d, <2>4, <2>8, <2>10, <2>11
<1>6. CASE UNCHANGED vars
  <2>1. UNCHANGED << heap, recvPacket, packet, list, hand, queue >>
    BY <1>6 DEF vars
  <2>2. \A c : (Listed(c)' <=> Listed(c)) /\ (Queued(c)' <=> Queued(c)) /\ (Single(c)' <=> Single(c))
    BY <2>1 DEF Listed, Queued, Single, Held, Owned
  <2>3. Blocks' = Blocks /\ (ListApart' <=> ListApart)
    BY <2>1 DEF Blocks, ListApart, Parts
  <2> QED BY <1>c, <1>d, <2>1, <2>2, <2>3 DEF Apart
<1> QED BY <1>1, <1>2, <1>3, <1>4, <1>5, <1>6, <1>7, <1>8 DEF Next

\* In one place at a time: as OneOwner counts it.
LEMMA OneOwnerFollows == KindsInv /\ (Undisturbed => OnceInv) => OneOwner
<1> SUFFICES ASSUME KindsInv, Undisturbed, OnceInv, NEW b \in Blocks
             PROVE  heap[b].frees + (Cardinality(Owners(b)) + (IF Listed(b) THEN 1 ELSE 0)
                                                            + (IF Queued(b) THEN 1 ELSE 0)) <= 1
  BY DEF OneOwner, KindsInv
<1>1. heap[b].frees \in Nat /\ b # 0 /\ Single(b) /\ Apart(recvPacket) /\ Apart(packet)
  BY InHeap, OnceIs
<1>2. /\ << "recv", "head" >> \in Owners(b) <=> b \in Owned(recvPacket.head)
      /\ << "recv", "body" >> \in Owners(b) <=> b \in Owned(recvPacket.body)
      /\ << "app", "head" >> \in Owners(b) <=> b \in Owned(packet.head)
      /\ << "app", "body" >> \in Owners(b) <=> b \in Owned(packet.body)
  BY DEF Owners, Owned
<1>3. Owners(b) \subseteq {<< "recv", "head" >>, << "recv", "body" >>,
                           << "app", "head" >>, << "app", "body" >>}
  BY DEF Owners
<1> HIDE DEF Owners
<1>4. Owners(b) = {} \/ \E x : Owners(b) = {x}
  <2>1. ~(b \in Owned(recvPacket.head) /\ b \in Owned(recvPacket.body))
        /\ ~(b \in Owned(packet.head) /\ b \in Owned(packet.body))
        /\ ~(b \in Held(recvPacket) /\ b \in Held(packet))
    BY <1>1 DEF Owned, Apart, Single
  <2>2. \A x, y \in Owners(b) : x = y
    BY <1>2, <1>3, <2>1 DEF Held
  <2> QED BY <2>2
<1>5. Owners(b) = {} => Cardinality(Owners(b)) = 0
  BY FS_EmptySet
<1>6. Owners(b) # {} => Cardinality(Owners(b)) = 1
  BY <1>4, FS_Singleton
<1>7. Owners(b) # {} => heap[b].frees = 0 /\ ~Listed(b) /\ ~Queued(b)
  BY <1>1, OwnersHeld DEF Single
<1>8. (Listed(b) => heap[b].frees = 0 /\ ~Queued(b)) /\ (Queued(b) => heap[b].frees = 0)
      /\ heap[b].frees <= 1
  BY <1>1 DEF Single
<1> QED BY <1>1, <1>5, <1>6, <1>7, <1>8

--------------------------------------------------------------------------------
(***************************************************************************)
(* Packets are read as they were sent.                                     *)
(***************************************************************************)
\* The units of a packet are those of its header and of its body.
LEMMA UnitsOf ==
    ASSUME sent \in [1..Sent -> Bodies], NEW k \in 1..Sent
    PROVE  /\ Header(k) \in Seq(Unit) /\ Len(Header(k)) = HeaderSize
           /\ Header(k)[HeaderSize] = << k, HeaderSize >>
           /\ Body(k) \in Seq(Unit) /\ Len(Body(k)) = sent[k]
           /\ Whole(k) = Header(k) \o Body(k) /\ Whole(k) \in Seq(Unit)
           /\ Rest(k) \in Seq(Unit) /\ Rest(k - 1) = Header(k) \o (Body(k) \o Rest(k))
<1>0. HeaderSize \in Nat /\ HeaderSize # 0 /\ sent[k] \in Nat /\ Sent \in Nat /\ k \in 0..Sent
      /\ \A i \in Nat : << k, i >> \in Unit
  BY SizesFit DEF Unit
<1>1. Header(k) \in Seq(Unit) /\ Len(Header(k)) = HeaderSize /\ HeaderSize \in 1..HeaderSize
      /\ \A i \in 1..HeaderSize : Header(k)[i] = << k, i >>
  BY <1>0 DEF Header
<1>2. Body(k) \in Seq(Unit) /\ Len(Body(k)) = sent[k]
      /\ \A i \in 1..sent[k] : Body(k)[i] = << k, HeaderSize + i >>
  <2>1. \A i \in 1..sent[k] : HeaderSize + i \in Nat
    BY <1>0
  <2> QED BY <1>0, <2>1 DEF Body
<1>3. Whole(k) \in Seq(Unit) /\ Len(Whole(k)) = HeaderSize + sent[k]
      /\ \A i \in 1..(HeaderSize + sent[k]) : Whole(k)[i] = << k, i >>
  <2>1. HeaderSize + sent[k] \in Nat
    BY <1>0
  <2> QED BY <1>0, <2>1 DEF Whole
<1>4. Whole(k) = Header(k) \o Body(k)
  <2> DEFINE w == Header(k) \o Body(k)
  <2>0. /\ w \in Seq(Unit) /\ Len(w) = Len(Header(k)) + Len(Body(k))
        /\ \A i \in 1..(Len(Header(k)) + Len(Body(k))) :
              w[i] = IF i <= Len(Header(k)) THEN Header(k)[i] ELSE Body(k)[i - Len(Header(k))]
    BY <1>1, <1>2, ConcatProperties
  <2>1. w \in Seq(Unit) /\ Len(w) = HeaderSize + sent[k]
        /\ \A i \in 1..(HeaderSize + sent[k]) :
              w[i] = IF i <= HeaderSize THEN Header(k)[i] ELSE Body(k)[i - HeaderSize]
    <3> HIDE DEF w
    <3> QED BY <1>1, <1>2, <2>0
  <2> HIDE DEF w
  <2>2. ASSUME NEW i \in 1..(HeaderSize + sent[k]) PROVE w[i] = << k, i >>
    <3>1. CASE i <= HeaderSize
      <4>1. i \in 1..HeaderSize
        BY <1>0, <3>1
      <4> QED BY <1>1, <2>1, <3>1, <4>1
    <3>2. CASE ~(i <= HeaderSize)
      <4>1. i - HeaderSize \in 1..sent[k] /\ HeaderSize + (i - HeaderSize) = i
        BY <1>0, <3>2
      <4>2. Body(k)[i - HeaderSize] = << k, HeaderSize + (i - HeaderSize) >>
        BY <1>2, <4>1
      <4> QED BY <2>1, <3>2, <4>1, <4>2
    <3> QED BY <3>1, <3>2
  <2>3. Whole(k) = w
    BY <1>3, <2>1, <2>2, SeqEqual
  <2> QED BY <2>3 DEF w
<1>5. Rest(k) \in Seq(Unit) /\ Rest(k - 1) = Whole(k) \o Rest(k)
  BY <1>0, RestSplits
<1>7. Rest(k - 1) = Header(k) \o (Body(k) \o Rest(k))
  <2>0. \A x, y, z \in Seq(Unit) : (x \o y) \o z = x \o (y \o z)
    BY ConcatAssociative, SMTT(30)
  <2>1. (Header(k) \o Body(k)) \o Rest(k) = Header(k) \o (Body(k) \o Rest(k))
    BY <1>1, <1>2, <1>5, <2>0
  <2> QED BY <1>4, <1>5, <2>1
<1> QED BY <1>1, <1>2, <1>3, <1>4, <1>5, <1>7

\* Reading just what comes first leaves what comes then.
LEMMA ReadsFirst ==
    ASSUME NEW S, NEW s \in Seq(S), NEW t \in Seq(S)
    PROVE  /\ SubSeq(s \o t, 1, Len(s)) = s
           /\ SubSeq(s \o t, Len(s) + 1, Len(s \o t)) = t
<1> DEFINE w == s \o t
           n == Len(s)
           m == Len(t)
<1>0. n \in Nat /\ m \in Nat
  OBVIOUS
<1>1. w \in Seq(S) /\ Len(w) = n + m
      /\ \A i \in 1..(n + m) : w[i] = IF i <= n THEN s[i] ELSE t[i - n]
  BY ConcatProperties
<1>2. \A i \in 1..(n + m) : w[i] \in S
  BY <1>1, ElementOfSeq
<1> HIDE DEF w, n, m
<1>3. SubSeq(w, 1, n) = s
  <2>1. \A i \in 1..n : w[i] \in S
    BY <1>0, <1>2
  <2>2. /\ SubSeq(w, 1, n) \in Seq(S) /\ Len(SubSeq(w, 1, n)) = (IF 1 <= n THEN n - 1 + 1 ELSE 0)
        /\ \A i \in 1..(n - 1 + 1) : SubSeq(w, 1, n)[i] = w[1 + i - 1]
    BY <1>0, <2>1, SubSeqProperties
  <2>3. Len(SubSeq(w, 1, n)) = n
    BY <1>0, <2>2
  <2>4. ASSUME NEW i \in 1..n PROVE SubSeq(w, 1, n)[i] = s[i]
    <3>1. i \in 1..(n - 1 + 1) /\ 1 + i - 1 = i /\ i \in 1..(n + m) /\ i <= n
      BY <1>0
    <3> QED BY <1>1, <2>2, <3>1
  <2> QED BY <2>2, <2>3, <2>4, SeqEqual DEF n
<1>4. SubSeq(w, n + 1, n + m) = t
  <2>1. \A i \in (n + 1)..(n + m) : w[i] \in S
    BY <1>0, <1>2
  <2>2. /\ SubSeq(w, n + 1, n + m) \in Seq(S)
        /\ Len(SubSeq(w, n + 1, n + m)) = (IF n + 1 <= n + m THEN n + m - (n + 1) + 1 ELSE 0)
        /\ \A i \in 1..(n + m - (n + 1) + 1) : SubSeq(w, n + 1, n + m)[i] = w[n + 1 + i - 1]
    BY <1>0, <2>1, SubSeqProperties
  <2>3. Len(SubSeq(w, n + 1, n + m)) = m
    BY <1>0, <2>2
  <2>4. ASSUME NEW i \in 1..m PROVE SubSeq(w, n + 1, n + m)[i] = t[i]
    <3>1. /\ i \in 1..(n + m - (n + 1) + 1) /\ n + 1 + i - 1 \in 1..(n + m)
          /\ ~(n + 1 + i - 1 <= n) /\ n + 1 + i - 1 - n = i
      BY <1>0
    <3>2. w[n + 1 + i - 1] = t[i]
      <4>1. PICK j \in 1..(n + m) : j = n + 1 + i - 1
        BY <3>1
      <4>2. ~(j <= n) /\ j - n = i
        BY <1>0, <3>1, <4>1
      <4>3. w[j] = t[j - n]
        BY <1>1, <4>2
      <4>4. w[j] = t[i]
        BY <4>2, <4>3
      <4> QED BY <4>1, <4>4
    <3>3. SubSeq(w, n + 1, n + m)[i] = w[n + 1 + i - 1]
      BY <2>2, <3>1
    <3> QED BY <3>1, <3>2, <3>3
  <2> QED BY <2>2, <2>3, <2>4, SeqEqual DEF m
<1> QED BY <1>1, <1>3, <1>4 DEF w, n

\* What the application gets of a packet that has its header and its body.
LEMMA ReadingIs ==
    ASSUME sent \in [1..Sent -> Bodies], NEW k \in 1..Sent,
           NEW h \in Seq(Block), NEW p \in PacketOf(Len(h)),
           p.head.blk # 0, h[p.head.blk].data = Header(k), h[p.head.blk].size = sent[k],
           sent[k] # 0 => p.body.blk # 0 /\ h[p.body.blk].data = Body(k)
    PROVE  /\ Reading(h, p) \in Item
           /\ Reading(h, p).read = Whole(k)
           /\ (sent[k] = 0 => p.body.blk = 0) /\ Fits(sent[k]) => Reading(h, p).export = Whole(k)
<1> DEFINE d == Data(h, p.body)
<1>0. /\ Header(k) \in Seq(Unit) /\ Body(k) \in Seq(Unit) /\ Len(Body(k)) = sent[k]
      /\ Whole(k) = Header(k) \o Body(k) /\ sent[k] \in Nat
  BY UnitsOf, SizesFit
<1>1. Data(h, p.head) = Header(k)
  BY DEF Data
<1>2. d \in Seq(Unit) /\ Len(d) \in Nat /\ (sent[k] # 0 => d = Body(k)) /\ (p.body.blk = 0 => d = <<>>)
  <2>1. CASE p.body.blk = 0
    BY <2>1 DEF Data
  <2>2. CASE p.body.blk # 0
    <3>1. p.body.blk \in 1..Len(h)
      BY <2>2 DEF PacketOf, BufferOf
    <3>2. h[p.body.blk] \in Block
      BY <3>1
    <3>3. h[p.body.blk].data \in Seq(Unit)
      BY <3>2 DEF Block
    <3> QED BY <2>2, <3>3 DEF Data
  <2> QED BY <2>1, <2>2
<1> HIDE DEF d
<1>3. sent[k] = 0 => Body(k) = <<>>
  BY <1>0, EmptySeq
<1>4. Read(h, p) = Header(k) \o SubSeq(d, 1, Smaller(sent[k], Len(d)))
  BY <1>1 DEF Read, d
<1>5. SubSeq(d, 1, Smaller(sent[k], Len(d))) = Body(k)
  <2>1. CASE sent[k] = 0
    <3>1. Smaller(sent[k], Len(d)) = 0
      BY <1>2, <2>1 DEF Smaller
    <3> QED BY <1>3, <2>1, <3>1, SubSeqEmpty
  <2>2. CASE sent[k] # 0
    <3>1. d = Body(k) /\ Smaller(sent[k], Len(d)) = Len(d)
      BY <1>0, <1>2, <2>2 DEF Smaller
    <3> QED BY <1>0, <3>1, SubSeqFull
  <2> QED BY <2>1, <2>2
<1>6. exportBuffer(h, p) = Header(k) \o (IF Fits(Len(d)) THEN d ELSE <<>>)
  BY <1>1 DEF exportBuffer, d
<1>7. ASSUME sent[k] = 0 => p.body.blk = 0, Fits(sent[k]) PROVE exportBuffer(h, p) = Whole(k)
  <2>1. d = Body(k)
    BY <1>2, <1>3, <1>7
  <2> QED BY <1>0, <1>6, <1>7, <2>1
<1>8. Read(h, p) = Whole(k) /\ Whole(k) \in Seq(Unit)
  BY <1>0, <1>4, <1>5, UnitsOf
<1>9. exportBuffer(h, p) \in Seq(Unit)
  <2>1. (IF Fits(Len(d)) THEN d ELSE <<>>) \in Seq(Unit)
    BY <1>2
  <2> QED BY <1>0, <1>6, <2>1, ConcatProperties
<1> QED BY <1>7, <1>8, <1>9 DEF Reading, Item

\* What was sent stays what was sent.
LEMMA SameUnits ==
    ASSUME sent' = sent
    PROVE  \A k \in Nat : Body(k)' = Body(k) /\ Whole(k)' = Whole(k) /\ Rest(k)' = Rest(k)
<1>1. \A k \in Nat : Body(k)' = Body(k)
  BY DEF Body
<1>2. \A k : Whole(k)' = Whole(k)
  BY DEF Whole
<1>3. \A k \in Nat : Rest(k)' = Rest(k)
  BY <1>2 DEF Rest
<1> QED BY <1>1, <1>2, <1>3

\* A step that leaves the packets where they are.
LEMMA SamePackets ==
    ASSUME KindsInv, FramedInv, UNCHANGED << listed, sent, list, taken, stale, short >>,
           Len(heap') = Len(heap), DOMAIN heap' = DOMAIN heap,
           \A c \in Blocks : heap'[c].data = heap[c].data /\ heap'[c].size = heap[c].size,
           open' => UNCHANGED << open, recvPacket, hand, queue, want, stream >>
    PROVE  FramedInv'
<1>1. \A k \in Nat : Body(k)' = Body(k) /\ Whole(k)' = Whole(k) /\ Rest(k)' = Rest(k)
  BY SameUnits
<1>2. Sent \in Nat
  BY SizesFit
<1>3. (~listed => list = <<>>)'
  BY DEF FramedInv
<1>4. ASSUME (short = 0)'
      PROVE  /\ (taken \in Seq(Item))' /\ (Count \in 0..Sent)'
             /\ (\A k \in DOMAIN taken : taken[k].read = Whole(k))'
             /\ (~stale => \A k \in DOMAIN taken : Fits(sent[k]) => taken[k].export = Whole(k))'
  <2>1. /\ taken \in Seq(Item) /\ Count \in 0..Sent
        /\ \A k \in DOMAIN taken : taken[k].read = Whole(k)
        /\ ~stale => \A k \in DOMAIN taken : Fits(sent[k]) => taken[k].export = Whole(k)
    BY <1>4 DEF FramedInv
  <2>2. \A k \in DOMAIN taken : k \in Nat
    BY <2>1
  <2> QED BY <1>1, <2>1, <2>2 DEF Count, Fits
<1>5. ASSUME (short = 0)', NEW k \in Nat, open', k = Count' + 1 PROVE Reads(k)'
  <2>1. Reads(k) /\ UNCHANGED << recvPacket, hand, queue, want, stream >>
    BY <1>4, <1>5 DEF FramedInv, Count
  <2>3. Pending' = Pending
    BY <2>1 DEF Pending
  <2>2. k - 1 \in Nat
    <3>1. PICK n \in Nat : n = Count'
      BY <1>2, <1>4, <1>5
    <3>2. k = n + 1
      BY <1>5, <3>1
    <3> QED BY <3>2
  <2> QED BY <1>1, <2>1, <2>2, <2>3 DEF Reads, IsHeader, IsBody, Blocks
<1>6. ASSUME (short = 0)', NEW k \in Nat, NEW i \in DOMAIN list', k = Len(taken') + i
      PROVE  IsPacket(list[i], k)'
  <2>1. IsPacket(list[i], k)
    BY <1>6 DEF FramedInv
  <2> QED BY <1>1, <2>1 DEF IsPacket, IsHeader, IsBody, Blocks
<1> QED BY <1>3, <1>4, <1>5, <1>6 DEF FramedInv

\* What onRecv leaves when it was given the block that comes next.
LEMMA onRecvFramed ==
    ASSUME KindsInv, FramedInv, short = 0, short' = 0, open,
           NEW h \in Seq(Block), Len(heap) <= Len(h),
           \A c \in Blocks : h[c].data = heap[c].data /\ h[c].size = heap[c].size,
           NEW b \in 1..Len(h), NEW freed \in BOOLEAN, onRecv(h, b, freed), Pending' = 0,
           UNCHANGED << listed, sent, open, packet >>,
           NEW k \in 1..Sent, k = Count + 1,
           \/ recvPacket.readed /\ h[b].data = Body(k) /\ stream' = Rest(k)
           \/ /\ ~recvPacket.readed /\ h[b].data = Header(k) /\ h[b].size = sent[k]
              /\ stream' = Body(k) \o Rest(k)
    PROVE  FramedInv'
<1> DEFINE p == setData(h, recvPacket, b)
           g == release(h, Replaced(recvPacket))
<1>0. /\ sent \in [1..Sent -> Bodies] /\ recvPacket \in PacketOf(Len(heap)) /\ Sent \in Nat
      /\ HeaderSize \in Nat /\ HeaderSize # 0 /\ sent[k] \in Nat /\ sent[k] <= MaxPacketSize
      /\ MaxPacketSize \in Nat /\ heap \in Seq(Block) /\ Len(heap) \in Nat /\ Len(h) \in Nat
      /\ Blocks = 1..Len(heap) /\ k \in Nat /\ list \in Seq(PacketOf(Len(heap)))
  <2>1. /\ sent \in [1..Sent -> Bodies] /\ recvPacket \in PacketOf(Len(heap))
        /\ heap \in Seq(Block) /\ list \in Seq(PacketOf(Len(heap)))
    BY Packets DEF KindsInv, TypeOK
  <2>2. Len(heap) \in Nat /\ Len(h) \in Nat /\ Blocks = 1..Len(heap)
    BY <2>1 DEF Blocks
  <2>3. /\ Sent \in Nat /\ k \in Nat /\ HeaderSize \in Nat /\ HeaderSize # 0
        /\ MaxPacketSize \in Nat /\ sent[k] \in Nat /\ sent[k] <= MaxPacketSize
    BY <2>1, SizesFit
  <2> QED BY <2>1, <2>2, <2>3
<1>1. /\ ~listed => list = <<>>
      /\ taken \in Seq(Item) /\ Count \in 0..Sent /\ Reads(k)
      /\ \A i \in DOMAIN list, j \in Nat : j = Len(taken) + i => IsPacket(list[i], j)
      /\ \A i \in DOMAIN taken : taken[i].read = Whole(i)
      /\ ~stale => \A i \in DOMAIN taken : Fits(sent[i]) => taken[i].export = Whole(i)
  BY <1>0 DEF FramedInv
<1>2. \A i \in Nat : Body(i)' = Body(i) /\ Whole(i)' = Whole(i) /\ Rest(i)' = Rest(i)
  BY SameUnits
<1>3. /\ p \in PacketOf(Len(h)) /\ p.head.blk # 0
      /\ p.head = IF recvPacket.readed THEN recvPacket.head ELSE [blk |-> b, own |-> TRUE]
      /\ p.body = IF recvPacket.readed THEN [blk |-> b, own |-> TRUE] ELSE recvPacket.body
      /\ p.readed = (~recvPacket.readed /\ h[b].size # 0)
  BY setDataKinds
<1>4. /\ heap' \in Seq(Block) /\ Len(heap') = Len(h) /\ Blocks' = 1..Len(h)
      /\ \A c \in 1..Len(h) : heap'[c].data = h[c].data /\ heap'[c].size = h[c].size
      /\ recvPacket' = IF listed /\ ~p.readed THEN detach(p) ELSE p
      /\ list' = IF listed /\ ~p.readed THEN Append(list, detach(p)) ELSE list
  <2>1. /\ heap' \in Seq(Block) /\ Len(heap') = Len(h)
        /\ \A c \in 1..Len(h) : heap'[c].data = h[c].data /\ heap'[c].size = h[c].size
        /\ recvPacket' = IF listed /\ ~p.readed THEN detach(p) ELSE p
        /\ list' = IF listed /\ ~p.readed THEN Append(list, detach(p)) ELSE list
    BY onRecvKinds
  <2> QED BY <2>1 DEF Blocks
<1>5. /\ g \in Seq(Block) /\ Len(g) = Len(h)
      /\ \A c \in 1..Len(h) : g[c].data = h[c].data /\ g[c].size = h[c].size
  <2>1. Replaced(recvPacket) \in BufferOf(Len(heap))
    BY <1>0 DEF Replaced, PacketOf
  <2>2. Replaced(recvPacket) \in BufferOf(Len(h))
    BY <1>0, <2>1, Grows
  <2> QED BY <2>2, ReleaseFrees DEF Freed
<1>6. /\ stale' = (stale \/ (isReady(p) /\ h[p.head.blk].size = 0 /\ p.body.blk # 0))
      /\ want' = recv(g, p)
      /\ taken' = IF isReady(p) /\ ~listed THEN Append(taken, Reading(g, p)) ELSE taken
  BY DEF onRecv, onSessionRecv
<1>7. isReady(p) <=> ~p.readed
  BY <1>3 DEF isReady
<1> HIDE DEF p, g
\* The packet has the header of the k-th one, and if it is complete, its body.
<1>8. /\ p.head.blk \in 1..Len(h) /\ h[p.head.blk].data = Header(k)
      /\ h[p.head.blk].size = sent[k]
  <2>1. CASE recvPacket.readed
    <3>1. IsHeader(recvPacket.head.blk, k) /\ p.head.blk = recvPacket.head.blk
      BY <1>1, <1>3, <2>1 DEF Reads
    <3> QED BY <1>0, <3>1 DEF IsHeader
  <2>2. CASE ~recvPacket.readed
    BY <1>3, <2>2
  <2> QED BY <2>1, <2>2
<1>9. p.readed <=> ~recvPacket.readed /\ sent[k] # 0
  BY <1>3
<1>10. ASSUME ~p.readed, sent[k] # 0
       PROVE  p.body.blk \in 1..Len(h) /\ h[p.body.blk].data = Body(k)
  <2>1. recvPacket.readed /\ p.body.blk = b
    BY <1>3, <1>9, <1>10
  <2> QED BY <2>1
<1>11. ~p.readed /\ ~stale' /\ sent[k] = 0 => p.body.blk = 0
  BY <1>6, <1>7, <1>8
\* What was there is there.
<1>12. ASSUME NEW q, NEW i, IsPacket(q, i)
       PROVE  /\ q.head.blk \in 1..Len(h) /\ heap'[q.head.blk].data = Header(i)
              /\ heap'[q.head.blk].size = sent[i]
              /\ sent[i] # 0 => q.body.blk \in 1..Len(h) /\ heap'[q.body.blk].data = Body(i)
              /\ ~stale' /\ sent[i] = 0 => q.body.blk = 0
  <2>1. \A c \in Blocks : /\ c \in 1..Len(h)
                           /\ heap'[c].data = heap[c].data /\ heap'[c].size = heap[c].size
    <3>1. /\ \A c \in Blocks : h[c].data = heap[c].data /\ h[c].size = heap[c].size
          /\ \A c \in 1..Len(h) : heap'[c].data = h[c].data /\ heap'[c].size = h[c].size
      BY <1>4
    <3>2. Blocks \subseteq 1..Len(h)
      BY <1>0
    <3> QED BY <3>1, <3>2
  <2>2. IsHeader(q.head.blk, i) /\ (sent[i] # 0 => IsBody(q.body.blk, i))
        /\ (~stale /\ sent[i] = 0 => q.body.blk = 0)
    BY <1>12 DEF IsPacket
  <2>3. /\ q.head.blk \in 1..Len(h) /\ heap'[q.head.blk].data = Header(i)
        /\ heap'[q.head.blk].size = sent[i]
    BY <2>1, <2>2 DEF IsHeader
  <2>4. sent[i] # 0 => q.body.blk \in 1..Len(h) /\ heap'[q.body.blk].data = Body(i)
    BY <2>1, <2>2 DEF IsBody
  <2>5. ~stale' => ~stale
    BY <1>6
  <2> QED BY <2>2, <2>3, <2>4, <2>5
\* What is read next.
<1>13. CASE p.readed
  <2>0. ~stale' => ~stale
    BY <1>6
  <2>1. recvPacket' = p /\ UNCHANGED << list, taken >> /\ Count' = Count
    BY <1>4, <1>6, <1>7, <1>13 DEF Count
  <2>2. want' = sent[k]
    BY <1>0, <1>5, <1>6, <1>8, <1>13 DEF recv, Throws
  <2>3. stream' = Body(k) \o Rest(k) /\ sent[k] # 0
    BY <1>9, <1>13
  <2>4. ASSUME NEW j \in Nat, j = Count' + 1 PROVE Reads(j)'
    <3>1. j = k
      BY <2>1, <2>4
    <3> QED BY <1>0, <1>2, <1>4, <1>8, <1>13, <2>1, <2>2, <2>3, <3>1 DEF Reads, IsHeader
  <2>5. ASSUME NEW j \in Nat, NEW i \in DOMAIN list', j = Len(taken') + i
        PROVE  IsPacket(list[i], j)'
    <3>1. IsPacket(list[i], j)
      BY <1>1, <2>1, <2>5
    <3>2. list'[i] = list[i]
      BY <2>1
    <3>3. /\ list[i].head.blk \in 1..Len(h) /\ heap'[list[i].head.blk].data = Header(j)
          /\ heap'[list[i].head.blk].size = sent[j]
          /\ sent[j] # 0 => /\ list[i].body.blk \in 1..Len(h)
                            /\ heap'[list[i].body.blk].data = Body(j)
          /\ ~stale' /\ sent[j] = 0 => list[i].body.blk = 0
      BY <1>12, <3>1
    <3> QED BY <1>2, <1>4, <2>5, <3>2, <3>3 DEF IsPacket, IsHeader, IsBody
  <2>6. \A i \in DOMAIN taken' : i \in Nat
    BY <1>1, <2>1
  <2> QED BY <1>1, <1>2, <2>0, <2>1, <2>4, <2>5, <2>6 DEF FramedInv, Fits
<1>14. CASE ~p.readed
  <2>1. want' = HeaderSize /\ recvPacket'.readed = FALSE
    BY <1>4, <1>6, <1>14 DEF recv, Throws, detach
  <2>2. stream' = Rest(k)
    <3>1. CASE recvPacket.readed
      BY <3>1
    <3>2. CASE ~recvPacket.readed
      <4>1. sent[k] = 0 /\ stream' = Body(k) \o Rest(k)
        BY <1>9, <1>14, <3>2
      <4>2. Body(k) = <<>> /\ Rest(k) \in Seq(Unit)
        <5>1. Body(k) \in Seq(Unit) /\ Len(Body(k)) = 0 /\ Rest(k) \in Seq(Unit)
          BY <1>0, <4>1, UnitsOf
        <5> QED BY <5>1, EmptySeq
      <4> QED BY <4>1, <4>2, ConcatEmptySeq
    <3> QED BY <3>1, <3>2
  <2>3. ASSUME NEW j \in Nat, j = Count' + 1, Count' = k PROVE Reads(j)'
    <3>1. j - 1 = k
      BY <1>0, <2>3
    <3> QED BY <1>2, <2>1, <2>2, <3>1 DEF Reads
  <2>4. CASE listed
    <3>1. list' = Append(list, detach(p)) /\ taken' = taken
      BY <1>4, <1>6, <1>14, <2>4
    <3>2. /\ Len(list') = Len(list) + 1 /\ Len(list) \in Nat /\ Len(taken) \in Nat
          /\ DOMAIN list = 1..Len(list) /\ DOMAIN list' = 1..Len(list')
          /\ list'[Len(list) + 1] = detach(p)
          /\ \A i \in 1..Len(list) : list'[i] = list[i]
      BY <1>0, <1>1, <3>1, AppendProperties
    <3>3. Count' = k
      BY <3>1, <3>2 DEF Count
    <3>4. ASSUME NEW j \in Nat, NEW i \in DOMAIN list', j = Len(taken') + i
          PROVE  IsPacket(list[i], j)'
      <4>1. CASE i = Len(list) + 1
        <5>1. j = k
          BY <3>1, <3>2, <3>4, <4>1 DEF Count
        <5>2. list'[i].head.blk = p.head.blk /\ list'[i].body.blk = p.body.blk
          BY <1>3, <3>2, <4>1 DEF detach, PacketOf, BufferOf
        <5>3. /\ p.head.blk \in Blocks' /\ heap'[p.head.blk].data = Header(k)
              /\ heap'[p.head.blk].size = sent'[k]
          BY <1>4, <1>8
        <5>4. /\ sent'[k] # 0 => p.body.blk \in Blocks' /\ heap'[p.body.blk].data = Body(k)'
              /\ ~stale' /\ sent'[k] = 0 => p.body.blk = 0
          BY <1>0, <1>2, <1>4, <1>10, <1>11, <1>14
        <5> QED BY <5>1, <5>2, <5>3, <5>4 DEF IsPacket, IsHeader, IsBody
      <4>2. CASE i # Len(list) + 1
        <5>1. i \in 1..Len(list) /\ list'[i] = list[i]
          BY <3>2, <4>2
        <5>2. IsPacket(list[i], j)
          BY <1>1, <3>1, <3>2, <3>4, <5>1
        <5>3. /\ list[i].head.blk \in 1..Len(h) /\ heap'[list[i].head.blk].data = Header(j)
              /\ heap'[list[i].head.blk].size = sent[j]
              /\ sent[j] # 0 => /\ list[i].body.blk \in 1..Len(h)
                                /\ heap'[list[i].body.blk].data = Body(j)
              /\ ~stale' /\ sent[j] = 0 => list[i].body.blk = 0
          BY <1>12, <5>2
        <5> QED BY <1>2, <1>4, <3>4, <5>1, <5>3 DEF IsPacket, IsHeader, IsBody
      <4> QED BY <4>1, <4>2
    <3>5. /\ \A i \in DOMAIN taken' : i \in Nat
          /\ Count' \in 0..Sent
      BY <1>0, <1>1, <3>1, <3>3
    <3>6. ~stale' => ~stale
      BY <1>6
    <3> QED BY <1>1, <1>2, <2>3, <2>4, <3>1, <3>3, <3>4, <3>5, <3>6 DEF FramedInv, Fits
  <2>5. CASE ~listed
    <3>1. list = <<>> /\ list' = <<>> /\ taken' = Append(taken, Reading(g, p))
      BY <1>1, <1>4, <1>6, <1>7, <1>14, <2>5
    <3>2. /\ Reading(g, p) \in Item /\ Reading(g, p).read = Whole(k)
          /\ (sent[k] = 0 => p.body.blk = 0) /\ Fits(sent[k]) => Reading(g, p).export = Whole(k)
      <4>1. /\ p \in PacketOf(Len(g)) /\ p.head.blk # 0 /\ g[p.head.blk].data = Header(k)
            /\ g[p.head.blk].size = sent[k]
            /\ sent[k] # 0 => p.body.blk # 0 /\ g[p.body.blk].data = Body(k)
        BY <1>0, <1>3, <1>5, <1>8, <1>10, <1>14
      <4> QED BY <1>0, <1>5, <4>1, ReadingIs
    <3>3. /\ taken' \in Seq(Item) /\ Len(taken') = Len(taken) + 1 /\ Len(taken) \in Nat
          /\ taken'[Len(taken) + 1] = Reading(g, p)
          /\ \A i \in 1..Len(taken) : taken'[i] = taken[i]
      BY <1>1, <3>1, <3>2, AppendProperties
    <3>4. Count = Len(taken) /\ Count' = Len(taken') /\ Len(taken) + 1 = k
      <4>1. Len(list) = 0 /\ Len(list') = 0
        BY <3>1
      <4> QED BY <3>3, <4>1 DEF Count
    <3>5. Count' = k /\ Count' \in 0..Sent
      BY <1>0, <3>3, <3>4
    <3>6. ASSUME NEW i \in DOMAIN taken'
          PROVE  /\ i \in Nat /\ taken'[i].read = Whole(i)
                 /\ ~stale' /\ Fits(sent[i]) => taken'[i].export = Whole(i)
      <4>1. CASE i = k
        BY <1>0, <1>11, <1>14, <3>2, <3>3, <3>4, <4>1
      <4>2. CASE i # k
        <5>1. i \in 1..Len(taken) /\ i \in DOMAIN taken /\ taken'[i] = taken[i] /\ i \in Nat
          BY <3>3, <3>4, <4>2
        <5> QED BY <1>1, <1>6, <5>1
      <4> QED BY <4>1, <4>2
    <3>7. DOMAIN list' = {}
      BY <3>1
    <3> QED BY <1>2, <2>3, <2>5, <3>1, <3>3, <3>5, <3>6, <3>7 DEF FramedInv, Fits
  <2> QED BY <2>4, <2>5
<1> QED BY <1>13, <1>14

\* All units are on their way at first, ...
LEMMA FramedInit == Init => FramedInv
<1> SUFFICES ASSUME Init PROVE FramedInv
  OBVIOUS
<1>1. stream = Rest(0)
  <2>1. Sent - 0 = Sent /\ \A j \in 1..Sent : 0 + j = j
    BY FramingAssumption
  <2>2. [j \in 1..Sent |-> Whole(j)] = [j \in 1..(Sent - 0) |-> Whole(0 + j)]
    BY <2>1
  <2> QED BY <2>2 DEF Init, Rest
<1>2. taken \in Seq(Item) /\ Count = 0 /\ 0 \in 0..Sent /\ DOMAIN list = {} /\ DOMAIN taken = {}
  <2>1. taken = <<>> /\ list = <<>>
    BY DEF Init
  <2> QED BY <2>1, SizesFit DEF Count
<1>3. ASSUME NEW k \in Nat, k = Count + 1 PROVE Reads(k)
  <2>1. k - 1 = 0
    BY <1>2, <1>3
  <2>2. ~recvPacket.readed /\ Pending = 0 /\ want = HeaderSize
    BY DEF Init, EmptyPacket, Pending
  <2> QED BY <1>1, <2>1, <2>2 DEF Reads
<1> QED BY <1>2, <1>3 DEF FramedInv, Init

\* A read, in the callback's hand or held back in the queue.
LEMMA onRecvCallbackFramed ==
    ASSUME KindsInv, FramedInv, NEW n \in 1..MaxPacketSize, onRecvCallback(n)
    PROVE  FramedInv'
<1>0. /\ sent \in [1..Sent -> Bodies] /\ Sent \in Nat /\ HeaderSize \in Nat /\ HeaderSize # 0
      /\ short \in Nat /\ want \in Nat /\ n \in Nat /\ n # 0 /\ heap \in Seq(Block)
      /\ Len(heap) \in Nat /\ Blocks = 1..Len(heap) /\ stream \in Seq(Unit)
  BY SizesFit, FramingAssumption DEF KindsInv, TypeOK, Blocks
<1>1. /\ UNCHANGED << listed, sent, open, suspended, packet >>
      /\ stream' = SubSeq(stream, n + 1, Len(stream))
      /\ short' = IF n < want THEN short + 1 ELSE short
  BY DEF onRecvCallback
<1>2. /\ open /\ queue = <<>> /\ hand = 0 /\ n <= want /\ n <= Len(stream)
      /\ Len(SubSeq(stream, 1, n)) = n /\ Pending = 0
      /\ UNCHANGED << recvPacket, list, taken, stale >>
  BY onRecvCallbackReads DEF Pending
<1>3. PICK size \in Nat :
         /\ heap' \in Seq(Block) /\ Len(heap') = Len(heap) + 1
         /\ \A c \in Blocks : heap'[c] = heap[c]
         /\ heap'[Len(heap) + 1] =
               [data |-> SubSeq(stream, 1, n), size |-> size, frees |-> 0]
         /\ recvPacket.readed \/ size \in SizeField(SubSeq(stream, 1, n))
  BY onRecvCallbackReads
<1> DEFINE data == SubSeq(stream, 1, n)
<1>4. PICK b \in 1..Len(heap') : b = Len(heap) + 1
  BY <1>0, <1>3
<1>5. /\ heap'[b].data = data /\ heap'[b].size = size
      /\ Pending' = b /\ b # 0
  <2>1. b # 0
    BY <1>0, <1>4
  <2>2. \/ queue' = << b >> /\ hand' = 0
        \/ queue' = <<>> /\ hand' = b
    BY <1>4, onRecvCallbackReads
  <2>3. Pending' = b
    BY <2>1, <2>2 DEF Pending
  <2> QED BY <1>3, <1>4, <2>1, <2>3
<1> HIDE DEF data
<1>6. CASE short' # 0
  <2>1. (~listed => list = <<>>)'
    BY <1>1, <1>2 DEF FramedInv
  <2> QED BY <1>6, <2>1 DEF FramedInv
<1>7. CASE short' = 0
  <2>1. short = 0 /\ n = want
    BY <1>0, <1>1, <1>2, <1>7
  <2>2. PICK k \in Nat : k = Count + 1 /\ Count \in 0..Sent /\ Reads(k)
    <3>1. Count \in 0..Sent
      BY <2>1 DEF FramedInv
    <3>2. Count + 1 \in Nat
      BY <1>0, <3>1
    <3>3. \A k \in Nat : k = Count + 1 => Reads(k)
      BY <1>2, <2>1 DEF FramedInv
    <3> QED BY <3>1, <3>2, <3>3
  <2>3. /\ k \in 1..Sent
        /\ \/ recvPacket.readed /\ data = Body(k) /\ stream' = Rest(k)
           \/ /\ ~recvPacket.readed /\ data = Header(k) /\ size = sent[k]
              /\ stream' = Body(k) \o Rest(k)
    <3>1. CASE recvPacket.readed
      <4>1. k \in 1..Sent /\ want = sent[k] /\ stream = Body(k) \o Rest(k)
        BY <1>2, <2>2, <3>1 DEF Reads
      <4>2. Body(k) \in Seq(Unit) /\ Rest(k) \in Seq(Unit) /\ Len(Body(k)) = n
        BY <1>0, <2>1, <4>1, UnitsOf
      <4>3. SubSeq(stream, 1, n) = Body(k) /\ SubSeq(stream, n + 1, Len(stream)) = Rest(k)
        BY <4>1, <4>2, ReadsFirst
      <4> QED BY <1>1, <3>1, <4>1, <4>3 DEF data
    <3>2. CASE ~recvPacket.readed
      <4>1. want = HeaderSize /\ stream = Rest(k - 1)
        BY <1>2, <2>2, <3>2 DEF Reads
      <4>2. k \in 1..Sent
        <5>1. stream # <<>>
          BY <1>0, <1>2
        <5>2. k - 1 # Sent
          BY <1>0, <4>1, <5>1, RestSplits
        <5> QED BY <1>0, <2>2, <5>2
      <4>3. /\ Header(k) \in Seq(Unit) /\ Len(Header(k)) = HeaderSize
            /\ Header(k)[HeaderSize] = << k, HeaderSize >>
            /\ Body(k) \in Seq(Unit) /\ Rest(k) \in Seq(Unit)
            /\ Rest(k - 1) = Header(k) \o (Body(k) \o Rest(k))
        BY <1>0, <4>2, UnitsOf
      <4>4. Body(k) \o Rest(k) \in Seq(Unit)
        BY <4>3, ConcatProperties
      <4>5. /\ SubSeq(stream, 1, n) = Header(k)
            /\ SubSeq(stream, n + 1, Len(stream)) = Body(k) \o Rest(k)
        <5>1. Len(Header(k)) = n /\ stream = Header(k) \o (Body(k) \o Rest(k))
          BY <2>1, <4>1, <4>3
        <5>2. PICK t \in Seq(Unit) : t = Body(k) \o Rest(k)
          BY <4>4
        <5>3. SubSeq(stream, 1, n) = Header(k) /\ SubSeq(stream, n + 1, Len(stream)) = t
          <6>1. PICK s \in Seq(Unit) : s = Header(k)
            BY <4>3
          <6>2. Len(s) = n /\ stream = s \o t
            BY <5>1, <5>2, <6>1
          <6> QED BY <6>1, <6>2, ReadsFirst
        <5> QED BY <5>2, <5>3
      <4>6. size \in SizeField(Header(k))
        BY <1>3, <3>2, <4>5
      <4>7. size = sent[k]
        BY <4>3, <4>6 DEF SizeField
      <4> QED BY <1>1, <3>2, <4>2, <4>5, <4>7 DEF data
    <3> QED BY <3>1, <3>2
  <2>4. \A i \in Nat : Body(i)' = Body(i) /\ Whole(i)' = Whole(i) /\ Rest(i)' = Rest(i)
    BY <1>1, SameUnits
  <2>5. /\ Blocks' = 1..Len(heap') /\ b \in Blocks' /\ Blocks \subseteq Blocks'
        /\ \A c \in Blocks : heap'[c] = heap[c]
    BY <1>0, <1>3, <1>4 DEF Blocks
  <2>6. ASSUME NEW j \in Nat, j = Count' + 1 PROVE Reads(j)'
    <3>1. j = k
      BY <1>2, <2>2, <2>6 DEF Count
    <3>2. CASE recvPacket.readed
      <4>1. IsHeader(recvPacket.head.blk, k) /\ sent[k] # 0
        BY <2>2, <3>2 DEF Reads
      <4> QED BY <1>1, <1>2, <1>5, <2>3, <2>4, <2>5, <3>1, <3>2, <4>1
              DEF Reads, IsHeader, IsBody
    <3>3. CASE ~recvPacket.readed
      BY <1>1, <1>2, <1>5, <2>3, <2>4, <2>5, <3>1, <3>3 DEF Reads, IsHeader
    <3> QED BY <3>2, <3>3
  <2>7. ASSUME NEW j \in Nat, NEW i \in DOMAIN list', j = Len(taken') + i
        PROVE  IsPacket(list[i], j)'
    <3>1. IsPacket(list[i], j)
      BY <1>2, <2>1, <2>7 DEF FramedInv
    <3> QED BY <1>1, <1>2, <2>4, <2>5, <2>7, <3>1 DEF IsPacket, IsHeader, IsBody
  <2>8. /\ taken \in Seq(Item) /\ \A i \in DOMAIN taken : taken[i].read = Whole(i) /\ i \in Nat
        /\ ~stale => \A i \in DOMAIN taken : Fits(sent[i]) => taken[i].export = Whole(i)
    BY <2>1 DEF FramedInv
  <2>9. (~listed => list = <<>>)' /\ Count' \in 0..Sent
    BY <1>1, <1>2, <2>2 DEF FramedInv, Count
  <2> QED BY <1>1, <1>2, <2>4, <2>6, <2>7, <2>8, <2>9 DEF FramedInv, Fits
<1> QED BY <1>6, <1>7

\* The handler with the block that comes next, from the callback or from the queue.
LEMMA DispatchFramed ==
    ASSUME KindsInv, FramedInv, NEW b \in 1..Len(heap), b = Pending, open,
           NEW freed \in BOOLEAN, onRecv(heap, b, freed), hand' = 0,
           queue' = <<>> \/ Throws(heap, setData(heap, recvPacket, b)),
           UNCHANGED << listed, sent, stream, open, packet, short >>
    PROVE  FramedInv'
<1>0. /\ Sent \in Nat /\ heap \in Seq(Block) /\ Len(heap) \in Nat /\ Blocks = 1..Len(heap)
      /\ sent \in [1..Sent -> Bodies] /\ b # 0
  BY SizesFit DEF KindsInv, TypeOK, Blocks
<1>1. CASE short # 0
  <2>1. list' = list \/ listed
    BY DEF onRecv, onSessionRecv
  <2> QED BY <1>1, <2>1 DEF FramedInv
<1>2. CASE short = 0
  <2>1. PICK k \in Nat : k = Count + 1 /\ Reads(k)
    <3>1. Count + 1 \in Nat
      BY <1>0, <1>2 DEF FramedInv
    <3>2. \A k \in Nat : k = Count + 1 => Reads(k)
      BY <1>2 DEF FramedInv
    <3> QED BY <3>1, <3>2
  <2>2. /\ k \in 1..Sent
        /\ \/ recvPacket.readed /\ heap[b].data = Body(k) /\ stream' = Rest(k)
           \/ /\ ~recvPacket.readed /\ heap[b].data = Header(k) /\ heap[b].size = sent[k]
              /\ stream' = Body(k) \o Rest(k)
    BY <1>0, <2>1 DEF Reads, IsHeader, IsBody
  <2>3. ~Throws(heap, setData(heap, recvPacket, b))
    <3> DEFINE p == setData(heap, recvPacket, b)
    <3>1. /\ p.head = IF recvPacket.readed THEN recvPacket.head ELSE [blk |-> b, own |-> TRUE]
          /\ p.readed = (~recvPacket.readed /\ heap[b].size # 0)
      <4>1. Len(heap) <= Len(heap)
        BY <1>0
      <4> QED BY <1>0, <4>1, setDataKinds
    <3> HIDE DEF p
    <3>2. CASE p.readed
      <4>a. p.readed = TRUE
        <5>1. p.readed \in BOOLEAN
          BY <3>1
        <5> QED BY <3>2, <5>1
      <4>0. (~recvPacket.readed /\ heap[b].size # 0) = TRUE
        BY <3>1, <3>2, <4>a
      <4>1. ~recvPacket.readed /\ p.head.blk = b
        BY <3>1, <4>0
      <4>2. heap[p.head.blk].size = sent[k] /\ sent[k] \in Nat /\ sent[k] <= MaxPacketSize
            /\ MaxPacketSize \in Nat
        BY <1>0, <2>2, <4>1, SizesFit
      <4>3. ~Throws(heap, p)
        BY <4>2 DEF Throws
      <4> QED BY <4>3 DEF p
    <3>3. CASE ~p.readed
      <4>1. ~Throws(heap, p)
        BY <3>3 DEF Throws
      <4> QED BY <4>1 DEF p
    <3> QED BY <3>2, <3>3
  <2>4. Pending' = 0
    BY <2>3 DEF Pending
  <2>5. /\ Len(heap) <= Len(heap) /\ short' = 0
        /\ \A c \in Blocks : heap[c].data = heap[c].data /\ heap[c].size = heap[c].size
    BY <1>0, <1>2
  <2>6. k = Count + 1
    BY <2>1
  <2> QED BY <1>0, <1>2, <2>2, <2>4, <2>5, <2>6, onRecvFramed
<1> QED BY <1>1, <1>2

\* A query takes the next packet, whole.
LEMMA queryRecvPacketFramed ==
    ASSUME KindsInv, FramedInv, queryRecvPacket
    PROVE  FramedInv'
<1>0. /\ Sent \in Nat /\ heap \in Seq(Block) /\ Len(heap) \in Nat /\ Blocks = 1..Len(heap)
      /\ sent \in [1..Sent -> Bodies] /\ list \in Seq(PacketOf(Len(heap)))
      /\ packet \in PacketOf(Len(heap))
  BY SizesFit, Packets DEF KindsInv, TypeOK, Blocks
<1>1. /\ list # <<>> /\ heap' = clear(heap, packet) /\ list' = Tail(list)
      /\ taken' = Append(taken, Reading(heap, Head(list)))
      /\ UNCHANGED << listed, sent, stream, recvPacket, want, open, suspended, hand, queue,
                      short, stale, redispatched >>
  BY DEF queryRecvPacket
<1>2. /\ Blocks' = Blocks
      /\ \A c \in Blocks : heap'[c].data = heap[c].data /\ heap'[c].size = heap[c].size
  <2>1. /\ heap' \in Seq(Block) /\ Len(heap') = Len(heap)
        /\ \A c \in 1..Len(heap) : heap'[c].data = heap[c].data /\ heap'[c].size = heap[c].size
    BY <1>0, <1>1, ClearKinds
  <2>2. DOMAIN heap' = 1..Len(heap)
    BY <2>1
  <2> QED BY <1>0, <2>1, <2>2 DEF Blocks
<1>3. PICK p \in PacketOf(Len(heap)) : p = Head(list) /\ p = list[1]
  BY <1>0, <1>1
<1>4. /\ Len(list) \in Nat /\ Len(list) # 0 /\ 1 \in DOMAIN list /\ DOMAIN list = 1..Len(list)
      /\ Len(list') = Len(list) - 1 /\ DOMAIN list' = 1..Len(list')
      /\ \A i \in 1..Len(list') : list'[i] = list[i + 1]
  BY <1>0, <1>1
<1>5. listed /\ (~listed => list = <<>>)'
  BY <1>1 DEF FramedInv
<1>6. CASE short # 0
  BY <1>1, <1>5, <1>6 DEF FramedInv
<1>7. CASE short = 0
  <2>1. /\ taken \in Seq(Item) /\ Count \in 0..Sent
        /\ \A k \in Nat : open /\ k = Count + 1 => Reads(k)
        /\ \A k \in Nat : \A i \in DOMAIN list : k = Len(taken) + i => IsPacket(list[i], k)
        /\ \A i \in DOMAIN taken : taken[i].read = Whole(i)
        /\ ~stale => \A i \in DOMAIN taken : Fits(sent[i]) => taken[i].export = Whole(i)
    BY <1>7 DEF FramedInv
  <2>2. \A i \in Nat : Body(i)' = Body(i) /\ Whole(i)' = Whole(i) /\ Rest(i)' = Rest(i)
    BY <1>1, SameUnits
  <2>3. PICK k \in 1..Sent : k = Len(taken) + 1
    BY <1>0, <1>4, <2>1 DEF Count
  <2>4. /\ IsHeader(p.head.blk, k) /\ (sent[k] # 0 => IsBody(p.body.blk, k))
        /\ (~stale /\ sent[k] = 0 => p.body.blk = 0)
    <3>1. \A i \in DOMAIN list : k = Len(taken) + i => IsPacket(list[i], k)
      BY <2>1
    <3>2. IsPacket(list[1], k)
      BY <1>4, <2>3, <3>1
    <3> QED BY <1>3, <3>2 DEF IsPacket
  <2>5. PICK r \in Item : /\ r = Reading(heap, p) /\ r.read = Whole(k)
                          /\ ~stale /\ Fits(sent[k]) => r.export = Whole(k)
    <3>1. /\ p.head.blk # 0 /\ heap[p.head.blk].data = Header(k) /\ heap[p.head.blk].size = sent[k]
          /\ sent[k] # 0 => p.body.blk # 0 /\ heap[p.body.blk].data = Body(k)
      BY <1>0, <2>4 DEF IsHeader, IsBody
    <3>2. /\ Reading(heap, p) \in Item /\ Reading(heap, p).read = Whole(k)
          /\ (sent[k] = 0 => p.body.blk = 0) /\ Fits(sent[k]) => Reading(heap, p).export = Whole(k)
      BY <1>0, <3>1, ReadingIs
    <3> QED BY <2>4, <3>2
  <2>6. /\ taken' \in Seq(Item) /\ Len(taken') = Len(taken) + 1 /\ Len(taken) \in Nat
        /\ taken'[Len(taken) + 1] = r /\ \A i \in 1..Len(taken) : taken'[i] = taken[i]
        /\ DOMAIN taken = 1..Len(taken) /\ DOMAIN taken' = 1..Len(taken')
    <3>1. taken' = Append(taken, r)
      BY <1>1, <1>3, <2>5
    <3> QED BY <2>1, <3>1, AppendProperties
  <2>7. Count' = Count
    BY <1>4, <2>6 DEF Count
  <2>8. ASSUME NEW j \in Nat, open', j = Count' + 1 PROVE Reads(j)'
    <3>1. Reads(j)
      BY <1>1, <2>1, <2>7, <2>8
    <3>2. k - 1 \in Nat /\ j - 1 \in Nat
      BY <1>0, <2>1, <2>3, <2>7, <2>8
    <3>3. Pending' = Pending
      BY <1>1 DEF Pending
    <3> QED BY <1>1, <1>2, <2>2, <2>8, <3>1, <3>2, <3>3 DEF Reads, IsHeader, IsBody
  <2>9. ASSUME NEW j \in Nat, NEW i \in DOMAIN list', j = Len(taken') + i
        PROVE  IsPacket(list[i], j)'
    <3>1. i + 1 \in DOMAIN list /\ j = Len(taken) + (i + 1) /\ list'[i] = list[i + 1]
      BY <1>4, <2>6, <2>9
    <3>2. IsPacket(list[i + 1], j)
      BY <2>1, <3>1
    <3> QED BY <1>1, <1>2, <2>2, <2>9, <3>1, <3>2 DEF IsPacket, IsHeader, IsBody
  <2>10. ASSUME NEW i \in DOMAIN taken'
         PROVE  /\ i \in Nat /\ taken'[i].read = Whole(i)
                /\ ~stale' /\ Fits(sent[i]) => taken'[i].export = Whole(i)
    <3>1. CASE i = k
      BY <1>1, <2>3, <2>5, <2>6, <3>1
    <3>2. CASE i # k
      <4>1. i \in DOMAIN taken /\ taken'[i] = taken[i] /\ i \in Nat
        BY <2>3, <2>6, <3>2
      <4> QED BY <1>1, <2>1, <4>1
    <3> QED BY <3>1, <3>2
  <2> QED BY <1>1, <1>5, <2>1, <2>2, <2>6, <2>7, <2>8, <2>9, <2>10 DEF FramedInv, Fits
<1> QED BY <1>6, <1>7

\* ... and every step leaves them whole and in order.
LEMMA FramedStep == KindsInv /\ FramedInv /\ [Next]_vars => FramedInv'
<1> SUFFICES ASSUME KindsInv, FramedInv, [Next]_vars PROVE FramedInv'
  OBVIOUS
<1>0. /\ heap \in Seq(Block) /\ recvPacket \in PacketOf(Len(heap)) /\ Len(heap) \in Nat
      /\ Blocks = 1..Len(heap)
  BY Packets DEF KindsInv, TypeOK, Blocks
<1>1. ASSUME NEW n \in 1..MaxPacketSize, onRecvCallback(n) PROVE FramedInv'
  BY <1>1, onRecvCallbackFramed
<1>2. CASE processRead
  <2>1. PICK freed \in BOOLEAN :
                 /\ onRecv(heap, Head(queue), freed)
                 /\ queue' = IF freed THEN <<>> ELSE queue
                 /\ freed <=> ~Throws(heap, setData(heap, recvPacket, Head(queue)))
    BY <1>2, processReadReads
  <2>2. /\ Head(queue) \in 1..Len(heap) /\ hand' = 0 /\ open /\ Pending = Head(queue)
        /\ UNCHANGED << listed, sent, stream, open, packet, short >>
    BY <1>2, processReadReads DEF Pending
  <2>3. queue' = <<>> \/ Throws(heap, setData(heap, recvPacket, Head(queue)))
    BY <2>1
  <2>4. PICK b \in 1..Len(heap) : b = Head(queue)
    BY <2>2
  <2> QED BY <2>1, <2>2, <2>3, <2>4, DispatchFramed
<1>7. CASE handle /\ open
  <2>1. /\ hand # 0 /\ hand' = 0 /\ onRecv(heap, hand, FALSE) /\ Pending = hand /\ queue' = queue
        /\ UNCHANGED << listed, sent, stream, open, packet, short >>
    BY <1>7 DEF handle, Pending
  <2>2. hand \in 1..Len(heap) /\ queue = <<>> /\ FALSE \in BOOLEAN
    BY <1>0, <2>1 DEF KindsInv, TypeOK
  <2>3. PICK b \in 1..Len(heap) : b = hand
    BY <2>2
  <2> QED BY <1>7, <2>1, <2>2, <2>3, DispatchFramed
<1>8. CASE handle /\ ~open
  <2>1. /\ heap' = free(heap, {hand}) \/ heap' = heap
        /\ UNCHANGED << listed, sent, list, taken, stale, short >>
    BY <1>8 DEF handle
  <2>4. ~open'
    BY <1>8 DEF handle
  <2>2. /\ Len(heap') = Len(heap) /\ DOMAIN heap' = DOMAIN heap
        /\ \A c \in Blocks : heap'[c].data = heap[c].data /\ heap'[c].size = heap[c].size
    <3>1. CASE heap' = heap
      BY <3>1
    <3>2. CASE heap' = free(heap, {hand})
      BY <1>0, <3>2, FreeFrees DEF Freed
    <3> QED BY <2>1, <3>1, <3>2
  <2> QED BY <2>1, <2>2, <2>4, SamePackets
<1>3. ASSUME NEW b \in BOOLEAN, suspendDispatch(b) PROVE FramedInv'
  BY <1>3, SamePackets DEF suspendDispatch
<1>4. CASE close
  <2>1. /\ ~open' /\ heap' = free(clear(heap, recvPacket), Range(queue))
        /\ UNCHANGED << listed, sent, list, taken, stale, short >>
    BY <1>4 DEF close
  <2>2. /\ clear(heap, recvPacket) \in Seq(Block) /\ Len(clear(heap, recvPacket)) = Len(heap)
        /\ \A c \in 1..Len(heap) : /\ clear(heap, recvPacket)[c].data = heap[c].data
                                   /\ clear(heap, recvPacket)[c].size = heap[c].size
    BY <1>0, ClearKinds
  <2>3. /\ Len(heap') = Len(heap) /\ DOMAIN heap' = DOMAIN heap
        /\ \A c \in Blocks : heap'[c].data = heap[c].data /\ heap'[c].size = heap[c].size
    BY <1>0, <2>1, <2>2, FreeFrees DEF Freed
  <2> QED BY <2>1, <2>3, SamePackets
<1>5. CASE queryRecvPacket
  BY <1>5, queryRecvPacketFramed
<1>6. CASE UNCHANGED vars
  BY <1>6, SamePackets DEF vars
<1> QED BY <1>1, <1>2, <1>3, <1>4, <1>5, <1>6, <1>7, <1>8 DEF Next

\* What was taken is whole, then.
LEMMA FramedFollows == KindsInv /\ FramedInv => FramedInOrder /\ ForwardedWhole
<1> SUFFICES ASSUME KindsInv, FramedInv, short = 0
             PROVE  /\ AsSent
                    /\ ~stale => \A k \in DOMAIN taken :
                          k \in DOMAIN sent /\ (Fits(sent[k]) => taken[k].export = Whole(k))
  BY DEF FramedInOrder, ForwardedWhole
<1>1. /\ taken \in Seq(Item) /\ Count \in 0..Sent
      /\ \A k \in DOMAIN taken : taken[k].read = Whole(k)
      /\ ~stale => \A k \in DOMAIN taken : Fits(sent[k]) => taken[k].export = Whole(k)
  BY DEF FramedInv
<1>2. DOMAIN sent = 1..Sent /\ list \in Seq(Packet)
  BY DEF KindsInv, TypeOK
<1>3. \A k \in DOMAIN taken : k \in DOMAIN sent
  <2>1. Len(list) \in Nat /\ Len(taken) \in Nat /\ DOMAIN taken = 1..Len(taken)
    BY <1>1, <1>2
  <2> QED BY <1>1, <1>2, <2>1, SizesFit DEF Count
<1> QED BY <1>1, <1>3 DEF AsSent

--------------------------------------------------------------------------------
(***************************************************************************)
(* The theorems.                                                           *)
(***************************************************************************)
\* However packets are read, held back, listed, queried and given up, each block of
\* memory is in a place that will free it until it is freed, as long as no session is
\* destroyed while its handler runs (XAsioTCPSrvSession::onRecv, closeSession).
THEOREM NothingLeaksCorrect == Spec => []NothingLeaks
<1>1. Init => KindsInv /\ LeakFree
  <2>1. Init => LeakFree
    BY DEF Init, LeakFree, Blocks
  <2> QED BY <2>1, KindsInit
<1>2. KindsInv /\ LeakFree /\ [Next]_vars => (KindsInv /\ LeakFree)'
  BY KindsStep, LeakStep
<1>3. KindsInv /\ LeakFree => NothingLeaks
  BY LeaksIs
<1> QED BY <1>1, <1>2, <1>3, PTL DEF Spec

\* As long as no session is destroyed while its handler runs, which nothing in onRecv,
\* closeSession and updateClient prevents, no packet without a body is listed after one
\* with a body, and nothing was dispatched from the queue, no block is freed twice, or
\* held anywhere after it was freed; a session closed between the read and its handler
\* included (XBufferData::release, attach and detach of XAsioRecvPacket).
THEOREM OneOwnerCorrect == Spec => []OneOwner
<1>1. Init => KindsInv /\ (Undisturbed => OnceInv)
  <2>1. Init => OnceInv
    BY DEF Init, OnceInv, Blocks, Apart, EmptyPacket, NoBuffer
  <2> QED BY <2>1, KindsInit
<1>2. KindsInv /\ (Undisturbed => OnceInv) /\ [Next]_vars => (KindsInv /\ (Undisturbed => OnceInv))'
  BY KindsStep, OnceStep
<1>3. KindsInv /\ (Undisturbed => OnceInv) => OneOwner
  BY OneOwnerFollows
<1> QED BY <1>1, <1>2, <1>3, PTL DEF Spec

\* Of any number of packets, with bodies or without, each is read as it was sent and in its
\* turn, through m_recvPacket, the session's queue and the list (XAsioTCPSrvSession::onRecv,
\* XAsioRecvPacket::setData, queryRecvPacket), as long as reads bring what they ask for.
THEOREM FramedInOrderCorrect == Spec => []FramedInOrder
<1>1. Init => KindsInv /\ FramedInv
  BY KindsInit, FramedInit
<1>2. KindsInv /\ FramedInv /\ [Next]_vars => (KindsInv /\ FramedInv)'
  BY KindsStep, FramedStep
<1>3. KindsInv /\ FramedInv => FramedInOrder
  BY FramedFollows
<1> QED BY <1>1, <1>2, <1>3, PTL DEF Spec

\* A packet that is sent on is the packet that came, if with its header counted twice it fits
\* the buffer, and no body of a packet before it is left behind (XAsioRecvPacket::exportBuffer).
THEOREM ForwardedWholeCorrect == Spec => []ForwardedWhole
<1>1. Init => KindsInv /\ FramedInv
  BY KindsInit, FramedInit
<1>2. KindsInv /\ FramedInv /\ [Next]_vars => (KindsInv /\ FramedInv)'
  BY KindsStep, FramedStep
<1>3. KindsInv /\ FramedInv => ForwardedWhole
  BY FramedFollows
<1> QED BY <1>1, <1>2, <1>3, PTL DEF Spec
================================================================================
