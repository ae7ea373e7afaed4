------------------------------ MODULE LibraryProofs ------------------------------
(***************************************************************************)
(* Theorems about the parts of Library, for all values of its constants.   *)
(***************************************************************************)
EXTENDS Library, FiniteSetTheorems, SequenceTheorems, NaturalsInduction,
        WellFoundedInduction, TLAPS

--------------------------------------------------------------------------------
(***************************************************************************)
(* Operators of the library modules, which each instance has its own of.   *)
(***************************************************************************)
\* What the instances count is what FiniteSets counts.
LEMMA SameCount ==
    \A S : /\ TestClients!Cardinality(S) = Cardinality(S)
           /\ Mysql!Cardinality(S) = Cardinality(S)
           /\ Pool!Cardinality(S) = Cardinality(S)
           /\ Pool!IsFiniteSet(S) = IsFiniteSet(S)
BY DEF TestClients!Cardinality, Mysql!Cardinality, Pool!Cardinality, Cardinality,
       Pool!IsFiniteSet, IsFiniteSet

\* So for the range of a list, and for the lists that have everything once.
LEMMA SameLists ==
    \A q : Pool!Range(q) = Mysql!Range(q) /\ Pool!IsInjective(q) = Mysql!IsInjective(q)
BY DEF Pool!Range, Mysql!Range, Pool!IsInjective, Mysql!IsInjective

\* A list without its first.
LEMMA TailList ==
    ASSUME NEW S, NEW q \in Seq(S), q # <<>>
    PROVE  /\ Tail(q) \in Seq(S) /\ Len(Tail(q)) = Len(q) - 1 /\ Head(q) \in S
           /\ Mysql!Range(q) = Mysql!Range(Tail(q)) \cup {Head(q)}
           /\ Mysql!IsInjective(q) => /\ Mysql!IsInjective(Tail(q))
                                      /\ Head(q) \notin Mysql!Range(Tail(q))
<1>1. /\ Tail(q) \in Seq(S) /\ Len(Tail(q)) = Len(q) - 1 /\ Head(q) \in S /\ Head(q) = q[1]
      /\ \A i \in 1..Len(Tail(q)) : Tail(q)[i] = q[i + 1]
      /\ Len(q) \in Nat \ {0}
      /\ DOMAIN Tail(q) = 1..(Len(q) - 1) /\ DOMAIN q = 1..Len(q)
  BY HeadTailProperties
<1>2. \A i \in DOMAIN Tail(q) : i + 1 \in DOMAIN q /\ Tail(q)[i] = q[i + 1]
  BY <1>1
<1>3. \A i \in DOMAIN q : i = 1 \/ (i - 1 \in DOMAIN Tail(q) /\ Tail(q)[i - 1] = q[i])
  BY <1>1
<1>4. Mysql!Range(q) = Mysql!Range(Tail(q)) \cup {Head(q)}
  <2>1. Mysql!Range(Tail(q)) \cup {Head(q)} \subseteq Mysql!Range(q)
    BY <1>1, <1>2 DEF Mysql!Range
  <2>2. ASSUME NEW i \in DOMAIN q PROVE q[i] \in Mysql!Range(Tail(q)) \cup {Head(q)}
    BY <1>1, <1>3 DEF Mysql!Range
  <2>3. Mysql!Range(q) \subseteq Mysql!Range(Tail(q)) \cup {Head(q)}
    BY <2>2 DEF Mysql!Range
  <2> QED BY <2>1, <2>3
<1>5. ASSUME Mysql!IsInjective(q)
      PROVE  Mysql!IsInjective(Tail(q)) /\ Head(q) \notin Mysql!Range(Tail(q))
  BY <1>1, <1>2, <1>5 DEF Mysql!Range, Mysql!IsInjective
<1> QED BY <1>1, <1>4, <1>5

\* A list with one more.
LEMMA AppendList ==
    ASSUME NEW S, NEW q \in Seq(S), NEW e \in S
    PROVE  /\ Append(q, e) \in Seq(S) /\ Len(Append(q, e)) = Len(q) + 1
           /\ Mysql!Range(Append(q, e)) = Mysql!Range(q) \cup {e}
           /\ Mysql!IsInjective(q) /\ e \notin Mysql!Range(q) => Mysql!IsInjective(Append(q, e))
<1>1. /\ Append(q, e) \in Seq(S) /\ Len(Append(q, e)) = Len(q) + 1 /\ Len(q) \in Nat
      /\ \A i \in 1..Len(q) : Append(q, e)[i] = q[i]
      /\ Append(q, e)[Len(q) + 1] = e
      /\ DOMAIN Append(q, e) = 1..(Len(q) + 1) /\ DOMAIN q = 1..Len(q)
  BY AppendProperties
<1>2. Mysql!Range(Append(q, e)) = Mysql!Range(q) \cup {e}
  BY <1>1 DEF Mysql!Range
<1>3. ASSUME Mysql!IsInjective(q), e \notin Mysql!Range(q)
      PROVE  Mysql!IsInjective(Append(q, e))
  BY <1>1, <1>3 DEF Mysql!Range, Mysql!IsInjective
<1> QED BY <1>1, <1>2, <1>3

\* The same for the instance Pool.
LEMMA PoolAppend ==
    ASSUME NEW S, NEW q \in Seq(S), NEW e \in S
    PROVE  /\ Append(q, e) \in Seq(S) /\ Len(Append(q, e)) = Len(q) + 1
           /\ Pool!Range(Append(q, e)) = Pool!Range(q) \cup {e}
           /\ Pool!IsInjective(q) /\ e \notin Pool!Range(q) => Pool!IsInjective(Append(q, e))
BY AppendList, SameLists

--------------------------------------------------------------------------------
(***************************************************************************)
(* The inductive invariant: the kinds of the sizes, and the property.      *)
(***************************************************************************)
\* XAsioBufferData.
BufferData == [data : BOOLEAN, allocated : Nat, size : Nat, owns : BOOLEAN]

PacketKinds ==
    /\ bufData \in BufferData
    /\ packetSize \in Nat
    /\ pastHalf \in BOOLEAN

PacketInv == PacketKinds /\ Packet!WithinAllocation

\* Where resize makes room, it is for exactly what is there and what is added: callers
\* have added the size already, and only the test adds it again.
LEMMA WriteFits ==
    ASSUME NEW b \in BufferData,
           NEW n \in Nat, Packet!MakesRoom(b, b.size + n)
    PROVE  /\ Packet!Write(b, n) \in BufferData
           /\ Packet!Write(b, n).size = b.size + n
           /\ Packet!Write(b, n).allocated = b.size + n
<1>1. Packet!resize(b, b.size + n) = [b EXCEPT !.data = TRUE, !.allocated = b.size + n, !.owns = TRUE]
  BY DEF Packet!resize
<1>2. b.size \in Nat /\ b.size + n \in Nat
  BY DEF BufferData
<1>3. Packet!resize(b, b.size + n) = [data |-> TRUE, allocated |-> b.size + n, size |-> b.size, owns |-> TRUE]
  BY <1>1 DEF BufferData
<1>4. Packet!Write(b, n) = [data |-> TRUE, allocated |-> b.size + n, size |-> b.size + n, owns |-> TRUE]
  <2>1. Packet!Write(b, n) = [[data |-> TRUE, allocated |-> b.size + n, size |-> b.size, owns |-> TRUE]
                          EXCEPT !.size = @ + n]
    BY <1>3, Zenon DEF Packet!Write
  <2> QED
    BY <2>1
<1> QED
  BY <1>2, <1>4 DEF BufferData

\* And it is data, within the largest size.
LEMMA RoomMade ==
    ASSUME Packet!BufferAssumption, NEW b \in BufferData,
           NEW n \in Nat, Packet!MakesRoom(b, b.size + n)
    PROVE  /\ Packet!Write(b, n) \in BufferData /\ Packet!Write(b, n).size = b.size + n
           /\ b.size + n <= MaxPacketSize /\ Packet!Write(b, n).data
<1>1. Packet!Write(b, n).data
  <2>1. Packet!resize(b, b.size + n) = [b EXCEPT !.data = TRUE, !.allocated = b.size + n, !.owns = TRUE]
    BY DEF Packet!resize
  <2>2. Packet!Write(b, n) = [[b EXCEPT !.data = TRUE, !.allocated = b.size + n, !.owns = TRUE]
                                EXCEPT !.size = @ + n]
    BY <2>1, Zenon DEF Packet!Write
  <2> QED BY <2>2 DEF BufferData
<1>2. b.size \in Nat /\ MaxPacketSize \in Nat
  BY DEF BufferData, Packet!BufferAssumption
<1>3. ~(b.size + (b.size + n) > MaxPacketSize)
  BY DEF Packet!MakesRoom
<1>4. b.size + n <= MaxPacketSize
  BY <1>2, <1>3
<1> QED BY <1>1, <1>4, WriteFits

\* A string takes a number of units.
LEMMA StringSizeNat ==
    ASSUME Packet!BufferAssumption, NEW n \in Nat
    PROVE  Packet!StringSize(n) \in Nat
BY DEF Packet!BufferAssumption, Packet!StringSize

\* Both constructors allocate what they count, or nothing.
LEMMA PacketInit == Packet!Init => PacketInv
<1> SUFFICES ASSUME Packet!Init PROVE PacketInv
  OBVIOUS
<1>1. PICK n \in {0, 2} : bufData = [Packet!Empty EXCEPT !.data = n > 0, !.allocated = n, !.owns = n > 0]
  BY DEF Packet!Init
<1>2. bufData = [data |-> n > 0, allocated |-> n, size |-> 0, owns |-> n > 0]
  BY <1>1 DEF Packet!Empty
<1>3. bufData \in BufferData /\ bufData.size <= bufData.allocated
  BY <1>2 DEF BufferData
<1> QED
  BY <1>3 DEF Packet!Init, PacketInv, PacketKinds, Packet!WithinAllocation

\* Data and strings are written only where room was made for them.
LEMMA writeDataKeeps == ASSUME PacketInv, NEW n \in Nat, Packet!writeData(n) PROVE PacketInv'
<1>1. bufData' \in BufferData /\ bufData'.size = bufData'.allocated
  BY WriteFits DEF PacketInv, PacketKinds, Packet!writeData
<1>2. bufData'.size \in Nat
  BY <1>1 DEF BufferData
<1> QED
  BY <1>1, <1>2 DEF PacketInv, PacketKinds, Packet!WithinAllocation, Packet!writeData

\* A string and its length are written once room was made for both.
LEMMA writeStringKeeps ==
    ASSUME Packet!BufferAssumption, PacketInv, NEW n \in Nat, Packet!writeString(n) PROVE PacketInv'
<1>1. bufData' \in BufferData /\ bufData'.size = bufData'.allocated
  BY WriteFits, StringSizeNat DEF PacketInv, PacketKinds, Packet!writeString
<1>2. bufData'.size \in Nat
  BY <1>1 DEF BufferData
<1> QED
  BY <1>1, <1>2 DEF PacketInv, PacketKinds, Packet!WithinAllocation, Packet!writeString

\* A value is written wherever there is room for twice the size, or room can be made;
\* if neither, it is past half of the largest size.
LEMMA writeValueKeeps ==
    ASSUME Packet!BufferAssumption, PacketInv, Packet!writeValue
    PROVE  PacketInv'
<1>1. CASE Packet!MakesRoom(bufData, bufData.size + 1)
  <2>1. Packet!ValueWritten(bufData) = Packet!Write(bufData, 1)
    BY DEF Packet!ValueWritten, Packet!Write
  <2>2. bufData' \in BufferData /\ bufData'.size = bufData'.allocated
    BY <1>1, <2>1, WriteFits DEF PacketInv, PacketKinds, Packet!writeValue
  <2>3. bufData'.size \in Nat /\ pastHalf' \in BOOLEAN
    BY <2>2 DEF BufferData, Packet!writeValue
  <2> QED
    BY <2>2, <2>3 DEF PacketInv, PacketKinds, Packet!WithinAllocation, Packet!writeValue
<1>2. CASE ~Packet!MakesRoom(bufData, bufData.size + 1)
  <2>1. /\ bufData' \in BufferData /\ bufData.size \in Nat
        /\ bufData'.size = bufData.size + 1 /\ bufData'.allocated = bufData.allocated
    BY <1>2 DEF Packet!writeValue, Packet!ValueWritten, Packet!resize, PacketInv,
       PacketKinds, BufferData
  <2>2. ~pastHalf' => ~pastHalf /\ bufData.allocated >= bufData.size + 1
    <3>1. ~pastHalf' => ~pastHalf /\ ~(2 * bufData.size + 1 > MaxPacketSize)
      BY DEF Packet!writeValue
    <3>2. bufData.size \in Nat /\ bufData.allocated \in Nat /\ MaxPacketSize \in Nat
      BY DEF Packet!BufferAssumption, PacketInv, PacketKinds, BufferData
    <3>3. \/ bufData.allocated >= bufData.size + (bufData.size + 1)
          \/ bufData.size + (bufData.size + 1) > MaxPacketSize
      BY <1>2 DEF Packet!MakesRoom
    <3>4. bufData.allocated >= bufData.size + 1 \/ 2 * bufData.size + 1 > MaxPacketSize
      BY <3>2, <3>3
    <3> QED
      BY <3>1, <3>4
  <2> QED
    BY <2>1, <2>2 DEF PacketInv, PacketKinds, Packet!WithinAllocation, Packet!writeValue
<1> QED
  BY <1>1, <1>2

\* What is imported is as large as it is, and the rest of the calls leave both sizes
\* or clear them.
LEMMA othersKeep ==
    ASSUME Packet!BufferAssumption, PacketInv, NEW n \in Nat,
           Packet!import(n) \/ Packet!detach \/ Packet!clear \/ Packet!read \/ Packet!packString(n) \/ Packet!packValue \/ Packet!reset
    PROVE  PacketInv'
<1>1. CASE Packet!read \/ Packet!reset
  BY <1>1 DEF PacketInv, PacketKinds, Packet!WithinAllocation, Packet!read, Packet!reset
<1>2. CASE Packet!detach
  <2>1. /\ bufData' \in BufferData
        /\ bufData'.size = bufData.size /\ bufData'.allocated = bufData.allocated
    BY <1>2 DEF PacketInv, PacketKinds, BufferData, Packet!detach
  <2> QED
    BY <1>2, <2>1 DEF PacketInv, PacketKinds, Packet!WithinAllocation, Packet!detach
<1>3. CASE Packet!import(n)
  BY <1>3 DEF PacketInv, PacketKinds, BufferData, Packet!WithinAllocation, Packet!import
<1>4. CASE Packet!clear
  BY <1>4 DEF PacketInv, PacketKinds, BufferData, Packet!WithinAllocation, Packet!Empty,
     Packet!clear
<1>5. CASE Packet!packString(n) \/ Packet!packValue
  BY <1>5, StringSizeNat DEF PacketInv, PacketKinds, Packet!WithinAllocation,
     Packet!packString, Packet!packValue
<1> QED
  BY <1>1, <1>2, <1>3, <1>4, <1>5

\* A send packet is written to an empty buffer.
LEMMA outputPacketKeeps ==
    ASSUME Packet!BufferAssumption, PacketInv, Packet!outputPacket
    PROVE  PacketInv'
<1>1. Packet!Empty \in BufferData /\ Packet!Empty.size = 0
  BY DEF Packet!Empty, BufferData
<1>2. packetSize + HeaderSize \in Nat
  BY DEF Packet!BufferAssumption, PacketInv, PacketKinds
<1>3. Packet!MakesRoom(Packet!Empty, Packet!Empty.size + (packetSize + HeaderSize))
  BY <1>1, <1>2 DEF Packet!outputPacket
<1>4. bufData' \in BufferData /\ bufData'.size = bufData'.allocated
  BY <1>1, <1>2, <1>3, WriteFits DEF Packet!outputPacket
<1>5. bufData'.size \in Nat
  BY <1>4 DEF BufferData
<1> QED
  BY <1>4, <1>5 DEF PacketInv, PacketKinds, Packet!WithinAllocation, Packet!outputPacket

\* Every step is one of the above, or changes nothing.
LEMMA PacketNext ==
    ASSUME Packet!BufferAssumption
    PROVE  PacketInv /\ [Packet!Next]_packetVars => PacketInv'
<1> SUFFICES ASSUME PacketInv, [Packet!Next]_packetVars PROVE PacketInv'
  OBVIOUS
<1>1. ASSUME NEW n \in Sizes, Packet!writeData(n) \/ Packet!writeString(n) \/ Packet!import(n) \/ Packet!packString(n)
      PROVE PacketInv'
  <2>1. n \in Nat
    BY DEF Packet!BufferAssumption
  <2> QED
    BY <1>1, <2>1, writeDataKeeps, writeStringKeeps, othersKeep
<1>2. CASE Packet!detach \/ Packet!clear \/ Packet!read \/ Packet!packValue \/ Packet!reset
  <2>1. 0 \in Nat
    OBVIOUS
  <2> QED
    BY <1>2, <2>1, othersKeep
<1>3. CASE UNCHANGED packetVars
  BY <1>3 DEF packetVars, PacketInv, PacketKinds, Packet!WithinAllocation
<1> QED
  BY <1>1, <1>2, <1>3, writeValueKeeps, outputPacketKeeps DEF Packet!Next

--------------------------------------------------------------------------------
(***************************************************************************)
(* PacketBuffer: the items that were written and not yet read lie from the *)
(* cursor to the end, as long as nothing was read before the last clear.   *)
(***************************************************************************)
Items == [is : {"data", "string", "value"}, at : Nat, size : Nat]

ReadKinds ==
    /\ bufData \in BufferData /\ packetSize \in Nat
    /\ cursor \in Nat /\ unread \in Seq(Items) /\ rewound \in BOOLEAN

\* A buffer without data has nothing to be read.
ReadInv == ReadKinds /\ Packet!ReadsBack /\ (~bufData.data => unread = <<>>)

\* What is read of an item.
LEMMA ReadSizeNat == \A e \in Items : Packet!ReadSize(e) \in Nat
BY DEF Packet!ReadSize, Items

\* One more item after the others.
LEMMA ItemAfter ==
    ASSUME NEW q \in Seq(Items), NEW from \in Nat, NEW to \in Nat, NEW e \in Items,
           Packet!Contiguous(q, from, to), e.at = to
    PROVE  Packet!Contiguous(Append(q, e), from, to + Packet!ReadSize(e))
<1>1. PICK r \in Seq(Items) : r = Append(q, e)
  BY AppendProperties
<1>2. /\ Len(r) = Len(q) + 1 /\ Len(q) \in Nat /\ r[Len(q) + 1] = e
      /\ \A i \in 1..Len(q) : r[i] = q[i]
  BY <1>1, AppendProperties
<1>3. ASSUME NEW i \in 0..Len(r)
      PROVE  (IF i = 0 THEN from ELSE r[i].at + Packet!ReadSize(r[i]))
               = (IF i = Len(r) THEN to + Packet!ReadSize(e) ELSE r[i + 1].at)
  <2>1. CASE i = Len(r)
    BY <1>2, <2>1
  <2>2. CASE i # Len(r)
    <3>1. /\ i \in 0..Len(q) /\ (i # 0 => r[i] = q[i])
          /\ (i = Len(q) => r[i + 1] = e) /\ (i # Len(q) => r[i + 1] = q[i + 1])
      BY <1>2, <2>2
    <3>2. (IF i = 0 THEN from ELSE q[i].at + Packet!ReadSize(q[i]))
            = (IF i = Len(q) THEN to ELSE q[i + 1].at)
      BY <3>1 DEF Packet!Contiguous
    <3> QED BY <2>2, <3>1, <3>2
  <2> QED BY <2>1, <2>2
<1>4. Packet!Contiguous(r, from, to + Packet!ReadSize(e))
  BY <1>3 DEF Packet!Contiguous
<1> QED BY <1>1, <1>4

\* And those that are left when the first is taken.
LEMMA ItemsAfterFirst ==
    ASSUME NEW q \in Seq(Items), q # <<>>, NEW from \in Nat, NEW to \in Nat,
           Packet!Contiguous(q, from, to)
    PROVE  /\ Head(q) \in Items /\ Tail(q) \in Seq(Items)
           /\ Packet!Contiguous(Tail(q), from + Packet!ReadSize(Head(q)), to)
<1>1. /\ Tail(q) \in Seq(Items) /\ Head(q) \in Items /\ Head(q) = q[1] /\ Len(q) \in Nat \ {0}
      /\ Len(Tail(q)) = Len(q) - 1 /\ \A i \in 1..Len(Tail(q)) : Tail(q)[i] = q[i + 1]
  BY HeadTailProperties
<1>2. PICK r \in Seq(Items) : r = Tail(q)
  BY <1>1
<1>3. PICK h \in Items : h = Head(q)
  BY <1>1
<1>4. q[1] = h /\ Len(r) = Len(q) - 1 /\ \A i \in 1..Len(r) : r[i] = q[i + 1]
  BY <1>1, <1>2, <1>3
<1>5. h.at = from
  <2>1. 0 \in 0..Len(q) /\ 0 # Len(q)
    BY <1>1
  <2>2. from = q[0 + 1].at
    BY <2>1 DEF Packet!Contiguous
  <2> QED BY <1>4, <2>2
<1>6. ASSUME NEW i \in 0..Len(r)
      PROVE  (IF i = 0 THEN from + Packet!ReadSize(h) ELSE r[i].at + Packet!ReadSize(r[i]))
               = (IF i = Len(r) THEN to ELSE r[i + 1].at)
  <2>1. /\ i + 1 \in 0..Len(q) /\ i + 1 # 0 /\ (i = Len(r) <=> i + 1 = Len(q))
        /\ (i = 0 => q[i + 1] = h) /\ (i # 0 => r[i] = q[i + 1])
        /\ (i # Len(r) => r[i + 1] = q[(i + 1) + 1])
    <3>1. PICK k \in Nat : k = Len(q)
      BY <1>1
    <3>2. Len(r) = k - 1 /\ k # 0
      BY <1>1, <1>4, <3>1
    <3>3. i + 1 \in 0..k /\ i + 1 # 0 /\ (i = k - 1 <=> i + 1 = k)
      BY <3>2
    <3>4. i # 0 => i \in 1..Len(r)
      BY <3>2
    <3>5. i # Len(r) => i + 1 \in 1..Len(r)
      BY <3>2
    <3>6. i # Len(r) => r[i + 1] = q[(i + 1) + 1]
      BY <1>4, <3>5
    <3>7. (i = 0 => q[i + 1] = h) /\ (i # 0 => r[i] = q[i + 1])
      BY <1>4, <3>4
    <3> QED BY <3>1, <3>2, <3>3, <3>6, <3>7
  <2>2. q[i + 1].at + Packet!ReadSize(q[i + 1])
          = (IF i + 1 = Len(q) THEN to ELSE q[(i + 1) + 1].at)
    BY <2>1 DEF Packet!Contiguous
  <2> QED BY <1>5, <2>1, <2>2
<1>7. Packet!Contiguous(r, from + Packet!ReadSize(h), to)
  BY <1>6 DEF Packet!Contiguous
<1> QED BY <1>1, <1>2, <1>3, <1>7

\* An empty list, and one item alone.
LEMMA FewItems ==
    /\ \A n \in Nat : Packet!Contiguous(<<>>, n, n)
    /\ \A n, m \in Nat : Packet!Contiguous(<<>>, n, m) => n = m
    /\ \A e \in Items : e.at = 0 => Packet!Contiguous(<< e >>, 0, Packet!ReadSize(e))
<1>1. \A n, m \in Nat : Packet!Contiguous(<<>>, n, m) <=> n = m
  BY DEF Packet!Contiguous
<1>2. ASSUME NEW e \in Items, e.at = 0 PROVE Packet!Contiguous(<< e >>, 0, Packet!ReadSize(e))
  <2>1. Packet!Contiguous(Append(<<>>, e), 0, 0 + Packet!ReadSize(e))
    <3>1. PICK q \in Seq(Items) : q = <<>>
      <4>1. <<>> \in Seq(Items)
        OBVIOUS
      <4> QED BY <4>1
    <3>2. PICK z \in Nat : z = 0
      OBVIOUS
    <3>3. Packet!Contiguous(q, z, z) /\ e.at = z
      BY <1>1, <1>2, <3>1, <3>2
    <3>4. Packet!Contiguous(Append(q, e), z, z + Packet!ReadSize(e))
      BY <3>3, ItemAfter
    <3> QED BY <3>1, <3>2, <3>4
  <2>2. Append(<<>>, e) = << e >> /\ 0 + Packet!ReadSize(e) = Packet!ReadSize(e)
    BY ReadSizeNat
  <2> QED BY <2>1, <2>2
<1> QED BY <1>1, <1>2

\* At first there is nothing to be read.
LEMMA ReadInit == ASSUME Packet!BufferAssumption PROVE Packet!Init => ReadInv
<1> SUFFICES ASSUME Packet!Init PROVE ReadInv
  OBVIOUS
<1>1. PICK n \in {0, 2} : bufData = [Packet!Empty EXCEPT !.data = n > 0, !.allocated = n, !.owns = n > 0]
  BY DEF Packet!Init
<1>2. bufData = [data |-> n > 0, allocated |-> n, size |-> 0, owns |-> n > 0]
  BY <1>1 DEF Packet!Empty
<1>3. ReadKinds
  <2>1. bufData \in BufferData
    BY <1>2 DEF BufferData
  <2>2. <<>> \in Seq(Items)
    OBVIOUS
  <2> QED BY <2>1, <2>2 DEF ReadKinds, Packet!Init
<1>4. Packet!TypeOK
  <2>1. ~bufData.data => bufData = Packet!Empty
    <3>1. CASE n = 0
      <4>1. (n > 0) = FALSE
        BY <3>1
      <4> QED BY <1>2, <3>1, <4>1 DEF Packet!Empty
    <3>2. CASE n = 2
      <4>1. (n > 0) = TRUE
        BY <3>2
      <4> QED BY <1>2, <4>1
    <3> QED BY <3>1, <3>2
  <2>2. bufData.size = 0
    BY <1>2
  <2> QED BY <2>1, <2>2 DEF Packet!TypeOK, Packet!Init, Packet!BufferAssumption
<1>5. Packet!Contiguous(unread, cursor, bufData.size)
  BY <1>2, FewItems DEF Packet!Init
<1> QED BY <1>3, <1>4, <1>5 DEF ReadInv, Packet!ReadsBack, Packet!Init

\* What is written comes after what is there.
LEMMA WrittenKeeps ==
    ASSUME ReadInv, NEW e \in Items, e.at = bufData.size, bufData' \in BufferData, bufData'.data,
           bufData'.size = bufData.size + Packet!ReadSize(e), bufData'.size <= MaxPacketSize,
           unread' = Append(unread, e), UNCHANGED << cursor, packetSize, rewound >>
    PROVE  ReadInv'
<1>1. /\ bufData.size \in Nat /\ cursor \in Nat /\ unread \in Seq(Items)
      /\ Append(unread, e) \in Seq(Items)
  <2>1. unread \in Seq(Items)
    BY DEF ReadInv, ReadKinds
  <2> QED BY <2>1, AppendProperties DEF ReadInv, ReadKinds, BufferData
<1>2. ReadKinds'
  BY <1>1 DEF ReadInv, ReadKinds
<1>3. Packet!TypeOK'
  BY <1>1 DEF ReadInv, Packet!ReadsBack, Packet!TypeOK, BufferData
<1>4. ~rewound => Packet!Contiguous(Append(unread, e), cursor, bufData.size + Packet!ReadSize(e))
  BY <1>1, ItemAfter DEF ReadInv, Packet!ReadsBack
<1>5. (~rewound => Packet!Contiguous(unread, cursor, bufData.size))'
  BY <1>4
<1> QED BY <1>2, <1>3, <1>5 DEF ReadInv, Packet!ReadsBack

\* Data.
LEMMA writeDataReads ==
    ASSUME Packet!BufferAssumption, ReadInv, NEW n \in Nat, Packet!writeData(n) PROVE ReadInv'
<1>1. PICK e : e = Packet!Item("data", n)
  OBVIOUS
<1>2. bufData \in BufferData /\ bufData.size \in Nat
  BY DEF ReadInv, ReadKinds, BufferData
<1>3. e \in Items /\ e.at = bufData.size /\ Packet!ReadSize(e) = n
  BY <1>1, <1>2 DEF Packet!Item, Items, Packet!ReadSize
<1> QED BY <1>1, <1>2, <1>3, WrittenKeeps, RoomMade DEF Packet!writeData

\* A string with its length.
LEMMA writeStringReads ==
    ASSUME Packet!BufferAssumption, ReadInv, NEW n \in Nat, Packet!writeString(n) PROVE ReadInv'
<1>1. PICK e : e = Packet!Item("string", n % Wrap)
  OBVIOUS
<1>2. bufData \in BufferData /\ bufData.size \in Nat /\ n % Wrap \in Nat
  BY DEF ReadInv, ReadKinds, BufferData, Packet!BufferAssumption
<1>3. e \in Items /\ e.at = bufData.size /\ Packet!ReadSize(e) = Packet!StringSize(n)
  BY <1>1, <1>2 DEF Packet!Item, Items, Packet!ReadSize, Packet!StringSize
<1>4. Packet!StringSize(n) \in Nat
  BY StringSizeNat
<1> QED BY <1>1, <1>2, <1>3, <1>4, WrittenKeeps, RoomMade DEF Packet!writeString

\* A value, for which there may be no room.
LEMMA writeValueReads ==
    ASSUME Packet!BufferAssumption, ReadInv, Packet!writeValue PROVE ReadInv'
<1>1. PICK e : e = Packet!Item("value", 1)
  OBVIOUS
<1>2. bufData \in BufferData /\ bufData.size \in Nat
  BY DEF ReadInv, ReadKinds, BufferData
<1>3. e \in Items /\ e.at = bufData.size /\ Packet!ReadSize(e) = 1
  BY <1>1, <1>2 DEF Packet!Item, Items, Packet!ReadSize
<1>4. bufData' \in BufferData /\ bufData'.size = bufData.size + 1 /\ bufData'.data
  <2>1. CASE Packet!MakesRoom(bufData, bufData.size + 1)
    <3>1. Packet!ValueWritten(bufData) = Packet!Write(bufData, 1)
      BY DEF Packet!ValueWritten, Packet!Write
    <3> QED BY <1>2, <2>1, <3>1, RoomMade DEF Packet!writeValue
  <2>2. CASE ~Packet!MakesRoom(bufData, bufData.size + 1)
    <3>1. bufData' = [bufData EXCEPT !.size = @ + 1]
      BY <2>2 DEF Packet!writeValue, Packet!ValueWritten, Packet!resize
    <3>2. bufData.data
      <4>1. SUFFICES ASSUME ~bufData.data PROVE FALSE
        OBVIOUS
      <4>2. bufData.size = 0 /\ bufData.allocated = 0
        BY <4>1 DEF ReadInv, Packet!ReadsBack, Packet!TypeOK, Packet!Empty
      <4>3. MaxPacketSize \in Nat /\ MaxPacketSize >= 1
        BY DEF Packet!BufferAssumption
      <4> QED BY <2>2, <4>2, <4>3 DEF Packet!MakesRoom
    <3> QED BY <1>2, <3>1, <3>2 DEF BufferData
  <2> QED BY <2>1, <2>2
<1> QED BY <1>1, <1>2, <1>3, <1>4, WrittenKeeps DEF Packet!writeValue

\* The next item is taken, which is where the cursor is.
LEMMA readReads == ASSUME ReadInv, Packet!read PROVE ReadInv'
<1>1. cursor \in Nat /\ unread \in Seq(Items) /\ unread # <<>> /\ bufData.size \in Nat
  BY DEF ReadInv, ReadKinds, BufferData, Packet!read
<1>2. Head(unread) \in Items /\ Tail(unread) \in Seq(Items)
  BY <1>1, HeadTailProperties
<1>3. ~rewound => Packet!Contiguous(Tail(unread), cursor + Packet!ReadSize(Head(unread)), bufData.size)
  BY <1>1, ItemsAfterFirst DEF ReadInv, Packet!ReadsBack
<1>4. (~rewound => Packet!Contiguous(unread, cursor, bufData.size))'
  BY <1>3 DEF Packet!read
<1>5. ReadKinds'
  BY <1>1, <1>2, ReadSizeNat DEF ReadInv, ReadKinds, Packet!read
<1>6. Packet!TypeOK' /\ bufData'.data
  BY <1>1 DEF ReadInv, Packet!ReadsBack, Packet!TypeOK, Packet!read
<1> QED BY <1>4, <1>5, <1>6 DEF ReadInv, Packet!ReadsBack

\* One item, of memory that is imported or of a packet, is all there is.
LEMMA FilledKeeps ==
    ASSUME ReadInv, NEW n \in Nat, bufData' \in BufferData, bufData'.data, bufData'.size = n,
           bufData'.owns => n <= MaxPacketSize,
           unread' = << [is |-> "data", at |-> 0, size |-> n] >>,
           UNCHANGED << cursor, packetSize >>, rewound' \in BOOLEAN, ~rewound' => cursor = 0
    PROVE  ReadInv'
<1>1. PICK e : e = [is |-> "data", at |-> 0, size |-> n]
  OBVIOUS
<1>2. e \in Items /\ e.at = 0 /\ Packet!ReadSize(e) = n /\ unread' = << e >>
  BY <1>1 DEF Items, Packet!ReadSize
<1>3. Packet!Contiguous(<< e >>, 0, n)
  BY <1>2, FewItems
<1>4. << e >> \in Seq(Items)
  BY <1>2
<1>5. ReadKinds'
  BY <1>2, <1>4 DEF ReadInv, ReadKinds
<1>6. Packet!TypeOK'
  BY DEF ReadInv, Packet!ReadsBack, Packet!TypeOK
<1>7. (~rewound => Packet!Contiguous(unread, cursor, bufData.size))'
  BY <1>2, <1>3
<1> QED BY <1>5, <1>6, <1>7 DEF ReadInv, Packet!ReadsBack

\* A buffer that was read from is used again.
LEMMA Rewinds ==
    ASSUME NEW before \in BOOLEAN, NEW at \in Nat, NEW after, after = (before \/ at > 0)
    PROVE  after \in BOOLEAN /\ (~after => at = 0)
<1>1. CASE at > 0
  BY <1>1
<1>2. CASE at = 0
  BY <1>2
<1> QED BY <1>1, <1>2

\* What is imported.
LEMMA importReads == ASSUME ReadInv, NEW n \in Nat, Packet!import(n) PROVE ReadInv'
<1>1. bufData' \in BufferData /\ bufData'.data /\ bufData'.size = n /\ ~bufData'.owns
  BY DEF Packet!import, BufferData
<1>2. rewound' \in BOOLEAN /\ (~rewound' => cursor = 0)
  BY Rewinds DEF ReadInv, ReadKinds, Packet!import
<1> QED BY <1>1, <1>2, FilledKeeps DEF Packet!import

\* What a send packet holds.
LEMMA outputPacketReads ==
    ASSUME Packet!BufferAssumption, ReadInv, Packet!outputPacket PROVE ReadInv'
<1>1. Packet!Empty \in BufferData /\ Packet!Empty.size = 0 /\ ~Packet!Empty.data
  BY DEF Packet!Empty, BufferData
<1>2. PICK n \in Nat : n = packetSize + HeaderSize
  BY DEF Packet!BufferAssumption, ReadInv, ReadKinds
<1>3. Packet!MakesRoom(Packet!Empty, Packet!Empty.size + n)
  BY <1>1, <1>2 DEF Packet!outputPacket
<1>4. bufData' \in BufferData /\ bufData'.data /\ bufData'.size = n /\ n <= MaxPacketSize
  BY <1>1, <1>2, <1>3, RoomMade DEF Packet!outputPacket
<1>5. ~rewound => cursor = 0
  <2>1. unread = <<>> /\ bufData.size = 0 /\ cursor \in Nat
    BY <1>1 DEF Packet!outputPacket, ReadInv, ReadKinds
  <2>2. ~rewound => Packet!Contiguous(<<>>, cursor, 0)
    BY <2>1 DEF ReadInv, Packet!ReadsBack
  <2> QED BY <2>1, <2>2, FewItems
<1> QED BY <1>2, <1>4, <1>5, FilledKeeps DEF Packet!outputPacket, ReadInv, ReadKinds

\* The others write and read nothing.
LEMMA packReads ==
    ASSUME Packet!BufferAssumption, ReadInv, NEW n \in Nat,
           Packet!packString(n) \/ Packet!packValue \/ Packet!reset \/ Packet!detach \/ Packet!clear
    PROVE  ReadInv'
<1>1. CASE Packet!packString(n) \/ Packet!packValue \/ Packet!reset
  <2>1. packetSize' \in 0..MaxPacketSize
    <3>1. n % Wrap \in Nat /\ packetSize \in Nat /\ MaxPacketSize \in Nat
      BY DEF Packet!BufferAssumption, ReadInv, ReadKinds
    <3> QED BY <1>1, <3>1 DEF Packet!packString, Packet!packValue, Packet!reset, Packet!StringSize
  <2>2. UNCHANGED << bufData, cursor, unread, rewound >>
    BY <1>1 DEF Packet!packString, Packet!packValue, Packet!reset
  <2> QED BY <2>1, <2>2 DEF ReadInv, ReadKinds, Packet!ReadsBack, Packet!TypeOK
<1>2. CASE Packet!detach
  <2>1. /\ bufData' \in BufferData /\ ~bufData'.owns
        /\ bufData'.size = bufData.size /\ bufData'.data = bufData.data
        /\ UNCHANGED << cursor, unread, packetSize, rewound >>
    BY <1>2 DEF ReadInv, ReadKinds, BufferData, Packet!detach
  <2>2. ~bufData.data => bufData' = Packet!Empty
    <3>1. [Packet!Empty EXCEPT !.owns = FALSE] = Packet!Empty
      <4>1. Packet!Empty \in BufferData /\ Packet!Empty.owns = FALSE
        BY DEF Packet!Empty, BufferData
      <4> QED BY <4>1 DEF BufferData
    <3>2. bufData' = [bufData EXCEPT !.owns = FALSE] /\ (~bufData.data => bufData = Packet!Empty)
      BY <1>2 DEF ReadInv, Packet!ReadsBack, Packet!TypeOK, Packet!detach
    <3> QED BY <3>1, <3>2
  <2> QED BY <2>1, <2>2 DEF ReadInv, ReadKinds, Packet!ReadsBack, Packet!TypeOK
<1>3. CASE Packet!clear
  <2>1. /\ bufData' = Packet!Empty /\ Packet!Empty \in BufferData /\ unread' = <<>>
        /\ Packet!Empty.size = 0 /\ ~Packet!Empty.owns /\ UNCHANGED << cursor, packetSize >>
        /\ rewound' = (rewound \/ cursor > 0) /\ cursor \in Nat /\ rewound \in BOOLEAN
    BY <1>3 DEF ReadInv, ReadKinds, BufferData, Packet!Empty, Packet!clear
  <2>2. rewound' \in BOOLEAN /\ (~rewound' => cursor = 0)
    BY <2>1, Rewinds
  <2>3. ReadKinds'
    <3>1. <<>> \in Seq(Items)
      OBVIOUS
    <3> QED BY <2>1, <2>2, <3>1 DEF ReadInv, ReadKinds
  <2>4. (~rewound => Packet!Contiguous(unread, cursor, bufData.size))'
    BY <2>1, <2>2, FewItems
  <2>5. Packet!TypeOK'
    BY <2>1 DEF ReadInv, Packet!ReadsBack, Packet!TypeOK
  <2> QED BY <2>1, <2>3, <2>4, <2>5 DEF ReadInv, Packet!ReadsBack
<1> QED BY <1>1, <1>2, <1>3

\* Every step of the buffer.
LEMMA ReadNext ==
    ASSUME Packet!BufferAssumption
    PROVE  ReadInv /\ [Packet!Next]_packetVars => ReadInv'
<1> SUFFICES ASSUME ReadInv, [Packet!Next]_packetVars PROVE ReadInv'
  OBVIOUS
<1>1. ASSUME NEW n \in Sizes, Packet!writeData(n) \/ Packet!writeString(n) \/ Packet!import(n) \/ Packet!packString(n)
      PROVE ReadInv'
  <2>1. n \in Nat
    BY DEF Packet!BufferAssumption
  <2> QED BY <1>1, <2>1, writeDataReads, writeStringReads, importReads, packReads
<1>2. CASE Packet!detach \/ Packet!clear \/ Packet!packValue \/ Packet!reset
  <2>1. 0 \in Nat
    OBVIOUS
  <2> QED BY <1>2, <2>1, packReads
<1>3. CASE UNCHANGED packetVars
  BY <1>3 DEF packetVars, ReadInv, ReadKinds, Packet!ReadsBack, Packet!TypeOK
<1> QED
  BY <1>1, <1>2, <1>3, writeValueReads, readReads, outputPacketReads DEF Packet!Next

--------------------------------------------------------------------------------
(***************************************************************************)
(* The inductive invariant: NoneForgotten, also of a map that was changed  *)
(* while it was looked into, and that a client that was not created yet    *)
(* has no service, so that nothing connects it.                            *)
(***************************************************************************)
InOneMap ==
    /\ TestClients!TypeOK
    /\ mapClient \cap tempClient = {}
    /\ \A c \in 1..allocateId :
          /\ (c \in mapClient) = (service[c] = "run")
          /\ c \notin mapClient \cup tempClient => ~isConnected[c]

NotYet ==
    /\ allocateId \in 0..MaxClients
    /\ service \in [TestClients!Clients -> {"none", "run", "removed"}]
    /\ \A c \in TestClients!Clients : c > allocateId => service[c] = "none"

ClientsInv == InOneMap /\ NotYet

\* The number of clients, which closeClient makes as many rounds as, is a number.
LEMMA CountIsNat == TestClients!TypeOK /\ NotYet => Cardinality(mapClient) \in Nat
<1> SUFFICES ASSUME TestClients!TypeOK, NotYet PROVE Cardinality(mapClient) \in Nat
  OBVIOUS
<1>1. IsFiniteSet(1..allocateId)
  BY FS_Interval DEF NotYet
<1>2. mapClient \subseteq 1..allocateId
  BY DEF TestClients!TypeOK
<1> QED
  BY <1>1, <1>2, FS_Subset, FS_CardinalityType

\* No client is created yet.
LEMMA ClientsInit == ASSUME TestClients!ClientsAssumption PROVE TestClients!Init => ClientsInv
BY DEF TestClients!ClientsAssumption, TestClients!Init, ClientsInv, InOneMap,
   NotYet, TestClients!TypeOK, TestClients!Clients

\* The new client gets the next id, which is in neither map.
LEMMA createClientKeeps ==
    ASSUME TestClients!ClientsAssumption, ClientsInv, TestClients!createClient
    PROVE  ClientsInv'
<1> USE DEF TestClients!ClientsAssumption, TestClients!createClient, TestClients!Clients
<1>1. TestClients!TypeOK' /\ (mapClient \cap tempClient = {})'
  BY DEF ClientsInv, InOneMap, NotYet, TestClients!TypeOK
<1>2. NotYet'
  BY DEF ClientsInv, NotYet
<1>3. ASSUME NEW c \in 1..allocateId'
      PROVE  /\ (c \in mapClient') = (service'[c] = "run")
             /\ c \notin mapClient' \cup tempClient' => ~isConnected'[c]
  <2>1. CASE c = allocateId + 1
    BY <2>1 DEF ClientsInv, NotYet
  <2>2. CASE c # allocateId + 1
    <3>1. c \in 1..allocateId /\ service'[c] = service[c]
      BY <2>2 DEF ClientsInv, NotYet
    <3> QED
      BY <2>2, <3>1 DEF ClientsInv, InOneMap
  <2> QED
    BY <2>1, <2>2
<1> QED
  BY <1>1, <1>2, <1>3 DEF ClientsInv, InOneMap

\* What it drops is not connected.
LEMMA closeClientKeeps ==
    ASSUME ClientsInv, NEW id \in {-1, 0} \cup TestClients!Clients, TestClients!closeClient(id) PROVE ClientsInv'
<1>1. closing' \in Nat /\ target' \in mapClient \cup {0}
  <2>1. TestClients!Cardinality(mapClient) \in Nat
    BY CountIsNat, SameCount DEF ClientsInv, InOneMap
  <2>2. closing \in Nat /\ target \in mapClient \cup {0}
    BY DEF ClientsInv, InOneMap, TestClients!TypeOK
  <2>3. CASE id > 0
    BY <2>2, <2>3 DEF TestClients!closeClient
  <2>4. CASE ~(id > 0)
    BY <2>1, <2>2, <2>4 DEF TestClients!closeClient
  <2> QED BY <2>3, <2>4
<1>2. TestClients!TypeOK'
  BY <1>1 DEF ClientsInv, InOneMap, TestClients!TypeOK, TestClients!closeClient
<1>3. NotYet'
  BY DEF ClientsInv, NotYet, TestClients!closeClient
<1> QED
  BY <1>2, <1>3 DEF ClientsInv, InOneMap, TestClients!closeClient,
     TestClients!Purged

\* A round only picks a client.
LEMMA closeAnyKeeps == ASSUME ClientsInv, TestClients!closeAny PROVE ClientsInv'
<1>1. closing' \in Nat /\ target' \in mapClient \cup {0}
  BY DEF ClientsInv, InOneMap, TestClients!TypeOK, TestClients!closeAny
<1> QED
  BY <1>1 DEF ClientsInv, InOneMap, NotYet, TestClients!TypeOK,
     TestClients!closeAny

\* The client changes maps and loses its service, whether or not it is still connected.
LEMMA onClientCloseKeeps ==
    ASSUME TestClients!ClientsAssumption, ClientsInv, TestClients!onClientClose
    PROVE  ClientsInv'
<1>1. target \in mapClient /\ target \in 1..allocateId /\ target \in TestClients!Clients
  BY DEF TestClients!ClientsAssumption, ClientsInv, InOneMap, NotYet,
     TestClients!TypeOK, TestClients!Clients, TestClients!onClientClose
<1>2. TestClients!TypeOK'
  BY <1>1 DEF ClientsInv, InOneMap, TestClients!TypeOK,
     TestClients!onClientClose
<1>3. NotYet'
  BY <1>1 DEF ClientsInv, NotYet, TestClients!onClientClose
<1>4. ASSUME NEW c \in 1..allocateId
      PROVE  /\ (c \in mapClient') = (service'[c] = "run")
             /\ c \notin mapClient' \cup tempClient' => ~isConnected'[c]
  BY <1>1, <1>4 DEF ClientsInv, InOneMap, NotYet, TestClients!Clients,
     TestClients!ClientsAssumption, TestClients!onClientClose
<1> QED
  BY <1>2, <1>3, <1>4 DEF ClientsInv, InOneMap, TestClients!onClientClose

\* A client that connects has its service, and so is among the live ones.
LEMMA onConnectKeeps ==
    ASSUME ClientsInv, NEW c \in TestClients!Clients, TestClients!onConnect(c)
    PROVE  ClientsInv'
<1>1. c \in mapClient
  BY DEF ClientsInv, InOneMap, NotYet, TestClients!Clients,
     TestClients!onConnect
<1>2. TestClients!TypeOK' /\ NotYet'
  BY DEF ClientsInv, InOneMap, NotYet, TestClients!TypeOK,
     TestClients!onConnect
<1> QED
  BY <1>1, <1>2 DEF ClientsInv, InOneMap, TestClients!TypeOK,
     TestClients!onConnect

\* One that is disconnected stays where it is.
LEMMA onCloseKeeps ==
    ASSUME ClientsInv, NEW c \in TestClients!Clients, TestClients!onClose(c)
    PROVE  ClientsInv'
BY DEF ClientsInv, InOneMap, NotYet, TestClients!TypeOK, TestClients!Clients,
   TestClients!onClose

\* One that was looked for, too.
LEMMA foundKeeps ==
    ASSUME ClientsInv, NEW c \in TestClients!Clients, TestClients!found(c)
    PROVE  ClientsInv'
BY DEF ClientsInv, InOneMap, NotYet, TestClients!TypeOK, TestClients!found

\* Every step is one of the above, or changes nothing.
LEMMA ClientsNext ==
    ASSUME TestClients!ClientsAssumption
    PROVE  ClientsInv /\ [TestClients!Next]_clientsVars => ClientsInv'
<1> SUFFICES ASSUME ClientsInv, [TestClients!Next]_clientsVars PROVE ClientsInv'
  OBVIOUS
<1>1. CASE TestClients!Next
  BY <1>1, createClientKeeps, closeClientKeeps, closeAnyKeeps, onClientCloseKeeps,
     onConnectKeeps, onCloseKeeps, foundKeeps DEF TestClients!Next
<1>2. CASE UNCHANGED clientsVars
  BY <1>2 DEF clientsVars, ClientsInv, InOneMap, NotYet, TestClients!TypeOK
<1> QED
  BY <1>1, <1>2

(***************************************************************************)
(* XDBMysql.  What is wanted is said of a pool that was not closed; that   *)
(* the count stays in its bounds needs more, also of one that was: of the  *)
(* connections that are in the list or given away, those that were not     *)
(* deleted are never more than are counted.  All this is said until a      *)
(* main connection is overwritten; after that only the kinds remain.       *)
(***************************************************************************)
Held == Mysql!InUse \cup leaked
Live == {d \in Mysql!Range(listConnect) \cup Held : conn[d] # "deleted"}

\* Connections are the driver's; one that was not made is nowhere, and the main one not
\* in the pool.
MysqlKinds ==
    /\ Mysql!TypeOK /\ curConnect \in 0..MaxConnect
    /\ listConnect \in Seq(Conns) /\ using \in [Users -> Conns \cup {NoConn}]
    /\ pConnection \notin Mysql!Range(listConnect) \cup leaked
    /\ \A c \in Conns : conn[c] = "none" =>
          c \notin Mysql!Range(listConnect) \cup Held \cup {pConnection}

\* The live ones are counted.
LiveCounted == IsFiniteSet(Live) /\ Cardinality(Live) <= curConnect

\* Before a close: each has one place, none is deleted, and the count is exact.
OnePlace ==
    ~wasClosed =>
        /\ \A t, s \in Users : t # s /\ using[t] = using[s] => using[t] \in {NoConn, pConnection}
        /\ Mysql!IsInjective(listConnect)
        /\ Mysql!Range(listConnect) \cap Held = {}
        /\ Mysql!InUse \cap leaked = {}
        /\ \A c \in Conns : conn[c] = "deleted" =>
              c \notin Mysql!Range(listConnect) \cup Held \cup {pConnection}
        /\ IsFiniteSet(Held) /\ curConnect = Len(listConnect) + Cardinality(Held)

MysqlInv == MysqlKinds /\ LiveCounted /\ OnePlace

\* What remains when a main connection was overwritten.
MysqlLoose ==
    /\ conn \in [Conns -> {"none", "open", "closed", "deleted"}]
    /\ listConnect \in Seq(Conns) /\ using \in [Users -> Conns \cup {NoConn}]
    /\ pConnection \in Conns \cup {NoConn}
    /\ curConnect \in Int /\ leaked \subseteq Conns /\ overwritten \in BOOLEAN

\* What createConnection does: it makes x, or nothing, and returns that or nothing.
LEMMA Creates ==
    ASSUME Mysql!MysqlAssumption, NEW f \in [Conns -> {"none", "open", "closed", "deleted"}],
           NEW c, Mysql!createConnection(f, c)
    PROVE  \E x \in Conns \cup {NoConn} :
              /\ conn' = [d \in Conns |-> IF d = x THEN "open" ELSE f[d]]
              /\ x # NoConn => conn[x] = "none"
              /\ c \in {x, NoConn}
<1>1. CASE c = NoConn /\ conn' = f
  <2>1. f = [d \in Conns |-> IF d = NoConn THEN "open" ELSE f[d]]
    BY DEF Mysql!MysqlAssumption
  <2> QED BY <1>1, <2>1
<1>2. CASE \E d \in Conns : driver /\ conn[d] = "none" /\ conn' = Mysql!Opened(f, d) /\ c \in {d, NoConn}
  BY <1>2 DEF Mysql!Opened
<1> QED BY <1>1, <1>2 DEF Mysql!createConnection

\* Nothing is there at first.
LEMMA MysqlInit == ASSUME Mysql!MysqlAssumption, Mysql!Init PROVE MysqlInv
<1>1. Mysql!Range(listConnect) = {} /\ Held = {} /\ leaked = {} /\ Mysql!InUse = {} /\ Live = {}
  BY DEF Mysql!Init, Mysql!Range, Held, Live, Mysql!InUse
<1>2. listConnect \in Seq(Conns) /\ Len(listConnect) = 0 /\ Mysql!IsInjective(listConnect)
  BY DEF Mysql!Init, Mysql!IsInjective
<1>3. MysqlKinds
  BY <1>1, <1>2 DEF Mysql!Init, Mysql!MysqlAssumption, MysqlKinds, Mysql!TypeOK
<1>4. LiveCounted
  BY <1>1, FS_EmptySet DEF Mysql!Init, LiveCounted
<1>5. OnePlace
  BY <1>1, <1>2, FS_EmptySet DEF Mysql!Init, OnePlace
<1> QED BY <1>3, <1>4, <1>5 DEF MysqlInv

\* What getPoolConnection gives is the head of the list or new, and no one else's.
Given(c) == IF c = NoConn THEN {} ELSE {c}
NowLive(c) == {d \in Mysql!Range(listConnect') \cup Held \cup Given(c) : conn'[d] # "deleted"}
GotConnection(c) ==
    /\ conn' \in [Conns -> {"none", "open", "closed", "deleted"}]
    /\ listConnect' \in Seq(Conns) /\ curConnect' \in 0..MaxConnect
    /\ c # NoConn => c \in Conns /\ c # pConnection /\ conn'[c] = "open"
    /\ \A d \in Conns : conn'[d] = "none" => conn[d] = "none"
    /\ Mysql!Range(listConnect') \subseteq Mysql!Range(listConnect)
    /\ IsFiniteSet(NowLive(c)) /\ Cardinality(NowLive(c)) <= curConnect'
    /\ ~wasClosed =>
          /\ Mysql!IsInjective(listConnect')
          /\ c \notin Mysql!Range(listConnect') \cup Held
          /\ \A d \in Conns : conn'[d] = "deleted" =>
                d \notin Mysql!Range(listConnect') \cup Held \cup {pConnection}
          /\ curConnect' = Len(listConnect') + Cardinality(Held) + (IF c = NoConn THEN 0 ELSE 1)

\* In each of its three cases.
LEMMA getPoolConnectionGives ==
    ASSUME Mysql!MysqlAssumption, MysqlInv, NEW c \in {NoConn} \cup Conns, Mysql!getPoolConnection(c)
    PROVE  GotConnection(c)
<1> USE DEF MysqlInv
<1>0. /\ conn \in [Conns -> {"none", "open", "closed", "deleted"}]
      /\ NoConn \notin Conns /\ curConnect \in 0..MaxConnect /\ MaxConnect \in Nat
      /\ listConnect \in Seq(Conns) /\ Mysql!Range(listConnect) \subseteq Conns
      /\ Held \subseteq Conns /\ IsFiniteSet(Live) /\ Cardinality(Live) \in Nat
      /\ Cardinality(Live) <= curConnect
      /\ pConnection \notin Mysql!Range(listConnect)
      /\ \A d \in Conns : conn[d] = "none" =>
            d \notin Mysql!Range(listConnect) \cup Held \cup {pConnection}
  BY FS_CardinalityType DEF Mysql!MysqlAssumption, MysqlKinds, LiveCounted, Mysql!TypeOK, Held, Mysql!InUse
<1>1. CASE listConnect # <<>> /\ conn[Head(listConnect)] = "open" /\ c = Head(listConnect)
           /\ listConnect' = Tail(listConnect) /\ UNCHANGED << conn, curConnect >>
  <2>1. /\ Tail(listConnect) \in Seq(Conns) /\ Len(Tail(listConnect)) = Len(listConnect) - 1 /\ c \in Conns
        /\ Mysql!Range(listConnect) = Mysql!Range(listConnect') \cup {c}
        /\ Mysql!IsInjective(listConnect) => /\ Mysql!IsInjective(Tail(listConnect))
                                             /\ c \notin Mysql!Range(listConnect')
    BY <1>0, <1>1, TailList
  <2>2. NowLive(c) = Live
    BY <1>0, <1>1, <2>1 DEF NowLive, Live, Given
  <2>3. ~wasClosed => /\ c \notin Held
                      /\ curConnect' = Len(listConnect') + Cardinality(Held) + 1
    <3>1. SUFFICES ASSUME ~wasClosed
                   PROVE  /\ c \notin Held
                          /\ curConnect' = Len(listConnect') + Cardinality(Held) + 1
      OBVIOUS
    <3>2. /\ Mysql!Range(listConnect) \cap Held = {}
          /\ IsFiniteSet(Held) /\ curConnect = Len(listConnect) + Cardinality(Held)
      BY <3>1 DEF OnePlace
    <3>3. Cardinality(Held) \in Nat /\ Len(listConnect) \in Nat /\ Len(listConnect') = Len(listConnect) - 1
      BY <1>0, <1>1, <2>1, <3>2, FS_CardinalityType
    <3> QED BY <1>1, <2>1, <3>2, <3>3
  <2>4. ~wasClosed => \A d \in Conns : conn'[d] = "deleted" =>
                d \notin Mysql!Range(listConnect') \cup Held \cup {pConnection}
    BY <1>1, <2>1 DEF OnePlace
  <2>5. ~wasClosed => Mysql!IsInjective(listConnect') /\ c \notin Mysql!Range(listConnect')
    BY <1>1, <2>1 DEF OnePlace
  <2>6. c # NoConn /\ c \in Conns /\ c # pConnection /\ conn'[c] = "open"
    BY <1>0, <1>1, <2>1
  <2>7. IsFiniteSet(NowLive(c)) /\ Cardinality(NowLive(c)) <= curConnect'
    BY <1>0, <1>1, <2>2
  <2> QED BY <1>0, <1>1, <2>1, <2>3, <2>4, <2>5, <2>6, <2>7 DEF GotConnection
<1>2. CASE /\ listConnect # <<>> /\ conn[Head(listConnect)] = "closed"
           /\ Mysql!createConnection(Mysql!Deleted(conn, {Head(listConnect)}), c)
           /\ listConnect' = Tail(listConnect)
           /\ curConnect' = curConnect - (IF c = NoConn THEN 1 ELSE 0)
  <2> DEFINE h == Head(listConnect)
  <2>1. /\ Tail(listConnect) \in Seq(Conns) /\ Len(Tail(listConnect)) = Len(listConnect) - 1 /\ h \in Conns
        /\ Mysql!Range(listConnect) = Mysql!Range(listConnect') \cup {h}
        /\ Mysql!IsInjective(listConnect) => /\ Mysql!IsInjective(Tail(listConnect))
                                             /\ h \notin Mysql!Range(listConnect')
    BY <1>0, <1>2, TailList
  <2>2. PICK x \in Conns \cup {NoConn} :
            /\ conn' = [d \in Conns |-> IF d = x THEN "open" ELSE IF d = h THEN "deleted" ELSE conn[d]]
            /\ x # NoConn => conn[x] = "none"
            /\ c \in {x, NoConn}
    <3>1. PICK f : f = Mysql!Deleted(conn, {h})
      OBVIOUS
    <3>2. f = [d \in Conns |-> IF d = h THEN "deleted" ELSE conn[d]]
      BY <3>1 DEF Mysql!Deleted
    <3>3. f \in [Conns -> {"none", "open", "closed", "deleted"}]
      BY <1>0, <3>2
    <3>4. PICK x \in Conns \cup {NoConn} :
              /\ conn' = [d \in Conns |-> IF d = x THEN "open" ELSE f[d]]
              /\ x # NoConn => conn[x] = "none"
              /\ c \in {x, NoConn}
      BY <1>2, <3>1, <3>3, Creates
    <3>5. conn' = [d \in Conns |-> IF d = x THEN "open" ELSE IF d = h THEN "deleted" ELSE conn[d]]
      BY <3>2, <3>4
    <3> QED BY <3>4, <3>5
  <2>3. /\ x # NoConn => /\ x \in Conns /\ x # pConnection /\ x # h /\ conn'[x] = "open"
                         /\ x \notin Held /\ x \notin Mysql!Range(listConnect)
        /\ c # NoConn => c = x
    BY <1>0, <1>2, <2>1, <2>2
  <2>4. h \in Live /\ NowLive(c) = (Live \ {h}) \cup Given(c) /\ c \notin Live
    <3>1. h \in Live /\ c \notin Live /\ (x # NoConn => x \notin Live)
      BY <1>0, <1>2, <2>1, <2>2, <2>3 DEF Live
    <3>2. \A d \in Conns : d # x /\ d # h => conn'[d] = conn[d]
      BY <2>2
    <3>3. conn'[h] = "deleted"
      BY <1>0, <2>1, <2>2, <2>3
    <3>4. Live \subseteq Conns /\ h \in Conns /\ \A d \in Live \cup Held \cup Mysql!Range(listConnect) : d # x
      BY <1>0, <2>1, <2>2, <2>3, <3>1 DEF Live
    <3>5. NowLive(c) \subseteq (Live \ {h}) \cup Given(c)
      BY <1>0, <2>1, <2>3, <3>2, <3>3, <3>4 DEF NowLive, Live, Given
    <3>6. (Live \ {h}) \cup Given(c) \subseteq NowLive(c)
      BY <1>0, <2>1, <2>3, <3>1, <3>2, <3>4 DEF NowLive, Live, Given
    <3> QED BY <3>1, <3>5, <3>6
  <2>5. IsFiniteSet(Live \ {h}) /\ Cardinality(Live \ {h}) = Cardinality(Live) - 1
    BY <1>0, <2>4, FS_RemoveElement
  <2>6. IsFiniteSet(NowLive(c)) /\ Cardinality(NowLive(c)) <= curConnect' /\ curConnect' \in 0..MaxConnect
    <3>1. CASE c = NoConn
      <4>1. NowLive(c) = Live \ {h} /\ curConnect' = curConnect - 1
        BY <1>2, <2>4, <3>1 DEF Given
      <4> QED BY <1>0, <2>5, <4>1, FS_CardinalityType
    <3>2. CASE c # NoConn
      <4>1. NowLive(c) = (Live \ {h}) \cup {c} /\ curConnect' = curConnect
        BY <1>0, <1>2, <2>4, <3>2 DEF Given
      <4>2. IsFiniteSet(NowLive(c)) /\ Cardinality(NowLive(c)) = Cardinality(Live)
        <5>1. c \notin Live \ {h}
          BY <2>4
        <5>2. IsFiniteSet((Live \ {h}) \cup {c}) /\ Cardinality((Live \ {h}) \cup {c}) = Cardinality(Live \ {h}) + 1
          BY <2>5, <5>1, FS_AddElement
        <5> QED BY <1>0, <2>5, <4>1, <5>2
      <4> QED BY <1>0, <4>1, <4>2
    <3> QED BY <3>1, <3>2
  <2>7. ASSUME ~wasClosed
        PROVE  /\ Mysql!IsInjective(listConnect')
               /\ c \notin Mysql!Range(listConnect') \cup Held
               /\ \A d \in Conns : conn'[d] = "deleted" =>
                     d \notin Mysql!Range(listConnect') \cup Held \cup {pConnection}
               /\ curConnect' = Len(listConnect') + Cardinality(Held) + (IF c = NoConn THEN 0 ELSE 1)
    <3>1. /\ Mysql!Range(listConnect) \cap Held = {} /\ Mysql!IsInjective(listConnect)
          /\ \A d \in Conns : conn[d] = "deleted" =>
                d \notin Mysql!Range(listConnect) \cup Held \cup {pConnection}
          /\ IsFiniteSet(Held) /\ curConnect = Len(listConnect) + Cardinality(Held)
      BY <2>7 DEF OnePlace
    <3>2. Cardinality(Held) \in Nat /\ Len(listConnect) \in Nat /\ Len(listConnect') = Len(listConnect) - 1
      BY <1>0, <1>2, <2>1, <3>1, FS_CardinalityType
    <3>3. curConnect' = Len(listConnect') + Cardinality(Held) + (IF c = NoConn THEN 0 ELSE 1)
      <4>1. CASE c = NoConn
        BY <1>0, <1>2, <3>1, <3>2, <4>1
      <4>2. CASE c # NoConn
        BY <1>0, <1>2, <3>1, <3>2, <4>2
      <4> QED BY <4>1, <4>2
    <3>4. Mysql!IsInjective(listConnect') /\ h \notin Mysql!Range(listConnect')
      BY <1>2, <2>1, <3>1
    <3>5. c \notin Mysql!Range(listConnect') \cup Held
      BY <1>0, <2>1, <2>3
    <3>6. \A d \in Conns : conn'[d] = "deleted" =>
                     d \notin Mysql!Range(listConnect') \cup Held \cup {pConnection}
      BY <1>0, <2>1, <2>2, <3>1, <3>4
    <3> QED BY <3>3, <3>4, <3>5, <3>6
  <2>8. \A d \in Conns : conn'[d] = "none" => conn[d] = "none"
    BY <2>2
  <2>9. conn' \in [Conns -> {"none", "open", "closed", "deleted"}]
    BY <1>0, <2>2
  <2> QED BY <1>0, <1>2, <2>1, <2>3, <2>6, <2>7, <2>8, <2>9 DEF GotConnection
<1>3. CASE /\ listConnect = <<>> /\ curConnect < MaxConnect
           /\ Mysql!createConnection(conn, c)
           /\ curConnect' = curConnect + (IF c = NoConn THEN 0 ELSE 1)
           /\ UNCHANGED listConnect
  <2>1. Mysql!Range(listConnect) = {}
    BY <1>3 DEF Mysql!Range
  <2>2. PICK x \in Conns \cup {NoConn} :
            /\ conn' = [d \in Conns |-> IF d = x THEN "open" ELSE conn[d]]
            /\ x # NoConn => conn[x] = "none"
            /\ c \in {x, NoConn}
    BY <1>0, <1>3, Creates
  <2>3. /\ x # NoConn => x \in Conns /\ x # pConnection /\ conn'[x] = "open" /\ x \notin Held
        /\ c # NoConn => c = x
    BY <1>0, <2>2
  <2>4. NowLive(c) = Live \cup Given(c) /\ c \notin Live
    <3>1. \A d \in Held : conn'[d] = conn[d]
      BY <1>0, <2>2, <2>3
    <3>2. Live = {d \in Held : conn[d] # "deleted"} /\ NowLive(c) = {d \in Held \cup Given(c) : conn'[d] # "deleted"}
      BY <1>3, <2>1 DEF Live, NowLive
    <3>3. \A d \in Given(c) : d = x /\ d \notin Held /\ conn'[d] = "open"
      BY <2>3 DEF Given
    <3>4. c \notin Held
      BY <1>0, <2>3
    <3> QED BY <3>1, <3>2, <3>3, <3>4
  <2>5. IsFiniteSet(NowLive(c)) /\ Cardinality(NowLive(c)) <= curConnect' /\ curConnect' \in 0..MaxConnect
    <3>1. CASE c = NoConn
      <4>1. NowLive(c) = Live /\ curConnect' = curConnect
        BY <1>0, <1>3, <2>4, <3>1 DEF Given
      <4> QED BY <1>0, <4>1
    <3>2. CASE c # NoConn
      <4>1. NowLive(c) = Live \cup {c} /\ curConnect' = curConnect + 1
        BY <1>3, <2>4, <3>2 DEF Given
      <4>2. IsFiniteSet(NowLive(c)) /\ Cardinality(NowLive(c)) = Cardinality(Live) + 1
        <5>1. IsFiniteSet(Live) /\ c \notin Live
          BY <1>0, <2>4
        <5>2. IsFiniteSet(Live \cup {c}) /\ Cardinality(Live \cup {c}) = Cardinality(Live) + 1
          BY <5>1, FS_AddElement
        <5> QED BY <4>1, <5>2
      <4>3. curConnect < MaxConnect
        BY <1>3
      <4>4. PICK n \in Nat : n = Cardinality(Live) /\ n <= curConnect
        BY <1>0
      <4>5. curConnect + 1 \in 0..MaxConnect /\ n + 1 <= curConnect + 1
        <5>1. curConnect \in 0..MaxConnect /\ MaxConnect \in Nat
          BY <1>0
        <5> QED BY <4>3, <4>4, <5>1
      <4> QED BY <4>1, <4>2, <4>4, <4>5
    <3> QED BY <3>1, <3>2
  <2>6. ~wasClosed => curConnect' = Len(listConnect') + Cardinality(Held) + (IF c = NoConn THEN 0 ELSE 1)
    <3>1. SUFFICES ASSUME ~wasClosed
                   PROVE  curConnect' = Len(listConnect') + Cardinality(Held) + (IF c = NoConn THEN 0 ELSE 1)
      OBVIOUS
    <3>2. IsFiniteSet(Held) /\ curConnect = Len(listConnect) + Cardinality(Held)
      BY <3>1 DEF OnePlace
    <3>3. Cardinality(Held) \in Nat /\ Len(listConnect) \in Nat /\ Len(listConnect') = Len(listConnect)
      BY <1>0, <1>3, <3>2, FS_CardinalityType
    <3>4. CASE c = NoConn
      BY <1>0, <1>3, <3>2, <3>3, <3>4
    <3>5. CASE c # NoConn
      BY <1>0, <1>3, <3>2, <3>3, <3>5
    <3> QED BY <3>4, <3>5
  <2>7. ~wasClosed => /\ Mysql!IsInjective(listConnect')
                      /\ c \notin Mysql!Range(listConnect') \cup Held
                      /\ \A d \in Conns : conn'[d] = "deleted" =>
                            d \notin Mysql!Range(listConnect') \cup Held \cup {pConnection}
    BY <1>0, <1>3, <2>1, <2>2, <2>3 DEF OnePlace
  <2>8. /\ \A d \in Conns : conn'[d] = "none" => conn[d] = "none"
        /\ conn' \in [Conns -> {"none", "open", "closed", "deleted"}]
    BY <1>0, <2>2
  <2> QED BY <1>0, <1>3, <2>1, <2>3, <2>5, <2>6, <2>7, <2>8 DEF GotConnection
<1> QED BY <1>1, <1>2, <1>3 DEF Mysql!getPoolConnection

\* execute and createPreparestatement: what is got is used, or leaked.
LEMMA gotKeeps ==
    ASSUME Mysql!MysqlAssumption, MysqlInv, NEW c \in {NoConn} \cup Conns, Mysql!getPoolConnection(c),
           UNCHANGED << pConnection, wasClosed >>,
           \/ \E t \in Users : /\ using[t] = NoConn /\ using' = [using EXCEPT ![t] = c]
                              /\ UNCHANGED leaked
           \/ leaked' = leaked \cup ({c} \ {NoConn}) /\ UNCHANGED using
    PROVE  MysqlInv'
<1>0. GotConnection(c)
  BY getPoolConnectionGives
<1>1. /\ NoConn \notin Conns /\ leaked \subseteq Conns /\ using \in [Users -> Conns \cup {NoConn}]
      /\ pConnection \in Conns \cup {NoConn} /\ pConnection \notin leaked
      /\ pConnection \notin Mysql!Range(listConnect) /\ Mysql!Range(listConnect) \subseteq Conns
      /\ \A d \in Conns : conn[d] = "none" =>
            d \notin Mysql!Range(listConnect) \cup Held \cup {pConnection}
  BY DEF MysqlInv, MysqlKinds, Mysql!TypeOK, Mysql!MysqlAssumption
<1>2. /\ Held' = Held \cup Given(c)
      /\ using' \in [Users -> Conns \cup {NoConn}] /\ leaked' \subseteq Conns
      /\ pConnection \notin leaked'
  <2>1. CASE leaked' = leaked \cup ({c} \ {NoConn}) /\ UNCHANGED using
    BY <1>0, <1>1, <2>1 DEF GotConnection, Held, Given, Mysql!InUse
  <2>2. ASSUME NEW t \in Users, using[t] = NoConn, using' = [using EXCEPT ![t] = c], UNCHANGED leaked
        PROVE  /\ Held' = Held \cup Given(c)
               /\ using' \in [Users -> Conns \cup {NoConn}] /\ leaked' \subseteq Conns
               /\ pConnection \notin leaked'
    <3>1. using' \in [Users -> Conns \cup {NoConn}] /\ using'[t] = c
          /\ \A s \in Users : s # t => using'[s] = using[s]
      BY <1>0, <1>1, <2>2 DEF GotConnection
    <3>2. c # pConnection \/ c = NoConn
      BY <1>0 DEF GotConnection
    <3>3. Mysql!InUse' = Mysql!InUse \cup Given(c)
      BY <2>2, <3>1, <3>2 DEF Mysql!InUse, Given
    <3> QED BY <1>1, <2>2, <3>1, <3>3 DEF Held
  <2> QED BY <2>1, <2>2
<1>3. MysqlKinds'
  <2>1. Mysql!TypeOK'
    BY <1>0, <1>1, <1>2 DEF GotConnection, Mysql!TypeOK
  <2>2. ASSUME NEW d \in Conns, conn'[d] = "none"
        PROVE  d \notin Mysql!Range(listConnect') \cup Held' \cup {pConnection}
    BY <1>0, <1>1, <1>2, <2>2 DEF GotConnection, Given
  <2> QED BY <1>0, <1>1, <1>2, <2>1, <2>2 DEF GotConnection, MysqlKinds
<1>4. LiveCounted'
  <2>1. Live' = NowLive(c)
    BY <1>2 DEF Live, NowLive
  <2> QED BY <1>0, <2>1 DEF GotConnection, LiveCounted
<1>5. OnePlace'
  <2> SUFFICES ASSUME ~wasClosed PROVE OnePlace'
    BY DEF OnePlace
  <2>1. /\ \A t, s \in Users : t # s /\ using[t] = using[s] => using[t] \in {NoConn, pConnection}
        /\ Mysql!Range(listConnect) \cap Held = {}
        /\ Mysql!InUse \cap leaked = {} /\ IsFiniteSet(Held)
    BY DEF MysqlInv, OnePlace
  <2>2. /\ Mysql!IsInjective(listConnect') /\ c \notin Mysql!Range(listConnect') \cup Held
        /\ \A d \in Conns : conn'[d] = "deleted" =>
              d \notin Mysql!Range(listConnect') \cup Held \cup {pConnection}
        /\ curConnect' = Len(listConnect') + Cardinality(Held) + (IF c = NoConn THEN 0 ELSE 1)
        /\ Mysql!Range(listConnect') \subseteq Mysql!Range(listConnect)
        /\ c # NoConn => c \in Conns /\ c # pConnection /\ conn'[c] = "open"
        /\ Len(listConnect') \in Nat
    BY <1>0 DEF GotConnection
  <2>3. /\ \A t, s \in Users : t # s /\ using'[t] = using'[s] => using'[t] \in {NoConn, pConnection}
        /\ Mysql!InUse' \cap leaked' = {}
    <3>1. CASE leaked' = leaked \cup ({c} \ {NoConn}) /\ UNCHANGED using
      BY <2>1, <2>2, <3>1 DEF Held, Mysql!InUse
    <3>2. ASSUME NEW t \in Users, using[t] = NoConn, using' = [using EXCEPT ![t] = c], UNCHANGED leaked
          PROVE  /\ \A r, s \in Users : r # s /\ using'[r] = using'[s] => using'[r] \in {NoConn, pConnection}
                 /\ Mysql!InUse' \cap leaked' = {}
      <4>1. using'[t] = c /\ \A s \in Users : s # t => using'[s] = using[s]
        BY <1>1, <3>2
      <4>2. \A s \in Users : using[s] \in Held \cup {NoConn, pConnection}
        BY DEF Held, Mysql!InUse
      <4>3. \A r, s \in Users : r # s /\ using'[r] = using'[s] => using'[r] \in {NoConn, pConnection}
        BY <2>1, <2>2, <4>1, <4>2
      <4>4. Mysql!InUse' \subseteq Mysql!InUse \cup {c} /\ leaked \subseteq Held
        BY <4>1 DEF Held, Mysql!InUse
      <4> QED BY <2>1, <2>2, <3>2, <4>3, <4>4
    <3> QED BY <3>1, <3>2
  <2>4. Mysql!Range(listConnect') \cap Held' = {}
    BY <1>2, <2>1, <2>2 DEF Given
  <2>5. \A d \in Conns : conn'[d] = "deleted" =>
              d \notin Mysql!Range(listConnect') \cup Held' \cup {pConnection}
    BY <1>2, <2>2 DEF Given
  <2>6. IsFiniteSet(Held') /\ Cardinality(Held') = Cardinality(Held) + (IF c = NoConn THEN 0 ELSE 1)
    <3>1. CASE c = NoConn
      <4>1. Held' = Held
        BY <1>2, <3>1 DEF Given
      <4> QED BY <2>1, <3>1, <4>1, FS_CardinalityType
    <3>2. CASE c # NoConn
      <4>1. Held' = Held \cup {c} /\ c \notin Held
        BY <1>2, <2>2, <3>2 DEF Given
      <4> QED BY <2>1, <3>2, <4>1, FS_AddElement
    <3> QED BY <3>1, <3>2
  <2>7. curConnect' = Len(listConnect') + Cardinality(Held')
    BY <2>1, <2>2, <2>6, FS_CardinalityType
  <2> QED BY <2>2, <2>3, <2>4, <2>5, <2>6, <2>7 DEF OnePlace
<1> QED BY <1>3, <1>4, <1>5 DEF MysqlInv

\* A connection that is used, before and after.
LEMMA UsedIsHeld ==
    \A t \in Users : using[t] \in Held \cup {NoConn, pConnection}
BY DEF Held, Mysql!InUse

\* Closing deletes what is in the list, and the main one.  What is in use stays, live
\* and counted, but for the main one.
LEMMA CloseAllKeeps ==
    ASSUME Mysql!MysqlAssumption, MysqlInv, Mysql!CloseAll
    PROVE  MysqlInv'
<1>0. /\ conn \in [Conns -> {"none", "open", "closed", "deleted"}]
      /\ NoConn \notin Conns /\ curConnect \in 0..MaxConnect /\ MaxConnect \in Nat
      /\ leaked \subseteq Conns /\ using \in [Users -> Conns \cup {NoConn}]
      /\ pConnection \in Conns \cup {NoConn} /\ pConnection \notin leaked
      /\ pConnection \notin Mysql!Range(listConnect) /\ Mysql!Range(listConnect) \subseteq Conns
      /\ \A d \in Conns : conn[d] = "none" =>
            d \notin Mysql!Range(listConnect) \cup Held \cup {pConnection}
      /\ listConnect \in Seq(Conns) /\ IsFiniteSet(Live) /\ Cardinality(Live) <= curConnect
  BY DEF MysqlInv, MysqlKinds, LiveCounted, Mysql!TypeOK, Mysql!MysqlAssumption
<1>1. PICK D \in SUBSET (Mysql!Range(listConnect) \cup {pConnection}) :
            /\ conn' = Mysql!Deleted(conn, D)
            /\ pConnection' = pConnection \/ (pConnection' = NoConn /\ pConnection \in D)
            /\ listConnect' \in {<<>>, listConnect}
  <2>1. CASE /\ conn' = Mysql!Deleted(conn, Mysql!Range(listConnect) \cup {pConnection})
             /\ listConnect' = <<>> /\ pConnection' = NoConn
    BY <2>1
  <2>2. ASSUME NEW i \in DOMAIN listConnect,
               conn' = Mysql!Deleted(conn, {listConnect[j] : j \in 1..(i - 1)}),
               UNCHANGED << listConnect, pConnection >>
        PROVE  \E D \in SUBSET (Mysql!Range(listConnect) \cup {pConnection}) :
                  /\ conn' = Mysql!Deleted(conn, D)
                  /\ pConnection' = pConnection \/ (pConnection' = NoConn /\ pConnection \in D)
                  /\ listConnect' \in {<<>>, listConnect}
    <3>1. PICK D : D = {listConnect[j] : j \in 1..(i - 1)}
      OBVIOUS
    <3>2. \A j \in 1..(i - 1) : j \in DOMAIN listConnect
      BY <1>0, LenProperties
    <3>3. D \subseteq Mysql!Range(listConnect)
      BY <3>1, <3>2 DEF Mysql!Range
    <3> QED BY <2>2, <3>1, <3>3
  <2>3. CASE /\ pConnection # NoConn
             /\ conn' = Mysql!Deleted(conn, Mysql!Range(listConnect))
             /\ listConnect' = <<>> /\ UNCHANGED pConnection
    BY <2>3
  <2> QED BY <2>1, <2>2, <2>3 DEF Mysql!CloseAll
<1>2. /\ UNCHANGED << curConnect, using, leaked >>
      /\ wasClosed' = (wasClosed \/ listConnect # <<>> \/ pConnection # NoConn \/ curConnect > 0)
  BY DEF Mysql!CloseAll
<1>3. /\ \A d \in Conns : conn'[d] = IF d \in D THEN "deleted" ELSE conn[d]
      /\ conn' \in [Conns -> {"none", "open", "closed", "deleted"}]
  BY <1>0, <1>1 DEF Mysql!Deleted
<1>4. /\ listConnect' \in Seq(Conns) /\ Mysql!Range(listConnect') \subseteq Mysql!Range(listConnect)
  <2>1. Mysql!Range(<<>>) = {} /\ <<>> \in Seq(Conns)
    BY DEF Mysql!Range
  <2> QED BY <1>0, <1>1, <2>1
<1>5. /\ Held' \subseteq Held \cup {pConnection} /\ Held' \subseteq Conns
      /\ pConnection' = pConnection => Held' = Held
  BY <1>0, <1>1, <1>2 DEF Held, Mysql!InUse
<1>6. MysqlKinds'
  <2>1. Mysql!TypeOK' /\ pConnection' \in Conns \cup {NoConn}
    BY <1>0, <1>1, <1>2, <1>3, <1>4 DEF Mysql!TypeOK
  <2>2. ASSUME NEW d \in Conns, conn'[d] = "none"
        PROVE  d \notin Mysql!Range(listConnect') \cup Held' \cup {pConnection'}
    <3>1. conn[d] = "none"
      BY <1>3, <2>2
    <3> QED BY <1>0, <1>1, <1>4, <1>5, <3>1
  <2> QED BY <1>0, <1>1, <1>2, <1>4, <2>1, <2>2 DEF MysqlKinds
<1>7. LiveCounted'
  <2>1. Live' \subseteq Live
    <3>1. ASSUME NEW d \in Live' PROVE d \in Live
      <4>1. d \in Conns /\ d \in Mysql!Range(listConnect') \cup Held' /\ conn'[d] # "deleted"
        BY <1>0, <1>4, <1>5 DEF Live
      <4>2. d \notin D /\ conn[d] # "deleted"
        BY <1>3, <4>1
      <4>3. d \in Mysql!Range(listConnect) \cup Held
        BY <1>1, <1>4, <1>5, <4>1, <4>2
      <4> QED BY <4>2, <4>3 DEF Live
    <3> QED BY <3>1
  <2>2. IsFiniteSet(Live') /\ Cardinality(Live') <= Cardinality(Live)
    BY <1>0, <2>1, FS_Subset
  <2> QED BY <1>0, <1>2, <2>2, FS_CardinalityType DEF LiveCounted
<1>8. OnePlace'
  <2> SUFFICES ASSUME ~wasClosed' PROVE OnePlace'
    BY DEF OnePlace
  <2>1. ~wasClosed /\ listConnect = <<>> /\ pConnection = NoConn
    BY <1>2
  <2>2. OnePlace
    BY DEF MysqlInv
  <2>3. conn' = conn
    <3>1. \A d \in Conns : d \notin D
      BY <1>0, <1>1, <2>1 DEF Mysql!Range
    <3> QED BY <1>0, <1>1, <3>1 DEF Mysql!Deleted
  <2>4. pConnection' = pConnection /\ listConnect' = listConnect
    BY <1>1, <2>1
  <2>5. Held' = Held /\ Mysql!InUse' = Mysql!InUse
    BY <1>2, <2>4 DEF Held, Mysql!InUse
  <2> QED BY <1>2, <2>1, <2>2, <2>3, <2>4, <2>5 DEF OnePlace
<1> QED BY <1>6, <1>7, <1>8 DEF MysqlInv

\* Where only the driver, or how far getConnection is, changes.
LEMMA MysqlStutter ==
    ASSUME MysqlInv,
           UNCHANGED << conn, pConnection, listConnect, curConnect, using, leaked, wasClosed >>
    PROVE  MysqlInv'
<1>1. Mysql!InUse' = Mysql!InUse /\ Held' = Held /\ Live' = Live
  BY DEF Held, Live, Mysql!InUse
<1>2. MysqlKinds'
  BY <1>1 DEF MysqlInv, MysqlKinds, Mysql!TypeOK
<1>3. LiveCounted'
  BY <1>1 DEF MysqlInv, LiveCounted
<1>4. OnePlace'
  BY <1>1 DEF MysqlInv, OnePlace
<1> QED BY <1>2, <1>3, <1>4 DEF MysqlInv

\* connect closes only what there was.
LEMMA closeKeeps ==
    ASSUME Mysql!MysqlAssumption, MysqlInv, Mysql!close \/ \E t \in Users : Mysql!connect(t)
    PROVE  MysqlInv'
<1>1. CASE Mysql!close
  BY <1>1, CloseAllKeeps DEF Mysql!close
<1>2. ASSUME NEW t \in Users, Mysql!connect(t) PROVE MysqlInv'
  BY <1>2, CloseAllKeeps, MysqlStutter DEF Mysql!connect
<1> QED BY <1>1, <1>2

\* The main connection is a new one, if there was none.
LEMMA makeMainKeeps ==
    ASSUME Mysql!MysqlAssumption, MysqlInv, NEW t \in Users, Mysql!makeMain(t), ~overwritten'
    PROVE  MysqlInv'
<1>1. pConnection = NoConn
  BY DEF Mysql!makeMain
<1>2. /\ conn \in [Conns -> {"none", "open", "closed", "deleted"}]
      /\ NoConn \notin Conns /\ leaked \subseteq Conns /\ using \in [Users -> Conns \cup {NoConn}]
      /\ \A d \in Conns : conn[d] = "none" => d \notin Mysql!Range(listConnect) \cup Held
      /\ Mysql!Range(listConnect) \subseteq Conns
      /\ UNCHANGED << listConnect, curConnect, using, leaked, wasClosed >>
  BY DEF MysqlInv, MysqlKinds, Mysql!TypeOK, Mysql!MysqlAssumption, Mysql!makeMain
<1>3. PICK c \in {NoConn} \cup Conns : Mysql!createConnection(conn, c) /\ pConnection' = c
  BY DEF Mysql!makeMain
<1>4. PICK x \in Conns \cup {NoConn} :
          /\ conn' = [d \in Conns |-> IF d = x THEN "open" ELSE conn[d]]
          /\ x # NoConn => conn[x] = "none"
          /\ c \in {x, NoConn}
  BY <1>2, <1>3, Creates
<1>5. x \notin Held /\ x \notin Mysql!Range(listConnect)
  BY <1>2, <1>4 DEF Held, Mysql!InUse
<1>6. \A s \in Users : using[s] # c \/ c = NoConn
  BY <1>1, <1>4, <1>5 DEF Held, Mysql!InUse
<1>7. Mysql!InUse' = Mysql!InUse /\ Held' = Held
  BY <1>1, <1>2, <1>3, <1>6 DEF Held, Mysql!InUse
<1>8. Live' = Live /\ Held \subseteq Conns
  BY <1>2, <1>4, <1>5, <1>7 DEF Live, Held, Mysql!InUse
<1>9. conn' \in [Conns -> {"none", "open", "closed", "deleted"}]
  BY <1>2, <1>4
<1>10. MysqlKinds'
  <2>1. Mysql!TypeOK'
    BY <1>2, <1>3, <1>9 DEF MysqlInv, MysqlKinds, Mysql!TypeOK
  <2>2. ASSUME NEW d \in Conns, conn'[d] = "none"
        PROVE  d \notin Mysql!Range(listConnect') \cup Held' \cup {pConnection'}
    <3>1. d # x /\ conn[d] = "none"
      BY <1>4, <2>2
    <3>2. d # c
      BY <1>2, <1>4, <3>1
    <3> QED BY <1>2, <1>3, <1>7, <3>1, <3>2
  <2>3. pConnection' \notin Mysql!Range(listConnect') \cup leaked'
    BY <1>2, <1>3, <1>4, <1>5 DEF Held
  <2> QED BY <1>2, <2>1, <2>2, <2>3 DEF MysqlInv, MysqlKinds
<1>11. LiveCounted'
  BY <1>2, <1>8 DEF MysqlInv, LiveCounted
<1>12. OnePlace'
  <2> SUFFICES ASSUME ~wasClosed PROVE OnePlace'
    BY <1>2 DEF OnePlace
  <2>1. \A d \in Conns : conn'[d] = "deleted" => d # x /\ conn[d] = "deleted"
    BY <1>4
  <2>2. \A d \in Conns : conn'[d] = "deleted" => d # c
    BY <1>2, <1>4, <2>1
  <2>3. \A d \in Conns : conn'[d] = "deleted" =>
              d \notin Mysql!Range(listConnect') \cup Held' \cup {pConnection'}
    BY <1>2, <1>3, <1>7, <2>1, <2>2 DEF MysqlInv, OnePlace
  <2>4. \A r, s \in Users : r # s /\ using'[r] = using'[s] => using'[r] \in {NoConn, pConnection'}
    BY <1>1, <1>2 DEF MysqlInv, OnePlace
  <2> QED BY <1>2, <1>7, <2>3, <2>4 DEF MysqlInv, OnePlace, Mysql!IsInjective
<1> QED BY <1>10, <1>11, <1>12 DEF MysqlInv

\* The main connection, given to one more, is still not one of the pool's.
LEMMA executeOnMainKeeps ==
    ASSUME MysqlInv, NEW t \in Users, Mysql!executeOnMain(t)
    PROVE  MysqlInv'
<1>1. /\ using \in [Users -> Conns \cup {NoConn}] /\ pConnection \in Conns \cup {NoConn}
      /\ using' = [using EXCEPT ![t] = pConnection] /\ using[t] = NoConn
      /\ UNCHANGED << conn, pConnection, listConnect, curConnect, leaked, wasClosed >>
  BY DEF MysqlInv, MysqlKinds, Mysql!TypeOK, Mysql!executeOnMain, Mysql!Idle
<1>2. Mysql!InUse' = Mysql!InUse /\ Held' = Held
  BY <1>1 DEF Held, Mysql!InUse
<1>3. Live' = Live /\ Mysql!Range(listConnect') = Mysql!Range(listConnect)
  BY <1>1, <1>2 DEF Live
<1>4. MysqlKinds'
  BY <1>1, <1>2, <1>3 DEF MysqlInv, MysqlKinds, Mysql!TypeOK
<1>5. LiveCounted'
  BY <1>1, <1>3 DEF MysqlInv, LiveCounted
<1>6. ~wasClosed =>
        \A r, s \in Users : r # s /\ using'[r] = using'[s] => using'[r] \in {NoConn, pConnection}
  BY <1>1 DEF MysqlInv, OnePlace
<1>7. OnePlace'
  BY <1>1, <1>2, <1>3, <1>6 DEF MysqlInv, OnePlace, Mysql!IsInjective
<1> QED BY <1>4, <1>5, <1>7 DEF MysqlInv

\* What was used goes to the list, if it is not the main one.
LEMMA releaseConnectionKeeps ==
    ASSUME Mysql!MysqlAssumption, MysqlInv, NEW t \in Users, Mysql!releaseConnection(t)
    PROVE  MysqlInv'
<1> DEFINE e == using[t]
<1>0. /\ using \in [Users -> Conns \cup {NoConn}] /\ pConnection \in Conns \cup {NoConn}
      /\ NoConn \notin Conns /\ e # NoConn /\ e \in Conns
      /\ using' = [using EXCEPT ![t] = NoConn] /\ listConnect \in Seq(Conns) /\ leaked \subseteq Conns
      /\ UNCHANGED << conn, pConnection, curConnect, leaked, wasClosed >>
      /\ conn \in [Conns -> {"none", "open", "closed", "deleted"}]
      /\ Mysql!Range(listConnect) \subseteq Conns
      /\ pConnection \notin Mysql!Range(listConnect) \cup leaked
      /\ \A c \in Conns : conn[c] = "none" =>
            c \notin Mysql!Range(listConnect) \cup Held \cup {pConnection}
      /\ curConnect \in 0..MaxConnect /\ IsFiniteSet(Live) /\ Cardinality(Live) <= curConnect
      /\ MaxConnect \in Nat
  BY DEF MysqlInv, MysqlKinds, LiveCounted, Mysql!TypeOK, Mysql!MysqlAssumption, Mysql!releaseConnection
<1>1. Held' \subseteq Held /\ Held \subseteq Held' \cup {e} /\ Mysql!InUse' \subseteq Mysql!InUse
  BY <1>0 DEF Held, Mysql!InUse
<1>2. CASE e = pConnection
  <2>1. UNCHANGED listConnect
    BY <1>2 DEF Mysql!releaseConnection
  <2>2. Mysql!InUse' = Mysql!InUse /\ Held' = Held
    BY <1>0, <1>2 DEF Held, Mysql!InUse
  <2>3. Live' = Live /\ Mysql!Range(listConnect') = Mysql!Range(listConnect)
    BY <1>0, <2>1, <2>2 DEF Live
  <2>4. MysqlKinds'
    BY <1>0, <2>1, <2>2, <2>3 DEF MysqlInv, MysqlKinds, Mysql!TypeOK
  <2>5. LiveCounted'
    BY <1>0, <2>3 DEF MysqlInv, LiveCounted
  <2>6. ~wasClosed =>
          \A r, s \in Users : r # s /\ using'[r] = using'[s] => using'[r] \in {NoConn, pConnection}
    BY <1>0 DEF MysqlInv, OnePlace
  <2>7. OnePlace'
    BY <1>0, <2>1, <2>2, <2>3, <2>6 DEF MysqlInv, OnePlace, Mysql!IsInjective
  <2> QED BY <2>4, <2>5, <2>7 DEF MysqlInv
<1>3. CASE e # pConnection
  <2>1. /\ listConnect' = Append(listConnect, e) /\ e \in Mysql!InUse /\ e \in Held
    BY <1>0, <1>3 DEF Mysql!releaseConnection, Mysql!InUse, Held
  <2>2. /\ listConnect' \in Seq(Conns) /\ Len(listConnect') = Len(listConnect) + 1
        /\ Mysql!Range(listConnect') = Mysql!Range(listConnect) \cup {e}
        /\ Mysql!IsInjective(listConnect) /\ e \notin Mysql!Range(listConnect) => Mysql!IsInjective(listConnect')
        /\ Len(listConnect) \in Nat
    BY <1>0, <2>1, AppendList
  <2>3. MysqlKinds'
    <3>1. Mysql!TypeOK'
      BY <1>0, <2>2 DEF Mysql!TypeOK
    <3>2. ASSUME NEW d \in Conns, conn'[d] = "none"
          PROVE  d \notin Mysql!Range(listConnect') \cup Held' \cup {pConnection'}
      BY <1>0, <1>1, <2>1, <2>2, <3>2
    <3> QED BY <1>0, <1>3, <2>2, <3>1, <3>2 DEF MysqlKinds
  <2>4. LiveCounted'
    <3>1. Live' \subseteq Live
      BY <1>0, <1>1, <2>1, <2>2 DEF Live
    <3>2. IsFiniteSet(Live') /\ Cardinality(Live') <= Cardinality(Live)
      BY <1>0, <3>1, FS_Subset
    <3> QED BY <1>0, <3>2, FS_CardinalityType DEF LiveCounted
  <2>5. OnePlace'
    <3> SUFFICES ASSUME ~wasClosed PROVE OnePlace'
      BY <1>0 DEF OnePlace
    <3>1. /\ \A r, s \in Users : r # s /\ using[r] = using[s] => using[r] \in {NoConn, pConnection}
          /\ Mysql!IsInjective(listConnect)
          /\ Mysql!Range(listConnect) \cap Held = {}
          /\ Mysql!InUse \cap leaked = {}
          /\ \A c \in Conns : conn[c] = "deleted" =>
                c \notin Mysql!Range(listConnect) \cup Held \cup {pConnection}
          /\ IsFiniteSet(Held) /\ curConnect = Len(listConnect) + Cardinality(Held)
      BY DEF MysqlInv, OnePlace
    <3>2. e \notin Held'
      <4>1. \A s \in Users : s # t => using[s] # e
        BY <1>0, <1>3, <3>1
      <4> QED BY <1>0, <2>1, <3>1, <4>1 DEF Held, Mysql!InUse
    <3>3. Held' = Held \ {e}
      BY <1>1, <3>2
    <3>4. IsFiniteSet(Held') /\ Cardinality(Held') = Cardinality(Held) - 1 /\ Cardinality(Held) \in Nat
      BY <2>1, <3>1, <3>3, FS_RemoveElement, FS_CardinalityType
    <3>5. curConnect' = Len(listConnect') + Cardinality(Held')
      BY <1>0, <2>2, <3>1, <3>4
    <3>6. Mysql!IsInjective(listConnect') /\ Mysql!Range(listConnect') \cap Held' = {}
      BY <1>1, <2>1, <2>2, <3>1, <3>2
    <3>7. /\ \A r, s \in Users : r # s /\ using'[r] = using'[s] => using'[r] \in {NoConn, pConnection'}
          /\ Mysql!InUse' \cap leaked' = {}
      BY <1>0, <1>1, <3>1
    <3>8. \A c \in Conns : conn'[c] = "deleted" =>
                c \notin Mysql!Range(listConnect') \cup Held' \cup {pConnection'}
      BY <1>0, <1>1, <2>1, <2>2, <3>1
    <3> QED BY <3>4, <3>5, <3>6, <3>7, <3>8 DEF OnePlace
  <2> QED BY <2>3, <2>4, <2>5 DEF MysqlInv
<1> QED BY <1>2, <1>3

\* A connection that the database closes stays where it is.
LEMMA DroppedKeeps ==
    ASSUME MysqlInv, NEW c \in Conns, Mysql!Dropped(c)
    PROVE  MysqlInv'
<1>1. /\ conn \in [Conns -> {"none", "open", "closed", "deleted"}]
      /\ conn[c] = "open" /\ conn' = [conn EXCEPT ![c] = "closed"]
      /\ UNCHANGED << pConnection, listConnect, curConnect, using, leaked, wasClosed >>
      /\ Mysql!Range(listConnect) \subseteq Conns
  BY DEF MysqlInv, MysqlKinds, Mysql!TypeOK, Mysql!Dropped
<1>2. Mysql!InUse' = Mysql!InUse /\ Held' = Held /\ Mysql!Range(listConnect') = Mysql!Range(listConnect)
  BY <1>1 DEF Held, Mysql!InUse
<1>3. /\ conn' \in [Conns -> {"none", "open", "closed", "deleted"}]
      /\ \A d \in Conns : /\ conn'[d] = "none" => conn[d] = "none"
                          /\ conn'[d] = "deleted" <=> conn[d] = "deleted"
  BY <1>1
<1>4. MysqlKinds'
  BY <1>1, <1>2, <1>3 DEF MysqlInv, MysqlKinds, Mysql!TypeOK
<1>5. LiveCounted'
  <2>1. Held \subseteq Conns
    BY DEF MysqlInv, MysqlKinds, Mysql!TypeOK, Held, Mysql!InUse
  <2>2. Live' = Live
    BY <1>1, <1>2, <1>3, <2>1 DEF Live
  <2> QED BY <1>1, <2>2 DEF MysqlInv, LiveCounted
<1>6. OnePlace'
  BY <1>1, <1>2, <1>3 DEF MysqlInv, OnePlace, Mysql!IsInjective
<1> QED BY <1>4, <1>5, <1>6 DEF MysqlInv

\* Every step is one of the above, or changes nothing.
LEMMA MysqlNext ==
    ASSUME Mysql!MysqlAssumption, MysqlInv, [Mysql!Next]_mysqlVars, ~overwritten'
    PROVE  MysqlInv'
<1>1. ASSUME NEW t \in Users, Mysql!execute(t) PROVE MysqlInv'
  <2>1. PICK c \in {NoConn} \cup Conns :
            /\ Mysql!getPoolConnection(c)
            /\ \/ using' = [using EXCEPT ![t] = c] /\ UNCHANGED leaked
               \/ c # NoConn /\ leaked' = leaked \cup {c} /\ UNCHANGED using
    BY <1>1 DEF Mysql!execute
  <2>2. using[t] = NoConn /\ UNCHANGED << pConnection, wasClosed >>
    BY <1>1 DEF Mysql!execute, Mysql!Idle
  <2>3. CASE using' = [using EXCEPT ![t] = c] /\ UNCHANGED leaked
    BY <2>1, <2>2, <2>3, gotKeeps
  <2>4. CASE c # NoConn /\ leaked' = leaked \cup {c} /\ UNCHANGED using
    <3>1. leaked' = leaked \cup ({c} \ {NoConn})
      BY <2>4
    <3> QED BY <2>1, <2>2, <2>4, <3>1, gotKeeps
  <2> QED BY <2>1, <2>3, <2>4
<1>2. CASE Mysql!createPreparestatement
  <2>1. PICK c \in {NoConn} \cup Conns :
            Mysql!getPoolConnection(c) /\ leaked' = leaked \cup ({c} \ {NoConn})
    BY <1>2 DEF Mysql!createPreparestatement
  <2>2. UNCHANGED << using, pConnection, wasClosed >>
    BY <1>2 DEF Mysql!createPreparestatement
  <2> QED BY <2>1, <2>2, gotKeeps
<1>3. CASE UNCHANGED mysqlVars
  BY <1>3, MysqlStutter DEF mysqlVars
<1>4. ASSUME NEW t \in Users, Mysql!getConnection(t) PROVE MysqlInv'
  BY <1>4, MysqlStutter DEF Mysql!getConnection
<1>5. ASSUME NEW t \in Users, Mysql!connect(t) \/ Mysql!makeMain(t) \/ Mysql!executeOnMain(t)
                              \/ Mysql!releaseConnection(t)
      PROVE  MysqlInv'
  BY <1>5, closeKeeps, makeMainKeeps, executeOnMainKeeps, releaseConnectionKeeps
<1> QED
  BY <1>1, <1>2, <1>3, <1>4, <1>5, closeKeeps, DroppedKeeps DEF Mysql!Next

\* What getPoolConnection and createConnection leave, whatever was before.
LEMMA getPoolConnectionLoose ==
    ASSUME Mysql!MysqlAssumption, MysqlLoose, NEW c \in {NoConn} \cup Conns, Mysql!getPoolConnection(c)
    PROVE  /\ conn' \in [Conns -> {"none", "open", "closed", "deleted"}]
           /\ listConnect' \in Seq(Conns) /\ curConnect' \in Int
<1>1. ASSUME NEW f \in [Conns -> {"none", "open", "closed", "deleted"}], Mysql!createConnection(f, c)
      PROVE  conn' \in [Conns -> {"none", "open", "closed", "deleted"}]
  BY <1>1, Creates
<1>2. \A h : Mysql!Deleted(conn, {h}) \in [Conns -> {"none", "open", "closed", "deleted"}]
  BY DEF MysqlLoose, Mysql!Deleted
<1>3. listConnect # <<>> => Tail(listConnect) \in Seq(Conns)
  BY DEF MysqlLoose
<1>4. /\ conn \in [Conns -> {"none", "open", "closed", "deleted"}]
      /\ listConnect \in Seq(Conns) /\ curConnect \in Int
  BY DEF MysqlLoose
<1>5. CASE listConnect # <<>> /\ listConnect' = Tail(listConnect) /\ UNCHANGED << conn, curConnect >>
  BY <1>3, <1>4, <1>5
<1>6. CASE /\ Mysql!createConnection(Mysql!Deleted(conn, {Head(listConnect)}), c)
           /\ listConnect # <<>> /\ listConnect' = Tail(listConnect)
           /\ curConnect' = curConnect - (IF c = NoConn THEN 1 ELSE 0)
  <2>1. conn' \in [Conns -> {"none", "open", "closed", "deleted"}]
    BY <1>1, <1>2, <1>6
  <2>2. curConnect' \in Int /\ listConnect' \in Seq(Conns)
    BY <1>3, <1>4, <1>6
  <2> QED BY <2>1, <2>2
<1>7. CASE /\ Mysql!createConnection(conn, c)
           /\ curConnect' = curConnect + (IF c = NoConn THEN 0 ELSE 1)
           /\ UNCHANGED listConnect
  <2>1. conn' \in [Conns -> {"none", "open", "closed", "deleted"}]
    BY <1>1, <1>4, <1>7
  <2>2. curConnect' \in Int /\ listConnect' \in Seq(Conns)
    BY <1>4, <1>7
  <2> QED BY <2>1, <2>2
<1> QED BY <1>5, <1>6, <1>7 DEF Mysql!getPoolConnection

LEMMA LooseNext ==
    ASSUME Mysql!MysqlAssumption, MysqlLoose, [Mysql!Next]_mysqlVars
    PROVE  MysqlLoose' /\ (overwritten => overwritten')
<1>1. ASSUME Mysql!CloseAll PROVE MysqlLoose' /\ (overwritten => overwritten')
  <2>1. \A D : Mysql!Deleted(conn, D) \in [Conns -> {"none", "open", "closed", "deleted"}]
    BY DEF MysqlLoose, Mysql!Deleted
  <2>2. conn' \in [Conns -> {"none", "open", "closed", "deleted"}]
    BY <1>1, <2>1 DEF Mysql!CloseAll
  <2>3. <<>> \in Seq(Conns)
    OBVIOUS
  <2>4. listConnect' \in {<<>>, listConnect} /\ pConnection' \in {NoConn, pConnection}
    BY <1>1 DEF Mysql!CloseAll
  <2> QED BY <1>1, <2>2, <2>3, <2>4 DEF Mysql!CloseAll, MysqlLoose
<1>2. ASSUME NEW t \in Users, Mysql!execute(t) PROVE MysqlLoose' /\ (overwritten => overwritten')
  <2>1. PICK c \in {NoConn} \cup Conns :
            /\ Mysql!getPoolConnection(c)
            /\ \/ using' = [using EXCEPT ![t] = c] /\ UNCHANGED leaked
               \/ c # NoConn /\ leaked' = leaked \cup {c} /\ UNCHANGED using
    BY <1>2 DEF Mysql!execute
  <2>2. UNCHANGED << pConnection, overwritten >>
    BY <1>2 DEF Mysql!execute
  <2> QED BY <2>1, <2>2, getPoolConnectionLoose DEF MysqlLoose
<1>3. ASSUME Mysql!createPreparestatement PROVE MysqlLoose' /\ (overwritten => overwritten')
  <2>1. PICK c \in {NoConn} \cup Conns :
            Mysql!getPoolConnection(c) /\ leaked' = leaked \cup ({c} \ {NoConn})
    BY <1>3 DEF Mysql!createPreparestatement
  <2>2. UNCHANGED << using, pConnection, overwritten >>
    BY <1>3 DEF Mysql!createPreparestatement
  <2> QED BY <2>1, <2>2, getPoolConnectionLoose DEF MysqlLoose
<1>4. ASSUME NEW t \in Users, Mysql!makeMain(t) PROVE MysqlLoose' /\ (overwritten => overwritten')
  <2>1. PICK c \in {NoConn} \cup Conns : Mysql!createConnection(conn, c) /\ pConnection' = c
    BY <1>4 DEF Mysql!makeMain
  <2>2. conn' \in [Conns -> {"none", "open", "closed", "deleted"}]
    BY <2>1, Creates DEF MysqlLoose
  <2> QED BY <1>4, <2>1, <2>2 DEF Mysql!makeMain, MysqlLoose
<1>5. ASSUME NEW t \in Users, Mysql!connect(t) \/ Mysql!getConnection(t) \/ Mysql!executeOnMain(t)
      PROVE  MysqlLoose' /\ (overwritten => overwritten')
  BY <1>1, <1>5 DEF Mysql!connect, Mysql!getConnection, Mysql!executeOnMain, MysqlLoose
<1>6. ASSUME NEW t \in Users, Mysql!releaseConnection(t) PROVE MysqlLoose' /\ (overwritten => overwritten')
  <2>1. using[t] \in Conns => Append(listConnect, using[t]) \in Seq(Conns)
    BY DEF MysqlLoose
  <2> QED BY <1>6, <2>1 DEF Mysql!releaseConnection, MysqlLoose
<1>7. ASSUME NEW c \in Conns, Mysql!Dropped(c) PROVE MysqlLoose' /\ (overwritten => overwritten')
  BY <1>7 DEF Mysql!Dropped, MysqlLoose
<1>8. CASE UNCHANGED mysqlVars
  BY <1>8 DEF mysqlVars, MysqlLoose
<1> QED
  BY <1>1, <1>2, <1>3, <1>4, <1>5, <1>6, <1>7, <1>8 DEF Mysql!Next, Mysql!close

\* The property is part of the invariant.
LEMMA MysqlImplies ==
    ASSUME Mysql!MysqlAssumption, MysqlLoose, ~overwritten => MysqlInv
    PROVE  Accounted
<1>1. CASE ~overwritten
  BY <1>1, SameCount DEF MysqlInv, MysqlKinds, OnePlace, Accounted, Mysql!Accounted, Held
<1>2. CASE overwritten
  <2>1. Mysql!Range(listConnect) \subseteq Conns
    BY LenProperties DEF MysqlLoose, Mysql!Range
  <2> QED BY <1>2, <2>1 DEF MysqlLoose, Accounted, Mysql!Accounted, Mysql!TypeOK
<1> QED BY <1>1, <1>2

--------------------------------------------------------------------------------
(***************************************************************************)
(* Induction.  A set of numbers has a least one: what holds of no least    *)
(* counterexample holds of all numbers.                                    *)
(***************************************************************************)
LEMMA Least == ASSUME NEW T \in SUBSET Nat, T # {} PROVE \E n \in T : \A m \in T : n <= m
<1> DEFINE R == {ss \in Nat \X Nat : ss[1] < ss[2]}
<1>1. IsWellFoundedOn(R, Nat)
  BY NatLessThanWellFounded DEF OpToRel
<1>2. PICK x \in T : \A y \in T : ~(<<y, x>> \in R)
  BY <1>1, WFMin
<1>3. \A y \in T : ~(y < x)
  BY <1>2
<1>4. \A y \in T : y \in Nat /\ x \in Nat
  OBVIOUS
<1>5. \A y \in T : x <= y
  BY <1>3, <1>4
<1> QED BY <1>5

\* The function in Pool!Without: up to i, what is not in D is kept.
Keeps(q, D, n, f) ==
    f = [i \in 0..n |-> IF i = 0 THEN <<>> ELSE IF q[i] \in D THEN f[i - 1] ELSE Append(f[i - 1], q[i])]

\* There is one.
LEMMA KeepsExists ==
    ASSUME NEW S, NEW q \in Seq(S), NEW D
    PROVE  \E f : Keeps(q, D, Len(q), f)
<1> DEFINE Bad == {n \in 0..Len(q) : ~ \E f : Keeps(q, D, n, f)}
<1>0. Len(q) \in Nat
  OBVIOUS
<1>1. SUFFICES Bad = {}
  BY <1>0
<1>2. SUFFICES ASSUME Bad # {} PROVE FALSE
  OBVIOUS
<1>3. PICK n \in Bad : \A m \in Bad : n <= m
  <2>1. Bad \in SUBSET Nat
    BY <1>0
  <2> HIDE DEF Bad
  <2> QED BY <1>2, <2>1, Least
<1>4. n # 0
  <2>1. Keeps(q, D, 0, [i \in 0..0 |-> <<>>])
    BY DEF Keeps
  <2> QED BY <1>3, <2>1
<1>5. n \in Nat /\ n - 1 \in 0..Len(q) /\ n - 1 \notin Bad
  BY <1>0, <1>3, <1>4
<1>6. PICK f : Keeps(q, D, n - 1, f)
  BY <1>5
<1> DEFINE last == IF q[n] \in D THEN f[n - 1] ELSE Append(f[n - 1], q[n])
           g == [i \in 0..n |-> IF i = n THEN last ELSE f[i]]
<1>7. ASSUME NEW i \in 0..n
      PROVE  g[i] = IF i = 0 THEN <<>> ELSE IF q[i] \in D THEN g[i - 1] ELSE Append(g[i - 1], q[i])
  <2>1. CASE i = n
    BY <1>4, <1>5, <2>1
  <2>2. CASE i # n
    <3>1. i \in 0..(n - 1) /\ g[i] = f[i] /\ (i # 0 => i - 1 \in 0..(n - 1) /\ g[i - 1] = f[i - 1])
      BY <1>5, <2>2
    <3>2. f[i] = IF i = 0 THEN <<>> ELSE IF q[i] \in D THEN f[i - 1] ELSE Append(f[i - 1], q[i])
      BY <1>6, <3>1 DEF Keeps
    <3> QED BY <3>1, <3>2
  <2> QED BY <2>1, <2>2
<1>8. g = [i \in 0..n |-> IF i = 0 THEN <<>> ELSE IF q[i] \in D THEN g[i - 1] ELSE Append(g[i - 1], q[i])]
  <2> HIDE DEF g
  <2>1. g = [i \in 0..n |-> g[i]]
    BY DEF g
  <2> QED BY <1>7, <2>1
<1>9. Keeps(q, D, n, g)
  BY <1>8 DEF Keeps
<1> QED BY <1>3, <1>9

\* What is kept is what is not in D, in any order, and once if it was there once.
LEMMA WithoutKeeps ==
    ASSUME NEW S, NEW q \in Seq(S), NEW D
    PROVE  /\ Pool!Without(q, D) \in Seq(S)
           /\ Pool!Range(Pool!Without(q, D)) = Pool!Range(q) \ D
           /\ Len(Pool!Without(q, D)) <= Len(q)
           /\ Pool!IsInjective(q) => Pool!IsInjective(Pool!Without(q, D))
<1> DEFINE K == CHOOSE f : Keeps(q, D, Len(q), f)
           Upto(i) == {q[j] : j \in 1..i} \ D
           Good(i) == /\ K[i] \in Seq(S) /\ Len(K[i]) <= i
                      /\ Pool!Range(K[i]) = Upto(i)
                      /\ Pool!IsInjective(q) => Pool!IsInjective(K[i])
           Bad == {i \in 0..Len(q) : ~Good(i)}
<1>1. Keeps(q, D, Len(q), K)
  BY KeepsExists
<1>2. Pool!Without(q, D) = K[Len(q)]
  BY Zenon DEF Pool!Without, Keeps
<1>0. Len(q) \in Nat /\ DOMAIN q = 1..Len(q) /\ \A i \in 1..Len(q) : q[i] \in S
  OBVIOUS
<1>3. \A i \in 0..Len(q) :
         K[i] = IF i = 0 THEN <<>> ELSE IF q[i] \in D THEN K[i - 1] ELSE Append(K[i - 1], q[i])
  <2> HIDE DEF K
  <2> QED BY <1>1 DEF Keeps
<1> HIDE DEF K
<1>4. Good(0)
  <2>1. K[0] = <<>>
    BY <1>0, <1>3
  <2>2. Upto(0) = {}
    OBVIOUS
  <2> QED BY <2>1, <2>2 DEF Pool!Range, Pool!IsInjective
<1>5. ASSUME NEW i \in 1..Len(q), Good(i - 1)
      PROVE  Good(i)
  <2>1. i \in 0..Len(q) /\ i # 0 /\ q[i] \in S /\ i - 1 \in 0..Len(q) /\ i \in Nat
    BY <1>0
  <2>2. Upto(i) = Upto(i - 1) \cup ({q[i]} \ D)
    <3>1. 1..i = 1..(i - 1) \cup {i}
      BY <2>1
    <3> QED BY <3>1
  <2>3. CASE q[i] \in D
    <3>1. K[i] = K[i - 1] /\ Upto(i) = Upto(i - 1)
      BY <1>3, <2>1, <2>2, <2>3
    <3>2. Len(K[i - 1]) \in Nat
      BY <1>5
    <3> QED BY <1>5, <2>1, <3>1, <3>2
  <2>4. CASE q[i] \notin D
    <3>1. K[i] = Append(K[i - 1], q[i]) /\ Upto(i) = Upto(i - 1) \cup {q[i]}
      BY <1>3, <2>1, <2>2, <2>4
    <3>2. Pool!IsInjective(q) => q[i] \notin Upto(i - 1)
      BY <1>0, <2>1 DEF Pool!IsInjective
    <3>3. /\ K[i] \in Seq(S) /\ Len(K[i]) = Len(K[i - 1]) + 1
          /\ Pool!Range(K[i]) = Pool!Range(K[i - 1]) \cup {q[i]}
          /\ Pool!IsInjective(K[i - 1]) /\ q[i] \notin Pool!Range(K[i - 1]) => Pool!IsInjective(K[i])
      BY <1>5, <2>1, <3>1, PoolAppend
    <3>4. Len(K[i - 1]) \in Nat
      BY <1>5
    <3> QED BY <1>5, <2>1, <3>1, <3>2, <3>3, <3>4
  <2> QED BY <2>3, <2>4
<1>6. Bad = {}
  <2> HIDE DEF Good
  <2>1. SUFFICES ASSUME Bad # {} PROVE FALSE
    OBVIOUS
  <2>2. PICK i \in Bad : \A m \in Bad : i <= m
    <3>1. Bad \in SUBSET Nat
      BY <1>0
    <3> HIDE DEF Bad
    <3> QED BY <2>1, <3>1, Least
  <2>3. i # 0
    BY <1>4, <2>2
  <2>4. i \in 1..Len(q) /\ i - 1 \in 0..Len(q) /\ ~(i <= i - 1)
    BY <1>0, <2>2, <2>3
  <2>5. Good(i - 1)
    BY <2>2, <2>4
  <2> QED BY <1>5, <2>2, <2>4, <2>5
<1>7. Good(Len(q))
  <2> HIDE DEF Good
  <2> QED BY <1>0, <1>6
<1>8. Upto(Len(q)) = Pool!Range(q) \ D
  BY <1>0 DEF Pool!Range
<1> QED BY <1>2, <1>7, <1>8

\* A list without its i-th.
LEMMA RemoveAtKeeps ==
    ASSUME NEW S, NEW q \in Seq(S), NEW i \in 1..Len(q)
    PROVE  /\ Pool!RemoveAt(q, i) \in Seq(S) /\ Len(Pool!RemoveAt(q, i)) = Len(q) - 1
           /\ Pool!IsInjective(q) => /\ Pool!IsInjective(Pool!RemoveAt(q, i))
                                     /\ Pool!Range(Pool!RemoveAt(q, i)) = Pool!Range(q) \ {q[i]}
<1> DEFINE n == Len(q)
           before == SubSeq(q, 1, i - 1)
           after == SubSeq(q, i + 1, n)
           r == Pool!RemoveAt(q, i)
<1>0. n \in Nat /\ i \in Nat /\ 1 <= i /\ i <= n /\ DOMAIN q = 1..n
  OBVIOUS
<1>1. /\ before \in Seq(S) /\ Len(before) = i - 1 /\ \A j \in 1..(i - 1) : before[j] = q[j]
      /\ after \in Seq(S) /\ Len(after) = n - i /\ \A j \in 1..(n - i) : after[j] = q[i + j]
  OBVIOUS
<1>2. /\ r \in Seq(S) /\ Len(r) = n - 1 /\ DOMAIN r = 1..(n - 1)
      /\ \A j \in 1..(n - 1) : r[j] = IF j < i THEN q[j] ELSE q[j + 1]
  <2>1. r = before \o after
    BY DEF Pool!RemoveAt
  <2> HIDE DEF before, after, r, n
  <2>2. /\ r \in Seq(S) /\ Len(r) = Len(before) + Len(after)
        /\ \A j \in 1..(Len(before) + Len(after)) : r[j] = IF j <= Len(before) THEN before[j] ELSE after[j - Len(before)]
    BY <1>1, <2>1, ConcatProperties
  <2>3. Len(r) = n - 1 /\ DOMAIN r = 1..(n - 1)
    BY <1>0, <1>1, <2>2
  <2>4. ASSUME NEW j \in 1..(n - 1) PROVE r[j] = IF j < i THEN q[j] ELSE q[j + 1]
    <3>1. CASE j < i
      BY <1>0, <1>1, <2>2, <3>1
    <3>2. CASE ~(j < i)
      <4>1. r[j] = after[j - (i - 1)] /\ j - (i - 1) \in 1..(n - i)
        BY <1>0, <1>1, <2>2, <3>2
      <4>2. after[j - (i - 1)] = q[i + (j - (i - 1))] /\ i + (j - (i - 1)) = j + 1
        BY <1>0, <1>1, <4>1
      <4> QED BY <3>2, <4>1, <4>2
    <3> QED BY <3>1, <3>2
  <2> QED BY <2>2, <2>3, <2>4
<1> HIDE DEF r, before, after, n
<1>3. ASSUME Pool!IsInjective(q) PROVE Pool!IsInjective(r)
  <2>1. \A a, b \in 1..n : q[a] = q[b] => a = b
    BY <1>0, <1>3 DEF Pool!IsInjective
  <2>2. \A a \in 1..(n - 1) : a \in 1..n /\ a + 1 \in 1..n
    BY <1>0
  <2>3. ASSUME NEW x \in 1..(n - 1), NEW y \in 1..(n - 1), r[x] = r[y] PROVE x = y
    <3>1. x \in 1..n /\ x + 1 \in 1..n /\ y \in 1..n /\ y + 1 \in 1..n
      BY <2>2
    <3>2. /\ r[x] = IF x < i THEN q[x] ELSE q[x + 1]
          /\ r[y] = IF y < i THEN q[y] ELSE q[y + 1]
      BY <1>2
    <3>3. \/ x < i /\ y < i /\ x = y
          \/ x < i /\ ~(y < i) /\ x = y + 1
          \/ ~(x < i) /\ y < i /\ x + 1 = y
          \/ ~(x < i) /\ ~(y < i) /\ x + 1 = y + 1
      BY <2>1, <2>3, <3>1, <3>2
    <3> QED BY <1>0, <3>3
  <2> QED BY <1>2, <2>3 DEF Pool!IsInjective
<1>4. ASSUME Pool!IsInjective(q) PROVE Pool!Range(r) = Pool!Range(q) \ {q[i]}
  <2>1. \A a, b \in 1..n : q[a] = q[b] => a = b
    BY <1>0, <1>4 DEF Pool!IsInjective
  <2>2. ASSUME NEW j \in 1..(n - 1) PROVE r[j] \in Pool!Range(q) \ {q[i]}
    <3>1. j \in 1..n /\ j + 1 \in 1..n
      BY <1>0
    <3>2. CASE j < i
      BY <1>0, <1>2, <2>1, <3>1, <3>2 DEF Pool!Range
    <3>3. CASE ~(j < i)
      <4>1. r[j] = q[j + 1] /\ j + 1 # i
        BY <1>0, <1>2, <3>3
      <4> QED BY <1>0, <2>1, <3>1, <4>1 DEF Pool!Range
    <3> QED BY <3>2, <3>3
  <2>3. ASSUME NEW j \in 1..n, j # i PROVE q[j] \in Pool!Range(r)
    <3>1. CASE j < i
      BY <1>0, <1>2, <3>1 DEF Pool!Range
    <3>2. CASE j > i
      <4>1. j - 1 \in DOMAIN r /\ r[j - 1] = q[j]
        BY <1>0, <1>2, <3>2
      <4> QED BY <4>1 DEF Pool!Range
    <3> QED BY <1>0, <2>3, <3>1, <3>2
  <2> QED BY <1>0, <1>2, <2>2, <2>3 DEF Pool!Range
<1> QED BY <1>2, <1>3, <1>4 DEF r, n

--------------------------------------------------------------------------------
(***************************************************************************)
(* XAsioPool.  The timer waits at most once for each thread that may start *)
(* it: a thread between expires_from_now, which cancels the waits there    *)
(* are, and async_wait is counted as well.                                 *)
(***************************************************************************)
Waiting == {t \in Pool!Threads : pc[t] = "wait"}

PoolKinds ==
    /\ status \in {"run", "stop"} /\ waits \in Nat /\ due \in 0..MaxDue
    /\ pc \in [Pool!Threads -> {"idle", "expire", "wait", "stop", "test"}]
    /\ container \in Seq(Objects) /\ temp \in Seq(Objects) /\ Len(container) <= MaxObjectNum
    /\ old \subseteq Pool!Range(temp) /\ running \subseteq Objects
    /\ hand \in [Users -> (Objects \X {"add", "park"}) \cup {<< NoObject, "none" >>}]

WaitsBounded == waits + Cardinality(Waiting) <= Cardinality(Pool!Threads)

\* An object is in one list or hand, and once.
OnceEach ==
    /\ Pool!IsInjective(container) /\ Pool!IsInjective(temp)
    /\ Pool!Range(container) \cap Pool!Range(temp) = {}
    /\ Pool!InHand \cap (Pool!Range(container) \cup Pool!Range(temp)) = {}
    /\ \A u, v \in Users : u # v /\ hand[u][1] = hand[v][1] => hand[u][1] = NoObject

PoolInv == PoolKinds /\ WaitsBounded /\ OnceEach

\* The threads are finitely many, and so are those that wait.
LEMMA WaitingFinite ==
    ASSUME Pool!PoolAssumption
    PROVE  /\ IsFiniteSet(Pool!Threads) /\ Cardinality(Pool!Threads) \in Nat
           /\ \A S \in SUBSET Pool!Threads : /\ IsFiniteSet(S) /\ Cardinality(S) \in Nat
                                             /\ Cardinality(S) <= Cardinality(Pool!Threads)
<1>1. IsFiniteSet(IoThreads)
  BY SameCount DEF Pool!PoolAssumption
<1>2. IsFiniteSet(Pool!Threads)
  BY <1>1, FS_AddElement DEF Pool!Threads
<1> QED BY <1>2, FS_Subset, FS_CardinalityType

\* At first there is at most one object, released.
LEMMA PoolInit == ASSUME Pool!PoolAssumption, Pool!Init PROVE PoolInv
<1>1. Waiting = {} /\ waits = 0
  BY DEF Pool!Init, Waiting
<1>2. WaitsBounded
  BY <1>1, WaitingFinite, FS_EmptySet DEF WaitsBounded
<1>3. /\ container = <<>> /\ Pool!Range(container) = {} /\ Pool!IsInjective(container)
      /\ temp \in Seq(Objects) /\ Pool!IsInjective(temp) /\ old = Pool!Range(temp)
      /\ container \in Seq(Objects) /\ Len(container) = 0
  <2>1. CASE temp = <<>>
    BY <2>1 DEF Pool!Init, Pool!Range, Pool!IsInjective
  <2>2. ASSUME NEW o \in Objects, temp = << o >> PROVE temp \in Seq(Objects) /\ Pool!IsInjective(temp)
    BY <2>2 DEF Pool!IsInjective
  <2>3. container = <<>> /\ old = Pool!Range(temp)
    BY DEF Pool!Init
  <2>4. Pool!Range(container) = {} /\ Pool!IsInjective(container)
    BY <2>3 DEF Pool!Range, Pool!IsInjective
  <2>5. temp \in Seq(Objects) /\ Pool!IsInjective(temp)
    BY <2>1, <2>2 DEF Pool!Init
  <2> QED BY <2>3, <2>4, <2>5
<1>4. hand = [u \in Users |-> << NoObject, "none" >>] /\ Pool!InHand = {}
  BY DEF Pool!Init, Pool!InHand
<1>5. PoolKinds
  BY <1>1, <1>3, <1>4 DEF Pool!Init, Pool!PoolAssumption, PoolKinds
<1>6. OnceEach
  BY <1>3, <1>4 DEF OnceEach
<1> QED BY <1>2, <1>5, <1>6 DEF PoolInv

\* Where the timer moves, the lists do not.
LEMMA TimerKeeps ==
    ASSUME PoolInv, UNCHANGED << container, temp, old, running, hand >>,
           status' \in {"run", "stop"}, waits' \in Nat, due' \in 0..MaxDue,
           pc' \in [Pool!Threads -> {"idle", "expire", "wait", "stop", "test"}], WaitsBounded'
    PROVE  PoolInv'
<1>1. PoolKinds'
  BY DEF PoolInv, PoolKinds
<1>2. Pool!InHand' = Pool!InHand
  BY DEF Pool!InHand
<1>3. OnceEach'
  BY <1>2 DEF PoolInv, OnceEach
<1> QED BY <1>1, <1>3 DEF PoolInv

\* A step of a thread with the timer, the waits not being more.
LEMMA GotoKeeps ==
    ASSUME Pool!PoolAssumption, PoolInv, NEW t \in Pool!Threads,
           NEW from \in {"idle", "expire", "wait", "stop", "test"},
           NEW to \in {"idle", "expire", "stop", "test"}, Pool!Goto(t, from, to),
           waits' \in Nat, waits' <= waits \/ (from = "wait" /\ waits' = waits + 1)
    PROVE  /\ pc' \in [Pool!Threads -> {"idle", "expire", "wait", "stop", "test"}]
           /\ WaitsBounded'
<1>1. /\ pc \in [Pool!Threads -> {"idle", "expire", "wait", "stop", "test"}]
      /\ pc[t] = from /\ pc' = [pc EXCEPT ![t] = to]
      /\ waits \in Nat
      /\ waits + Cardinality(Waiting) <= Cardinality(Pool!Threads)
  BY DEF PoolInv, PoolKinds, Pool!Goto, WaitsBounded
<1>2. Waiting' = Waiting \ {t} /\ (from = "wait" => t \in Waiting)
  BY <1>1 DEF Waiting
<1>3. Waiting \in SUBSET Pool!Threads
  BY DEF Waiting
<1>4. /\ IsFiniteSet(Waiting) /\ Cardinality(Waiting) \in Nat /\ Cardinality(Pool!Threads) \in Nat
  BY <1>3, WaitingFinite
<1>5. Cardinality(Waiting') = IF t \in Waiting THEN Cardinality(Waiting) - 1 ELSE Cardinality(Waiting)
  BY <1>2, <1>4, FS_RemoveElement
<1>6. WaitsBounded'
  BY <1>1, <1>2, <1>4, <1>5 DEF WaitsBounded, Pool!Threads
<1> QED BY <1>1, <1>6

\* Each step of the timer.
LEMMA timerKeeps ==
    ASSUME Pool!PoolAssumption, PoolInv,
           \/ Pool!setTimer \/ Pool!stopTimer \/ Pool!stopped \/ Pool!Expire
           \/ \E t \in Pool!Threads : \/ Pool!expires_from_now(t) \/ Pool!async_wait(t)
                                      \/ Pool!onTimerHandler(t)
    PROVE  PoolInv'
<1>0. /\ App \in Pool!Threads /\ waits \in Nat /\ due \in 0..MaxDue /\ MaxDue \in Nat
      /\ status \in {"run", "stop"}
      /\ pc \in [Pool!Threads -> {"idle", "expire", "wait", "stop", "test"}]
  BY DEF PoolInv, PoolKinds, Pool!Threads, Pool!PoolAssumption
<1>1. CASE Pool!setTimer
  BY <1>0, <1>1, GotoKeeps, TimerKeeps DEF Pool!setTimer, Pool!pool
<1>2. CASE Pool!stopTimer
  BY <1>0, <1>2, GotoKeeps, TimerKeeps DEF Pool!stopTimer, Pool!pool
<1>3. CASE Pool!stopped
  BY <1>0, <1>3, GotoKeeps, TimerKeeps DEF Pool!stopped, Pool!pool
<1>4. CASE Pool!Expire
  <2>1. waits' \in Nat /\ waits' <= waits /\ due' \in 0..MaxDue /\ Waiting' = Waiting
    BY <1>0, <1>4 DEF Pool!Expire, Waiting
  <2>2. Cardinality(Waiting) \in Nat /\ Cardinality(Pool!Threads) \in Nat
    <3>1. Waiting \in SUBSET Pool!Threads
      BY DEF Waiting
    <3> QED BY <3>1, WaitingFinite
  <2>3. WaitsBounded'
    BY <1>0, <2>1, <2>2 DEF PoolInv, WaitsBounded, Pool!Threads
  <2> QED BY <1>0, <1>4, <2>1, <2>3, TimerKeeps DEF Pool!Expire, Pool!pool
<1>5. ASSUME NEW t \in Pool!Threads, Pool!expires_from_now(t) PROVE PoolInv'
  <2>1. waits' = 0 /\ pc' \in [Pool!Threads -> {"idle", "expire", "wait", "stop", "test"}]
        /\ UNCHANGED << status, due >> /\ UNCHANGED << container, temp, old, running, hand >>
    BY <1>0, <1>5 DEF Pool!expires_from_now, Pool!Goto, Pool!pool
  <2>2. Waiting' \in SUBSET Pool!Threads
    BY DEF Waiting, Pool!Threads
  <2>3. Cardinality(Waiting') \in Nat /\ Cardinality(Waiting') <= Cardinality(Pool!Threads)
    BY <2>2, WaitingFinite
  <2>4. WaitsBounded'
    BY <2>1, <2>3 DEF WaitsBounded, Pool!Threads
  <2> QED BY <1>0, <2>1, <2>4, TimerKeeps
<1>6. ASSUME NEW t \in Pool!Threads, Pool!async_wait(t) PROVE PoolInv'
  BY <1>0, <1>6, GotoKeeps, TimerKeeps DEF Pool!async_wait, Pool!pool
<1>7. ASSUME NEW t \in Pool!Threads, Pool!onTimerHandler(t) PROVE PoolInv'
  <2> DEFINE to == IF status = "run" THEN "expire" ELSE "idle"
  <2>1. to \in {"idle", "expire", "stop", "test"} /\ Pool!Goto(t, "test", to)
    BY <1>7 DEF Pool!onTimerHandler
  <2>2. UNCHANGED << status, waits, due >> /\ UNCHANGED << container, temp, old, running, hand >>
    BY <1>7 DEF Pool!onTimerHandler, Pool!pool
  <2> HIDE DEF to
  <2>3. /\ pc' \in [Pool!Threads -> {"idle", "expire", "wait", "stop", "test"}]
        /\ WaitsBounded'
    BY <1>0, <2>1, <2>2, GotoKeeps
  <2> QED BY <1>0, <2>2, <2>3, TimerKeeps
<1> QED BY <1>1, <1>2, <1>3, <1>4, <1>5, <1>6, <1>7

\* Where the lists move, the timer does not.
LEMMA ListsKeep ==
    ASSUME PoolInv, UNCHANGED << status, waits, due, pc >>,
           container' \in Seq(Objects), temp' \in Seq(Objects), Len(container') <= MaxObjectNum,
           old' \subseteq Pool!Range(temp'), running' \subseteq Objects,
           hand' \in [Users -> (Objects \X {"add", "park"}) \cup {<< NoObject, "none" >>}],
           OnceEach'
    PROVE  PoolInv'
<1>1. PoolKinds'
  BY DEF PoolInv, PoolKinds
<1>2. Waiting' = Waiting
  BY DEF Waiting
<1>3. WaitsBounded'
  BY <1>2 DEF PoolInv, WaitsBounded, Pool!Threads
<1> QED BY <1>1, <1>3 DEF PoolInv

\* What freeObjects frees is in no list any more.
LEMMA onTimerKeeps ==
    ASSUME Pool!PoolAssumption, PoolInv, NEW t \in Pool!Threads, Pool!onTimer(t)
    PROVE  PoolInv'
<1>1. /\ due' \in 0..MaxDue /\ UNCHANGED << status, waits, container, running, hand >>
      /\ Pool!Goto(t, "idle", "test") /\ temp' = Pool!Without(temp, Pool!Freed)
      /\ old' = old \ Pool!Freed
  BY DEF PoolInv, PoolKinds, Pool!onTimer, Pool!PoolAssumption
<1>2. /\ waits \in Nat /\ status \in {"run", "stop"} /\ temp \in Seq(Objects)
      /\ old \subseteq Pool!Range(temp)
  BY DEF PoolInv, PoolKinds
<1>3. /\ temp' \in Seq(Objects) /\ Pool!Range(temp') = Pool!Range(temp) \ Pool!Freed
      /\ Pool!IsInjective(temp) => Pool!IsInjective(temp')
  BY <1>1, <1>2, WithoutKeeps
<1>4. /\ pc' \in [Pool!Threads -> {"idle", "expire", "wait", "stop", "test"}] /\ WaitsBounded'
  BY <1>1, <1>2, GotoKeeps
<1>5. old' \subseteq Pool!Range(temp')
  BY <1>1, <1>2, <1>3
<1>6. PoolKinds'
  BY <1>1, <1>2, <1>3, <1>4, <1>5 DEF PoolInv, PoolKinds
<1>7. Pool!InHand' = Pool!InHand /\ Pool!Range(container') = Pool!Range(container)
  BY <1>1 DEF Pool!InHand
<1>8. OnceEach'
  BY <1>1, <1>3, <1>7 DEF PoolInv, OnceEach
<1> QED BY <1>4, <1>6, <1>8 DEF PoolInv

\* What users have in hand after u took o.
LEMMA HandTakes ==
    ASSUME Pool!PoolAssumption, PoolInv, NEW u \in Users, NEW o \in Objects, NEW way \in {"add", "park"},
           hand[u][1] = NoObject, o \notin Pool!InHand, hand' = [hand EXCEPT ![u] = << o, way >>]
    PROVE  /\ hand' \in [Users -> (Objects \X {"add", "park"}) \cup {<< NoObject, "none" >>}]
           /\ Pool!InHand' = Pool!InHand \cup {o}
           /\ \A v, w \in Users : v # w /\ hand'[v][1] = hand'[w][1] => hand'[v][1] = NoObject
<1>1. /\ hand \in [Users -> (Objects \X {"add", "park"}) \cup {<< NoObject, "none" >>}]
      /\ \A v, w \in Users : v # w /\ hand[v][1] = hand[w][1] => hand[v][1] = NoObject
      /\ NoObject \notin Objects
  BY DEF PoolInv, PoolKinds, OnceEach, Pool!PoolAssumption
<1>2. << o, way >> \in Objects \X {"add", "park"}
  OBVIOUS
<1>3. hand'[u][1] = o /\ \A v \in Users : v # u => hand'[v] = hand[v]
  BY <1>1
<1>4. \A v \in Users : v # u => hand[v][1] # o
  BY <1>1 DEF Pool!InHand
<1>5. Pool!InHand' = Pool!InHand \cup {o}
  <2>1. Pool!InHand' \subseteq Pool!InHand \cup {o}
    BY <1>1, <1>3 DEF Pool!InHand
  <2>2. Pool!InHand \cup {o} \subseteq Pool!InHand'
    BY <1>1, <1>3 DEF Pool!InHand
  <2> QED BY <2>1, <2>2
<1> QED BY <1>1, <1>2, <1>3, <1>4, <1>5

\* After u gave up what it had.
LEMMA HandGives ==
    ASSUME Pool!PoolAssumption, PoolInv, NEW u \in Users, hand[u][2] # "none",
           hand' = [hand EXCEPT ![u] = << NoObject, "none" >>]
    PROVE  /\ hand' \in [Users -> (Objects \X {"add", "park"}) \cup {<< NoObject, "none" >>}]
           /\ hand[u][1] \in Objects /\ hand[u][1] \in Pool!InHand
           /\ Pool!InHand' = Pool!InHand \ {hand[u][1]}
           /\ \A v, w \in Users : v # w /\ hand'[v][1] = hand'[w][1] => hand'[v][1] = NoObject
<1>1. /\ hand \in [Users -> (Objects \X {"add", "park"}) \cup {<< NoObject, "none" >>}]
      /\ \A v, w \in Users : v # w /\ hand[v][1] = hand[w][1] => hand[v][1] = NoObject
      /\ NoObject \notin Objects
  BY DEF PoolInv, PoolKinds, OnceEach, Pool!PoolAssumption
<1>2. hand[u] \in Objects \X {"add", "park"} /\ hand[u][1] \in Objects
  BY <1>1
<1>3. hand'[u][1] = NoObject /\ \A v \in Users : v # u => hand'[v] = hand[v]
  BY <1>1
<1>4. hand[u][1] \in Pool!InHand
  BY <1>1, <1>2 DEF Pool!InHand
<1>5. Pool!InHand' = Pool!InHand \ {hand[u][1]}
  <2>1. Pool!InHand' \subseteq Pool!InHand \ {hand[u][1]}
    BY <1>1, <1>2, <1>3 DEF Pool!InHand
  <2>2. Pool!InHand \ {hand[u][1]} \subseteq Pool!InHand'
    BY <1>1, <1>3 DEF Pool!InHand
  <2> QED BY <2>1, <2>2
<1> QED BY <1>1, <1>2, <1>3, <1>4, <1>5

\* An object is taken from the end of the line, or is new.
LEMMA reuseObjectKeeps ==
    ASSUME Pool!PoolAssumption, PoolInv, NEW u \in Users, Pool!reuseObject(u)
    PROVE  PoolInv'
<1>0. /\ container \in Seq(Objects) /\ temp \in Seq(Objects) /\ Len(container) <= MaxObjectNum
      /\ old \subseteq Pool!Range(temp) /\ running \subseteq Objects
      /\ Pool!IsInjective(container) /\ Pool!IsInjective(temp)
      /\ Pool!Range(container) \cap Pool!Range(temp) = {}
      /\ Pool!InHand \cap (Pool!Range(container) \cup Pool!Range(temp)) = {}
      /\ UNCHANGED << status, waits, due, pc >> /\ UNCHANGED << container, running >>
      /\ hand[u][1] = NoObject
  BY DEF PoolInv, PoolKinds, OnceEach, Pool!reuseObject, Pool!timer
<1>1. ASSUME NEW i \in Pool!Reusable, hand' = [hand EXCEPT ![u] = << temp[i], "add" >>],
             temp' = Pool!RemoveAt(temp, i), old' = old \ {temp[i]}
      PROVE  PoolInv'
  <2>1. i \in 1..Len(temp) /\ temp[i] \in Objects /\ temp[i] \in Pool!Range(temp)
    BY <1>0 DEF Pool!Reusable, Pool!Prefix, Pool!Range
  <2>2. /\ temp' \in Seq(Objects) /\ Pool!IsInjective(temp')
        /\ Pool!Range(temp') = Pool!Range(temp) \ {temp[i]}
    BY <1>0, <1>1, <2>1, RemoveAtKeeps
  <2>3. temp[i] \notin Pool!InHand
    BY <1>0, <2>1
  <2>4. /\ hand' \in [Users -> (Objects \X {"add", "park"}) \cup {<< NoObject, "none" >>}]
        /\ Pool!InHand' = Pool!InHand \cup {temp[i]}
        /\ \A v, w \in Users : v # w /\ hand'[v][1] = hand'[w][1] => hand'[v][1] = NoObject
    BY <1>0, <1>1, <2>1, <2>3, HandTakes
  <2>5. OnceEach'
    BY <1>0, <2>1, <2>2, <2>4 DEF OnceEach
  <2>6. old' \subseteq Pool!Range(temp')
    BY <1>0, <1>1, <2>2
  <2> QED BY <1>0, <2>2, <2>4, <2>5, <2>6, ListsKeep
<1>2. ASSUME NEW o \in Pool!Fresh, hand' = [hand EXCEPT ![u] = << o, "add" >>],
             UNCHANGED << temp, old >>
      PROVE  PoolInv'
  <2>1. o \in Objects /\ o \notin Pool!InHand /\ o \notin Pool!Range(container) \cup Pool!Range(temp)
    BY DEF Pool!Fresh
  <2>2. /\ hand' \in [Users -> (Objects \X {"add", "park"}) \cup {<< NoObject, "none" >>}]
        /\ Pool!InHand' = Pool!InHand \cup {o}
        /\ \A v, w \in Users : v # w /\ hand'[v][1] = hand'[w][1] => hand'[v][1] = NoObject
    BY <1>0, <1>2, <2>1, HandTakes
  <2>3. OnceEach'
    BY <1>0, <1>2, <2>1, <2>2 DEF OnceEach
  <2> QED BY <1>0, <1>2, <2>2, <2>3, ListsKeep
<1> QED BY <1>1, <1>2 DEF Pool!reuseObject

\* It is entered, if there is room.
LEMMA addObjectKeeps ==
    ASSUME Pool!PoolAssumption, PoolInv, NEW u \in Users, Pool!addObject(u)
    PROVE  PoolInv'
<1> DEFINE o == hand[u][1]
<1>0. /\ container \in Seq(Objects) /\ temp \in Seq(Objects) /\ Len(container) <= MaxObjectNum
      /\ old \subseteq Pool!Range(temp) /\ running \subseteq Objects
      /\ Pool!IsInjective(container) /\ Pool!IsInjective(temp)
      /\ Pool!Range(container) \cap Pool!Range(temp) = {}
      /\ Pool!InHand \cap (Pool!Range(container) \cup Pool!Range(temp)) = {}
      /\ UNCHANGED << status, waits, due, pc >> /\ UNCHANGED << temp, old, running >>
      /\ MaxObjectNum \in Nat
      /\ hand[u][2] # "none" /\ hand' = [hand EXCEPT ![u] = << NoObject, "none" >>]
      /\ container' = IF Len(container) < MaxObjectNum THEN Append(container, o) ELSE container
  BY DEF PoolInv, PoolKinds, OnceEach, Pool!addObject, Pool!timer, Pool!PoolAssumption
<1>1. /\ hand' \in [Users -> (Objects \X {"add", "park"}) \cup {<< NoObject, "none" >>}]
      /\ o \in Objects /\ o \in Pool!InHand
      /\ Pool!InHand' = Pool!InHand \ {o}
      /\ \A v, w \in Users : v # w /\ hand'[v][1] = hand'[w][1] => hand'[v][1] = NoObject
  BY <1>0, HandGives
<1>2. CASE Len(container) < MaxObjectNum
  <2>1. /\ container' \in Seq(Objects) /\ Len(container') = Len(container) + 1
        /\ Pool!Range(container') = Pool!Range(container) \cup {o}
        /\ Pool!IsInjective(container')
    BY <1>0, <1>1, <1>2, PoolAppend
  <2>2. OnceEach'
    BY <1>0, <1>1, <2>1 DEF OnceEach
  <2>3. Len(container') <= MaxObjectNum
    BY <1>0, <1>2, <2>1
  <2> QED BY <1>0, <1>1, <2>1, <2>2, <2>3, ListsKeep
<1>3. CASE ~(Len(container) < MaxObjectNum)
  <2>1. container' = container
    BY <1>0, <1>3
  <2>2. OnceEach'
    BY <1>0, <1>1, <2>1 DEF OnceEach
  <2> QED BY <1>0, <1>1, <2>1, <2>2, ListsKeep
<1> QED BY <1>2, <1>3

\* One that is released is looked for, and taken, in one step.
LEMMA releaseObjectKeeps ==
    ASSUME Pool!PoolAssumption, PoolInv, NEW u \in Users, NEW o \in Objects, Pool!releaseObject(u, o)
    PROVE  PoolInv'
<1>0. /\ container \in Seq(Objects) /\ temp \in Seq(Objects) /\ Len(container) <= MaxObjectNum
      /\ old \subseteq Pool!Range(temp) /\ running \subseteq Objects /\ MaxObjectNum \in Nat
      /\ Pool!IsInjective(container) /\ Pool!IsInjective(temp)
      /\ Pool!Range(container) \cap Pool!Range(temp) = {}
      /\ Pool!InHand \cap (Pool!Range(container) \cup Pool!Range(temp)) = {}
      /\ UNCHANGED << status, waits, due, pc >> /\ UNCHANGED << temp, old, running >>
      /\ hand[u][1] = NoObject /\ hand' = [hand EXCEPT ![u] = << o, "park" >>]
  BY DEF PoolInv, PoolKinds, OnceEach, Pool!releaseObject, Pool!timer, Pool!PoolAssumption
<1>1. PICK i \in DOMAIN container : container[i] = o /\ container' = Pool!RemoveAt(container, i)
  BY DEF Pool!releaseObject
<1>2. i \in 1..Len(container) /\ o \in Pool!Range(container) /\ o \notin Pool!InHand
  BY <1>0, <1>1 DEF Pool!Range
<1>3. /\ container' \in Seq(Objects) /\ Pool!IsInjective(container')
      /\ Len(container') = Len(container) - 1
      /\ Pool!Range(container') = Pool!Range(container) \ {o}
  BY <1>0, <1>1, <1>2, RemoveAtKeeps
<1>4. /\ hand' \in [Users -> (Objects \X {"add", "park"}) \cup {<< NoObject, "none" >>}]
      /\ Pool!InHand' = Pool!InHand \cup {o}
      /\ \A v, w \in Users : v # w /\ hand'[v][1] = hand'[w][1] => hand'[v][1] = NoObject
  BY <1>0, <1>2, HandTakes
<1>5. OnceEach'
  BY <1>0, <1>2, <1>3, <1>4 DEF OnceEach
<1>6. Len(container') <= MaxObjectNum
  BY <1>0, <1>3
<1> QED BY <1>0, <1>3, <1>4, <1>5, <1>6, ListsKeep

\* And goes to the end of the other list.
LEMMA parkKeeps ==
    ASSUME Pool!PoolAssumption, PoolInv, NEW u \in Users, Pool!park(u)
    PROVE  PoolInv'
<1> DEFINE o == hand[u][1]
<1>0. /\ container \in Seq(Objects) /\ temp \in Seq(Objects) /\ Len(container) <= MaxObjectNum
      /\ old \subseteq Pool!Range(temp) /\ running \subseteq Objects
      /\ Pool!IsInjective(container) /\ Pool!IsInjective(temp)
      /\ Pool!Range(container) \cap Pool!Range(temp) = {}
      /\ Pool!InHand \cap (Pool!Range(container) \cup Pool!Range(temp)) = {}
      /\ UNCHANGED << status, waits, due, pc >> /\ UNCHANGED << container, old, running >>
      /\ hand[u][2] # "none" /\ hand' = [hand EXCEPT ![u] = << NoObject, "none" >>]
      /\ temp' = Append(temp, o)
  BY DEF PoolInv, PoolKinds, OnceEach, Pool!park, Pool!timer
<1>1. /\ hand' \in [Users -> (Objects \X {"add", "park"}) \cup {<< NoObject, "none" >>}]
      /\ o \in Objects /\ o \in Pool!InHand
      /\ Pool!InHand' = Pool!InHand \ {o}
      /\ \A v, w \in Users : v # w /\ hand'[v][1] = hand'[w][1] => hand'[v][1] = NoObject
  BY <1>0, HandGives
<1>2. /\ temp' \in Seq(Objects) /\ Pool!Range(temp') = Pool!Range(temp) \cup {o}
      /\ Pool!IsInjective(temp')
  BY <1>0, <1>1, PoolAppend
<1>3. OnceEach'
  BY <1>0, <1>1, <1>2 DEF OnceEach
<1>4. old' \subseteq Pool!Range(temp')
  BY <1>0, <1>2
<1> QED BY <1>0, <1>1, <1>2, <1>3, <1>4, ListsKeep

\* Neither starting nor stopping nor time moves an object.
LEMMA RunsKeep ==
    ASSUME PoolInv, Pool!Age \/ (\E o \in Objects : Pool!Run(o) \/ Pool!Halt(o))
    PROVE  PoolInv'
<1>0. /\ UNCHANGED << status, waits, due, pc >> /\ UNCHANGED << container, temp, hand >>
      /\ container \in Seq(Objects) /\ temp \in Seq(Objects) /\ Len(container) <= MaxObjectNum
      /\ old \subseteq Pool!Range(temp) /\ running \subseteq Objects
      /\ hand \in [Users -> (Objects \X {"add", "park"}) \cup {<< NoObject, "none" >>}]
  BY DEF PoolInv, PoolKinds, Pool!Age, Pool!Run, Pool!Halt, Pool!timer
<1>1. old' \subseteq Pool!Range(temp) /\ running' \subseteq Objects
  <2>1. CASE Pool!Age
    <3>1. PICK i \in DOMAIN temp : old' = old \cup {temp[j] : j \in 1..i}
      BY <2>1 DEF Pool!Age
    <3>2. i \in 1..Len(temp) /\ DOMAIN temp = 1..Len(temp) /\ Len(temp) \in Nat
      BY <1>0, <3>1
    <3>3. {temp[j] : j \in 1..i} \subseteq Pool!Range(temp)
      BY <3>2 DEF Pool!Range
    <3> QED BY <1>0, <2>1, <3>1, <3>3 DEF Pool!Age
  <2> QED BY <1>0, <2>1 DEF Pool!Run, Pool!Halt
<1>2. Pool!InHand' = Pool!InHand
  BY <1>0 DEF Pool!InHand
<1>3. OnceEach'
  BY <1>0, <1>2 DEF PoolInv, OnceEach
<1>4. Pool!Range(temp') = Pool!Range(temp)
  BY <1>0
<1> QED BY <1>0, <1>1, <1>3, <1>4, ListsKeep

\* Every step is one of the above, or changes nothing.
LEMMA PoolNext == ASSUME Pool!PoolAssumption PROVE PoolInv /\ [Pool!Next]_poolVars => PoolInv'
<1> SUFFICES ASSUME PoolInv, [Pool!Next]_poolVars PROVE PoolInv'
  OBVIOUS
<1>1. App \in Pool!Threads /\ IoThreads \subseteq Pool!Threads
  BY DEF Pool!Threads
<1>2. CASE UNCHANGED poolVars
  <2>1. UNCHANGED << status, waits, due, pc >> /\ UNCHANGED << container, temp, old, running, hand >>
    BY <1>2 DEF poolVars
  <2>2. Pool!InHand' = Pool!InHand
    BY <2>1 DEF Pool!InHand
  <2>3. OnceEach'
    BY <2>1, <2>2 DEF PoolInv, OnceEach
  <2>4. Pool!Range(temp') = Pool!Range(temp)
    BY <2>1
  <2> QED BY <2>1, <2>3, <2>4, ListsKeep DEF PoolInv, PoolKinds
<1> QED
  BY <1>1, <1>2, timerKeeps, onTimerKeeps, reuseObjectKeeps, addObjectKeeps, releaseObjectKeeps,
     parkKeeps, RunsKeep DEF Pool!Next

\* What the invariant says of the two lists together.
LEMMA PoolImplies == ASSUME Pool!PoolAssumption, PoolInv PROVE OneHome
<1>0. /\ container \in Seq(Objects) /\ temp \in Seq(Objects)
      /\ Pool!IsInjective(container) /\ Pool!IsInjective(temp)
      /\ Pool!Range(container) \cap Pool!Range(temp) = {}
      /\ Pool!InHand \cap (Pool!Range(container) \cup Pool!Range(temp)) = {}
      /\ \A u, v \in Users : u # v /\ hand[u][1] = hand[v][1] => hand[u][1] = NoObject
  BY DEF PoolInv, PoolKinds, OnceEach
<1> DEFINE q == container \o temp
<1>1. /\ Len(container) \in Nat /\ Len(temp) \in Nat
      /\ DOMAIN container = 1..Len(container) /\ DOMAIN temp = 1..Len(temp)
      /\ DOMAIN q = 1..(Len(container) + Len(temp))
      /\ \A i \in DOMAIN q : q[i] = IF i <= Len(container) THEN container[i] ELSE temp[i - Len(container)]
  BY <1>0
<1> HIDE DEF q
<1>2. \A i \in DOMAIN q : \/ i \in DOMAIN container /\ q[i] = container[i]
                          \/ ~(i <= Len(container)) /\ i - Len(container) \in DOMAIN temp
                             /\ q[i] = temp[i - Len(container)]
  BY <1>1
<1>3. Pool!Range(q) \subseteq Pool!Range(container) \cup Pool!Range(temp)
  BY <1>2 DEF Pool!Range
<1>4. ASSUME NEW i \in DOMAIN q, NEW j \in DOMAIN q, q[i] = q[j] PROVE i = j
  <2>1. CASE i \in DOMAIN container /\ q[i] = container[i] /\ j \in DOMAIN container /\ q[j] = container[j]
    BY <1>0, <1>4, <2>1 DEF Pool!IsInjective
  <2>2. CASE /\ i - Len(container) \in DOMAIN temp /\ q[i] = temp[i - Len(container)]
             /\ j - Len(container) \in DOMAIN temp /\ q[j] = temp[j - Len(container)]
    <3>1. i - Len(container) = j - Len(container)
      BY <1>0, <1>4, <2>2 DEF Pool!IsInjective
    <3> QED BY <1>1, <3>1
  <2>3. ~(\E a \in DOMAIN container, b \in DOMAIN temp : container[a] = temp[b])
    BY <1>0 DEF Pool!Range
  <2> QED BY <1>2, <1>4, <2>1, <2>2, <2>3
<1>5. Pool!IsInjective(q)
  BY <1>4 DEF Pool!IsInjective
<1>6. Pool!TypeOK
  <2>1. waits \in 0..Cardinality(Pool!Threads)
    <3>1. Waiting \in SUBSET Pool!Threads
      BY DEF Waiting
    <3> QED BY <3>1, WaitingFinite DEF PoolInv, PoolKinds, WaitsBounded
  <2>2. Pool!Range(container) \cup Pool!Range(temp) \subseteq Objects
    BY <1>0 DEF Pool!Range
  <2> QED BY <2>1, <2>2, SameCount DEF PoolInv, PoolKinds, Pool!TypeOK
<1> QED BY <1>0, <1>3, <1>5, <1>6 DEF OneHome, Pool!OneHome, q

--------------------------------------------------------------------------------
(***************************************************************************)
(* XLog: one call at a time loses nothing.                                 *)
(***************************************************************************)
\* What is left of a call, by its steps: a flush, a flush before writeLog once more, a
\* text written at once, and one before which the file is flushed, as it is open.
F3 == << "openFile", "writeFile", "closeFile" >>
F2 == << "writeFile", "closeFile" >>
C1 == << "closeFile" >>
A4 == << "openFile", "writeFile", "closeFile", "again" >>
A3 == << "writeFile", "closeFile", "again" >>
A2 == << "closeFile", "again" >>
A1 == << "again" >>
W3 == << "openFile", "fwrite", "closeFile" >>
W2 == << "fwrite", "closeFile" >>
B6 == << "openFile", "writeFile", "closeFile", "openFile", "fwrite", "closeFile" >>
B5 == << "writeFile", "closeFile", "openFile", "fwrite", "closeFile" >>
B4 == << "closeFile", "openFile", "fwrite", "closeFile" >>

Texts == 1..Len(says)
AllTexts == file \o buffer
ToWrite == {A4, A3, A2, A1, W3, W2, B6, B5, B4}

LogKinds ==
    /\ util \in BOOLEAN /\ pLogFile \in BOOLEAN /\ raced \in BOOLEAN /\ mixed \in BOOLEAN
    /\ says \in Seq(Nat) /\ szText \in Nat /\ file \in Seq(Texts) /\ buffer \in Seq(Texts)
    /\ Len(buffer) < MaxLogBuffer
    /\ text \in [Users -> Nat]

\* What each thread is doing, and the text it has for that.
DoingOf(s, n) == s \in {<<>>, F3, F2, C1} \/ (s \in ToWrite /\ n \in Texts)
Doing == DOMAIN todo = Users /\ \A t \in Users : DoingOf(todo[t], text[t])

UtilSteps == {<<>>, W3, W2, C1, F3, F2}

\* XLogUtil: who has the mutex is the one with a call, and the buffer is not used.
Locked ==
    /\ mutex \in Users \cup {NoUser}
    /\ ~util => mutex = NoUser
    /\ util => /\ buffer = <<>>
               /\ \A t \in Users : todo[t] \in UtilSteps
               /\ \A t \in Users : todo[t] # <<>> <=> mutex = t

\* Where the texts are while a thread is alone with its call.
OneMore(n) == Append(AllTexts, n) = logged
WhereOf(s, n) ==
    \/ s = <<>> /\ ~pLogFile /\ AllTexts = logged
    \/ s = F3 /\ ~pLogFile /\ AllTexts = logged
    \/ s = F2 /\ pLogFile /\ AllTexts = logged
    \/ s = C1 /\ pLogFile /\ AllTexts = logged /\ buffer = <<>>
    \/ s = A4 /\ ~pLogFile /\ OneMore(n)
    \/ s = A3 /\ pLogFile /\ OneMore(n)
    \/ s = A2 /\ pLogFile /\ OneMore(n) /\ buffer = <<>>
    \/ s = A1 /\ ~pLogFile /\ OneMore(n) /\ buffer = <<>>
    \/ s = W3 /\ ~pLogFile /\ OneMore(n) /\ buffer = <<>>
    \/ s = W2 /\ pLogFile /\ OneMore(n) /\ buffer = <<>>
Alone(t) == \A u \in Users \ {t} : todo[u] = <<>>
InOrder == \/ ~Log!Busy /\ ~pLogFile /\ AllTexts = logged
           \/ \E t \in Users : Alone(t) /\ WhereOf(todo[t], text[t])

LogInv == LogKinds /\ Doing /\ Locked /\ (util \/ ~(raced \/ mixed) => InOrder)

\* A call, by its first step and what is left after it.
Steps(s, h, r) == s # <<>> /\ Head(s) = h /\ Tail(s) = r /\ (Len(s) = 1 <=> r = <<>>)
LEMMA StepsOf ==
    /\ Steps(F3, "openFile", F2) /\ Steps(F2, "writeFile", C1) /\ Steps(C1, "closeFile", <<>>)
    /\ Steps(A4, "openFile", A3) /\ Steps(A3, "writeFile", A2) /\ Steps(A2, "closeFile", A1)
    /\ Steps(A1, "again", <<>>)
    /\ Steps(W3, "openFile", W2) /\ Steps(W2, "fwrite", C1)
    /\ Steps(B6, "openFile", B5) /\ Steps(B5, "writeFile", B4) /\ Steps(B4, "closeFile", W3)
<1>1. Steps(F3, "openFile", F2) /\ Steps(F2, "writeFile", C1) /\ Steps(C1, "closeFile", <<>>)
  BY DEF Steps, F3, F2, C1
<1>2. Steps(A4, "openFile", A3) /\ Steps(A3, "writeFile", A2) /\ Steps(A2, "closeFile", A1)
  BY DEF Steps, A4, A3, A2, A1
<1>3. Steps(A1, "again", <<>>) /\ Steps(W3, "openFile", W2) /\ Steps(W2, "fwrite", C1)
  BY DEF Steps, A1, W3, W2, C1
<1>4. Steps(B6, "openFile", B5) /\ Steps(B5, "writeFile", B4) /\ Steps(B4, "closeFile", W3)
  BY DEF Steps, B6, B5, B4, W3
<1> QED BY <1>1, <1>2, <1>3, <1>4

\* The concatenation of three with up to three.
LEMMA Joined ==
    ASSUME NEW S, NEW a \in S, NEW b \in S, NEW c \in S, NEW q \in Seq(S)
    PROVE  /\ << a, b, c >> \o q \in Seq(S) /\ Len(<< a, b, c >> \o q) = 3 + Len(q)
           /\ \A i \in 1..(3 + Len(q)) : (<< a, b, c >> \o q)[i] = IF i <= 3 THEN << a, b, c >>[i] ELSE q[i - 3]
<1> DEFINE p == << a, b, c >>
<1>1. p \in Seq(S) /\ Len(p) = 3
  OBVIOUS
<1> HIDE DEF p
<1>2. /\ p \o q \in Seq(S) /\ Len(p \o q) = Len(p) + Len(q)
      /\ \A i \in 1..(Len(p) + Len(q)) : (p \o q)[i] = IF i <= Len(p) THEN p[i] ELSE q[i - Len(p)]
  BY <1>1, ConcatProperties
<1>3. /\ p \o q \in Seq(S) /\ Len(p \o q) = 3 + Len(q)
      /\ \A i \in 1..(3 + Len(q)) : (p \o q)[i] = IF i <= 3 THEN p[i] ELSE q[i - 3]
  BY <1>1, <1>2
<1> QED BY <1>3 DEF p

\* How the calls start.
LEMMA StartsWith ==
    /\ Log!Flush = F3 /\ Log!WriteToFile = W3 /\ <<>> \o Log!WriteToFile = W3
    /\ Log!Flush \o << "again" >> = A4 /\ Log!Flush \o Log!WriteToFile = B6
<1> DEFINE S == {"openFile", "writeFile", "closeFile", "fwrite", "again"}
<1>1. /\ "openFile" \in S /\ "writeFile" \in S /\ "closeFile" \in S
  OBVIOUS
<1>2. /\ << "openFile", "writeFile", "closeFile" >>[1] = "openFile"
      /\ << "openFile", "writeFile", "closeFile" >>[2] = "writeFile"
      /\ << "openFile", "writeFile", "closeFile" >>[3] = "closeFile"
  OBVIOUS
<1>3. << "openFile", "writeFile", "closeFile" >> \o << "again" >> = A4
  <2> DEFINE p == << "openFile", "writeFile", "closeFile" >> \o << "again" >>
             q == << "again" >>
  <2>1. /\ q \in Seq(S) /\ Len(q) = 1
        /\ q[1] = "again"
    OBVIOUS
  <2>2. /\ A4 \in Seq(S) /\ Len(A4) = 4
        /\ A4[1] = "openFile" /\ A4[2] = "writeFile" /\ A4[3] = "closeFile"
        /\ A4[4] = "again"
    BY DEF A4
  <2>3. /\ p \in Seq(S) /\ Len(p) = 3 + Len(q)
        /\ \A i \in 1..(3 + Len(q)) : p[i] = IF i <= 3 THEN << "openFile", "writeFile", "closeFile" >>[i] ELSE q[i - 3]
    BY <1>1, <2>1, Joined
  <2> HIDE DEF p, q
  <2>4. /\ p[1] = "openFile" /\ p[2] = "writeFile" /\ p[3] = "closeFile"
        /\ p[4] = "again"
    BY <1>2, <2>1, <2>3
  <2>5. \A i \in 1..4 : p[i] = A4[i]
    BY <2>2, <2>4
  <2>6. p = A4
    BY <2>1, <2>2, <2>3, <2>5
  <2> QED BY <2>6 DEF p
<1>4. << "openFile", "writeFile", "closeFile" >> \o << "openFile", "fwrite", "closeFile" >> = B6
  <2> DEFINE p == << "openFile", "writeFile", "closeFile" >> \o << "openFile", "fwrite", "closeFile" >>
             q == << "openFile", "fwrite", "closeFile" >>
  <2>1. /\ q \in Seq(S) /\ Len(q) = 3
        /\ q[1] = "openFile" /\ q[2] = "fwrite" /\ q[3] = "closeFile"
    OBVIOUS
  <2>2. /\ B6 \in Seq(S) /\ Len(B6) = 6
        /\ B6[1] = "openFile" /\ B6[2] = "writeFile" /\ B6[3] = "closeFile"
        /\ B6[4] = "openFile" /\ B6[5] = "fwrite" /\ B6[6] = "closeFile"
    BY DEF B6
  <2>3. /\ p \in Seq(S) /\ Len(p) = 3 + Len(q)
        /\ \A i \in 1..(3 + Len(q)) : p[i] = IF i <= 3 THEN << "openFile", "writeFile", "closeFile" >>[i] ELSE q[i - 3]
    BY <1>1, <2>1, Joined
  <2> HIDE DEF p, q
  <2>4. /\ p[1] = "openFile" /\ p[2] = "writeFile" /\ p[3] = "closeFile"
        /\ p[4] = "openFile" /\ p[5] = "fwrite" /\ p[6] = "closeFile"
    BY <1>2, <2>1, <2>3
  <2>5. \A i \in 1..6 : p[i] = B6[i]
    BY <2>2, <2>4
  <2>6. p = B6
    BY <2>1, <2>2, <2>3, <2>5
  <2> QED BY <2>6 DEF p
<1>5. <<>> \o << "openFile", "fwrite", "closeFile" >> = W3
  BY DEF W3
<1> QED BY <1>3, <1>4, <1>5, Zenon DEF Log!Flush, Log!WriteToFile, F3, W3

\* The lists of texts.
LEMMA TextLists ==
    ASSUME NEW S, NEW p \in Seq(S), NEW q \in Seq(S), NEW n \in S
    PROVE  /\ p \o <<>> = p /\ p \o q \in Seq(S)
           /\ Append(p, n) \in Seq(S)
           /\ p \o Append(q, n) = Append(p \o q, n)
           /\ Append(p, n) \o <<>> = Append(p, n)
           /\ Append(<<>>, n) \in Seq(S) /\ Len(Append(q, n)) = Len(q) + 1 /\ Len(q) \in Nat
OBVIOUS

\* More texts are still among the texts.
LEMMA MoreTexts ==
    ASSUME LogKinds, NEW m \in Nat, says' = Append(says, m)
    PROVE  /\ says' \in Seq(Nat) /\ Len(says) + 1 \in Texts' /\ Texts \subseteq Texts'
           /\ file \in Seq(Texts') /\ buffer \in Seq(Texts')
           /\ Len(says) + 1 \in Nat
<1>1. Len(says) \in Nat /\ Len(says') = Len(says) + 1 /\ says' \in Seq(Nat)
  BY DEF LogKinds
<1>2. Len(says) + 1 \in Texts' /\ Texts \subseteq Texts'
  BY <1>1 DEF Texts
<1>3. ASSUME NEW q \in Seq(Texts) PROVE q \in Seq(Texts')
  <2>1. \A i \in 1..Len(q) : q[i] \in Texts'
    BY <1>2
  <2> QED BY <2>1
<1> QED BY <1>1, <1>2, <1>3 DEF LogKinds

\* One thread goes on with its call, or starts one.
LEMMA DoingKeeps ==
    ASSUME Doing, Texts \subseteq Texts',
           NEW t \in Users, NEW s, NEW n, todo' = [todo EXCEPT ![t] = s],
           text'[t] = n, \A u \in Users \ {t} : text'[u] = text[u],
           DoingOf(s, n)'
    PROVE  Doing'
<1>1. DOMAIN todo' = Users /\ todo'[t] = s /\ \A u \in Users \ {t} : todo'[u] = todo[u]
  BY DEF Doing
<1>2. ASSUME NEW u \in Users PROVE DoingOf(todo[u], text[u])'
  <2>1. CASE u = t
    <3>1. todo'[u] = s /\ text'[u] = n
      BY <1>1, <2>1
    <3> QED BY <3>1 DEF DoingOf
  <2>2. CASE u # t
    <3>1. DoingOf(todo[u], text[u])
      BY DEF Doing
    <3> QED BY <1>1, <2>2, <3>1 DEF DoingOf
  <2> QED BY <2>1, <2>2
<1> QED BY <1>1, <1>2 DEF Doing, DoingOf

\* The texts are where the thread's call has them.
LEMMA OrderFrom ==
    ASSUME Doing, NEW t \in Users, Alone(t), NEW s, NEW n,
           todo' = [todo EXCEPT ![t] = s], text'[t] = n, WhereOf(s, n)'
    PROVE  InOrder'
<1>1. DOMAIN todo' = Users /\ todo'[t] = s /\ \A u \in Users \ {t} : todo'[u] = todo[u]
  BY DEF Doing
<1>2. Alone(t)'
  BY <1>1 DEF Alone
<1>3. WhereOf(todo[t], text[t])'
  BY <1>1 DEF WhereOf, OneMore, AllTexts
<1> QED BY <1>2, <1>3 DEF InOrder

\* A thread that has steps to do is the one alone; and one that has none starts alone, if
\* nobody is busy.
LEMMA WhoIsAlone ==
    ASSUME InOrder, NEW t \in Users
    PROVE  /\ todo[t] # <<>> => Alone(t) /\ WhereOf(todo[t], text[t])
           /\ ~Log!Busy => Alone(t) /\ ~pLogFile /\ AllTexts = logged
<1>1. ASSUME todo[t] # <<>> PROVE Alone(t) /\ WhereOf(todo[t], text[t])
  BY <1>1 DEF InOrder, Alone, Log!Busy
<1>2. ASSUME ~Log!Busy PROVE Alone(t) /\ ~pLogFile /\ AllTexts = logged
  <2>1. \A u \in Users : todo[u] = <<>>
    BY <1>2 DEF Log!Busy
  <2>2. CASE \E u \in Users : Alone(u) /\ WhereOf(todo[u], text[u])
    <3>1. PICK u \in Users : WhereOf(todo[u], text[u])
      BY <2>2
    <3>2. ~pLogFile /\ AllTexts = logged
      BY <2>1, <3>1, StepsOf DEF WhereOf, Steps
    <3> QED BY <2>1, <3>2 DEF Alone
  <2> QED BY <2>1, <2>2 DEF InOrder, Alone
<1> QED BY <1>1, <1>2

\* Nothing is logged, and nobody is busy.
LEMMA LogInit == ASSUME Log!LogAssumption, Log!Init PROVE LogInv
<1>1. /\ file = <<>> /\ buffer = <<>> /\ logged = <<>> /\ says = <<>> /\ szText = 0 /\ mutex = NoUser /\ util \in BOOLEAN
      /\ pLogFile = FALSE /\ raced = FALSE /\ mixed = FALSE
      /\ todo = [t \in Users |-> <<>>] /\ text = [t \in Users |-> 0]
  BY DEF Log!Init
<1>2. LogKinds
  <2>1. <<>> \in Seq(Nat) /\ <<>> \in Seq(Texts) /\ Len(<<>>) = 0 /\ 0 < MaxLogBuffer
    BY DEF Log!LogAssumption
  <2>2. text \in [Users -> Nat]
    BY <1>1
  <2> QED BY <1>1, <2>1, <2>2 DEF LogKinds
<1>3. Doing
  BY <1>1 DEF Doing, DoingOf
<1>4. Locked
  <2>1. <<>> \in UtilSteps
    BY DEF UtilSteps
  <2> QED BY <1>1, <2>1, NoUser \notin Users DEF Locked, Log!LogAssumption
<1>5. InOrder
  BY <1>1 DEF InOrder, Log!Busy, AllTexts
<1> QED BY <1>2, <1>3, <1>4, <1>5 DEF LogInv

\* A thread goes on with its call.
LEMMA GoesOn ==
    ASSUME LogInv, NEW t \in Users, todo[t] # <<>>, NEW s, todo' = [todo EXCEPT ![t] = s],
           UNCHANGED << util, text, says, raced, mixed >>, LogKinds', Locked',
           DoingOf(s, text[t]), WhereOf(todo[t], text[t]) => WhereOf(s, text[t])'
    PROVE  LogInv'
<1>1. Texts' = Texts
  BY DEF Texts
<1>2. Doing'
  <2>1. DoingOf(s, text[t])'
    BY <1>1 DEF DoingOf
  <2>2. PICK n : n = text[t]
    OBVIOUS
  <2>3. DoingOf(s, n)' /\ text'[t] = n
    BY <2>1, <2>2 DEF DoingOf
  <2> QED BY <1>1, <2>3, DoingKeeps DEF LogInv
<1>3. ASSUME util' \/ ~(raced' \/ mixed') PROVE InOrder'
  <2>1. Alone(t) /\ WhereOf(s, text[t])'
    BY <1>3, WhoIsAlone DEF LogInv
  <2>2. PICK n : n = text[t]
    OBVIOUS
  <2>3. WhereOf(s, n)' /\ text'[t] = n
    BY <2>1, <2>2 DEF WhereOf, OneMore
  <2> QED BY <2>1, <2>3, OrderFrom DEF LogInv
<1> QED BY <1>2, <1>3 DEF LogInv

\* And lets go of the mutex with the last step.
LEMMA LetsGo ==
    ASSUME Log!LogAssumption, LogInv, NEW t \in Users, todo[t] # <<>>, NEW s, Log!Left(t, s),
           util => s \in UtilSteps, util' = util, util => buffer' = <<>>
    PROVE  Locked'
<1>1. /\ todo' = [todo EXCEPT ![t] = s]
      /\ mutex' = IF mutex = t /\ s = <<>> THEN NoUser ELSE mutex
      /\ DOMAIN todo = Users
  BY DEF Log!Left, LogInv, Doing
<1>2. CASE ~util
  BY <1>1, <1>2, NoUser \notin Users DEF LogInv, Locked, Log!LogAssumption
<1>3. CASE util
  <2>0. (\A u \in Users : todo[u] \in UtilSteps) /\ (\A u \in Users : todo[u] # <<>> <=> mutex = u)
    BY <1>3, Zenon DEF LogInv, Locked
  <2>1. mutex = t
    BY <2>0
  <2>2. \A u \in Users \ {t} : todo'[u] = todo[u] /\ todo[u] = <<>>
    BY <1>1, <2>0, <2>1
  <2>3. todo'[t] = s
    BY <1>1
  <2>4. mutex' = IF s = <<>> THEN NoUser ELSE t
    BY <1>1, <2>1
  <2>5. \A u \in Users : todo'[u] \in UtilSteps /\ (todo'[u] # <<>> <=> mutex' = u)
    BY <1>3, <2>0, <2>2, <2>3, <2>4, NoUser \notin Users DEF Log!LogAssumption
  <2> QED BY <1>3, <2>4, <2>5 DEF Locked
<1> QED BY <1>2, <1>3

\* The next step's call, through XLogUtil.
LEMMA NextLocked ==
    ASSUME LogInv, NEW t \in Users, todo[t] # <<>>, util
    PROVE  Tail(todo[t]) \in UtilSteps
<1>1. todo[t] \in UtilSteps
  BY Zenon DEF LogInv, Locked
<1>2. todo[t] \in {W3, W2, C1, F3, F2}
  BY <1>1 DEF UtilSteps
<1> QED BY <1>2, StepsOf DEF Steps, UtilSteps

\* Which calls a step is one of.
LEMMA HeadOf ==
    ASSUME LogInv, NEW t \in Users, todo[t] # <<>>
    PROVE  /\ Head(todo[t]) = "openFile" => todo[t] \in {F3, A4, W3, B6}
           /\ Head(todo[t]) = "writeFile" => todo[t] \in {F2, A3, B5}
           /\ Head(todo[t]) = "fwrite" => todo[t] = W2
           /\ Head(todo[t]) = "closeFile" => todo[t] \in {C1, A2, B4}
           /\ Head(todo[t]) = "again" => todo[t] = A1
           /\ Steps(todo[t], Head(todo[t]), Tail(todo[t]))
           /\ DoingOf(todo[t], text[t])
<1>1. DoingOf(todo[t], text[t])
  BY DEF LogInv, Doing
<1>2. todo[t] \in {F3, F2, C1, A4, A3, A2, A1, W3, W2, B6, B5, B4}
  BY <1>1 DEF DoingOf, ToWrite
<1> QED BY <1>1, <1>2, StepsOf DEF Steps

\* openFile: the file is open for the step after.
LEMMA openFileKeeps ==
    ASSUME Log!LogAssumption, LogInv, NEW t \in Users, Log!openFile(t) PROVE LogInv'
<1>1. /\ todo[t] # <<>> /\ Head(todo[t]) = "openFile" /\ pLogFile' = TRUE /\ Log!Next1(t)
      /\ UNCHANGED << util, buffer, file, text, says, szText, logged, raced, mixed >>
  BY DEF Log!openFile
<1>2. PICK s : s = Tail(todo[t])
  OBVIOUS
<1>3. PICK n : n = text[t]
  OBVIOUS
<1>4. todo[t] \in {F3, A4, W3, B6} /\ Steps(todo[t], "openFile", s) /\ DoingOf(todo[t], n)
  BY <1>1, <1>2, <1>3, HeadOf
<1>5. LogKinds'
  BY <1>1 DEF LogInv, LogKinds, Texts
<1>6. Locked'
  <2>1. Log!Left(t, s) /\ (util => s \in UtilSteps)
    BY <1>1, <1>2, NextLocked DEF Log!Next1
  <2> QED BY <1>1, <1>2, <1>4, <2>1, LetsGo DEF LogInv, Locked
<1>7. DoingOf(s, n)
  BY <1>4, StepsOf DEF DoingOf, ToWrite, Steps
<1>8. ASSUME WhereOf(todo[t], n) PROVE WhereOf(s, n)'
  <2>1. \/ s = F2 /\ AllTexts = logged
        \/ s = A3 /\ OneMore(n)
        \/ s = W2 /\ OneMore(n) /\ buffer = <<>>
    <3>1. s = Tail(todo[t]) /\ Head(todo[t]) = "openFile" /\ todo[t] # <<>>
      BY <1>1, <1>2
    <3> QED BY <1>8, <3>1, StepsOf DEF WhereOf, Steps
  <2> QED BY <1>1, <2>1 DEF WhereOf, OneMore, AllTexts
<1>9. todo' = [todo EXCEPT ![t] = s]
  BY <1>1, <1>2 DEF Log!Next1, Log!Left
<1> QED BY <1>1, <1>3, <1>5, <1>6, <1>7, <1>8, <1>9, GoesOn

\* The text that is given up is the last.
LEMMA FrontBack ==
    ASSUME NEW S, NEW q \in Seq(S), NEW n \in S
    PROVE  Log!Front(Append(q, n)) = q
<1>1. /\ Append(q, n) \in Seq(S) /\ Len(Append(q, n)) = Len(q) + 1 /\ Len(q) \in Nat
      /\ \A i \in 1..Len(q) : Append(q, n)[i] = q[i]
  OBVIOUS
<1>2. PICK p \in Seq(S) : p = Append(q, n)
  BY <1>1
<1>3. Len(p) - 1 = Len(q) /\ \A i \in 1..Len(q) : p[i] = q[i]
  BY <1>1, <1>2
<1>4. SubSeq(p, 1, Len(q)) = q
  BY <1>1, <1>2, <1>3
<1> QED BY <1>2, <1>3, <1>4 DEF Log!Front

\* Calls that begin by opening the file are told apart by what follows.
LEMMA Apart ==
    F3 # A4 /\ F3 # W3 /\ F3 # B6 /\ A4 # W3 /\ A4 # B6 /\ W3 # B6
    /\ B6 \notin {<<>>, F3, F2, C1, A4, A3, A2, A1, W3, W2}
<1>1. /\ Len(F3) = 3 /\ Len(A4) = 4 /\ Len(W3) = 3 /\ Len(B6) = 6
      /\ F3[2] = "writeFile" /\ W3[2] = "fwrite"
  BY DEF F3, A4, W3, B6
<1>2. Len(F2) = 2 /\ Len(C1) = 1 /\ Len(A3) = 3 /\ Len(A2) = 2 /\ Len(A1) = 1 /\ Len(W2) = 2 /\ Len(<<>>) = 0
  BY DEF F2, C1, A3, A2, A1, W2
<1>3. F3 # A4 /\ F3 # B6 /\ A4 # W3 /\ A4 # B6 /\ W3 # B6
  BY <1>1
<1>4. F3 # W3
  BY <1>1
<1>5. B6 # <<>>
  BY DEF B6
<1>5a. B6 # F3 /\ B6 # F2 /\ B6 # C1 /\ B6 # A4
  BY <1>1, <1>2
<1>6. B6 # A3 /\ B6 # A2 /\ B6 # A1 /\ B6 # W3 /\ B6 # W2
  BY <1>1, <1>2
<1> QED BY <1>3, <1>4, <1>5, <1>5a, <1>6

\* A call with a text to write is not one of the flushes.
LEMMA OpenersApart == A4 \notin {<<>>, F3, F2, C1} /\ W3 \notin {<<>>, F3, F2, C1}
<1>1. A4 # F3 /\ W3 # F3
  BY Apart
<1>2. Len(A4) = 4 /\ Len(W3) = 3 /\ Len(F2) = 2 /\ Len(C1) = 1 /\ Len(<<>>) = 0
  BY DEF A4, W3, F2, C1
<1> QED BY <1>1, <1>2

\* fopen_s fails: the call is over, or goes on to write its text at once.
LEMMA openFailsKeeps ==
    ASSUME Log!LogAssumption, LogInv, NEW t \in Users, Log!openFails(t) PROVE LogInv'
<1>1. /\ todo[t] # <<>> /\ Head(todo[t]) = "openFile" /\ pLogFile' = FALSE
      /\ UNCHANGED << util, buffer, file, text, says, szText, raced, mixed >>
  BY DEF Log!openFails
<1>2. PICK s : s = IF todo[t] = B6 THEN W3 ELSE <<>>
  OBVIOUS
<1>3. PICK n : n = text[t]
  OBVIOUS
<1>4. todo[t] \in {F3, A4, W3, B6} /\ DoingOf(todo[t], n)
  BY <1>1, <1>3, HeadOf
<1>5. Log!Left(t, s) /\ logged' = IF todo[t] \in {W3, A4} THEN Log!Front(logged) ELSE logged
  BY <1>2, StartsWith DEF Log!openFails
<1>6. LogKinds'
  BY <1>1 DEF LogInv, LogKinds, Texts
<1>7. util => buffer' = <<>>
  BY <1>1 DEF LogInv, Locked
<1>8. Locked'
  <2>1. util => s \in UtilSteps
    BY <1>2 DEF UtilSteps
  <2> QED BY <1>1, <1>5, <1>7, <2>1, LetsGo
<1>9. DoingOf(s, n)
  BY <1>2, <1>4, Apart DEF DoingOf, ToWrite
<1>10. ASSUME WhereOf(todo[t], n) PROVE WhereOf(s, n)'
  <2>1. todo[t] # B6 /\ s = <<>>
    BY <1>2, <1>10, Apart DEF WhereOf
  <2>2. CASE todo[t] = F3
    <3>1. AllTexts = logged
      BY <1>1, <1>10, <2>2, StepsOf, Apart DEF WhereOf, Steps
    <3>2. AllTexts' = logged'
      BY <1>1, <1>5, <2>2, <3>1, Apart DEF AllTexts
    <3> QED BY <1>1, <2>1, <3>2 DEF WhereOf
  <2>3. CASE todo[t] \in {W3, A4}
    <3>1. OneMore(n)
      BY <1>1, <1>10, <2>3, StepsOf, Apart DEF WhereOf, Steps
    <3>2. AllTexts \in Seq(Texts) /\ n \in Texts
      <4>1. todo[t] \notin {<<>>, F3, F2, C1}
        BY <2>3, OpenersApart
      <4>2. n \in Texts
        BY <1>4, <4>1 DEF DoingOf
      <4> QED BY <4>2, TextLists DEF AllTexts, LogInv, LogKinds
    <3>3. Log!Front(Append(AllTexts, n)) = AllTexts
      <4> HIDE DEF AllTexts, Texts
      <4> QED BY <3>2, FrontBack
    <3>4. AllTexts' = logged'
      BY <1>1, <1>5, <2>3, <3>1, <3>3 DEF OneMore, AllTexts
    <3> QED BY <1>1, <2>1, <3>4 DEF WhereOf
  <2> QED BY <1>4, <2>1, <2>2, <2>3
<1>11. todo' = [todo EXCEPT ![t] = s]
  BY <1>5 DEF Log!Left
<1> QED BY <1>1, <1>3, <1>6, <1>8, <1>9, <1>10, <1>11, GoesOn

\* writeFile: what was in the buffer is in the file, which is open if nobody interferes.
LEMMA writeFileKeeps ==
    ASSUME Log!LogAssumption, LogInv, NEW t \in Users, Log!writeFile(t) PROVE LogInv'
<1>1. /\ todo[t] # <<>> /\ Head(todo[t]) = "writeFile" /\ Log!Next1(t)
      /\ IF pLogFile THEN file' = file \o buffer /\ buffer' = <<>> ELSE UNCHANGED << file, buffer >>
      /\ UNCHANGED << util, pLogFile, text, says, szText, logged, raced, mixed >>
  BY DEF Log!writeFile
<1>2. PICK s : s = Tail(todo[t])
  OBVIOUS
<1>3. PICK n : n = text[t]
  OBVIOUS
<1>4. todo[t] \in {F2, A3, B5} /\ Steps(todo[t], "writeFile", s) /\ DoingOf(todo[t], n)
  BY <1>1, <1>2, <1>3, HeadOf
<1>5. LogKinds' /\ (util => buffer' = <<>>)
  <2>1. /\ file \in Seq(Texts) /\ buffer \in Seq(Texts) /\ Texts' = Texts
        /\ Len(<<>>) = 0 /\ 0 < MaxLogBuffer /\ <<>> \in Seq(Texts)
    BY <1>1 DEF LogInv, LogKinds, Texts, Log!LogAssumption
  <2>2. file \o buffer \in Seq(Texts)
    BY <2>1
  <2>3. file' \in Seq(Texts) /\ buffer' \in Seq(Texts) /\ Len(buffer') < MaxLogBuffer
    BY <1>1, <2>1, <2>2 DEF LogInv, LogKinds
  <2> QED BY <1>1, <2>1, <2>3 DEF LogInv, LogKinds, Locked
<1>6. Locked'
  <2>1. Log!Left(t, s) /\ (util => s \in UtilSteps)
    BY <1>1, <1>2, NextLocked DEF Log!Next1
  <2> QED BY <1>1, <1>2, <1>4, <1>5, <2>1, LetsGo DEF LogInv, Locked
<1>7. DoingOf(s, n)
  BY <1>4, StepsOf DEF DoingOf, ToWrite, Steps
<1>8. ASSUME WhereOf(todo[t], n) PROVE WhereOf(s, n)'
  <2>1. \/ s = C1 /\ AllTexts = logged
        \/ s = A2 /\ OneMore(n)
    <3>1. s = Tail(todo[t]) /\ Head(todo[t]) = "writeFile" /\ todo[t] # <<>>
      BY <1>1, <1>2
    <3> QED BY <1>8, <3>1, StepsOf DEF WhereOf, Steps
  <2>2. pLogFile
    <3>1. Head(todo[t]) = "writeFile" /\ todo[t] # <<>>
      BY <1>1
    <3> QED BY <1>8, <3>1, StepsOf DEF WhereOf, Steps
  <2>3. file' = AllTexts /\ buffer' = <<>> /\ pLogFile' /\ logged' = logged
    BY <1>1, <2>2 DEF AllTexts
  <2>4. AllTexts' = AllTexts
    <3>1. AllTexts \in Seq(Texts)
      BY TextLists DEF AllTexts, LogInv, LogKinds
    <3>2. AllTexts \o <<>> = AllTexts
      BY <3>1, TextLists, ConcatEmptySeq
    <3> QED BY <2>3, <3>2 DEF AllTexts
  <2> QED BY <2>1, <2>3, <2>4 DEF WhereOf, OneMore
<1>9. todo' = [todo EXCEPT ![t] = s]
  BY <1>1, <1>2 DEF Log!Next1, Log!Left
<1> QED BY <1>1, <1>3, <1>5, <1>6, <1>7, <1>8, <1>9, GoesOn

\* fwrite: the text is written at once, the buffer being empty if nobody interferes.
LEMMA fwriteKeeps ==
    ASSUME Log!LogAssumption, LogInv, NEW t \in Users, Log!fwrite(t) PROVE LogInv'
<1>1. /\ todo[t] # <<>> /\ Head(todo[t]) = "fwrite" /\ Log!Next1(t)
      /\ pLogFile /\ file' = Append(file, text[t])
      /\ UNCHANGED << util, pLogFile, buffer, text, says, szText, logged, raced, mixed >>
  BY DEF Log!fwrite
<1>2. PICK s : s = Tail(todo[t])
  OBVIOUS
<1>3. PICK n : n = text[t]
  OBVIOUS
<1>4. todo[t] \in {W2} /\ Steps(todo[t], "fwrite", s) /\ DoingOf(todo[t], n)
  BY <1>1, <1>2, <1>3, HeadOf
<1>5. LogKinds' /\ (util => buffer' = <<>>)
  <2>1. file \in Seq(Texts) /\ text[t] \in Texts /\ Texts' = Texts
    BY <1>1, <1>3, <1>4, StepsOf DEF LogInv, LogKinds, Texts, DoingOf, ToWrite, Steps
  <2>2. file' \in Seq(Texts)
    BY <1>1, <2>1, TextLists
  <2> QED BY <1>1, <2>1, <2>2 DEF LogInv, LogKinds, Locked
<1>6. Locked'
  <2>1. Log!Left(t, s) /\ (util => s \in UtilSteps)
    BY <1>1, <1>2, NextLocked DEF Log!Next1
  <2> QED BY <1>1, <1>2, <1>4, <1>5, <2>1, LetsGo DEF LogInv, Locked
<1>7. DoingOf(s, n)
  BY <1>4, StepsOf DEF DoingOf, ToWrite, Steps
<1>8. ASSUME WhereOf(todo[t], n) PROVE WhereOf(s, n)'
  <2>1. s = C1 /\ OneMore(n) /\ buffer = <<>>
    <3>1. s = Tail(todo[t]) /\ Head(todo[t]) = "fwrite" /\ todo[t] # <<>>
      BY <1>1, <1>2
    <3> QED BY <1>8, <3>1, StepsOf DEF WhereOf, Steps
  <2>2. file \in Seq(Texts) /\ n \in Texts
    BY <1>4, StepsOf DEF LogInv, LogKinds, DoingOf, ToWrite, Steps
  <2>3. AllTexts = file /\ Append(file, n) \o <<>> = Append(file, n)
    BY <2>1, <2>2, TextLists, ConcatEmptySeq DEF AllTexts
  <2>4. file' = Append(file, n) /\ buffer' = <<>> /\ pLogFile' /\ logged' = logged
    BY <1>1, <1>3, <2>1
  <2>5. AllTexts' = logged'
    BY <2>1, <2>3, <2>4 DEF AllTexts, OneMore
  <2> QED BY <2>1, <2>4, <2>5 DEF WhereOf
<1>9. todo' = [todo EXCEPT ![t] = s]
  BY <1>1, <1>2 DEF Log!Next1, Log!Left
<1> QED BY <1>1, <1>3, <1>5, <1>6, <1>7, <1>8, <1>9, GoesOn

\* closeFile: the buffer is empty already if nobody interferes.
LEMMA closeFileKeeps ==
    ASSUME Log!LogAssumption, LogInv, NEW t \in Users, Log!closeFile(t) PROVE LogInv'
<1>1. /\ todo[t] # <<>> /\ Head(todo[t]) = "closeFile" /\ Log!Next1(t)
      /\ IF pLogFile THEN pLogFile' = FALSE /\ buffer' = <<>> ELSE UNCHANGED << pLogFile, buffer >>
      /\ UNCHANGED << util, file, text, says, szText, logged, raced, mixed >>
  BY DEF Log!closeFile
<1>2. PICK s : s = Tail(todo[t])
  OBVIOUS
<1>3. PICK n : n = text[t]
  OBVIOUS
<1>4. todo[t] \in {C1, A2, B4} /\ Steps(todo[t], "closeFile", s) /\ DoingOf(todo[t], n)
  BY <1>1, <1>2, <1>3, HeadOf
<1>5. LogKinds' /\ (util => buffer' = <<>>)
  <2>1. Texts' = Texts /\ Len(<<>>) = 0 /\ 0 < MaxLogBuffer /\ <<>> \in Seq(Texts)
    BY <1>1 DEF LogInv, LogKinds, Texts, Log!LogAssumption
  <2>2. buffer' \in Seq(Texts) /\ Len(buffer') < MaxLogBuffer /\ pLogFile' \in BOOLEAN
    BY <1>1, <2>1 DEF LogInv, LogKinds
  <2> QED BY <1>1, <2>1, <2>2 DEF LogInv, LogKinds, Locked
<1>6. Locked'
  <2>1. Log!Left(t, s) /\ (util => s \in UtilSteps)
    BY <1>1, <1>2, NextLocked DEF Log!Next1
  <2> QED BY <1>1, <1>2, <1>4, <1>5, <2>1, LetsGo DEF LogInv, Locked
<1>7. DoingOf(s, n)
  BY <1>4, StepsOf DEF DoingOf, ToWrite, Steps
<1>8. ASSUME WhereOf(todo[t], n) PROVE WhereOf(s, n)'
  <2>1. pLogFile /\ buffer = <<>> /\ ((s = <<>> /\ AllTexts = logged) \/ (s = A1 /\ OneMore(n)))
    <3>1. s = Tail(todo[t]) /\ Head(todo[t]) = "closeFile" /\ todo[t] # <<>>
      BY <1>1, <1>2
    <3>2. \/ todo[t] = C1 /\ pLogFile /\ AllTexts = logged /\ buffer = <<>>
          \/ todo[t] = A2 /\ pLogFile /\ OneMore(n) /\ buffer = <<>>
      BY <1>8, <3>1, StepsOf DEF WhereOf, Steps
    <3> QED BY <3>1, <3>2, StepsOf DEF Steps
  <2>2. /\ pLogFile' = FALSE /\ buffer' = buffer /\ file' = file /\ logged' = logged
    BY <1>1, <2>1
  <2> QED BY <2>1, <2>2 DEF WhereOf, OneMore, AllTexts
<1>9. todo' = [todo EXCEPT ![t] = s]
  BY <1>1, <1>2 DEF Log!Next1, Log!Left
<1> QED BY <1>1, <1>3, <1>5, <1>6, <1>7, <1>8, <1>9, GoesOn

\* writeLog once more: into the buffer, or another flush first.
LEMMA againKeeps ==
    ASSUME Log!LogAssumption, LogInv, NEW t \in Users, Log!again(t) PROVE LogInv'
<1>1. /\ todo[t] = A1
      /\ UNCHANGED << util, mutex, pLogFile, file, text, says, szText, logged, raced, mixed >>
  BY DEF Log!again, A1
<1>2. PICK n : n = text[t]
  OBVIOUS
<1>3. n \in Texts
  BY <1>1, <1>2, StepsOf DEF LogInv, Doing, DoingOf, ToWrite, Steps
<1>4. ~util
  <2>1. util => A1 \in UtilSteps
    BY <1>1, Zenon DEF LogInv, Locked
  <2>2. /\ Len(A1) = 1 /\ A1[1] = "again" /\ Len(C1) = 1 /\ C1[1] = "closeFile" /\ Len(<<>>) = 0
        /\ Len(W3) = 3 /\ Len(W2) = 2 /\ Len(F3) = 3 /\ Len(F2) = 2
    BY DEF A1, C1, W3, W2, F3, F2
  <2>3. A1 \notin UtilSteps
    BY <2>2 DEF UtilSteps
  <2> QED BY <2>1, <2>3
<1>5. Locked'
  BY <1>1, <1>4 DEF LogInv, Locked
<1>6. Texts' = Texts /\ todo[t] # <<>>
  BY <1>1, StepsOf DEF Texts, Steps
<1>7. CASE /\ buffer = <<>> /\ Log!HasRoom /\ buffer' = Append(buffer, n)
           /\ todo' = [todo EXCEPT ![t] = <<>>]
  <2>1. buffer' \in Seq(Texts) /\ Len(buffer') < MaxLogBuffer
    <3>1. buffer \in Seq(Texts)
      BY DEF LogInv, LogKinds
    <3>2. buffer' \in Seq(Texts) /\ Len(buffer') = Len(buffer) + 1
      BY <1>3, <1>7, <3>1, TextLists
    <3> QED BY <1>7, <3>2 DEF Log!HasRoom
  <2>2. LogKinds'
    BY <1>1, <1>6, <2>1 DEF LogInv, LogKinds
  <2>3. ASSUME WhereOf(todo[t], n) PROVE WhereOf(<<>>, n)'
    <3>1. ~pLogFile /\ OneMore(n)
      BY <1>1, <2>3, StepsOf DEF WhereOf, Steps
    <3>2. file \o Append(buffer, n) = Append(file \o buffer, n)
      BY <1>3, TextLists DEF LogInv, LogKinds
    <3> QED BY <1>1, <1>7, <3>1, <3>2 DEF WhereOf, OneMore, AllTexts
  <2>4. DoingOf(<<>>, n)
    BY DEF DoingOf
  <2> QED BY <1>1, <1>2, <1>5, <1>6, <1>7, <2>2, <2>3, <2>4, GoesOn
<1>8. CASE buffer # <<>> /\ buffer' = buffer /\ todo' = [todo EXCEPT ![t] = <<>>]
  <2>1. LogKinds'
    BY <1>1, <1>6, <1>8 DEF LogInv, LogKinds
  <2>2. ~WhereOf(todo[t], n)
    BY <1>1, <1>8, StepsOf DEF WhereOf, Steps
  <2>3. DoingOf(<<>>, n)
    BY DEF DoingOf
  <2> QED BY <1>1, <1>2, <1>5, <1>6, <1>8, <2>1, <2>2, <2>3, GoesOn
<1>9. CASE buffer' = buffer /\ todo' = [todo EXCEPT ![t] = A4]
  <2>1. LogKinds'
    BY <1>1, <1>6, <1>9 DEF LogInv, LogKinds
  <2>2. ASSUME WhereOf(todo[t], n) PROVE WhereOf(A4, n)'
    <3>1. ~pLogFile /\ OneMore(n)
      BY <1>1, <2>2, StepsOf DEF WhereOf, Steps
    <3> QED BY <1>1, <1>9, <3>1 DEF WhereOf, OneMore, AllTexts
  <2>3. DoingOf(A4, n)
    BY <1>3 DEF DoingOf, ToWrite
  <2> QED BY <1>1, <1>2, <1>5, <1>6, <1>9, <2>1, <2>2, <2>3, GoesOn
<1> QED BY <1>2, <1>7, <1>8, <1>9, StartsWith DEF Log!again, Log!Keep, Log!Put

\* A thread starts to log a text.
LEMMA Begins ==
    ASSUME LogInv, NEW t \in Users, NEW m \in Nat, Log!Begin(t, m), NEW s, todo' = [todo EXCEPT ![t] = s],
           NEW k, k = Len(says) + 1, szText' \in Nat, Locked',
           buffer' \in Seq(Texts'), Len(buffer') < MaxLogBuffer,
           mixed' \in BOOLEAN, mixed => mixed', util => ~Log!Busy,
           DoingOf(s, k)',
           ~pLogFile /\ AllTexts = logged /\ (util \/ ~mixed') => WhereOf(s, k)'
    PROVE  LogInv'
<1>1. /\ text' = [text EXCEPT ![t] = k] /\ logged' = Append(logged, k) /\ says' = Append(says, m)
      /\ raced' = (raced \/ Log!Busy) /\ UNCHANGED << util, pLogFile, file >>
  BY DEF Log!Begin
<1>2. /\ says' \in Seq(Nat) /\ k \in Texts' /\ Texts \subseteq Texts' /\ k \in Nat
      /\ file \in Seq(Texts')
  BY <1>1, MoreTexts DEF LogInv
<1>3. text \in [Users -> Nat]
  BY DEF LogInv, LogKinds
<1>4. text'[t] = k /\ (\A u \in Users \ {t} : text'[u] = text[u]) /\ text' \in [Users -> Nat]
  BY <1>1, <1>2, <1>3
<1>5. LogKinds'
  BY <1>1, <1>2, <1>4 DEF LogInv, LogKinds
<1>6. Doing'
  BY <1>2, <1>4, DoingKeeps DEF LogInv
<1>7. ASSUME util' \/ ~(raced' \/ mixed') PROVE InOrder'
  <2>1. (util \/ ~(raced \/ mixed)) /\ ~Log!Busy /\ (util \/ ~mixed')
    BY <1>1, <1>7 DEF LogInv, LogKinds
  <2>2. Alone(t) /\ ~pLogFile /\ AllTexts = logged
    BY <2>1, WhoIsAlone DEF LogInv
  <2> QED BY <1>4, <2>1, <2>2, OrderFrom DEF LogInv
<1> QED BY <1>5, <1>6, <1>7 DEF LogInv

\* Where the new text is: in the buffer, or still with the call.
LEMMA OneMoreNow ==
    ASSUME LogInv, NEW m \in Nat, says' = Append(says, m), NEW k, k = Len(says) + 1,
           logged' = Append(logged, k), UNCHANGED file,
           AllTexts = logged
    PROVE  /\ buffer' = buffer => OneMore(k)'
           /\ buffer' = Append(buffer, k) => AllTexts' = logged'
<1>1. ASSUME buffer' = buffer PROVE OneMore(k)'
  BY <1>1 DEF OneMore, AllTexts
<1>2. ASSUME buffer' = Append(buffer, k) PROVE AllTexts' = logged'
  <2>1. file \in Seq(Texts') /\ buffer \in Seq(Texts') /\ k \in Texts'
    BY MoreTexts DEF LogInv
  <2>2. file \o Append(buffer, k) = Append(file \o buffer, k)
    BY <2>1, TextLists
  <2> QED BY <1>2, <2>2 DEF AllTexts
<1> QED BY <1>1, <1>2

\* writeLog, into the buffer or by a flush first.
LEMMA writeLogKeeps ==
    ASSUME LogInv, NEW t \in Users, Log!writeLog(t) PROVE LogInv'
<1>1. /\ ~util /\ UNCHANGED << mutex, szText, mixed >>
      /\ UNCHANGED << util, pLogFile, file >>
  BY DEF Log!writeLog, Log!Begin
<1>2. PICK k \in Nat : /\ k = Len(says) + 1 /\ Log!Begin(t, k)
                       /\ logged' = Append(logged, k) /\ says' = Append(says, k) /\ szText' \in Nat
  <2>1. Len(says) + 1 \in Nat /\ szText' \in Nat
    BY <1>1 DEF LogInv, LogKinds
  <2> QED BY <2>1 DEF Log!writeLog, Log!Begin
<1>3. Locked'
  BY <1>1 DEF LogInv, Locked
<1>4. /\ k \in Texts' /\ buffer \in Seq(Texts') /\ Len(buffer) < MaxLogBuffer
      /\ mixed' \in BOOLEAN /\ (mixed => mixed')
  BY <1>1, <1>2, MoreTexts DEF LogInv, LogKinds
<1>5. CASE /\ Log!HasRoom /\ buffer' = Append(buffer, k) /\ todo' = [todo EXCEPT ![t] = <<>>]
  <2>1. buffer' \in Seq(Texts') /\ Len(buffer') = Len(buffer) + 1
    BY <1>4, <1>5, TextLists
  <2>2. Len(buffer') < MaxLogBuffer
    BY <1>5, <2>1 DEF Log!HasRoom
  <2>3. DoingOf(<<>>, k)'
    BY DEF DoingOf
  <2>4. ~pLogFile /\ AllTexts = logged => WhereOf(<<>>, k)'
    BY <1>1, <1>2, <1>5, OneMoreNow DEF WhereOf
  <2> QED BY <1>1, <1>2, <1>3, <1>4, <1>5, <2>1, <2>2, <2>3, <2>4, Begins
<1>6. CASE buffer' = buffer /\ todo' = [todo EXCEPT ![t] = A4]
  <2>1. DoingOf(A4, k)'
    BY <1>4 DEF DoingOf, ToWrite
  <2>2. ~pLogFile /\ AllTexts = logged => WhereOf(A4, k)'
    BY <1>1, <1>2, <1>6, OneMoreNow DEF WhereOf
  <2> QED BY <1>1, <1>2, <1>3, <1>4, <1>6, <2>1, <2>2, Begins
<1> QED BY <1>2, <1>5, <1>6, StartsWith DEF Log!writeLog, Log!Keep, Log!Put

\* A call that writes at once, alone with the mutex if through XLogUtil.
LEMMA AtOnceKeeps ==
    ASSUME Log!LogAssumption, LogInv, NEW t \in Users, NEW m \in Nat, Log!Begin(t, m),
           szText' \in Nat, Log!AtOnce(t)
    PROVE  LogInv'
<1>1. /\ todo[t] = <<>> /\ Log!lock(t)
      /\ mixed' = (mixed \/ buffer # <<>>) /\ UNCHANGED buffer
      /\ says' = Append(says, m)
      /\ logged' = Append(logged, Len(says) + 1) /\ UNCHANGED << util, pLogFile, file >>
  BY DEF Log!AtOnce, Log!Begin, Log!Put
<1>2. PICK k : k = Len(says) + 1
  OBVIOUS
<1>3. /\ k \in Texts' /\ buffer' \in Seq(Texts') /\ Len(buffer') < MaxLogBuffer
      /\ mixed' \in BOOLEAN /\ (mixed => mixed')
  BY <1>1, <1>2, MoreTexts DEF LogInv, LogKinds
<1>4. util => mutex = NoUser /\ mutex' = t /\ ~Log!Busy /\ ~pLogFile /\ buffer = <<>>
  <2>1. ASSUME util PROVE mutex = NoUser /\ mutex' = t /\ buffer = <<>>
    BY <1>1, <2>1 DEF Log!lock, LogInv, Locked
  <2>2. ASSUME util PROVE ~Log!Busy
    <3>1. \A u \in Users : todo[u] # <<>> <=> mutex = u
      BY <2>2, Zenon DEF LogInv, Locked
    <3> QED BY <2>1, <2>2, <3>1, NoUser \notin Users DEF Log!Busy, Log!LogAssumption
  <2>3. ASSUME util PROVE ~pLogFile
    BY <2>2, <2>3, WhoIsAlone DEF LogInv
  <2> QED BY <2>1, <2>2, <2>3
<1>5. \E s \in {W3, B6} : todo' = [todo EXCEPT ![t] = s] /\ (~pLogFile => s = W3)
  BY <1>1, StartsWith DEF Log!AtOnce, Log!Put
<1>6. PICK s \in {W3, B6} : todo' = [todo EXCEPT ![t] = s] /\ (~pLogFile => s = W3)
  BY <1>5
<1>7. Locked'
  <2>1. CASE ~util
    BY <1>1, <2>1 DEF Log!lock, LogInv, Locked
  <2>2. CASE util
    <3>1. todo'[t] = W3 /\ \A u \in Users \ {t} : todo'[u] = <<>>
      BY <1>4, <1>6, <2>2 DEF LogInv, Doing, Log!Busy
    <3>2. W3 # <<>>
      BY StepsOf DEF Steps
    <3>3. /\ W3 \in UtilSteps /\ <<>> \in UtilSteps /\ mutex' = t /\ buffer' = <<>> /\ util'
      BY <1>1, <1>4, <2>2 DEF UtilSteps
    <3> QED BY <3>1, <3>2, <3>3 DEF Locked
  <2> QED BY <2>1, <2>2
<1>8. DoingOf(s, k)'
  BY <1>3 DEF DoingOf, ToWrite
<1>9. ~pLogFile /\ AllTexts = logged /\ (util \/ ~mixed') => WhereOf(s, k)'
  <2>1. ASSUME ~pLogFile, AllTexts = logged, util \/ ~mixed' PROVE WhereOf(s, k)'
    <3>1. s = W3 /\ buffer' = <<>> /\ ~pLogFile'
      BY <1>1, <1>4, <1>6, <2>1
    <3>2. OneMore(k)'
      BY <1>1, <1>2, <2>1, OneMoreNow
    <3> QED BY <3>1, <3>2 DEF WhereOf
  <2> QED BY <2>1
<1> QED BY <1>1, <1>2, <1>3, <1>4, <1>6, <1>7, <1>8, <1>9, Begins

\* The two calls that do.
LEMMA writeLogToFileKeeps ==
    ASSUME Log!LogAssumption, LogInv, NEW t \in Users, Log!writeLogToFile(t) \/ Log!writeString(t)
    PROVE  LogInv'
<1>1. Len(says) + 1 \in Nat /\ szText \in Nat
  BY DEF LogInv, LogKinds
<1>2. CASE Log!writeLogToFile(t)
  <2>1. szText' \in Nat /\ Log!Begin(t, Len(says) + 1) /\ Log!AtOnce(t)
    BY <1>1, <1>2 DEF Log!writeLogToFile
  <2> QED BY <1>1, <2>1, AtOnceKeeps
<1>3. CASE Log!writeString(t)
  <2>1. szText' \in Nat /\ Log!Begin(t, szText) /\ Log!AtOnce(t)
    BY <1>1, <1>3 DEF Log!writeString
  <2> QED BY <1>1, <2>1, AtOnceKeeps
<1> QED BY <1>2, <1>3

\* flush moves what the buffer has.
LEMMA flushKeeps ==
    ASSUME Log!LogAssumption, LogInv, NEW t \in Users, Log!flush(t) PROVE LogInv'
<1>1. /\ todo[t] = <<>> /\ Log!lock(t) /\ todo' = [todo EXCEPT ![t] = F3] /\ raced' = (raced \/ Log!Busy)
      /\ UNCHANGED << util, pLogFile, buffer, file, text, says, szText, logged, mixed >>
  BY StartsWith DEF Log!flush, Log!Put
<1>2. PICK n : n = text[t]
  OBVIOUS
<1>3. LogKinds' /\ Texts' = Texts
  BY <1>1 DEF LogInv, LogKinds, Texts
<1>4. Doing'
  <2>1. DoingOf(F3, n)'
    BY DEF DoingOf
  <2> QED BY <1>1, <1>2, <1>3, <2>1, DoingKeeps DEF LogInv
<1>5. util => mutex = NoUser /\ mutex' = t /\ ~Log!Busy
  <2>1. ASSUME util PROVE mutex = NoUser /\ mutex' = t
    BY <1>1, <2>1 DEF Log!lock
  <2>2. ASSUME util PROVE ~Log!Busy
    <3>1. \A u \in Users : todo[u] # <<>> <=> mutex = u
      BY <2>2, Zenon DEF LogInv, Locked
    <3> QED BY <2>1, <2>2, <3>1, NoUser \notin Users DEF Log!Busy, Log!LogAssumption
  <2> QED BY <2>1, <2>2
<1>6. Locked'
  <2>1. CASE ~util
    BY <1>1, <2>1 DEF Log!lock, LogInv, Locked
  <2>2. CASE util
    <3>1. todo'[t] = F3 /\ \A u \in Users \ {t} : todo'[u] = <<>>
      BY <1>1, <1>5, <2>2 DEF LogInv, Doing, Log!Busy
    <3>2. F3 # <<>> /\ buffer = <<>>
      BY <2>2, StepsOf DEF Steps, LogInv, Locked
    <3>3. /\ F3 \in UtilSteps /\ <<>> \in UtilSteps /\ mutex' = t /\ buffer' = <<>> /\ util'
      BY <1>1, <1>5, <2>2, <3>2 DEF UtilSteps
    <3> QED BY <3>1, <3>2, <3>3 DEF Locked
  <2> QED BY <2>1, <2>2
<1>7. ASSUME util \/ ~(raced' \/ mixed') PROVE InOrder'
  <2>1. Alone(t) /\ ~pLogFile /\ AllTexts = logged
    <3>1. (util \/ ~(raced \/ mixed)) /\ ~Log!Busy
      BY <1>1, <1>5, <1>7
    <3> QED BY <3>1, WhoIsAlone DEF LogInv
  <2>2. WhereOf(F3, n)'
    BY <1>1, <2>1 DEF WhereOf, AllTexts
  <2> QED BY <1>1, <1>2, <2>1, <2>2, OrderFrom DEF LogInv
<1> QED BY <1>1, <1>3, <1>4, <1>6, <1>7 DEF LogInv

\* clear finds the file open only while another call is on.
LEMMA clearKeeps ==
    ASSUME LogInv, NEW t \in Users, Log!clear(t) PROVE LogInv'
<1>1. /\ ~util /\ pLogFile /\ file' = <<>> /\ raced' = (raced \/ Log!Busy)
      /\ UNCHANGED << util, mutex, pLogFile, buffer, todo, text, says, szText, logged, mixed >>
  BY DEF Log!clear
<1>2. LogKinds' /\ Locked' /\ Doing'
  <2>1. Texts' = Texts /\ <<>> \in Seq(Texts)
    BY <1>1 DEF Texts
  <2> QED BY <1>1, <2>1 DEF LogInv, LogKinds, Locked, Doing, DoingOf
<1>3. raced' \/ mixed'
  BY <1>1, WhoIsAlone DEF LogInv
<1> QED BY <1>1, <1>2, <1>3 DEF LogInv

\* Every step, and none.
LEMMA LogNext == ASSUME Log!LogAssumption PROVE LogInv /\ [Log!Next]_logVars => LogInv'
<1>1. ASSUME LogInv, UNCHANGED logVars PROVE LogInv'
  BY <1>1 DEF logVars, LogInv, LogKinds, Doing, DoingOf, Locked, InOrder, Alone, WhereOf, OneMore,
              AllTexts, Texts, Log!Busy
<1>2. ASSUME LogInv, Log!Next PROVE LogInv'
  BY <1>2, writeLogKeeps, writeLogToFileKeeps, flushKeeps, clearKeeps, openFileKeeps,
     openFailsKeeps,
     writeFileKeeps, fwriteKeeps, closeFileKeeps, againKeeps DEF Log!Next
<1> QED BY <1>1, <1>2

\* What a call writes: its text, or with writeString the one of m_szText.
Says ==
    /\ says \in Seq(Nat) /\ szText \in 0..Len(says)
    /\ \A n \in DOMAIN says : says[n] = n \/ (util /\ says[n] < n)

LEMMA SaysInit == ASSUME Log!Init PROVE Says
BY DEF Log!Init, Says

\* A call more is said.
LEMMA SaysMore ==
    ASSUME Says, NEW m, says' = Append(says, m), UNCHANGED util,
           m = Len(says) + 1 \/ (util /\ m \in 0..Len(says)),
           szText' = szText \/ szText' = Len(says) + 1
    PROVE  Says'
<1>1. /\ Len(says) \in Nat /\ m \in Nat
      /\ says' \in Seq(Nat) /\ Len(says') = Len(says) + 1 /\ DOMAIN says' = 1..(Len(says) + 1)
      /\ \A n \in 1..Len(says) : says'[n] = says[n]
      /\ says'[Len(says) + 1] = m
  BY DEF Says
<1>2. ASSUME NEW n \in DOMAIN says' PROVE says'[n] = n \/ (util' /\ says'[n] < n)
  <2>1. CASE n \in 1..Len(says)
    BY <1>1, <2>1 DEF Says
  <2>2. CASE n = Len(says) + 1
    BY <1>1, <2>2
  <2> QED BY <1>1, <2>1, <2>2
<1>3. szText' \in 0..Len(says')
  BY <1>1 DEF Says
<1> QED BY <1>1, <1>2, <1>3 DEF Says

LEMMA SaysNext == Says /\ [Log!Next]_logVars => Says'
<1>1. ASSUME Says, NEW t \in Users, Log!writeLog(t) \/ Log!writeLogToFile(t) \/ Log!writeString(t)
      PROVE  Says'
  <2>1. CASE Log!writeLog(t)
    BY <1>1, <2>1, SaysMore DEF Log!writeLog, Log!Begin
  <2>2. CASE Log!writeLogToFile(t)
    BY <1>1, <2>2, SaysMore DEF Log!writeLogToFile, Log!Begin
  <2>3. CASE Log!writeString(t)
    <3>1. util /\ szText \in 0..Len(says) /\ says' = Append(says, szText)
          /\ UNCHANGED << util, szText >>
      BY <1>1, <2>3 DEF Log!writeString, Log!Begin, Says
    <3> QED BY <1>1, <3>1, SaysMore
  <2> QED BY <1>1, <2>1, <2>2, <2>3
<1>2. ASSUME Says, UNCHANGED << util, says, szText >> PROVE Says'
  BY <1>2 DEF Says
<1>3. ASSUME NEW t \in Users,
             \/ Log!flush(t) \/ Log!clear(t) \/ Log!openFile(t) \/ Log!openFails(t)
             \/ Log!writeFile(t) \/ Log!fwrite(t) \/ Log!closeFile(t) \/ Log!again(t)
      PROVE  UNCHANGED << util, says, szText >>
  BY <1>3 DEF Log!flush, Log!clear, Log!openFile, Log!openFails, Log!writeFile, Log!fwrite,
              Log!closeFile, Log!again
<1>4. UNCHANGED logVars => UNCHANGED << util, says, szText >>
  BY DEF logVars
<1> QED BY <1>1, <1>2, <1>3, <1>4 DEF Log!Next

\* What the invariants say when nobody logs.
LEMMA LogImplies == ASSUME LogInv, Says PROVE AllLogged
<1>1. ASSUME NEW n \in Log!Range(AllTexts) PROVE n \in 1..Len(says)
  <2>1. AllTexts \in Seq(Texts)
    BY TextLists DEF LogInv, LogKinds, AllTexts
  <2> HIDE DEF AllTexts
  <2> QED BY <2>1 DEF Log!Range, Texts
<1>2. Log!TypeOK
  <2>1. mutex \in Users \cup {NoUser} /\ (mutex # NoUser => util /\ todo[mutex] # <<>>)
    BY DEF LogInv, Locked
  <2> QED BY <1>1, <2>1 DEF Log!TypeOK, AllTexts, LogInv, LogKinds
<1>3. ASSUME util \/ ~(raced \/ mixed), ~Log!Busy PROVE file \o buffer = logged
  <2>1. InOrder
    BY <1>3 DEF LogInv
  <2>2. CASE Users = {}
    BY <2>1, <2>2 DEF InOrder, AllTexts
  <2>3. CASE Users # {}
    <3>1. PICK t \in Users : TRUE
      BY <2>3
    <3> QED BY <1>3, <2>1, <3>1, WhoIsAlone DEF AllTexts
  <2> QED BY <2>2, <2>3
<1> QED BY <1>2, <1>3 DEF AllLogged, Log!AllLogged, Says

--------------------------------------------------------------------------------
(***************************************************************************)
(* XCSVParser: what is written is what is split.  First the pieces a line  *)
(* is put together of, by where each begins.                               *)
(***************************************************************************)
\* Two sequences, one after the other.
LEMMA Concatenated ==
    ASSUME NEW S, NEW x \in Seq(S), NEW y \in Seq(S)
    PROVE  /\ x \o y \in Seq(S) /\ Len(x \o y) = Len(x) + Len(y)
           /\ Len(x \o y) \in Nat /\ Len(x) \in Nat /\ Len(y) \in Nat
           /\ \A k \in 1..Len(x) : (x \o y)[k] = x[k]
           /\ \A k \in 1..Len(y) : (x \o y)[Len(x) + k] = y[k]
<1>1. Len(x) \in Nat /\ Len(y) \in Nat
  OBVIOUS
<1>2. /\ x \o y \in Seq(S) /\ Len(x \o y) = Len(x) + Len(y)
      /\ \A i \in 1..(Len(x) + Len(y)) : (x \o y)[i] = IF i <= Len(x) THEN x[i] ELSE y[i - Len(x)]
  BY ConcatProperties
<1>3. PICK z : z = x \o y
  OBVIOUS
<1>4. PICK n \in Nat : n = Len(x)
  BY <1>1
<1>5. ASSUME NEW k \in 1..Len(x) PROVE z[k] = x[k]
  BY <1>1, <1>2, <1>3
<1>6. ASSUME NEW k \in 1..Len(y) PROVE z[n + k] = y[k]
  <2>1. n + k \in 1..(Len(x) + Len(y)) /\ ~(n + k <= n) /\ (n + k) - n = k
    BY <1>1, <1>4
  <2>2. z[n + k] = IF n + k <= n THEN x[n + k] ELSE y[(n + k) - n]
    BY <1>2, <1>3, <1>4, <2>1
  <2> QED BY <2>1, <2>2
<1> QED BY <1>1, <1>2, <1>3, <1>4, <1>5, <1>6

\* The function in FlattenSeq: the first i sequences of q, one after the other.
Flattens(q, n, f) == f = [i \in 1..n |-> IF i = 1 THEN q[i] ELSE f[i - 1] \o q[i]]

\* There is one.
LEMMA FlattensExists ==
    ASSUME NEW q, NEW l \in Nat
    PROVE  \E f : Flattens(q, l, f)
<1> DEFINE Bad == {n \in 0..l : ~ \E f : Flattens(q, n, f)}
<1>1. SUFFICES ASSUME Bad # {} PROVE FALSE
  OBVIOUS
<1>2. PICK n \in Bad : \A m \in Bad : n <= m
  <2>1. Bad \in SUBSET Nat
    OBVIOUS
  <2> HIDE DEF Bad
  <2> QED BY <1>1, <2>1, Least
<1>3. n # 0
  <2>1. Flattens(q, 0, [i \in 1..0 |-> <<>>])
    BY DEF Flattens
  <2> QED BY <1>2, <2>1
<1>4. n \in Nat /\ n - 1 \in 0..l /\ n - 1 \notin Bad
  BY <1>2, <1>3
<1>5. PICK f : Flattens(q, n - 1, f)
  BY <1>4
<1> DEFINE last == IF n = 1 THEN q[n] ELSE f[n - 1] \o q[n]
           g == [i \in 1..n |-> IF i = n THEN last ELSE f[i]]
<1>6. ASSUME NEW i \in 1..n PROVE g[i] = IF i = 1 THEN q[i] ELSE g[i - 1] \o q[i]
  <2>1. CASE i = n
    BY <1>3, <1>4, <2>1
  <2>2. CASE i # n
    <3>1. i \in 1..(n - 1) /\ g[i] = f[i] /\ (i # 1 => i - 1 \in 1..(n - 1) /\ g[i - 1] = f[i - 1])
      BY <1>4, <2>2
    <3>2. f[i] = IF i = 1 THEN q[i] ELSE f[i - 1] \o q[i]
      BY <1>5, <3>1 DEF Flattens
    <3> QED BY <3>1, <3>2
  <2> QED BY <2>1, <2>2
<1>7. g = [i \in 1..n |-> IF i = 1 THEN q[i] ELSE g[i - 1] \o q[i]]
  <2> HIDE DEF g
  <2>1. g = [i \in 1..n |-> g[i]]
    BY DEF g
  <2> QED BY <1>6, <2>1
<1>8. Flattens(q, n, g)
  BY <1>7 DEF Flattens
<1> QED BY <1>2, <1>8

\* Where the i-th sequence of q ends in s, if they lie in it from p on, one after another.
Laid(q, s, p, e) ==
    /\ e \in [0..Len(q) -> Nat] /\ e[0] = p
    /\ \A i \in 1..Len(q) :
          /\ e[i] = e[i - 1] + Len(q[i]) /\ e[i] <= Len(s)
          /\ \A k \in 1..Len(q[i]) : s[e[i - 1] + k] = q[i][k]

\* So they do when they are flattened.
LEMMA FlattenLays ==
    ASSUME NEW S, NEW q \in Seq(Seq(S)), q # <<>>
    PROVE  /\ CSV!FlattenSeq(q) \in Seq(S)
           /\ \E e : Laid(q, CSV!FlattenSeq(q), 0, e) /\ Len(CSV!FlattenSeq(q)) = e[Len(q)]
<1> DEFINE f == CHOOSE f : Flattens(q, Len(q), f)
<1>0. Len(q) \in Nat /\ Len(q) # 0 /\ \A i \in 1..Len(q) : q[i] \in Seq(S) /\ Len(q[i]) \in Nat
  BY EmptySeq
<1>1. Flattens(q, Len(q), f)
  BY <1>0, FlattensExists
<1>2. CSV!FlattenSeq(q) = f[Len(q)]
  BY <1>0 DEF CSV!FlattenSeq, Flattens
<1> HIDE DEF f
<1>3. \A i \in 1..Len(q) : f[i] = IF i = 1 THEN q[i] ELSE f[i - 1] \o q[i]
  BY <1>1 DEF Flattens
<1> DEFINE e == [i \in 0..Len(q) |-> IF i = 0 THEN 0 ELSE Len(f[i])]
           Good(i) == /\ f[i] \in Seq(S)
                      /\ \A h \in 1..i : /\ e[h] \in Nat /\ e[h - 1] \in Nat
                                         /\ e[h] = e[h - 1] + Len(q[h]) /\ e[h] <= Len(f[i])
                                         /\ \A k \in 1..Len(q[h]) : f[i][e[h - 1] + k] = q[h][k]
           Bad == {i \in 1..Len(q) : ~Good(i)}
<1>4. Good(1)
  <2>1. 1 \in 1..Len(q) /\ f[1] = q[1] /\ e[0] = 0 /\ e[1] = Len(q[1])
    BY <1>0, <1>3
  <2>2. q[1] \in Seq(S) /\ Len(q[1]) \in Nat
    BY <1>0, <2>1
  <2> HIDE DEF e
  <2>3. \A h \in 1..1 : h = 1 /\ h - 1 = 0
    OBVIOUS
  <2> QED BY <2>1, <2>2, <2>3
<1>5. ASSUME NEW i \in 2..Len(q), Good(i - 1) PROVE Good(i)
  <2>1. i \in 1..Len(q) /\ i - 1 \in 1..Len(q) /\ i # 1 /\ i \in Nat
    BY <1>0
  <2>2. PICK x \in Seq(S) : x = f[i - 1]
    BY <1>5
  <2>3. PICK y \in Seq(S) : y = q[i]
    BY <1>0, <2>1
  <2>4. PICK z \in Seq(S) : z = x \o y
    BY Concatenated
  <2>5. f[i] = z
    BY <1>3, <2>1, <2>2, <2>3, <2>4
  <2>6. /\ Len(z) = Len(x) + Len(y) /\ Len(z) \in Nat /\ Len(x) \in Nat /\ Len(y) \in Nat
        /\ \A k \in 1..Len(x) : z[k] = x[k]
        /\ \A k \in 1..Len(y) : z[Len(x) + k] = y[k]
    BY <2>4, Concatenated
  <2>7. e[i] = Len(z) /\ e[i - 1] = Len(x)
    BY <2>1, <2>2, <2>5
  <2> HIDE DEF e
  <2>8. ASSUME NEW h \in 1..i
        PROVE  /\ e[h] \in Nat /\ e[h - 1] \in Nat /\ e[h] = e[h - 1] + Len(q[h]) /\ e[h] <= Len(z)
               /\ \A k \in 1..Len(q[h]) : z[e[h - 1] + k] = q[h][k]
    <3>1. CASE h = i
      <4>1. q[h] = y /\ e[h] = Len(z) /\ e[h - 1] = Len(x)
        BY <2>3, <2>7, <3>1
      <4>2. Len(z) <= Len(z)
        BY <2>6
      <4> QED BY <2>6, <4>1, <4>2
    <3>2. CASE h # i
      <4>1. h \in 1..(i - 1) /\ h \in 1..Len(q)
        BY <2>1, <3>2
      <4>2. /\ e[h] \in Nat /\ e[h - 1] \in Nat /\ e[h] = e[h - 1] + Len(q[h]) /\ e[h] <= Len(x)
            /\ \A k \in 1..Len(q[h]) : x[e[h - 1] + k] = q[h][k]
        BY <1>5, <2>2, <4>1
      <4>3. PICK n \in Nat : n = Len(q[h])
        BY <1>0, <4>1
      <4>4. ASSUME NEW k \in 1..Len(q[h]) PROVE z[e[h - 1] + k] = q[h][k]
        <5>1. PICK at : at = e[h - 1] + k
          OBVIOUS
        <5>2. x[at] = q[h][k]
          BY <4>2, <5>1
        <5>3. PICK a \in Nat : a = e[h - 1]
          BY <4>2
        <5>4. PICK m \in Nat : m = Len(x)
          BY <2>6
        <5>5. k \in 1..n /\ at = a + k /\ a + n <= m
          BY <4>2, <4>3, <5>1, <5>3, <5>4
        <5>6. at \in 1..m
          BY <5>5
        <5> QED BY <2>6, <5>1, <5>2, <5>4, <5>6
      <4>5. e[h] <= Len(z)
        BY <2>6, <4>2
      <4> QED BY <4>2, <4>4, <4>5
    <3> QED BY <3>1, <3>2
  <2> QED BY <2>5, <2>8
<1>6. Bad = {}
  <2> HIDE DEF Good
  <2>1. SUFFICES ASSUME Bad # {} PROVE FALSE
    OBVIOUS
  <2>2. PICK i \in Bad : \A m \in Bad : i <= m
    <3>1. Bad \in SUBSET Nat
      BY <1>0
    <3> HIDE DEF Bad
    <3> QED BY <2>1, <3>1, Least
  <2>3. i # 1
    BY <1>4, <2>2
  <2>4. i \in 2..Len(q) /\ i - 1 \in 1..Len(q) /\ ~(i <= i - 1)
    BY <1>0, <2>2, <2>3
  <2>5. Good(i - 1)
    BY <2>2, <2>4
  <2> QED BY <1>5, <2>2, <2>4, <2>5
<1>7. Good(Len(q)) /\ Len(q) \in 1..Len(q)
  <2> HIDE DEF Good
  <2> QED BY <1>0, <1>6
<1>8. e[0] = 0 /\ e[Len(q)] = Len(f[Len(q)])
  BY <1>0
<1>9. e \in [0..Len(q) -> Nat]
  <2>1. \A i \in 0..Len(q) : e[i] \in Nat
    <3> HIDE DEF e
    <3>1. \A i \in 0..Len(q) : i = 0 \/ i \in 1..Len(q)
      BY <1>0
    <3> QED BY <1>7, <1>8, <3>1
  <2> QED BY <2>1
<1> HIDE DEF e
<1>10. Laid(q, f[Len(q)], 0, e)
  BY <1>7, <1>8, <1>9 DEF Laid
<1> QED BY <1>2, <1>7, <1>8, <1>10

\* A plain field ends where the next separator or the end of the line is.
LEMMA PlainIs ==
    ASSUME NEW S, NEW s \in Seq(S), NEW i \in 1..(Len(s) + 1), NEW e \in i..(Len(s) + 1),
           \A k \in i..(e - 1) : s[k] # Separator, e = Len(s) + 1 \/ s[e] = Separator
    PROVE  CSV!advplain(s, i) = [fld |-> SubSeq(s, i, e - 1), next |-> e]
<1> DEFINE T == {k \in i..Len(s) : s[k] = Separator} \cup {Len(s) + 1}
<1>0. Len(s) \in Nat
  OBVIOUS
<1>1. e \in T /\ \A y \in T : e <= y
  BY <1>0
<1>2. \A x \in T : (\A y \in T : x <= y) => x = e
  <2>1. \A x \in T : x \in Nat
    BY <1>0
  <2> HIDE DEF T
  <2> QED BY <1>1, <2>1
<1>3. CSV!Min(T) = e
  <2> HIDE DEF T
  <2> QED BY <1>1, <1>2 DEF CSV!Min
<1>4. CSV!advplain(s, i) = [fld |-> SubSeq(s, i, CSV!Min(T) - 1), next |-> CSV!Min(T)]
  BY DEF CSV!advplain
<1> QED BY <1>3, <1>4

\* And at any rate not before it begins.
LEMMA PlainAdvances ==
    ASSUME NEW S, NEW s \in Seq(S), NEW i \in 1..(Len(s) + 1)
    PROVE  CSV!advplain(s, i) \in [fld : Seq(S), next : i..(Len(s) + 1)]
<1> DEFINE T == {k \in i..Len(s) : s[k] = Separator} \cup {Len(s) + 1}
<1>0. Len(s) \in Nat
  OBVIOUS
<1>1. T \in SUBSET Nat /\ T # {} /\ T \subseteq i..(Len(s) + 1)
  BY <1>0
<1>2. CSV!Min(T) \in T
  <2> HIDE DEF T
  <2>1. \E x \in T : \A y \in T : x <= y
    BY <1>1, Least
  <2> QED BY <2>1 DEF CSV!Min
<1>3. CSV!advplain(s, i) = [fld |-> SubSeq(s, i, CSV!Min(T) - 1), next |-> CSV!Min(T)]
  BY DEF CSV!advplain
<1>4. PICK e \in i..(Len(s) + 1) : e = CSV!Min(T)
  BY <1>1, <1>2
<1>5. SubSeq(s, i, e - 1) \in Seq(S)
  BY <1>0, SubSeqProperties
<1> HIDE DEF T
<1> QED BY <1>3, <1>4, <1>5

\* What was read on, with one character put before it.
Before(c, r) == [r EXCEPT !.fld = << c >> \o @]

\* The function in advquoted, from position i on.
AdvAt(s, g, j) ==
    IF j > Len(s) THEN [fld |-> <<>>, next |-> j]
    ELSE IF s[j] # Quote THEN Before(s[j], g[j + 1])
    ELSE IF j < Len(s) /\ s[j + 1] = Quote THEN Before(Quote, g[j + 2])
    ELSE CSV!advplain(s, j + 1)
Advances(s, i, g) == g = [j \in i..(Len(s) + 2) |-> AdvAt(s, g, j)]

\* There is one.
LEMMA AdvancesExists ==
    ASSUME NEW S, NEW s \in Seq(S), NEW first \in 1..(Len(s) + 2)
    PROVE  \E g : Advances(s, first, g)
<1> DEFINE end == Len(s) + 2
           Bad == {n \in 0..(end - 1) : ~ \E g : Advances(s, end - n, g)}
<1>0. Len(s) \in Nat /\ end \in Nat /\ end > 1
  OBVIOUS
<1>1. Bad = {}
  <2>1. SUFFICES ASSUME Bad # {} PROVE FALSE
    OBVIOUS
  <2>2. PICK n \in Bad : \A m \in Bad : n <= m
    <3>1. Bad \in SUBSET Nat
      BY <1>0
    <3> HIDE DEF Bad
    <3> QED BY <2>1, <3>1, Least
  <2>3. n \in 0..(end - 1) /\ ~ \E g : Advances(s, end - n, g)
    BY <2>2
  <2>4. n # 0
    <3>1. PICK g : g = [j \in end..end |-> [fld |-> <<>>, next |-> j]]
      OBVIOUS
    <3>2. \A j \in end..end : AdvAt(s, g, j) = [fld |-> <<>>, next |-> j]
      BY <1>0 DEF AdvAt
    <3>3. g = [j \in end..end |-> AdvAt(s, g, j)]
      BY <3>1, <3>2
    <3>4. Advances(s, end - 0, g)
      BY <1>0, <3>3 DEF Advances
    <3> QED BY <2>3, <3>4
  <2>5. n - 1 \in 0..(end - 1) /\ n - 1 \notin Bad
    BY <1>0, <2>2, <2>3, <2>4
  <2>6. PICK g : Advances(s, end - (n - 1), g)
    BY <2>5
  <2>7. PICK i \in 1..end : i = end - n
    BY <1>0, <2>3
  <2>8. end - (n - 1) = i + 1 /\ i \in Nat /\ i < end
    BY <1>0, <2>3, <2>4, <2>7
  <2>9. \A j \in (i + 1)..end : g[j] = AdvAt(s, g, j)
    BY <2>6, <2>8 DEF Advances
  <2> DEFINE h == [j \in i..end |-> IF j = i THEN AdvAt(s, g, i) ELSE g[j]]
  <2>10. \A j \in (i + 1)..end : h[j] = g[j]
    BY <1>0, <2>8
  <2>11. h[i] = AdvAt(s, g, i)
    BY <1>0, <2>8
  <2>12. ASSUME NEW j \in i..end PROVE AdvAt(s, h, j) = AdvAt(s, g, j)
    <3> HIDE DEF h
    <3>1. CASE j > Len(s)
      BY <3>1 DEF AdvAt
    <3>2. CASE ~(j > Len(s))
      <4>1. j + 1 \in (i + 1)..end /\ j + 2 \in (i + 1)..end
        BY <1>0, <2>8, <3>2
      <4>2. h[j + 1] = g[j + 1] /\ h[j + 2] = g[j + 2]
        BY <2>10, <4>1
      <4> QED BY <4>2 DEF AdvAt
    <3> QED BY <3>1, <3>2
  <2>13. \A j \in i..end : h[j] = AdvAt(s, h, j)
    <3>1. \A j \in i..end : j = i \/ j \in (i + 1)..end
      BY <1>0, <2>8
    <3> HIDE DEF h
    <3> QED BY <2>9, <2>10, <2>11, <2>12, <3>1
  <2>14. h = [j \in i..end |-> h[j]]
    OBVIOUS
  <2>15. Advances(s, i, h)
    <3> HIDE DEF h
    <3>1. h = [j \in i..end |-> AdvAt(s, h, j)]
      BY <2>13, <2>14
    <3> QED BY <3>1 DEF Advances
  <2> QED BY <2>3, <2>7, <2>15
<1>2. end - first \in 0..(end - 1) /\ end - (end - first) = first
  BY <1>0
<1> QED BY <1>1, <1>2

\* advquoted by that function, which moves on.
LEMMA QuotedBy ==
    ASSUME NEW S, Quote \in S, NEW s \in Seq(S), NEW i \in 1..(Len(s) + 2)
    PROVE  \E g : /\ CSV!advquoted(s, i) = g[i]
                  /\ \A j \in 1..(Len(s) + 2) : /\ g[j] = AdvAt(s, g, j)
                                                /\ g[j] \in [fld : Seq(S), next : j..(Len(s) + 2)]
<1> DEFINE g == CHOOSE g : Advances(s, 1, g)
           end == Len(s) + 2
<1>0. Len(s) \in Nat /\ 1 \in 1..end /\ end \in Nat
  OBVIOUS
<1>1. Advances(s, 1, g)
  BY <1>0, AdvancesExists
<1>2. CSV!advquoted(s, i) = g[i]
  BY Zenon DEF CSV!advquoted, Advances, AdvAt, Before
<1> HIDE DEF g
<1>3. \A j \in 1..end : g[j] = AdvAt(s, g, j)
  BY <1>1 DEF Advances
<1> DEFINE Good(j) == g[j] \in [fld : Seq(S), next : j..end]
           Bad == {n \in 0..(end - 1) : ~Good(end - n)}
<1>4. ASSUME NEW j \in 1..end, \A k \in (j + 1)..end : Good(k) PROVE Good(j)
  <2>1. CASE j > Len(s)
    <3>1. g[j] = [fld |-> <<>>, next |-> j]
      BY <1>3, <2>1 DEF AdvAt
    <3>2. <<>> \in Seq(S)
      OBVIOUS
    <3> QED BY <1>0, <3>1, <3>2
  <2>2. CASE ~(j > Len(s))
    <3>1. j + 1 \in (j + 1)..end /\ j + 2 \in (j + 1)..end /\ j + 1 \in 1..(Len(s) + 1) /\ j \in 1..Len(s)
      BY <1>0, <2>2
    <3>2. Good(j + 1) /\ Good(j + 2)
      BY <1>4, <3>1
    <3>3. ASSUME NEW c \in S, NEW k \in (j + 1)..end, NEW r \in [fld : Seq(S), next : k..end]
          PROVE  Before(c, r) \in [fld : Seq(S), next : j..end]
      <4>1. << c >> \o r.fld \in Seq(S)
        OBVIOUS
      <4>2. r.next \in j..end
        BY <1>0
      <4> QED BY <4>1, <4>2 DEF Before
    <3>4. s[j] \in S
      BY <3>1
    <3>5. CSV!advplain(s, j + 1) \in [fld : Seq(S), next : j..end]
      <4>1. CSV!advplain(s, j + 1) \in [fld : Seq(S), next : (j + 1)..(Len(s) + 1)]
        BY <3>1, PlainAdvances
      <4>2. \A n \in (j + 1)..(Len(s) + 1) : n \in j..end
        BY <1>0
      <4> QED BY <4>1, <4>2
    <3>6. PICK a \in [fld : Seq(S), next : (j + 1)..end] : a = g[j + 1]
      BY <3>2
    <3>7. PICK b \in [fld : Seq(S), next : (j + 2)..end] : b = g[j + 2]
      BY <3>2
    <3>8. Before(s[j], a) \in [fld : Seq(S), next : j..end]
      BY <3>1, <3>3, <3>4
    <3>9. Before(Quote, b) \in [fld : Seq(S), next : j..end]
      BY <3>1, <3>3
    <3>10. \/ g[j] = Before(s[j], a)
           \/ g[j] = Before(Quote, b)
           \/ g[j] = CSV!advplain(s, j + 1)
      <4>1. g[j] = AdvAt(s, g, j)
        BY <1>3
      <4> QED BY <2>2, <3>6, <3>7, <4>1 DEF AdvAt
    <3> QED BY <3>5, <3>8, <3>9, <3>10
  <2> QED BY <2>1, <2>2
<1>5. Bad = {}
  <2> HIDE DEF Good
  <2>1. SUFFICES ASSUME Bad # {} PROVE FALSE
    OBVIOUS
  <2>2. PICK n \in Bad : \A m \in Bad : n <= m
    <3>1. Bad \in SUBSET Nat
      BY <1>0
    <3> HIDE DEF Bad
    <3> QED BY <2>1, <3>1, Least
  <2>3. n \in 0..(end - 1) /\ ~Good(end - n) /\ end - n \in 1..end
    BY <1>0, <2>2
  <2>4. ASSUME NEW k \in ((end - n) + 1)..end PROVE Good(k)
    <3> HIDE DEF end
    <3>0. n \in Nat /\ k \in Nat
      BY <1>0, <2>3
    <3>1. PICK m \in 0..(end - 1) : m = end - k
      BY <1>0, <2>3, <3>0
    <3>2. k = end - m /\ ~(n <= m)
      BY <1>0, <2>3, <3>0, <3>1
    <3>3. m \notin Bad
      BY <2>2, <3>2
    <3> QED BY <3>2, <3>3
  <2> QED BY <1>4, <2>3, <2>4
<1>6. ASSUME NEW j \in 1..end PROVE Good(j)
  <2>0. j \in Nat /\ j <= end /\ j >= 1
    BY <1>0
  <2> HIDE DEF end, Bad
  <2>1. PICK n \in 0..(end - 1) : n = end - j
    BY <1>0, <2>0
  <2>2. j = end - n
    BY <1>0, <2>0, <2>1
  <2>3. n \notin Bad
    BY <1>5
  <2>4. Good(end - n)
    <3> HIDE DEF Good
    <3> QED BY <2>1, <2>3 DEF Bad
  <2> QED BY <2>2, <2>4
<1> QED BY <1>2, <1>3, <1>6

\* What stands between the quotes of a quoted field: a quote twice.
Doubled(f) == [i \in DOMAIN f |-> IF f[i] = Quote THEN << Quote, Quote >> ELSE << f[i] >>]

\* Its pieces, one by one.
LEMMA DoubledIs ==
    ASSUME NEW S, Quote \in S, NEW f \in Seq(S)
    PROVE  /\ Doubled(f) \in Seq(Seq(S)) /\ Len(Doubled(f)) = Len(f)
           /\ \A i \in 1..Len(f) : Doubled(f)[i] = IF f[i] = Quote THEN << Quote, Quote >> ELSE << f[i] >>
<1>1. Len(f) \in Nat /\ DOMAIN f = 1..Len(f) /\ \A i \in 1..Len(f) : f[i] \in S
  BY LenProperties
<1>2. PICK q : q = Doubled(f)
  OBVIOUS
<1>3. q = [i \in 1..Len(f) |-> IF f[i] = Quote THEN << Quote, Quote >> ELSE << f[i] >>]
  BY <1>1, <1>2 DEF Doubled
<1>4. ASSUME NEW i \in 1..Len(f) PROVE q[i] \in Seq(S)
  <2>1. << Quote, Quote >> \in Seq(S) /\ << f[i] >> \in Seq(S)
    BY <1>1
  <2> QED BY <1>3, <2>1
<1>5. q = [i \in 1..Len(f) |-> q[i]]
  BY <1>3
<1>6. q \in Seq(Seq(S)) /\ Len(q) = Len(f)
  BY <1>1, <1>4, <1>5
<1> QED BY <1>2, <1>3, <1>6

\* One character put before what was read on.
LEMMA PutBefore ==
    ASSUME NEW S, NEW c \in S, NEW r \in Seq(S), NEW y \in Nat, NEW v, v = [fld |-> r, next |-> y]
    PROVE  Before(c, v) = [fld |-> << c >> \o r, next |-> y]
<1>1. PICK x \in Seq(S) : x = << c >> \o r
  <2>1. << c >> \in Seq(S)
    OBVIOUS
  <2> QED BY <2>1, ConcatProperties
<1>2. v \in [fld : Seq(S), next : Nat] /\ v.fld = r /\ v.next = y
  OBVIOUS
<1>3. PICK u : u = [v EXCEPT !.fld = x]
  OBVIOUS
<1>4. u \in [fld : Seq(S), next : Nat] /\ u.fld = x /\ u.next = y
  BY <1>2, <1>3
<1>5. u = [fld |-> x, next |-> y]
  BY <1>4
<1>6. [v EXCEPT !.fld = << c >> \o @] = u
  BY <1>1, <1>2, <1>3
<1> QED BY <1>1, <1>5, <1>6 DEF Before

\* Reading on from where a doubled character begins gives the character and the
\* rest; so it gives the field, and the end of it one behind the closing quote.
LEMMA Unquotes ==
    ASSUME NEW S, Quote \in S, Separator # Quote, NEW f \in Seq(S), NEW s \in Seq(S), NEW b \in Nat,
           NEW e, Laid(Doubled(f), s, b, e), NEW z \in 1..Len(s), z = e[Len(f)] + 1,
           s[z] = Quote, z = Len(s) \/ s[z + 1] = Separator
    PROVE  CSV!advquoted(s, b + 1) = [fld |-> f, next |-> z + 1]
<1>n. PICK n \in Nat : n = Len(f)
  OBVIOUS
<1>0. Len(s) \in Nat /\ z \in Nat
  OBVIOUS
<1>1. /\ e \in [0..n -> Nat] /\ e[0] = b
      /\ \A i \in 1..n : /\ e[i] = e[i - 1] + Len(Doubled(f)[i]) /\ e[i] <= Len(s)
                         /\ \A k \in 1..Len(Doubled(f)[i]) : s[e[i - 1] + k] = Doubled(f)[i][k]
  BY <1>n, DoubledIs DEF Laid
<1>2. \A i \in 0..n : e[i] \in Nat /\ e[i] < z
  <2>1. ASSUME NEW i \in 1..n PROVE e[i - 1] <= e[i]
    <3>1. e[i - 1] \in Nat /\ Len(Doubled(f)[i]) \in Nat
      <4>1. Doubled(f)[i] \in Seq(S)
        BY <1>n, DoubledIs
      <4>2. i - 1 \in 0..n
        BY <1>0
      <4>3. e[i - 1] \in Nat
        BY <1>1, <1>n, <4>2
      <4>4. Len(Doubled(f)[i]) \in Nat
        BY <4>1, LenProperties
      <4> QED BY <4>3, <4>4
    <3>2. e[i] = e[i - 1] + Len(Doubled(f)[i])
      BY <1>1
    <3> QED BY <3>1, <3>2
  <2> DEFINE Bad == {m \in 0..n : ~(e[n - m] < z)}
  <2>2. Bad = {}
    <3>1. SUFFICES ASSUME Bad # {} PROVE FALSE
      OBVIOUS
    <3>2. PICK m \in Bad : \A k \in Bad : m <= k
      <4>1. Bad \in SUBSET Nat
        BY <1>0
      <4> HIDE DEF Bad
      <4> QED BY <3>1, <4>1, Least
    <3>3. m \in Nat /\ m <= n /\ ~(e[n - m] < z)
      BY <1>0, <3>2
    <3>4. m # 0
      <4>1. e[n] \in Nat /\ n - 0 = n
        BY <1>0, <1>1
      <4>2. e[n] < z
        BY <1>n, <4>1
      <4> QED BY <3>3, <4>1, <4>2
    <3>5. PICK k \in 0..n : k = m - 1
      BY <1>0, <3>3, <3>4
    <3>56. ~(m <= k)
      BY <3>3, <3>5
    <3>6. k \notin Bad
      <4> HIDE DEF Bad
      <4> QED BY <3>2, <3>56
    <3>7. e[n - k] < z
      BY <3>6
    <3>8. PICK i \in 1..n : i = n - k /\ i - 1 = n - m
      BY <1>0, <3>3, <3>4, <3>5
    <3>9. e[i] < z /\ ~(e[i - 1] < z) /\ e[i - 1] <= e[i]
      BY <2>1, <3>3, <3>7, <3>8
    <3>10. e[i] \in Nat /\ e[i - 1] \in Nat
      <4>1. i \in 0..n /\ i - 1 \in 0..n
        BY <1>0
      <4> QED BY <1>1, <4>1
    <3> QED BY <1>0, <3>9, <3>10
  <2>3. ASSUME NEW i \in 0..n PROVE e[i] < z
    <3>1. PICK m \in 0..n : m = n - i
      BY <1>0
    <3>2. i = n - m
      BY <1>0, <3>1
    <3>3. m \notin Bad
      BY <2>2
    <3> QED BY <3>2, <3>3
  <2> QED BY <1>1, <2>3
<1>3. b + 1 \in 1..(Len(s) + 2)
  <2>1. e[0] < z
    BY <1>0, <1>2
  <2> QED BY <1>0, <1>1, <2>1
<1>4. PICK g : /\ CSV!advquoted(s, b + 1) = g[b + 1]
               /\ \A j \in 1..(Len(s) + 2) : g[j] = AdvAt(s, g, j)
  BY <1>3, QuotedBy
<1> DEFINE Good(i) == g[e[i] + 1] = [fld |-> SubSeq(f, i + 1, n), next |-> z + 1]
<1>5. Good(n)
  <2>1. SubSeq(f, n + 1, n) = <<>>
    BY <1>0, SubSeqEmpty
  <2>2. CSV!advplain(s, z + 1) = [fld |-> SubSeq(s, z + 1, (z + 1) - 1), next |-> z + 1]
    <3>1. PICK y \in 1..(Len(s) + 1) : y = z + 1
      BY <1>0
    <3>2. y \in y..(Len(s) + 1) /\ (y = Len(s) + 1 \/ s[y] = Separator)
      BY <1>0, <3>1
    <3>3. \A k \in y..(y - 1) : s[k] # Separator
      BY <1>0, <3>1
    <3>4. CSV!advplain(s, y) = [fld |-> SubSeq(s, y, y - 1), next |-> y]
      BY <3>2, <3>3, PlainIs
    <3> QED BY <3>1, <3>4
  <2>3. SubSeq(s, z + 1, (z + 1) - 1) = <<>>
    BY <1>0, SubSeqEmpty
  <2>4. z \in 1..(Len(s) + 2) /\ ~(z > Len(s)) /\ ~(z < Len(s) /\ s[z + 1] = Quote)
    BY <1>0
  <2>5. g[z] = AdvAt(s, g, z)
    BY <1>4, <2>4
  <2>6. g[z] = CSV!advplain(s, z + 1)
    BY <2>4, <2>5 DEF AdvAt
  <2> QED BY <1>n, <2>1, <2>2, <2>3, <2>6
<1>6. ASSUME NEW i \in 1..n, Good(i) PROVE Good(i - 1)
  <2>1. /\ i \in 0..n /\ i - 1 \in 0..n /\ i \in Nat /\ (i - 1) + 1 = i /\ f[i] \in S
        /\ n \in i..n
    BY <1>n
  <2>2. PICK h \in Nat : h = e[i - 1]
    BY <1>1, <2>1
  <2>3. PICK x \in Nat : x = e[i]
    BY <1>1, <2>1
  <2>4. x <= Len(s)
    BY <1>1, <2>3
  <2>5. PICK r \in Seq(S) : r = SubSeq(f, i + 1, n)
    <3>1. PICK m \in Int : m = i + 1
      BY <2>1
    <3>2. \A k \in m..n : f[k] \in S
      BY <1>n, <2>1, <3>1
    <3>3. n \in Int
      BY <1>n
    <3> QED BY <3>1, <3>2, <3>3, SubSeqProperties
  <2>6. SubSeq(f, i, n) = << f[i] >> \o r
    BY <1>n, <2>1, <2>5, SubSeqRecursiveFirst
  <2>7. g[x + 1] = [fld |-> r, next |-> z + 1]
    BY <1>6, <2>3, <2>5
  <2>12. PICK y \in Nat : y = z + 1
    BY <1>0
  <2>8. PICK d : d = Doubled(f)[i]
    OBVIOUS
  <2>9. d = IF f[i] = Quote THEN << Quote, Quote >> ELSE << f[i] >>
    BY <1>n, <2>8, DoubledIs
  <2>10. x = h + Len(d) /\ \A k \in 1..Len(d) : s[h + k] = d[k]
    BY <1>1, <2>2, <2>3, <2>8
  <2>11. g[h + 1] = [fld |-> << f[i] >> \o r, next |-> z + 1]
    <3>1. CASE f[i] = Quote
      <4>1. d = << Quote, Quote >> /\ Len(d) = 2
        BY <2>9, <3>1
      <4>2. d[1] = Quote /\ d[2] = Quote /\ 1 \in 1..Len(d) /\ 2 \in 1..Len(d)
        BY <4>1
      <4>3. s[h + 1] = Quote /\ s[h + 2] = Quote /\ x = h + 2
        BY <2>10, <4>1, <4>2
      <4>4. PICK j \in 1..(Len(s) + 2) : j = h + 1
        BY <1>0, <2>4, <4>3
      <4>5. ~(j > Len(s)) /\ j < Len(s) /\ j + 1 = h + 2 /\ j + 2 = x + 1
        BY <1>0, <2>4, <4>3, <4>4
      <4>6. g[j] = AdvAt(s, g, j) /\ s[j] = Quote /\ s[j + 1] = Quote
        BY <1>4, <4>3, <4>4, <4>5
      <4>7. g[j] = Before(Quote, g[j + 2])
        BY <4>5, <4>6 DEF AdvAt
      <4>8. PICK v : v = g[j + 2] /\ v = [fld |-> r, next |-> y]
        BY <2>7, <2>12, <4>5
      <4>9. Before(Quote, v) = [fld |-> << Quote >> \o r, next |-> y]
        BY <4>8, PutBefore
      <4> QED BY <2>12, <3>1, <4>4, <4>7, <4>8, <4>9
    <3>2. CASE f[i] # Quote
      <4>1. d = << f[i] >> /\ Len(d) = 1
        BY <2>9, <3>2
      <4>2. d[1] = f[i] /\ 1 \in 1..Len(d)
        BY <4>1
      <4>3. s[h + 1] = f[i] /\ x = h + 1
        BY <2>10, <4>1, <4>2
      <4>4. PICK j \in 1..(Len(s) + 2) : j = h + 1
        BY <1>0, <2>4, <4>3
      <4>5. ~(j > Len(s)) /\ j + 1 = x + 1
        BY <1>0, <2>4, <4>3, <4>4
      <4>6. g[j] = AdvAt(s, g, j) /\ s[j] = f[i] /\ s[j] # Quote
        BY <1>4, <3>2, <4>3, <4>4
      <4>7. g[j] = Before(s[j], g[j + 1])
        BY <4>5, <4>6 DEF AdvAt
      <4>8. PICK v : v = g[j + 1] /\ v = [fld |-> r, next |-> y]
        BY <2>7, <2>12, <4>5
      <4>9. Before(f[i], v) = [fld |-> << f[i] >> \o r, next |-> y]
        BY <2>1, <4>8, PutBefore
      <4> QED BY <2>12, <4>4, <4>6, <4>7, <4>8, <4>9
    <3> QED BY <3>1, <3>2
  <2> QED BY <2>1, <2>2, <2>6, <2>11
<1>7. Good(0)
  <2> DEFINE Bad == {m \in 0..n : Good(m)}
  <2> HIDE DEF Good
  <2>1. PICK m \in Bad : \A k \in Bad : m <= k
    <3>1. Bad \in SUBSET Nat /\ n \in Bad
      BY <1>0, <1>5
    <3> HIDE DEF Bad
    <3> QED BY <3>1, Least
  <2>2. m \in Nat /\ m <= n /\ Good(m)
    BY <1>0, <2>1
  <2>3. m = 0
    <3>1. SUFFICES ASSUME m # 0 PROVE FALSE
      OBVIOUS
    <3>2. m \in 1..n /\ m - 1 \in 0..n /\ ~(m <= m - 1)
      BY <1>0, <2>2, <3>1
    <3> QED BY <1>6, <2>1, <2>2, <3>2
  <2> QED BY <2>2, <2>3
<1>8. SubSeq(f, 1, n) = f
  BY <1>n, SubSeqFull
<1>9. e[0] + 1 = b + 1 /\ 0 + 1 = 1
  BY <1>1
<1> QED BY <1>4, <1>7, <1>8, <1>9

\* Wherever the flattened sequence lies, its pieces lie one after another.
LEMMA Flattened ==
    ASSUME NEW S, NEW q \in Seq(Seq(S))
    PROVE  /\ CSV!FlattenSeq(q) \in Seq(S)
           /\ \A s \in Seq(S), b \in Nat :
                 /\ b + Len(CSV!FlattenSeq(q)) <= Len(s)
                 /\ \A k \in 1..Len(CSV!FlattenSeq(q)) : s[b + k] = CSV!FlattenSeq(q)[k]
                 => \E d : Laid(q, s, b, d) /\ d[Len(q)] = b + Len(CSV!FlattenSeq(q))
<1>1. CASE q = <<>>
  <2>1. Len(q) = 0 /\ CSV!FlattenSeq(q) = <<>>
    BY <1>1 DEF CSV!FlattenSeq
  <2>2. <<>> \in Seq(S) /\ Len(<<>>) = 0
    BY EmptySeq
  <2>3. ASSUME NEW s \in Seq(S), NEW b \in Nat
        PROVE  \E d : Laid(q, s, b, d) /\ d[0] = b + 0
    <3>1. PICK d : d = [i \in 0..0 |-> b]
      OBVIOUS
    <3>2. d \in [0..0 -> Nat] /\ d[0] = b
      BY <3>1
    <3>3. Laid(q, s, b, d)
      BY <2>1, <3>2 DEF Laid
    <3> QED BY <3>2, <3>3
  <2> QED BY <2>1, <2>2, <2>3
<1>2. CASE q # <<>>
  <2>1. PICK x \in Seq(S) : x = CSV!FlattenSeq(q)
    BY <1>2, FlattenLays
  <2>2. PICK e : Laid(q, x, 0, e) /\ Len(x) = e[Len(q)]
    BY <1>2, <2>1, FlattenLays
  <2>3. PICK n \in Nat : n = Len(q)
    OBVIOUS
  <2>4. PICK l \in Nat : l = Len(x)
    OBVIOUS
  <2>5. /\ e \in [0..n -> Nat] /\ e[0] = 0 /\ e[n] = l
        /\ \A i \in 1..n : /\ e[i] = e[i - 1] + Len(q[i]) /\ e[i] <= l
                           /\ \A k \in 1..Len(q[i]) : x[e[i - 1] + k] = q[i][k]
    BY <2>2, <2>3, <2>4 DEF Laid
  <2>6. ASSUME NEW s \in Seq(S), NEW b \in Nat, b + l <= Len(s), \A k \in 1..l : s[b + k] = x[k]
        PROVE  \E d : Laid(q, s, b, d) /\ d[n] = b + l
    <3>1. PICK d : d = [i \in 0..n |-> b + e[i]]
      OBVIOUS
    <3>2. d \in [0..n -> Nat]
      <4>1. \A i \in 0..n : b + e[i] \in Nat
        BY <2>5
      <4> QED BY <3>1, <4>1
    <3>3. d[0] = b /\ d[n] = b + l
      <4>1. 0 \in 0..n /\ n \in 0..n
        OBVIOUS
      <4> QED BY <2>5, <3>1, <4>1
    <3>4. ASSUME NEW i \in 1..n
          PROVE  /\ d[i] = d[i - 1] + Len(q[i]) /\ d[i] <= Len(s)
                 /\ \A k \in 1..Len(q[i]) : s[d[i - 1] + k] = q[i][k]
      <4>1. i \in 0..n /\ i - 1 \in 0..n
        OBVIOUS
      <4>2. PICK h \in Nat : h = e[i - 1]
        BY <2>5, <4>1
      <4>3. PICK m \in Nat : m = Len(q[i])
        <5>1. q[i] \in Seq(S)
          BY <2>3
        <5> QED BY <5>1
      <4>4. e[i] = h + m /\ h + m <= l /\ \A k \in 1..m : x[h + k] = q[i][k]
        BY <2>5, <4>2, <4>3
      <4>5. d[i] = b + (h + m) /\ d[i - 1] = b + h
        BY <3>1, <4>1, <4>2, <4>4
      <4>6. Len(s) \in Nat
        OBVIOUS
      <4>7. b + (h + m) = (b + h) + m /\ b + (h + m) <= Len(s)
        BY <2>6, <4>4, <4>6
      <4>8. ASSUME NEW k \in 1..m PROVE s[(b + h) + k] = q[i][k]
        <5>1. h + k \in 1..l /\ b + (h + k) = (b + h) + k
          BY <4>4
        <5>2. PICK j \in 1..l : j = h + k
          BY <5>1
        <5>3. s[b + j] = x[j]
          BY <2>6
        <5>4. x[h + k] = q[i][k]
          BY <4>4
        <5> QED BY <5>1, <5>2, <5>3, <5>4
      <4> QED BY <4>3, <4>5, <4>7, <4>8
    <3>5. Laid(q, s, b, d)
      BY <2>3, <3>2, <3>3, <3>4 DEF Laid
    <3> QED BY <3>3, <3>5
  <2> QED BY <2>1, <2>3, <2>4, <2>6
<1> QED BY <1>1, <1>2

\* The field that begins at i.
FieldAt(s, i) == IF i <= Len(s) /\ s[i] = Quote THEN CSV!advquoted(s, i + 1) ELSE CSV!advplain(s, i)

\* A sequence between two quotes.
LEMMA Between ==
    ASSUME NEW S, Quote \in S, NEW x \in Seq(S), NEW w, w = << Quote >> \o x \o << Quote >>
    PROVE  /\ w \in Seq(S) /\ Len(w) = Len(x) + 2 /\ w[1] = Quote /\ w[Len(x) + 2] = Quote
           /\ \A k \in 1..Len(x) : w[1 + k] = x[k]
<1>1. PICK y \in Seq(S) : y = << Quote >> /\ Len(y) = 1 /\ y[1] = Quote
  <2>1. << Quote >> \in Seq(S)
    OBVIOUS
  <2>2. Len(<< Quote >>) = 1 /\ << Quote >>[1] = Quote
    OBVIOUS
  <2> QED BY <2>1, <2>2
<1>2. PICK z : z = y \o x
  OBVIOUS
<1>3. /\ z \in Seq(S) /\ Len(z) = 1 + Len(x) /\ Len(x) \in Nat
      /\ z[1] = Quote /\ \A k \in 1..Len(x) : z[1 + k] = x[k]
  BY <1>1, <1>2, Concatenated
<1>4. PICK n \in Nat : n = Len(x)
  BY <1>3
<1>5. w = z \o y
  BY <1>1, <1>2
<1>6. /\ w \in Seq(S) /\ Len(w) = (1 + n) + 1
      /\ \A k \in 1..(1 + n) : w[k] = z[k]
      /\ w[(1 + n) + 1] = Quote
  BY <1>1, <1>3, <1>4, <1>5, Concatenated
<1>7. (1 + n) + 1 = n + 2 /\ 1 \in 1..(1 + n) /\ \A k \in 1..n : 1 + k \in 1..(1 + n)
  OBVIOUS
<1> QED BY <1>3, <1>4, <1>6, <1>7

\* The characters of s behind p, up to e, are those of w.
Lies(w, s, p, e) == e = p + Len(w) /\ e <= Len(s) /\ \A k \in 1..Len(w) : s[p + k] = w[k]

\* A field is read as it was, quoted or not, when it ends at a separator or with the line.
LEMMA FieldBack ==
    ASSUME NEW S, Quote \in S, Separator # Quote, NEW f \in Seq(S), NEW w,
           w = CSV!Quoted(f) \/ (w = f /\ CSV!Range(f) \cap {Separator, Quote} = {}),
           NEW s \in Seq(S), NEW p \in Nat, NEW e \in Nat, Lies(w, s, p, e),
           e = Len(s) \/ s[e + 1] = Separator
    PROVE  FieldAt(s, p + 1) = [fld |-> f, next |-> e + 1]
<1>0. Len(s) \in Nat /\ e = p + Len(w) /\ e <= Len(s) /\ \A k \in 1..Len(w) : s[p + k] = w[k]
  BY DEF Lies
<1>1. CASE w = CSV!Quoted(f)
  <2>1. PICK x \in Seq(S) : x = CSV!FlattenSeq(Doubled(f))
    BY DoubledIs, Flattened
  <2>2. w = << Quote >> \o x \o << Quote >>
    BY <1>1, <2>1 DEF CSV!Quoted, Doubled
  <2>3. PICK l \in Nat : l = Len(x)
    OBVIOUS
  <2>4. Len(w) = l + 2 /\ w[1] = Quote /\ w[l + 2] = Quote /\ \A k \in 1..l : w[1 + k] = x[k]
    BY <2>2, <2>3, Between
  <2>5. 1 \in 1..(l + 2) /\ l + 2 \in 1..(l + 2)
    OBVIOUS
  <2>6. s[p + 1] = Quote /\ s[p + (l + 2)] = Quote
    BY <1>0, <2>4, <2>5
  <2>7. PICK b \in Nat : b = p + 1
    OBVIOUS
  <2>8. \A k \in 1..l : s[b + k] = x[k]
    <3>1. ASSUME NEW k \in 1..l PROVE s[b + k] = x[k]
      <4>1. PICK j \in 1..(l + 2) : j = 1 + k
        OBVIOUS
      <4>2. s[p + j] = w[j]
        BY <1>0, <2>4
      <4>3. p + j = b + k
        BY <2>7, <4>1
      <4> QED BY <2>4, <4>1, <4>2, <4>3
    <3> QED BY <3>1
  <2>9. b + l <= Len(s) /\ e = p + (l + 2) /\ e = (b + l) + 1 /\ e \in 1..Len(s)
    BY <1>0, <2>4, <2>7
  <2>10. PICK d : Laid(Doubled(f), s, b, d) /\ d[Len(Doubled(f))] = b + l
    <3>1. PICK q \in Seq(Seq(S)) : q = Doubled(f)
      BY DoubledIs
    <3>2. Len(CSV!FlattenSeq(q)) = l /\ \A k \in 1..l : s[b + k] = CSV!FlattenSeq(q)[k]
      BY <2>1, <2>3, <2>8, <3>1
    <3>3. \A j \in Seq(S), k \in Nat :
             /\ k + Len(CSV!FlattenSeq(q)) <= Len(j)
             /\ \A h \in 1..Len(CSV!FlattenSeq(q)) : j[k + h] = CSV!FlattenSeq(q)[h]
             => \E d : Laid(q, j, k, d) /\ d[Len(q)] = k + Len(CSV!FlattenSeq(q))
      BY Flattened
    <3>4. \E d : Laid(q, s, b, d) /\ d[Len(q)] = b + l
      BY <2>9, <3>2, <3>3
    <3> QED BY <3>1, <3>4
  <2>11. e = d[Len(f)] + 1
    BY <2>9, <2>10, DoubledIs
  <2>12. CSV!advquoted(s, b + 1) = [fld |-> f, next |-> e + 1]
    BY <2>6, <2>9, <2>10, <2>11, Unquotes
  <2>13. b <= Len(s) /\ s[b] = Quote
    BY <1>0, <2>6, <2>7, <2>9
  <2> QED BY <2>7, <2>12, <2>13 DEF FieldAt
<1>2. CASE w = f /\ CSV!Range(f) \cap {Separator, Quote} = {}
  <2>1. PICK l \in Nat : l = Len(f)
    OBVIOUS
  <2>2. e = p + l /\ \A k \in 1..l : s[p + k] = f[k]
    BY <1>0, <1>2, <2>1
  <2>3. \A k \in 1..l : f[k] # Separator /\ f[k] # Quote
    <3>1. \A k \in 1..l : f[k] \in CSV!Range(f)
      BY <2>1, LenProperties DEF CSV!Range
    <3> QED BY <1>2, <3>1
  <2>4. PICK i \in 1..(Len(s) + 1) : i = p + 1
    BY <1>0, <2>2
  <2>5. PICK z \in i..(Len(s) + 1) : z = e + 1
    BY <1>0, <2>2, <2>4
  <2>6. \A k \in 1..l : s[p + k] # Separator /\ s[p + k] # Quote
    BY <2>2, <2>3
  <2>7. \A k \in i..(z - 1) : s[k] # Separator
    <3>1. ASSUME NEW k \in i..(z - 1) PROVE s[k] # Separator
      <4>1. PICK j \in 1..l : p + j = k
        <5>1. k - p \in 1..l /\ p + (k - p) = k
          BY <2>2, <2>4, <2>5
        <5> QED BY <5>1
      <4> QED BY <2>6, <4>1
    <3> QED BY <3>1
  <2>8. z = Len(s) + 1 \/ s[z] = Separator
    BY <2>5
  <2>9. CSV!advplain(s, i) = [fld |-> SubSeq(s, i, z - 1), next |-> z]
    BY <2>7, <2>8, PlainIs
  <2>10. SubSeq(s, i, z - 1) = f
    <3>1. PICK y \in Int : y = z - 1
      BY <1>0
    <3>2. \A k \in i..y : s[k] \in S
      BY <1>0, <2>4, <3>1
    <3>3. i \in Int
      BY <1>0
    <3>4. PICK t : t = SubSeq(s, i, y)
      OBVIOUS
    <3>5. t \in Seq(S) /\ Len(t) = (IF i <= y THEN y - i + 1 ELSE 0) /\ \A k \in 1..(y - i + 1) : t[k] = s[i + k - 1]
      BY <3>1, <3>2, <3>3, <3>4, SubSeqProperties
    <3>6. y - i + 1 = l /\ (i <= y <=> l > 0)
      <4>1. e = p + l /\ i = p + 1 /\ y = e
        BY <2>2, <2>4, <2>5, <3>1
      <4> QED BY <4>1
    <3>7. Len(t) = l
      BY <3>5, <3>6
    <3>8. ASSUME NEW k \in 1..l PROVE t[k] = f[k]
      <4>1. t[k] = s[i + k - 1]
        BY <3>5, <3>6
      <4>2. i + k - 1 = p + k
        BY <2>4
      <4> QED BY <2>2, <4>1, <4>2
    <3>9. t = f
      BY <2>1, <3>5, <3>7, <3>8, SeqEqual
    <3> QED BY <3>1, <3>4, <3>9
  <2>11. ~(i <= Len(s) /\ s[i] = Quote)
    <3>1. CASE l = 0
      <4>1. i = e + 1
        BY <2>2, <2>4, <3>1
      <4>2. i > Len(s) \/ s[i] = Separator
        BY <1>0, <4>1
      <4> QED BY <1>0, <4>2
    <3>2. CASE l # 0
      <4>1. 1 \in 1..l
        BY <3>2
      <4> QED BY <2>4, <2>6, <4>1
    <3> QED BY <3>1, <3>2
  <2> QED BY <2>4, <2>5, <2>9, <2>10, <2>11 DEF FieldAt
<1> QED BY <1>1, <1>2

\* A field does not end before it begins.
LEMMA FieldAdvances ==
    ASSUME NEW S, Quote \in S, NEW s \in Seq(S), NEW i \in 1..(Len(s) + 1)
    PROVE  FieldAt(s, i) \in [fld : Seq(S), next : i..(Len(s) + 2)]
<1>0. Len(s) \in Nat
  OBVIOUS
<1>1. CASE i <= Len(s) /\ s[i] = Quote
  <2>1. PICK j \in 1..(Len(s) + 2) : j = i + 1
    BY <1>0
  <2>2. PICK r \in [fld : Seq(S), next : j..(Len(s) + 2)] : r = CSV!advquoted(s, j)
    BY QuotedBy
  <2>3. FieldAt(s, i) = r
    BY <1>1, <2>1, <2>2 DEF FieldAt
  <2>4. \A k \in j..(Len(s) + 2) : k \in i..(Len(s) + 2)
    BY <1>0, <2>1
  <2> QED BY <2>3, <2>4
<1>2. CASE ~(i <= Len(s) /\ s[i] = Quote)
  <2>1. PICK r \in [fld : Seq(S), next : i..(Len(s) + 1)] : r = CSV!advplain(s, i)
    BY PlainAdvances
  <2>2. FieldAt(s, i) = r
    BY <1>2, <2>1 DEF FieldAt
  <2>3. \A k \in i..(Len(s) + 1) : k \in i..(Len(s) + 2)
    BY <1>0
  <2> QED BY <2>2, <2>3
<1> QED BY <1>1, <1>2

\* The function in split, from position i on.
SplitAt(s, g, j) ==
    << FieldAt(s, j).fld >> \o (IF FieldAt(s, j).next <= Len(s) THEN g[FieldAt(s, j).next + 1] ELSE <<>>)
Splits(s, i, g) == g = [j \in i..(Len(s) + 1) |-> SplitAt(s, g, j)]

\* There is one.
LEMMA SplitsExists ==
    ASSUME NEW S, Quote \in S, NEW s \in Seq(S)
    PROVE  \E g : Splits(s, 1, g)
<1>1. PICK l \in Nat : l = Len(s)
  OBVIOUS
<1>2. PICK end \in Nat : end = l + 1
  OBVIOUS
<1> DEFINE Bad == {n \in 0..l : ~ \E g : Splits(s, end - n, g)}
<1>3. Bad = {}
  <2>1. SUFFICES ASSUME Bad # {} PROVE FALSE
    OBVIOUS
  <2>2. PICK n \in Bad : \A m \in Bad : n <= m
    <3>1. Bad \in SUBSET Nat
      BY <1>1
    <3> HIDE DEF Bad
    <3> QED BY <2>1, <3>1, Least
  <2>3. n \in 0..l /\ ~ \E g : Splits(s, end - n, g)
    BY <2>2
  <2>4. PICK i \in 1..end : i = end - n
    BY <1>1, <1>2, <2>3
  <2>5. PICK g : \A j \in (i + 1)..end : g[j] = SplitAt(s, g, j)
    <3>1. CASE n = 0
      <4>1. (i + 1)..end = {}
        BY <1>2, <2>4, <3>1
      <4> QED BY <4>1
    <3>2. CASE n # 0
      <4>1. PICK m \in 0..l : m = n - 1
        BY <1>1, <2>3, <3>2
      <4>2. ~(n <= m) /\ end - m = i + 1
        BY <1>1, <1>2, <2>3, <2>4, <4>1
      <4>3. m \notin Bad
        <5> HIDE DEF Bad
        <5> QED BY <2>2, <4>2
      <4>4. PICK g : Splits(s, i + 1, g)
        BY <4>2, <4>3
      <4>5. g = [j \in (i + 1)..end |-> SplitAt(s, g, j)]
        BY <1>1, <1>2, <4>4 DEF Splits
      <4>6. \A j \in (i + 1)..end : g[j] = SplitAt(s, g, j)
        BY <4>5
      <4> QED BY <4>6
    <3> QED BY <3>1, <3>2
  <2> DEFINE h == [j \in i..end |-> IF j = i THEN SplitAt(s, g, i) ELSE g[j]]
  <2>6. \A j \in (i + 1)..end : h[j] = g[j]
    BY <1>2, <2>4
  <2>7. h[i] = SplitAt(s, g, i)
    BY <1>2, <2>4
  <2>8. h = [j \in i..end |-> h[j]]
    OBVIOUS
  <2> HIDE DEF h
  <2>9. ASSUME NEW j \in i..end PROVE SplitAt(s, h, j) = SplitAt(s, g, j)
    <3>1. j \in 1..(Len(s) + 1)
      BY <1>1, <1>2, <2>4
    <3>2. PICK x : x = FieldAt(s, j).next
      OBVIOUS
    <3>3. x \in j..(Len(s) + 2)
      BY <3>1, <3>2, FieldAdvances
    <3>4. x <= Len(s) => x + 1 \in (i + 1)..end
      BY <1>1, <1>2, <2>4, <3>3
    <3>5. x <= Len(s) => h[x + 1] = g[x + 1]
      BY <2>6, <3>4
    <3> QED BY <3>2, <3>5 DEF SplitAt
  <2>10. ASSUME NEW j \in i..end PROVE h[j] = SplitAt(s, h, j)
    <3>1. j = i \/ j \in (i + 1)..end
      BY <1>2, <2>4
    <3> QED BY <2>5, <2>6, <2>7, <2>9, <3>1
  <2>11. h = [j \in i..end |-> SplitAt(s, h, j)]
    BY <2>8, <2>10
  <2>12. Splits(s, i, h)
    BY <1>1, <1>2, <2>11 DEF Splits
  <2> QED BY <2>3, <2>4, <2>12
<1>4. l \in 0..l /\ end - l = 1
  BY <1>2
<1> QED BY <1>3, <1>4

\* split by that function.
LEMMA SplitBy ==
    ASSUME NEW S, Quote \in S, NEW s \in Seq(S), s # <<>>
    PROVE  \E g : /\ CSV!split(s) = g[1]
                  /\ \A j \in 1..(Len(s) + 1) : g[j] = SplitAt(s, g, j)
<1> DEFINE g == CHOOSE g : Splits(s, 1, g)
<1>1. Splits(s, 1, g)
  BY SplitsExists
<1>2. CSV!split(s) = g[1]
  BY Zenon DEF CSV!split, Splits, SplitAt, FieldAt
<1> HIDE DEF g
<1>3. \A j \in 1..(Len(s) + 1) : g[j] = SplitAt(s, g, j)
  BY <1>1 DEF Splits
<1> QED BY <1>2, <1>3

\* What a field is written as is text, and not empty when the field is empty and alone.
LEMMA WrittenIs ==
    ASSUME NEW S, Quote \in S, NEW f \in Seq(S), NEW alone, NEW w \in CSV!Written(f, alone)
    PROVE  /\ w = CSV!Quoted(f) \/ (w = f /\ CSV!Range(f) \cap {Separator, Quote} = {})
           /\ w \in Seq(S) /\ Len(w) \in Nat /\ (alone => Len(w) > 0)
<1>1. CASE w = CSV!Quoted(f)
  <2>1. PICK x \in Seq(S) : x = CSV!FlattenSeq(Doubled(f))
    BY DoubledIs, Flattened
  <2>2. w = << Quote >> \o x \o << Quote >>
    BY <1>1, <2>1 DEF CSV!Quoted, Doubled
  <2>3. w \in Seq(S) /\ Len(w) = Len(x) + 2 /\ Len(x) \in Nat
    BY <2>2, Between
  <2> QED BY <1>1, <2>3
<1>2. CASE w = f /\ CSV!Range(f) \cap {Separator, Quote} = {} /\ ~(alone /\ f = <<>>)
  <2>1. f # <<>> => Len(f) > 0
    BY EmptySeq
  <2> QED BY <1>2, <2>1
<1>3. w = CSV!Quoted(f) \/ (w = f /\ CSV!Range(f) \cap {Separator, Quote} = {} /\ ~(alone /\ f = <<>>))
  BY DEF CSV!Written
<1> QED BY <1>1, <1>2, <1>3

\* A sequence behind one more.
LEMMA Prefixed ==
    ASSUME NEW S, NEW c \in S, NEW x \in Seq(S)
    PROVE  /\ << c >> \o x \in Seq(S) /\ Len(<< c >> \o x) = 1 + Len(x) /\ (<< c >> \o x)[1] = c
           /\ \A k \in 1..Len(x) : (<< c >> \o x)[1 + k] = x[k]
<1>1. PICK y \in Seq(S) : y = << c >> /\ Len(y) = 1 /\ y[1] = c
  <2>1. << c >> \in Seq(S)
    OBVIOUS
  <2>2. Len(<< c >>) = 1 /\ << c >>[1] = c
    OBVIOUS
  <2> QED BY <2>1, <2>2
<1>2. PICK z \in Seq(S) : z = y \o x
  BY Concatenated
<1>3. /\ Len(z) = Len(y) + Len(x) /\ \A k \in 1..Len(y) : z[k] = y[k]
      /\ \A k \in 1..Len(x) : z[Len(y) + k] = x[k]
  BY <1>2, Concatenated
<1>4. z[1] = c /\ Len(z) = 1 + Len(x) /\ \A k \in 1..Len(x) : z[1 + k] = x[k]
  BY <1>1, <1>3
<1> QED BY <1>1, <1>2, <1>4

\* A row is split as it was, whichever of its fields were quoted.
LEMMA LineBack ==
    ASSUME NEW S, Quote \in S, Separator \in S, Separator # Quote,
           NEW row \in Seq(Seq(S)), row # <<>>, NEW w, w = [i \in DOMAIN row |-> w[i]],
           \A i \in DOMAIN row : w[i] \in CSV!Written(row[i], Len(row) = 1)
    PROVE  CSV!split(CSV!Line(w)) = row
<1>1. PICK n \in Nat : n = Len(row) /\ n # 0 /\ DOMAIN row = 1..n /\ DOMAIN w = 1..n
  <2>1. Len(row) \in Nat \ {0} /\ DOMAIN row = 1..Len(row)
    BY EmptySeq
  <2> QED BY <2>1
<1>2. PICK alone : alone = (Len(row) = 1) /\ alone \in BOOLEAN
  OBVIOUS
<1>3. \A i \in 1..n : /\ row[i] \in Seq(S)
                      /\ \/ w[i] = CSV!Quoted(row[i])
                         \/ w[i] = row[i] /\ CSV!Range(row[i]) \cap {Separator, Quote} = {}
                      /\ w[i] \in Seq(S) /\ Len(w[i]) \in Nat /\ (alone => Len(w[i]) > 0)
  BY <1>1, <1>2, WrittenIs
<1>4. PICK q : q = [i \in 1..n |-> IF i = 1 THEN w[i] ELSE << Separator >> \o w[i]]
  OBVIOUS
<1>5. ASSUME NEW i \in 1..n, i # 1
      PROVE  /\ q[i] \in Seq(S) /\ Len(q[i]) = 1 + Len(w[i]) /\ q[i][1] = Separator
             /\ \A k \in 1..Len(w[i]) : q[i][1 + k] = w[i][k]
  <2>1. PICK x \in Seq(S) : x = w[i]
    BY <1>3
  <2>2. q[i] = << Separator >> \o x
    BY <1>4, <1>5, <2>1
  <2>3. PICK y : y = << Separator >> \o x
    OBVIOUS
  <2>4. y \in Seq(S) /\ Len(y) = 1 + Len(x) /\ y[1] = Separator /\ \A k \in 1..Len(x) : y[1 + k] = x[k]
    BY <2>3, Prefixed
  <2> QED BY <2>1, <2>2, <2>3, <2>4
<1>6. 1 \in 1..n /\ q[1] = w[1]
  BY <1>1, <1>4
<1>7. q \in Seq(Seq(S)) /\ Len(q) = n
  <2>1. \A i \in 1..n : q[i] \in Seq(S)
    BY <1>3, <1>5, <1>6
  <2>2. q = [i \in 1..n |-> q[i]]
    BY <1>4
  <2> QED BY <1>1, <2>1, <2>2
<1>8. PICK s \in Seq(S) : s = CSV!FlattenSeq(q)
  BY <1>7, Flattened
<1>9. CSV!Line(w) = s
  BY <1>1, <1>4, <1>8 DEF CSV!Line
<1>10. PICK l \in Nat : l = Len(s)
  OBVIOUS
<1>11. PICK e : Laid(q, s, 0, e) /\ e[n] = l
  <2>1. q # <<>>
    BY <1>1, <1>7
  <2> QED BY <1>7, <1>8, <1>10, <2>1, FlattenLays
<1>12. /\ e \in [0..n -> Nat] /\ e[0] = 0
       /\ \A i \in 1..n : /\ e[i] = e[i - 1] + Len(q[i]) /\ e[i] <= l
                          /\ \A k \in 1..Len(q[i]) : s[e[i - 1] + k] = q[i][k]
  BY <1>7, <1>10, <1>11 DEF Laid
\* Where field i begins, but for one.
<1> DEFINE p == [i \in 1..n |-> IF i = 1 THEN 0 ELSE e[i - 1] + 1]
<1>13. p[1] = 0 /\ \A i \in 1..n : i # 1 => p[i] = e[i - 1] + 1
  BY <1>6
<1> HIDE DEF p
<1>14. ASSUME NEW i \in 1..n
       PROVE  /\ p[i] \in Nat /\ e[i] \in Nat /\ e[i] = p[i] + Len(w[i]) /\ e[i] <= l
              /\ \A k \in 1..Len(w[i]) : s[p[i] + k] = w[i][k]
              /\ i # 1 => s[p[i]] = Separator
  <2>1. i \in 0..n /\ i - 1 \in 0..n
    OBVIOUS
  <2>2. PICK h \in Nat : h = e[i - 1]
    BY <1>12, <2>1
  <2>3. PICK m \in Nat : m = Len(w[i])
    BY <1>3
  <2>4. e[i] \in Nat /\ e[i] <= l
    BY <1>12, <2>1
  <2>5. CASE i = 1
    <3>1. h = 0 /\ p[i] = 0 /\ q[i] = w[i]
      BY <1>6, <1>12, <1>13, <2>2, <2>5
    <3>2. e[i] = h + m /\ \A k \in 1..m : s[h + k] = w[i][k]
      <4>1. e[i] = e[i - 1] + Len(q[i]) /\ \A k \in 1..Len(q[i]) : s[e[i - 1] + k] = q[i][k]
        BY <1>12
      <4> QED BY <2>2, <2>3, <3>1, <4>1
    <3> QED BY <2>3, <2>4, <2>5, <3>1, <3>2
  <2>6. CASE i # 1
    <3>1. p[i] = h + 1 /\ Len(q[i]) = 1 + m /\ q[i][1] = Separator
      BY <1>5, <1>13, <2>2, <2>3, <2>6
    <3>2. e[i] = h + (1 + m) /\ \A k \in 1..(1 + m) : s[h + k] = q[i][k]
      BY <1>12, <2>2, <3>1
    <3>3. h + (1 + m) = (h + 1) + m /\ 1 \in 1..(1 + m) /\ h + 1 \in Nat
      OBVIOUS
    <3>4. ASSUME NEW k \in 1..m PROVE s[(h + 1) + k] = w[i][k]
      <4>1. PICK j \in 1..(1 + m) : j = 1 + k
        OBVIOUS
      <4>2. s[h + j] = q[i][j]
        BY <3>2
      <4>3. h + j = (h + 1) + k
        BY <4>1
      <4>4. q[i][1 + k] = w[i][k]
        BY <1>5, <2>3, <2>6
      <4> QED BY <4>1, <4>2, <4>3, <4>4
    <3> QED BY <2>3, <2>4, <3>1, <3>2, <3>3, <3>4
  <2> QED BY <2>5, <2>6
<1>15. s # <<>> /\ l > 0
  <2>1. l > 0
    <3>1. CASE n = 1
      <4>1. alone
        BY <1>1, <1>2, <3>1
      <4>2. Len(w[1]) > 0 /\ Len(w[1]) \in Nat
        BY <1>3, <1>6, <4>1
      <4>3. e[1] = p[1] + Len(w[1]) /\ e[1] <= l
        BY <1>6, <1>14
      <4> QED BY <1>13, <4>2, <4>3
    <3>2. CASE n # 1
      <4>1. 2 \in 1..n /\ 2 - 1 = 1 /\ 2 # 1
        BY <1>1, <3>2
      <4>2. p[2] = e[1] + 1
        BY <1>13, <4>1
      <4>3. e[1] \in Nat /\ e[2] = p[2] + Len(w[2]) /\ e[2] <= l /\ Len(w[2]) \in Nat
        BY <1>3, <1>6, <1>14, <4>1
      <4> QED BY <4>2, <4>3
    <3> QED BY <3>1, <3>2
  <2> QED BY <1>10, <2>1, EmptySeq
<1>16. PICK g : /\ CSV!split(s) = g[1]
                /\ \A j \in 1..(Len(s) + 1) : g[j] = SplitAt(s, g, j)
  BY <1>15, SplitBy
<1>17. ASSUME NEW i \in 1..n
       PROVE  g[p[i] + 1] = << row[i] >> \o (IF e[i] < l THEN g[p[i + 1] + 1] ELSE <<>>)
  <2>1. PICK b \in Nat : b = p[i]
    BY <1>14
  <2>2. PICK z \in Nat : z = e[i] /\ z <= l
    BY <1>14
  <2>3. PICK v : v = w[i]
    OBVIOUS
  <2>4. PICK f \in Seq(S) : f = row[i]
    BY <1>3
  <2>5. z = b + Len(v) /\ Len(v) \in Nat /\ \A k \in 1..Len(v) : s[b + k] = v[k]
    BY <1>3, <1>14, <2>1, <2>2, <2>3
  <2>6. z < l => i # n /\ i + 1 \in 1..n /\ (i + 1) - 1 = i /\ i + 1 # 1
    BY <1>11, <2>2
  <2>7. z < l => p[i + 1] = z + 1 /\ s[z + 1] = Separator
    <3>1. SUFFICES ASSUME z < l PROVE p[i + 1] = z + 1 /\ s[z + 1] = Separator
      OBVIOUS
    <3>2. PICK y \in 1..n : y = i + 1 /\ y - 1 = i /\ y # 1
      BY <2>6, <3>1
    <3>3. p[y] = z + 1
      BY <1>13, <2>2, <3>2
    <3>4. s[p[y]] = Separator
      BY <1>14, <3>2
    <3> QED BY <3>2, <3>3, <3>4
  <2>8. z = Len(s) \/ s[z + 1] = Separator
    BY <1>10, <2>2, <2>7
  <2>9. FieldAt(s, b + 1) = [fld |-> f, next |-> z + 1]
    <3>1. v = CSV!Quoted(f) \/ (v = f /\ CSV!Range(f) \cap {Separator, Quote} = {})
      BY <1>3, <2>3, <2>4
    <3>2. Lies(v, s, b, z)
      BY <1>10, <2>2, <2>5 DEF Lies
    <3> QED BY <2>8, <3>1, <3>2, FieldBack
  <2>10. b + 1 \in 1..(Len(s) + 1)
    BY <1>10, <2>2, <2>5
  <2>11. g[b + 1] = SplitAt(s, g, b + 1)
    BY <1>16, <2>10
  <2>12. FieldAt(s, b + 1).fld = f /\ FieldAt(s, b + 1).next = z + 1
    BY <2>9
  <2>13. g[b + 1] = << f >> \o (IF z + 1 <= Len(s) THEN g[(z + 1) + 1] ELSE <<>>)
    BY <2>11, <2>12 DEF SplitAt
  <2>14. z + 1 <= Len(s) <=> z < l
    BY <1>10, <2>2
  <2>15. z < l => g[p[i + 1] + 1] = g[(z + 1) + 1]
    BY <2>7
  <2>16. CASE z < l
    BY <2>1, <2>2, <2>4, <2>13, <2>14, <2>15, <2>16
  <2>17. CASE ~(z < l)
    BY <2>1, <2>2, <2>4, <2>13, <2>14, <2>17
  <2> QED BY <2>16, <2>17
<1> DEFINE Good(i) == g[p[i] + 1] = SubSeq(row, i, n)
<1>18. Good(n)
  <2>1. n \in 1..n /\ ~(e[n] < l) /\ n + 1 \in Int
    BY <1>1, <1>10, <1>11
  <2>2. g[p[n] + 1] = << row[n] >> \o <<>>
    BY <1>17, <2>1
  <2>3. SubSeq(row, n, n) = << row[n] >> \o SubSeq(row, n + 1, n)
    <3>1. n \in 1..Len(row) /\ n \in n..Len(row)
      BY <1>1
    <3> QED BY <3>1, SubSeqRecursiveFirst
  <2>4. SubSeq(row, n + 1, n) = <<>>
    <3>1. n \in Int /\ n < n + 1
      OBVIOUS
    <3> QED BY <2>1, <3>1, SubSeqEmpty
  <2> QED BY <2>2, <2>3, <2>4
<1>19. ASSUME NEW i \in 1..n, i # n, Good(i + 1) PROVE Good(i)
  <2>1. i + 1 \in 1..n /\ i + 1 # 1 /\ (i + 1) - 1 = i
    BY <1>1, <1>19
  <2>2. e[i] < l
    <3>1. p[i + 1] = e[i] + 1 /\ e[i] \in Nat
      BY <1>13, <1>14, <2>1
    <3>2. e[i + 1] = p[i + 1] + Len(w[i + 1]) /\ e[i + 1] <= l /\ Len(w[i + 1]) \in Nat
      BY <1>3, <1>14, <2>1
    <3> QED BY <3>1, <3>2
  <2>3. g[p[i] + 1] = << row[i] >> \o g[p[i + 1] + 1]
    BY <1>17, <2>2
  <2>4. SubSeq(row, i, n) = << row[i] >> \o SubSeq(row, i + 1, n)
    <3>1. i \in 1..Len(row) /\ n \in i..Len(row)
      BY <1>1
    <3> QED BY <3>1, SubSeqRecursiveFirst
  <2> QED BY <1>19, <2>3, <2>4
<1>20. Good(1)
  <2> HIDE DEF Good
  <2> DEFINE Ends == {m \in 1..n : Good(m)}
  <2>1. PICK m \in Ends : \A k \in Ends : m <= k
    <3>1. Ends \in SUBSET Nat /\ n \in Ends
      BY <1>1, <1>18
    <3> HIDE DEF Ends
    <3> QED BY <3>1, Least
  <2>2. m \in 1..n /\ Good(m)
    BY <2>1
  <2>3. m = 1
    <3>1. SUFFICES ASSUME m # 1 PROVE FALSE
      OBVIOUS
    <3>2. PICK i \in 1..n : i = m - 1
      BY <2>2, <3>1
    <3>3. i + 1 = m /\ i # n /\ ~(m <= i)
      BY <2>2, <3>2
    <3>4. Good(i)
      BY <1>19, <2>2, <3>3
    <3>5. i \in Ends
      BY <3>4
    <3> QED BY <2>1, <3>3, <3>5
  <2> QED BY <2>2, <2>3
<1>21. SubSeq(row, 1, n) = row
  BY <1>1, SubSeqFull
<1>22. p[1] + 1 = 1
  BY <1>13
<1> QED BY <1>9, <1>16, <1>20, <1>21, <1>22

\* The least of the numbers that there are.
LEMMA LeastIs ==
    ASSUME NEW T \in SUBSET Nat, NEW x \in T
    PROVE  CSV!Least(T) \in T /\ CSV!Least(T) \in 0..x /\ \A y \in T : CSV!Least(T) <= y
<1>1. \E n \in T : \A y \in T : n <= y
  BY Least
<1>2. PICK n : n = CSV!Min(T)
  OBVIOUS
<1>3. n \in T /\ \A y \in T : n <= y
  BY <1>1, <1>2 DEF CSV!Min
<1>4. CSV!Least(T) = n
  BY <1>2 DEF CSV!Least
<1>5. n \in Nat /\ x \in Nat /\ n <= x
  BY <1>3
<1> QED BY <1>3, <1>4, <1>5

\* The table is the rows that were written, as they were.
CSVInv ==
    /\ vLines = written
    /\ vLines \in Seq(CSV!Rows) /\ Len(vLines) <= MaxRows
    /\ maxColumn \in 0..MaxColumns

\* The rows are of fields, and the fields of characters.
LEMMA RowsAre ==
    ASSUME CSV!CSVAssumption, NEW row \in CSV!Rows
    PROVE  /\ row \in Seq(CSV!Fields) /\ row \in Seq(Seq(Others \cup {Separator, Quote}))
           /\ row # <<>> /\ Len(row) \in 1..MaxColumns
<1>1. PICK n \in 1..MaxColumns : row \in [1..n -> CSV!Fields]
  BY DEF CSV!Rows
<1>2. MaxColumns \in Nat /\ n \in Nat /\ n # 0
  BY DEF CSV!CSVAssumption
<1>3. row \in Seq(CSV!Fields) /\ Len(row) = n
  BY <1>1, <1>2
<1>4. \A f \in CSV!Fields : f \in Seq(Others \cup {Separator, Quote})
  <2>1. ASSUME NEW f \in CSV!Fields PROVE f \in Seq(Others \cup {Separator, Quote})
    <3>1. PICK m \in 0..MaxField : f \in [1..m -> Others \cup {Separator, Quote}]
      BY DEF CSV!Fields, CSV!BoundedSeq, CSV!SeqOf
    <3>2. m \in Nat
      BY DEF CSV!CSVAssumption
    <3> QED BY <3>1, <3>2
  <2> QED BY <2>1
<1>5. row \in Seq(Seq(Others \cup {Separator, Quote}))
  BY <1>1, <1>2, <1>3, <1>4
<1> QED BY <1>2, <1>3, <1>5, EmptySeq

\* The invariant holds at first.
LEMMA CSVInit == ASSUME CSV!CSVAssumption PROVE CSV!Init => CSVInv
  BY EmptySeq DEF CSV!Init, CSVInv, CSV!CSVAssumption

\* A row that is written is split as it was.
LEMMA CSVNext == ASSUME CSV!CSVAssumption PROVE CSVInv /\ [CSV!Next]_csvVars => CSVInv'
<1> SUFFICES ASSUME CSVInv, [CSV!Next]_csvVars PROVE CSVInv'
  OBVIOUS
<1>1. ASSUME NEW row \in CSV!Rows, CSV!getline(row) PROVE CSVInv'
  <2>1. PICK S : S = Others \cup {Separator, Quote}
    OBVIOUS
  <2>2. Quote \in S /\ Separator \in S /\ Separator # Quote
    BY <2>1 DEF CSV!CSVAssumption
  <2>3. row \in Seq(Seq(S)) /\ row # <<>> /\ Len(row) \in 1..MaxColumns
    BY <2>1, RowsAre
  <2>4. PICK line \in CSV!Lines(row) :
               /\ vLines' = Append(vLines, CSV!split(line))
               /\ maxColumn' = IF maxColumn < Len(CSV!split(line)) THEN Len(CSV!split(line)) ELSE maxColumn
    BY <1>1 DEF CSV!getline
  <2>5. PICK w : /\ w = [i \in DOMAIN row |-> w[i]] /\ line = CSV!Line(w)
                 /\ \A i \in DOMAIN row : w[i] \in CSV!Written(row[i], Len(row) = 1)
    BY <2>4 DEF CSV!Lines
  <2>6. CSV!split(line) = row
    BY <2>2, <2>3, <2>5, LineBack
  <2>7. written' = Append(written, row) /\ Len(vLines) < MaxRows
    BY <1>1 DEF CSV!getline
  <2>8. vLines' = written' /\ vLines' = Append(vLines, row) /\ maxColumn' \in {Len(row), maxColumn}
    BY <2>4, <2>6, <2>7 DEF CSVInv
  <2>9. Append(vLines, row) \in Seq(CSV!Rows) /\ Len(Append(vLines, row)) = Len(vLines) + 1
    BY DEF CSVInv
  <2>10. Len(vLines) + 1 <= MaxRows
    BY <2>7 DEF CSVInv, CSV!CSVAssumption
  <2>11. Len(row) \in 0..MaxColumns
    BY <2>3
  <2> QED BY <2>8, <2>9, <2>10, <2>11 DEF CSVInv
<1>2. ASSUME UNCHANGED csvVars PROVE CSVInv'
  BY <1>2 DEF CSVInv, csvVars
<1>3. ASSUME CSV!parseFile PROVE CSVInv'
  BY <1>3 DEF CSV!parseFile, CSVInv, CSV!CSVAssumption
<1> QED BY <1>1, <1>2, <1>3 DEF CSV!Next

\* A table that is the rows that were written answers as they would.
LEMMA CSVImplies == ASSUME CSV!CSVAssumption, CSVInv PROVE FieldsFound
<1>1. vLines = written /\ vLines \in Seq(CSV!Rows) /\ Len(vLines) <= MaxRows /\ maxColumn \in 0..MaxColumns
  BY DEF CSVInv
<1>2. PICK rows : rows = vLines
  OBVIOUS
<1>3. PICK l \in Nat : l = Len(rows) /\ DOMAIN rows = 1..l /\ \A r \in 1..l : rows[r] \in CSV!Rows
  BY <1>1, <1>2, LenProperties
<1>4. \A r \in 1..l : rows[r] \in Seq(CSV!Fields) /\ Len(rows[r]) \in Nat /\ DOMAIN rows[r] = 1..Len(rows[r])
  BY <1>3, RowsAre
<1>5. CSV!TypeOK
  <2>1. rows \in Seq(Seq(CSV!Fields))
    <3>1. rows = [r \in 1..l |-> rows[r]]
      BY <1>1, <1>2, <1>3
    <3>2. \A r \in 1..l : rows[r] \in Seq(CSV!Fields)
      BY <1>4
    <3>3. l \in Nat
      OBVIOUS
    <3> QED BY <3>1, <3>2, <3>3
  <2> QED BY <1>1, <1>2, <2>1 DEF CSV!TypeOK
<1>6. ASSUME NEW r \in 1..l, NEW c \in 1..Len(rows[r]), NEW name, name = rows[r][c]
      PROVE  /\ CSV!getData(r - 1, c - 1) = name
             /\ CSV!getRowByString(name, -1) \in 0..(r - 1)
             /\ CSV!getData(CSV!getRowByString(name, -1), CSV!getColumnByString(name, -1)) = name
             /\ CSV!getRowByString(name, c - 1) \in CSV!getRowByString(name, -1)..(r - 1)
             /\ CSV!getColumnByString(name, r - 1) \in 0..(c - 1)
  <2>1. Len(rows[r]) \in Nat /\ DOMAIN rows[r] = 1..Len(rows[r]) /\ c \in Nat /\ r \in Nat
    BY <1>4
  <2>2. (r - 1) + 1 = r /\ (c - 1) + 1 = c /\ r - 1 \in 0..(l - 1) /\ c - 1 \in 0..(Len(rows[r]) - 1)
        /\ c - 1 # -1 /\ r - 1 # -1
    BY <2>1
  <2>3. CSV!Holds(name, r - 1, c - 1)
    BY <1>2, <1>6, <2>1, <2>2 DEF CSV!Holds
  <2>4. CSV!getData(r - 1, c - 1) = name
    BY <1>2, <1>3, <1>6, <2>1, <2>2 DEF CSV!getData
  \* The rows that have it, those that have it in this column, and the columns that have it.
  <2> DEFINE Has == {row \in 0..(l - 1) : \E x \in 0..(Len(rows[row + 1]) - 1) : CSV!Holds(name, row, x)}
             HasHere == {row \in 0..(l - 1) : \E x \in {c - 1} : CSV!Holds(name, row, x)}
             Columns(row) == {x \in 0..(Len(rows[row + 1]) - 1) : CSV!Holds(name, row, x)}
  <2>5. PICK row : row = CSV!getRowByString(name, -1)
    OBVIOUS
  <2>6. row = CSV!Least(Has)
    BY <1>2, <1>3, <2>5 DEF CSV!getRowByString
  <2>7. Has \in SUBSET Nat /\ r - 1 \in Has
    BY <2>2, <2>3
  <2>8. row \in Has /\ row \in 0..(r - 1) /\ \A y \in Has : row <= y
    <3> HIDE DEF Has
    <3> QED BY <2>6, <2>7, LeastIs
  <2>9. PICK x \in 0..(Len(rows[row + 1]) - 1) : CSV!Holds(name, row, x)
    BY <2>8
  <2>10. Columns(row) \in SUBSET Nat /\ x \in Columns(row)
    BY <2>9
  <2>11. PICK column : column = CSV!getColumnByString(name, -1)
    OBVIOUS
  <2>12. column = CSV!Least(Columns(row))
    <3>1. row # -1
      BY <2>8
    <3> QED BY <1>2, <2>5, <2>11, <3>1 DEF CSV!getColumnByString
  <2>13. column \in Columns(row)
    <3> HIDE DEF Columns
    <3> QED BY <2>10, <2>12, LeastIs
  <2>14. CSV!getData(row, column) = name
    <3>1. row + 1 \in 1..l
      BY <2>8
    <3>2. CSV!Holds(name, row, column)
      BY <2>13
    <3> QED BY <1>2, <1>3, <3>1, <3>2 DEF CSV!getData, CSV!Holds
  <2>15. CSV!getRowByString(name, c - 1) = CSV!Least(HasHere)
    BY <1>2, <1>3, <2>2 DEF CSV!getRowByString
  <2>16. HasHere \in SUBSET Nat /\ r - 1 \in HasHere
    BY <2>2, <2>3
  <2>17. ASSUME NEW y \in HasHere PROVE y \in Has
    <3>1. y \in 0..(l - 1) /\ CSV!Holds(name, y, c - 1)
      OBVIOUS
    <3>2. y + 1 \in 1..l
      BY <3>1
    <3>3. (c - 1) + 1 \in DOMAIN rows[y + 1]
      BY <1>2, <3>1 DEF CSV!Holds
    <3>4. c \in 1..Len(rows[y + 1]) /\ Len(rows[y + 1]) \in Nat
      BY <1>4, <2>2, <3>2, <3>3
    <3>5. c - 1 \in 0..(Len(rows[y + 1]) - 1)
      BY <2>1, <3>4
    <3> QED BY <3>1, <3>5
  <2>18. CSV!getRowByString(name, c - 1) \in row..(r - 1)
    <3>1. PICK y : y = CSV!Least(HasHere)
      OBVIOUS
    <3> HIDE DEF Has, HasHere
    <3>2. y \in HasHere /\ y \in 0..(r - 1)
      BY <2>16, <3>1, LeastIs
    <3>3. row <= y
      BY <2>8, <2>17, <3>2
    <3>4. y \in row..(r - 1)
      BY <2>1, <2>8, <3>2, <3>3
    <3> QED BY <2>15, <3>1, <3>4
  <2>19. CSV!getColumnByString(name, r - 1) \in 0..(c - 1)
    <3>1. CSV!getColumnByString(name, r - 1) = CSV!Least(Columns(r - 1))
      BY <1>2, <2>2 DEF CSV!getColumnByString
    <3>2. Columns(r - 1) \in SUBSET Nat /\ c - 1 \in Columns(r - 1)
      BY <2>2, <2>3
    <3> HIDE DEF Columns
    <3> QED BY <3>1, <3>2, LeastIs
  <2> QED BY <2>4, <2>5, <2>8, <2>11, <2>14, <2>18, <2>19
<1>7. ASSUME NEW r \in DOMAIN written
      PROVE  /\ Len(vLines[r]) = Len(written[r])
             /\ \A c \in DOMAIN written[r] :
                   LET name == written[r][c]
                       row == CSV!getRowByString(name, -1)
                       column == CSV!getColumnByString(name, -1)
                   IN  /\ CSV!getData(r - 1, c - 1) = name
                       /\ row \in 0..(r - 1) /\ CSV!getData(row, column) = name
                       /\ CSV!getRowByString(name, c - 1) \in row..(r - 1)
                       /\ CSV!getColumnByString(name, r - 1) \in 0..(c - 1)
  <2>1. r \in 1..l /\ DOMAIN written[r] = 1..Len(rows[r]) /\ vLines[r] = rows[r] /\ written[r] = rows[r]
    BY <1>1, <1>2, <1>3, <1>4
  <2> QED BY <1>6, <2>1
<1> QED BY <1>1, <1>5, <1>7 DEF FieldsFound, CSV!FieldsFound

--------------------------------------------------------------------------------
(***************************************************************************)
(* The theorems.                                                           *)
(***************************************************************************)
\* Every part starts as it does by itself, and moves as it does by itself or not at all.
LEMMA Parts ==
    /\ Init => Packet!Init /\ Mysql!Init /\ Pool!Init /\ Log!Init /\ TestClients!Init /\ CSV!Init
    /\ [Next]_vars => /\ [Packet!Next]_packetVars
                      /\ [Mysql!Next]_mysqlVars
                      /\ [Pool!Next]_poolVars
                      /\ [Log!Next]_logVars
                      /\ [TestClients!Next]_clientsVars
                      /\ [CSV!Next]_csvVars
<1>1. Init => Packet!Init /\ Mysql!Init /\ Pool!Init /\ Log!Init /\ TestClients!Init /\ CSV!Init
  BY DEF Init
<1>2. ASSUME Next
      PROVE  /\ Packet!Next \/ UNCHANGED packetVars
             /\ Mysql!Next \/ UNCHANGED mysqlVars
             /\ Pool!Next \/ UNCHANGED poolVars
             /\ Log!Next \/ UNCHANGED logVars
             /\ TestClients!Next \/ UNCHANGED clientsVars
             /\ CSV!Next \/ UNCHANGED csvVars
  BY <1>2 DEF Next
<1>3. ASSUME UNCHANGED vars
      PROVE  /\ UNCHANGED packetVars /\ UNCHANGED mysqlVars /\ UNCHANGED poolVars
             /\ UNCHANGED logVars /\ UNCHANGED clientsVars /\ UNCHANGED csvVars
  BY <1>3 DEF vars
<1> QED BY <1>1, <1>2, <1>3

\* Whatever is written, in any order and of any sizes, stays within what XAsioBuffer
\* allocated (resize, writeData and operator << in XAsioPacket.cpp), but for a value
\* written when more than half of MAX_PACKET_SIZE is used.
THEOREM WithinAllocationCorrect == Spec => []WithinAllocation
<1>1. Packet!BufferAssumption
  BY LibraryAssumption
<1>2. PacketInv => WithinAllocation
  BY DEF PacketInv, WithinAllocation
<1>3. Init => PacketInv
  BY Parts, PacketInit
<1>4. PacketInv /\ [Next]_vars => PacketInv'
  BY <1>1, Parts, PacketNext
<1> QED BY <1>2, <1>3, <1>4, PTL DEF Spec

\* Whatever is written and read, in any order, the reader finds each item where it was
\* written, with nothing between them, and reaches the end with the last; unless the buffer
\* was cleared after it was read, which leaves m_iCursorPos (XAsioBuffer::clear).
THEOREM ReadsBackCorrect == Spec => []ReadsBack
<1>1. Packet!BufferAssumption
  BY LibraryAssumption
<1>2. ReadInv => ReadsBack
  BY DEF ReadInv, ReadsBack
<1>3. Init => ReadInv
  BY <1>1, Parts, ReadInit
<1>4. ReadInv /\ [Next]_vars => ReadInv'
  BY <1>1, Parts, ReadNext
<1> QED BY <1>2, <1>3, <1>4, PTL DEF Spec

\* However threads take and give back connections, and the database drops them, each
\* connection of a pool has one place, and is counted, until the pool is closed or two
\* threads that find no main connection make one each; and short of the latter the count
\* is never above m_iMaxConnect, nor below 0, even when the pool was closed
\* (getPoolConnection, releaseConnection, close and getConnection in XDBMysql.cpp).
THEOREM AccountedCorrect == Spec => []Accounted
<1>1. Mysql!MysqlAssumption
  BY LibraryAssumption
<1> DEFINE Inv == MysqlLoose /\ (~overwritten => MysqlInv)
<1>2. Inv => Accounted
  BY <1>1, MysqlImplies
<1>3. Init => Inv
  <2>1. <<>> \in Seq(Conns) /\ Mysql!Range(<<>>) = {}
    BY DEF Mysql!Range
  <2>2. Init => Mysql!Init /\ MysqlInv
    BY <1>1, Parts, MysqlInit
  <2>3. Mysql!Init => MysqlLoose
    <3> SUFFICES ASSUME Mysql!Init PROVE MysqlLoose
      OBVIOUS
    <3>1. /\ conn = [c \in Conns |-> "none"] /\ using = [t \in Users |-> NoConn]
          /\ pConnection = NoConn /\ listConnect = <<>> /\ curConnect = 0 /\ leaked = {}
          /\ overwritten = FALSE
      BY DEF Mysql!Init
    <3>2. /\ conn \in [Conns -> {"none", "open", "closed", "deleted"}]
          /\ using \in [Users -> Conns \cup {NoConn}]
      BY <3>1
    <3>3. listConnect \in Seq(Conns)
      BY <2>1, <3>1
    <3>4. pConnection \in Conns \cup {NoConn} /\ curConnect \in Int /\ leaked \subseteq Conns
      BY <3>1
    <3>5. overwritten \in BOOLEAN
      BY <3>1
    <3> QED BY <3>2, <3>3, <3>4, <3>5, Zenon DEF MysqlLoose
  <2> QED BY <2>2, <2>3
<1>4. Inv /\ [Next]_vars => Inv'
  BY <1>1, Parts, MysqlNext, LooseNext
<1> HIDE DEF Inv
<1> QED BY <1>2, <1>3, <1>4, PTL DEF Spec

\* However queries, releases and the free timer overlap, an object of XAsioPool is in one
\* list or one hand, and once, and the timer waits at most once for each thread.
THEOREM OneHomeCorrect == Spec => []OneHome
<1>1. Pool!PoolAssumption
  BY LibraryAssumption
<1>2. PoolInv => OneHome
  BY <1>1, PoolImplies
<1>3. Init => PoolInv
  BY <1>1, Parts, PoolInit
<1>4. PoolInv /\ [Next]_vars => PoolInv'
  BY <1>1, Parts, PoolNext
<1> QED BY <1>2, <1>3, <1>4, PTL DEF Spec

\* No text is lost, written twice or moved before an earlier one, except those for which
\* the file did not open: through XLogUtil whatever the threads do, and with XLogger as long
\* as its calls do not overlap and no text is written at once while others are in the
\* buffer (XLog.cpp).  The text is that of the call, or of XLogUtil::writeString, which
\* ignores its own, one from before it.
THEOREM AllLoggedCorrect == Spec => []AllLogged
<1>1. Log!LogAssumption
  BY LibraryAssumption
<1>2. LogInv /\ Says => AllLogged
  BY LogImplies
<1>3. Init => LogInv /\ Says
  BY <1>1, Parts, LogInit, SaysInit
<1>4. LogInv /\ Says /\ [Next]_vars => (LogInv /\ Says)'
  BY <1>1, Parts, LogNext, SaysNext
<1> QED BY <1>2, <1>3, <1>4, PTL DEF Spec

\* Whatever the io threads do between isConnected and disconnect in closeClient
\* (XServerGroupTestClient.cpp), no client is lost by both maps, is in both, or keeps its
\* service after it left the live ones; as long as m_mapClient is not changed while an io
\* thread, which has no mutex, looks its client up.
THEOREM NoneForgottenCorrect == Spec => []NoneForgotten
<1>1. TestClients!ClientsAssumption
  BY LibraryAssumption
<1>2. ClientsInv => NoneForgotten
  BY DEF ClientsInv, InOneMap, NoneForgotten, TestClients!NoneForgotten
<1>3. Init => ClientsInv
  BY <1>1, Parts, ClientsInit
<1>4. ClientsInv /\ [Next]_vars => ClientsInv'
  BY <1>1, Parts, ClientsNext
<1> QED BY <1>2, <1>3, <1>4, PTL DEF Spec

\* Whatever separators and quotes the fields of a file hold, and whichever of them were
\* quoted, the table is the rows that were written, and each field is found in the first
\* row and column that have it (split, advquoted, advplain and getData in XCSVParser.cpp).
THEOREM FieldsFoundCorrect == Spec => []FieldsFound
<1>1. CSV!CSVAssumption
  BY LibraryAssumption
<1>2. CSVInv => FieldsFound
  BY <1>1, CSVImplies
<1>3. Init => CSVInv
  BY <1>1, Parts, CSVInit
<1>4. CSVInv /\ [Next]_vars => CSVInv'
  BY <1>1, Parts, CSVNext
<1> QED BY <1>2, <1>3, <1>4, PTL DEF Spec
================================================================================
