------------------------------ MODULE PacketBuffer ------------------------------
(***************************************************************************)
(* XAsioBuffer and XAsioSendPacket (asio/XAsioPacket): how much a buffer   *)
(* holds, how much is allocated for it and what is still to be read of it. *)
(* A buffer is written and read by one thread; what a call that throws     *)
(* leaves unchanged is not a step.                                         *)
(*                                                                         *)
(* Sizes are in units: a string has one for its length, a value is one.    *)
(***************************************************************************)
EXTENDS Naturals, Sequences

CONSTANTS
    MaxPacketSize,  \* MAX_PACKET_SIZE
    HeaderSize,     \* sizeof(XAsioPacketHeader)
    Wrap,           \* 2^16: a string's length is kept in an unsigned short
    Sizes           \* bound: sizes of the data and strings written

BufferAssumption ==
    /\ MaxPacketSize \in Nat /\ HeaderSize \in 1..MaxPacketSize
    /\ Wrap \in Nat /\ Wrap > MaxPacketSize /\ Sizes \subseteq Nat

VARIABLES
    bufData,        \* m_bufData: whether there is any, its two sizes, the ownership
    cursor,         \* m_iCursorPos
    unread,         \* what was written and not yet read: [is, at, size]
    packetSize,     \* m_dwSize of an XAsioSendPacket
    pastHalf,       \* history: a value was written without room being made for it
    rewound         \* history: the buffer was cleared after it was read from

vars == << bufData, cursor, unread, packetSize, pastHalf, rewound >>

Empty == [data |-> FALSE, allocated |-> 0, size |-> 0, owns |-> FALSE]

Init ==
    /\ \E n \in {0, 2} :        \* XAsioBuffer(), XAsioBuffer(size)
          bufData = [Empty EXCEPT !.data = n > 0, !.allocated = n, !.owns = n > 0]
    /\ cursor = 0 /\ unread = <<>>
    /\ packetSize = 0 /\ pastHalf = FALSE /\ rewound = FALSE

--------------------------------------------------------------------------------
\* resize(n): the size is added to what is asked for although callers did that
\* already.  It throws on foreign data.
Throws(b) == b.data /\ ~b.owns
MakesRoom(b, n) == ~(b.allocated >= b.size + n \/ b.size + n > MaxPacketSize)
resize(b, n) ==
    IF MakesRoom(b, n) THEN [b EXCEPT !.data = TRUE, !.allocated = n, !.owns = TRUE] ELSE b

\* What is written is written at the end.
Item(is, n) == [is |-> is, at |-> bufData.size, size |-> n]

\* writeData, copy and writeBuffer, of n units; nothing at all if there is no room.
Write(b, n) == [resize(b, b.size + n) EXCEPT !.size = @ + n]
writeData(n) ==
    /\ ~Throws(bufData) /\ MakesRoom(bufData, bufData.size + n)
    /\ bufData' = Write(bufData, n)
    /\ unread' = Append(unread, Item("data", n))
    /\ UNCHANGED << cursor, packetSize, pastHalf, rewound >>

\* The units of a string of length n.
StringSize(n) == (n % Wrap) + 1

LengthNotCounted(n) ==          \* mutant
    /\ ~Throws(bufData) /\ MakesRoom(bufData, bufData.size + StringSize(n))
    /\ bufData' = [Write(bufData, StringSize(n)) EXCEPT !.size = @ - 1]
    /\ unread' = Append(unread, Item("string", n % Wrap))
    /\ UNCHANGED << cursor, packetSize, pastHalf, rewound >>
\* operator << and writeString, of a string.
writeString(n) ==
    /\ ~Throws(bufData) /\ MakesRoom(bufData, bufData.size + StringSize(n))
    /\ bufData' = Write(bufData, StringSize(n))
    /\ unread' = Append(unread, Item("string", n % Wrap))
    /\ UNCHANGED << cursor, packetSize, pastHalf, rewound >>

ValueResized(b) == [b EXCEPT !.size = @ + 1]    \* mutant: no resize
\* operator << of a value asks for room too, but does not look at the answer.
ValueWritten(b) == [resize(b, b.size + 1) EXCEPT !.size = @ + 1]
writeValue ==
    /\ bufData.size + 1 <= MaxPacketSize /\ ~Throws(bufData)
    /\ bufData' = ValueWritten(bufData)
    /\ unread' = Append(unread, Item("value", 1))
    /\ pastHalf' = (pastHalf \/ 2 * bufData.size + 1 > MaxPacketSize)
    /\ UNCHANGED << cursor, packetSize, rewound >>

\* import, of memory that belongs to somebody else.
import(n) ==
    /\ ~(bufData.data /\ bufData.owns)
    /\ bufData' = [data |-> TRUE, allocated |-> n, size |-> n, owns |-> FALSE]
    /\ unread' = << [is |-> "data", at |-> 0, size |-> n] >>
    /\ rewound' = (rewound \/ cursor > 0)
    /\ UNCHANGED << cursor, packetSize, pastHalf >>

detach ==
    /\ bufData' = [bufData EXCEPT !.owns = FALSE]
    /\ UNCHANGED << cursor, unread, packetSize, pastHalf, rewound >>

\* The cursor stays where it was.
clear ==
    /\ bufData' = Empty
    /\ unread' = <<>>
    /\ rewound' = (rewound \/ cursor > 0)
    /\ UNCHANGED << cursor, packetSize, pastHalf >>

--------------------------------------------------------------------------------
\* An unsigned difference, which is huge when the cursor is past the end.
getRemainSize == IF ~bufData.data THEN 0
                 ELSE IF cursor <= bufData.size THEN bufData.size - cursor ELSE Wrap

ReadSize(item) == IF item.is = "string" THEN item.size + 1 ELSE item.size

\* The next item is read as what it was written as.
read ==
    /\ unread # <<>>
    /\ getRemainSize >= ReadSize(Head(unread)) /\ cursor <= MaxPacketSize
    /\ cursor' = cursor + ReadSize(Head(unread))
    /\ unread' = Tail(unread)
    /\ UNCHANGED << bufData, packetSize, pastHalf, rewound >>

(***************************************************************************)
(* XAsioSendPacket: the header is not counted in what its content may be.  *)
(***************************************************************************)
\* operator << of a string throws if there is no room, of a value drops it.
packString(n) ==
    /\ packetSize + 1 + (n % Wrap) <= MaxPacketSize
    /\ packetSize' = packetSize + StringSize(n)
    /\ UNCHANGED << bufData, cursor, unread, pastHalf, rewound >>

packValue ==
    /\ packetSize + 1 <= MaxPacketSize
    /\ packetSize' = packetSize + 1
    /\ UNCHANGED << bufData, cursor, unread, pastHalf, rewound >>

reset ==
    /\ packetSize' = 0
    /\ UNCHANGED << bufData, cursor, unread, pastHalf, rewound >>

\* output, to an XAsioBuffer that is empty.
outputPacket ==
    /\ bufData = Empty /\ MakesRoom(Empty, packetSize + HeaderSize)
    /\ bufData' = Write(Empty, packetSize + HeaderSize)
    /\ unread' = << [is |-> "data", at |-> 0, size |-> packetSize + HeaderSize] >>
    /\ UNCHANGED << cursor, packetSize, pastHalf, rewound >>

--------------------------------------------------------------------------------
Next ==
    \/ \E n \in Sizes : writeData(n) \/ writeString(n) \/ import(n) \/ packString(n)
    \/ writeValue \/ detach \/ clear \/ read \/ packValue \/ reset \/ outputPacket

Spec == Init /\ [][Next]_vars

--------------------------------------------------------------------------------
(***************************************************************************)
(* Properties.                                                             *)
(***************************************************************************)
TypeOK ==
    /\ bufData.size \in Nat /\ bufData.owns => bufData.size <= MaxPacketSize
    /\ ~bufData.data => bufData = Empty
    /\ packetSize \in 0..MaxPacketSize

\* Whatever is written, in any order, stays within what is allocated: but for a
\* value written when more than half of the largest size is used.
WithinAllocation == ~pastHalf => bufData.size <= bufData.allocated

\* Items lie between two places one after another: each begins where the one before it
\* ends, as it is read.
Contiguous(items, from, to) ==
    \A i \in 0..Len(items) :
        (IF i = 0 THEN from ELSE items[i].at + ReadSize(items[i]))
          = (IF i = Len(items) THEN to ELSE items[i + 1].at)

\* The reader finds each item where it was written, with nothing left between or
\* after them: unless the buffer was used again after it was read.
ReadsBack ==
    /\ TypeOK
    /\ ~rewound => Contiguous(unread, cursor, bufData.size)
================================================================================
