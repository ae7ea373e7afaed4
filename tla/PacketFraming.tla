----------------------------- MODULE PacketFraming -----------------------------
(***************************************************************************)
(* From the stream of a TCP session to the packets the application takes:  *)
(* XAsioTCPSrvSession::onRecv and XClient::onRecv (ask for a header, then  *)
(* for a body), XAsioRecvPacket with its two XAsioBuffers, and the list of *)
(* received packets between XServer::onSessionRecv and queryRecvPacket.    *)
(*                                                                         *)
(* A unit stands for a few bytes: <<k, i>> is the i-th unit of the k-th    *)
(* packet sent.  A block is a piece of heap memory an XAsioBuffer points   *)
(* to; an XAsioBuffer is the block (0: NULL) and whether it owns it.  Of   *)
(* the header only m_dwSize is kept.  The answer to EN_POP_ECHO, which     *)
(* takes nothing from the packet, is left to the sending side.             *)
(*                                                                         *)
(* The callback of a read calls the handler without a lock, and another    *)
(* thread may close the session and destroy what the handler works on: the *)
(* block is in the callback's hand until the handler has returned.         *)
(***************************************************************************)
EXTENDS Naturals, Sequences, SequencesExt, FiniteSets

CONSTANTS
    HeaderSize,    \* units of a header; the last of them holds m_dwSize
    MaxPacketSize, \* MAX_PACKET_SIZE, in units
    Bodies,        \* the body sizes the peer uses
    Garbage,       \* bound: what m_dwSize may be of units that are not a header
    Sent,          \* bound: packets the peer sends
    MaxShort       \* bound: reads that deliver less than they were asked for

ASSUME FramingAssumption ==
    /\ HeaderSize \in Nat \ {0}
    /\ MaxPacketSize \in Nat /\ HeaderSize <= MaxPacketSize
    /\ Bodies \subseteq 0..MaxPacketSize
    /\ Garbage \subseteq Nat
    /\ Sent \in Nat
    /\ MaxShort \in Nat

VARIABLES
    listed,      \* the receive handler is XServer::onSessionRecv (else it reads the packet in place)
    sent,        \* body sizes of the packets the peer sends
    stream,      \* their units not yet read
    heap,        \* blocks: their data, m_dwSize if read as a header, and how often freed
    recvPacket,  \* m_recvPacket of the session or client
    want,        \* size of the outstanding read, 0 for none
    open,        \* the session is open
    suspended,   \* m_isSuspendDispatch of the session
    hand,        \* the block in the buffer of onRecvCallback while the handler runs, or 0
    queue,       \* m_packetBuffs[EN_SESSION_RECV_BUFFER]: blocks
    list,        \* m_listRecvPackets
    packet,      \* the packet of the application's thread
    taken,       \* history: what the application read of each packet, and exported
    short,       \* history: reads that delivered less than they were asked for
    stale,       \* history: a packet without a body came after one with a body
    redispatched,\* history: a block was dispatched from the session's queue
    raced        \* history: a session was destroyed under its handler

vars == << listed, sent, stream, heap, recvPacket, want, open, suspended, hand,
           queue, list, packet, taken, short, stale, redispatched, raced >>

NoBuffer == [blk |-> 0, own |-> FALSE]
EmptyPacket == [head |-> NoBuffer, body |-> NoBuffer, readed |-> FALSE]

\* The k-th packet as it is sent.
Whole(k) == [i \in 1..(HeaderSize + sent[k]) |-> << k, i >>]

Init ==
    /\ listed \in BOOLEAN
    /\ sent \in [1..Sent -> Bodies]
    /\ stream = FlattenSeq([k \in 1..Sent |-> Whole(k)])
    /\ heap = <<>>
    /\ recvPacket = EmptyPacket /\ packet = EmptyPacket
    /\ want = HeaderSize
    /\ open = TRUE /\ suspended = FALSE
    /\ hand = 0 /\ queue = <<>> /\ list = <<>> /\ taken = <<>>
    /\ short = 0 /\ stale = FALSE /\ redispatched = FALSE /\ raced = FALSE

Smaller(a, b) == IF a <= b THEN a ELSE b
Blocks == DOMAIN heap

--------------------------------------------------------------------------------
(***************************************************************************)
(* XAsioBuffer and XAsioRecvPacket.                                        *)
(***************************************************************************)
free(h, B) == [b \in DOMAIN h |-> IF b \in B THEN [h[b] EXCEPT !.frees = @ + 1] ELSE h[b]]
release(h, buff) == IF buff.own /\ buff.blk # 0 THEN free(h, {buff.blk}) ELSE h
ClearKeepsBody(h, p) == release(h, p.head)    \* mutant
clear(h, p) == release(release(h, p.head), p.body)
DetachHead(p) == [p EXCEPT !.head.own = FALSE]    \* mutant
detach(p) == [p EXCEPT !.head.own = FALSE, !.body.own = FALSE]
attach(p) == [p EXCEPT !.head.own = TRUE, !.body.own = TRUE]

\* mutants: the flag is not reset when the header announces no content, and the
\* body is taken for a header
setDataWaits(h, p, b) ==
    IF p.readed THEN [p EXCEPT !.body = [blk |-> b, own |-> TRUE], !.readed = FALSE]
                ELSE [p EXCEPT !.head = [blk |-> b, own |-> TRUE], !.readed = TRUE]
setDataForgets(h, p, b) == [p EXCEPT !.head = [blk |-> b, own |-> TRUE]]

\* The packet once setData has taken block b, by setHeader or by setPacket.
setData(h, p, b) ==
    LET part == IF p.readed THEN [p EXCEPT !.body = [blk |-> b, own |-> TRUE]]
                            ELSE [p EXCEPT !.head = [blk |-> b, own |-> TRUE]]
    IN  [part EXCEPT !.readed = ~p.readed /\ h[part.head.blk].size # 0]

\* The buffer that setHeader or setPacket clears first.
Replaced(p) == IF p.readed THEN p.body ELSE p.head

Data(h, buff) == IF buff.blk = 0 THEN <<>> ELSE h[buff.blk].data

\* What reading the packet yields: its header, and no more of its body than
\* m_dwSize, the bound of getRemainSize.
Read(h, p) == Data(h, p.head) \o
              SubSeq(Data(h, p.body), 1, Smaller(h[p.head.blk].size, Len(Data(h, p.body))))

\* exportBuffer: the second writeBuffer has resize add the size of the header twice.
Fits(n) == 2 * HeaderSize + n <= MaxPacketSize
ExportBody(h, p) == Data(h, p.body)    \* mutant
exportBuffer(h, p) ==
    Data(h, p.head) \o (IF Fits(Len(Data(h, p.body))) THEN Data(h, p.body) ELSE <<>>)

Reading(h, p) == [read |-> Read(h, p), export |-> exportBuffer(h, p)]

--------------------------------------------------------------------------------
(***************************************************************************)
(* The owner of the session: onRecv, with recv at its end.                 *)
(***************************************************************************)
\* XAsioTCPSession::recv throws beyond MAX_PACKET_SIZE: no read is begun, and the
\* exception leaves the handler.
Throws(h, p) == p.readed /\ h[p.head.blk].size > MaxPacketSize

\* What is asked for next.
recv(h, p) ==
    IF ~open \/ Throws(h, p) THEN 0
    ELSE IF ~p.readed THEN HeaderSize ELSE h[p.head.blk].size

isReady(p) == p.head.blk # 0 /\ ~p.readed

\* XServer::onSessionRecv lists the packet, a client's handler reads it in place.
onSessionRecv(h, p) ==
    IF listed
    THEN /\ recvPacket' = detach(p)
         /\ list' = Append(list, detach(p))
         /\ UNCHANGED taken
    ELSE /\ recvPacket' = p
         /\ taken' = Append(taken, Reading(h, p))
         /\ UNCHANGED list

\* h is the heap with block b in it; freed is what is destroyed after the call.
onRecv(h, b, freed) ==
    LET p == setData(h, recvPacket, b)
        h1 == release(h, Replaced(recvPacket))
    IN  /\ heap' = IF freed THEN free(h1, {b}) ELSE h1
        /\ IF isReady(p) THEN onSessionRecv(h1, p)
                         ELSE recvPacket' = p /\ UNCHANGED << list, taken >>
        /\ stale' = (stale \/ (isReady(p) /\ h[p.head.blk].size = 0 /\ p.body.blk # 0))
        /\ want' = recv(h1, p)

--------------------------------------------------------------------------------
(***************************************************************************)
(* The session.                                                            *)
(***************************************************************************)
\* What m_dwSize may be when these units are taken for a header: the size of
\* the packet whose header it is, else whatever the memory at its place holds.
SizeField(data) ==
    IF Len(data) = HeaderSize /\ data[HeaderSize][2] = HeaderSize
    THEN {sent[data[HeaderSize][1]]}
    ELSE Garbage

\* async_read_some has read n units, as many as were asked for or fewer.  They are
\* queued, or the handler is called with them.
onRecvCallback(n) ==
    LET data == SubSeq(stream, 1, n)
        b == Len(heap) + 1
    IN  /\ open /\ n \in 1..Smaller(want, Len(stream))
        /\ stream' = SubSeq(stream, n + 1, Len(stream))
        /\ short' = IF n < want THEN short + 1 ELSE short
        /\ short' <= MaxShort
        /\ \E size \in IF recvPacket.readed THEN {0} ELSE SizeField(data) :
              heap' = Append(heap, [data |-> data, size |-> size, frees |-> 0])
        /\ want' = 0
        /\ IF suspended THEN queue' = Append(queue, b) /\ UNCHANGED hand
                        ELSE hand' = b /\ UNCHANGED queue
        /\ UNCHANGED << listed, sent, recvPacket, open, suspended, list, packet, taken,
                        stale, redispatched, raced >>

\* The handler does its work, unless the session was closed since: then the handler
\* was released before it was called, and the buffer frees its block; or it runs on
\* a session that is destroyed under it.
handle ==
    /\ hand # 0
    /\ hand' = 0
    /\ IF open
       THEN onRecv(heap, hand, FALSE) /\ UNCHANGED raced
       ELSE /\ \/ heap' = free(heap, {hand}) /\ UNCHANGED raced
               \/ raced' = TRUE /\ UNCHANGED heap
            /\ UNCHANGED << recvPacket, want, list, taken, stale >>
    /\ UNCHANGED << listed, sent, stream, open, suspended, queue, packet, short, redispatched >>

\* The dispatch timer after suspendDispatch(false).  The queue holds one block at
\* most, for the next read is asked for by the handler; its buffer is attached
\* after the handler has taken the block, and destroyed, unless the handler throws.
\* The handler runs under the queue's mutex, and closing the session waits for it.
processRead ==
    LET b == Head(queue)
        throws == Throws(heap, setData(heap, recvPacket, b))
    IN  /\ open /\ ~suspended /\ queue # <<>>
        /\ onRecv(heap, b, ~throws)
        /\ queue' = IF throws THEN queue ELSE Tail(queue)
        /\ redispatched' = TRUE
        /\ UNCHANGED << listed, sent, stream, open, suspended, hand, packet, short, raced >>

suspendDispatch(b) ==
    /\ open /\ suspended # b
    /\ suspended' = b
    /\ UNCHANGED << listed, sent, stream, heap, recvPacket, want, open, hand, queue, list,
                    packet, taken, short, stale, redispatched, raced >>

\* The session is closed, which frees what is queued, and destroyed with its packet.
close ==
    /\ open
    /\ open' = FALSE /\ want' = 0
    /\ queue' = <<>>
    /\ heap' = free(clear(heap, recvPacket), Range(queue))
    /\ recvPacket' = EmptyPacket
    /\ UNCHANGED << listed, sent, stream, suspended, hand, list, packet, taken, short,
                    stale, redispatched, raced >>

--------------------------------------------------------------------------------
(***************************************************************************)
(* The application's thread: queryRecvPacket into the one packet it keeps. *)
(***************************************************************************)
queryRecvPacket ==
    /\ list # <<>>
    /\ heap' = clear(heap, packet)
    /\ packet' = attach(Head(list))
    /\ list' = Tail(list)
    /\ taken' = Append(taken, Reading(heap, Head(list)))
    /\ UNCHANGED << listed, sent, stream, recvPacket, want, open, suspended, hand, queue,
                    short, stale, redispatched, raced >>

Next ==
    \/ \E n \in 1..MaxPacketSize : onRecvCallback(n)
    \/ handle
    \/ processRead
    \/ \E b \in BOOLEAN : suspendDispatch(b)
    \/ close
    \/ queryRecvPacket

Spec == Init /\ [][Next]_vars

\* The transport delivers what was sent, a handler that was called returns, the timer
\* of an io thread runs, and the application goes on asking for packets.
FairSpec ==
    /\ Spec
    /\ WF_vars(\E n \in 1..MaxPacketSize : onRecvCallback(n))
    /\ WF_vars(handle)
    /\ WF_vars(processRead)
    /\ WF_vars(queryRecvPacket)

--------------------------------------------------------------------------------
(***************************************************************************)
(* Properties.                                                             *)
(***************************************************************************)
Buffer == [blk : 0..Len(heap), own : BOOLEAN]
Packet == [head : Buffer, body : Buffer, readed : BOOLEAN]

\* Every read asked for is of a size the session's buffer can hold.
TypeOK ==
    /\ listed \in BOOLEAN /\ open \in BOOLEAN /\ suspended \in BOOLEAN
    /\ sent \in [1..Sent -> Bodies]
    /\ want \in 0..MaxPacketSize /\ short \in 0..MaxShort
    /\ recvPacket \in Packet /\ packet \in Packet
    /\ list \in Seq(Packet) /\ queue \in Seq(Blocks) /\ hand \in 0..Len(heap)

AsSent == \A k \in DOMAIN taken : k \in DOMAIN sent /\ taken[k].read = Whole(k)

\* No block is known to be freed while it is in use.  A session destroyed under its
\* handler is used after that, and its packet with it; a list keeps the body that a
\* packet without one found in m_recvPacket, which has an owner already; and a block
\* dispatched from the queue is freed with the queue's buffer.
Undisturbed == ~raced /\ ~(listed /\ stale) /\ ~redispatched

\* As long as every read delivers what it was asked for, the application reads the
\* packets as they were sent, in that order: none is skipped, split, joined or read
\* twice on the way through m_recvPacket, the session's queue and the list.
FramedInOrder == (short = 0 /\ Undisturbed) => AsSent

\* XAsioTCP.h:69 says of recv that it receives data of the given length: whatever
\* the transport does, the packets read are the packets sent.
DeliveredAsSent == Undisturbed => AsSent

\* A server that forwards a packet sends on the packet it received, unless header
\* and body, with the header counted twice, exceed MAX_PACKET_SIZE, or the packet
\* has no body and follows one that had.
ForwardedWhole ==
    (short = 0 /\ Undisturbed /\ ~stale) =>
        \A k \in DOMAIN taken : k \in DOMAIN sent /\ (Fits(sent[k]) => taken[k].export = Whole(k))

\* The buffers of m_recvPacket and of the application's packet that own a block.
Owners(b) == { x \in {"recv", "app"} \X {"head", "body"} :
                 LET p == IF x[1] = "recv" THEN recvPacket ELSE packet
                     buff == IF x[2] = "head" THEN p.head ELSE p.body
                 IN  buff.blk = b /\ buff.own }
Listed(b) == \E k \in DOMAIN list : list[k].head.blk = b \/ list[k].body.blk = b
\* In the session's keeping: the callback holds it, or the queue.
Queued(b) == (hand # 0 /\ b = hand) \/ \E k \in DOMAIN queue : queue[k] = b

\* The ownership that attach, detach and import hand around is of one place at a
\* time: no block is freed twice, and none is in the list, the queue, the callback's
\* hand or an owning buffer after it was freed.  It is so while nothing disturbs
\* it; a session closed under its handler, whose block no one then accounts for, does.
OneOwner ==
    TypeOK /\ (Undisturbed => \A b \in Blocks :
        LET holders == Cardinality(Owners(b)) + (IF Listed(b) THEN 1 ELSE 0)
                                              + (IF Queued(b) THEN 1 ELSE 0)
        IN  heap[b].frees + holders <= 1)

\* Until a session is destroyed under its handler a block that was not freed is in the
\* list, in the queue, in the callback's hand or owned by a packet that will free it.
NothingLeaks == ~raced => \A b \in Blocks :
    heap[b].frees = 0 => (Owners(b) # {} \/ Listed(b) \/ Queued(b))

\* All packets sent are read in the end, if reads deliver what they are asked for and
\* the session stays open with its dispatch running: a header that announces no
\* content is not waited on, and the next read is always asked for.
SentIsTaken == <>(Len(taken) = Sent \/ short > 0 \/ ~open \/ suspended)
================================================================================
