# Verification of asiowrapper

asiowrapper is a C++ wrapper around boost::asio for game servers: sessions,
servers and clients over TCP, timers, a controller for the io threads, packets
and buffers, and on top of them a group of cooperating servers (world, DB,
gate, log, center), a MySQL connection pool, a logger and a CSV parser.  This
directory holds TLA+ models of it, TLC configurations and TLAPS proofs.  Paths
below are those of the repository (`include/...`, `src/...`).

To check a run: `tlc -config SendRaces.cfg MCSessionSend.tla`; to check proofs:
`tlapm SessionSendProofs.tla`, and so for every `*Proofs` module.
`PROJECT.json` is the index: runs, mutants, the map from definitions to lines,
findings, hazards, theorems.

## 1. Inventory

| Component (code) | State it keeps | Operations | Interacts with |
|---|---|---|---|
| **TCP session**, `src/asio/XAsioTCPSession.cpp` | socket, send and receive queues (each with a mutex), `m_isSending`, `m_isSuspendSend`, `m_isSuspendDispatch`, one buffer per direction | `send`, `recv`, `suspendSend`, `suspendDispatch`, `close`, completion handlers in a strand | its owner through three handlers, boost::asio, XAsioTimer |
| **XAsioTimer**, `src/asio/XAsioTimer.cpp` | per id: deadline timer, status, handler | `setTimer`, `stopTimer`, expiry on any io thread | sessions, XServer, XClient, XAppServer, XAsioPool |
| **XServer**, `src/asio/XAsioServer.cpp` | `m_mapSession` under `m_sessionMutex`, id allocator, list of received packets | start, stop, accept, close, time out, send, hand packets to the application | XAsioTCPServer, sessions, timer, application threads |
| **XAsioTCPServer**, `src/asio/XAsioTCPServer.cpp` | acceptor | `startAccept`, `onAcceptCallback`, `stopAccept` | XServer, boost::asio |
| **XAsioStat**, `src/asio/XAsioStat.cpp` | connection and byte counters | `connect`, `disconnect`, ... | XServer, XClient |
| **Framing and the packet list**, `src/asio/XAsioPacket.cpp`, `XAsioTCPSrvSession::onRecv`, `XServer::onSessionRecv` | received header, body buffer, expected size, `m_listRecvPackets` | header read, body read, attach and detach, `queryRecvPacket` | sessions, the application's thread |
| **XAsioBuffer, XAsioSendPacket**, `src/asio/XAsioPacket.cpp` | size, offset, capacity, ownership | `resize`, `writeData`, stream operators, `import`, `output` | packets |
| **XClient**, **XAsioTCPClient**, `src/asio/XAsioClient.cpp`, `XAsioTCPClient.cpp` | connected flags, session, timer | `connect`, timeouts, `disconnect`, `send`, `testEcho`, handlers | resolver, session, timer, application |
| **XAsioServiceController**, `src/asio/XAsioService.cpp` | io_service, its threads, list of services, started flag | start, run, stop, forced stop | everything that runs on an io thread |
| **XAppServer**, **XAppConnector** and the five servers, `src/extend/` | registered servers, connectors, packet queue and thread | register, route, redirect, reconnect, login and logout | XServer, XClient |
| **XTestClientPool**, `src/extend/XServerGroupTestClient.cpp` | two maps of clients | create, close, callbacks | XClient |
| **XDBMysql**, `src/db/XDBMysql.cpp` | main connection, connection pool and its count | connect, close, execute, update, query, prepare | MySQL connector |
| **XAsioPool**, `include/asio/XAsioPool.h` | objects handed out, objects waiting | query, release, free by timer | XAsioTimer |
| **XLogger, XLogUtil**, `src/util/XLog.cpp` | buffer, file | log, flush, clear | all |
| **XCSVParser**, `src/util/XCSVParser.cpp` | rows of fields | parse, find | - |
| **UDP**, `src/asio/XAsioUDP.cpp`, and others | - | - | see section 7 |

### What makes each correct

- *Session, send side*: accepted messages go out whole, once, in order; a
  queued message never waits with nobody to send it; suspension takes hold.
- *Session, receive side*: one read at a time on the one receive buffer;
  packets are dispatched once, in order; a packet held back is dispatched
  after the resumption.
- *XServer*: every open session it accepted is in its table; what left the
  table calls back no more; counters and table agree; it keeps listening; its
  timer survives restarts; lost peers are erased; calls return.
- *Framing*: the bytes of a stream become the packets that were sent; a block
  of memory has one owner and is freed once, until a session is destroyed under
  its handler.
- *XAsioBuffer*: what is written stays within the allocation and is read back.
- *XClient*: one connection is open at most, and it is the one the client uses,
  reads from and hears the loss of, unless a header states a body too long to be
  read.
- *Service controller*: a stop that has returned leaves no thread running; what
  was asked for is started; a forced stop returns.
- *Server group*: a request is neither doubled nor lost unseen, and ends; the
  table without a lock is used by one thread once the group is connected.
- *XDBMysql*: a connection is either in the pool or in use, and counted once, as
  long as the main connection is made once and nothing is closed.
- *XAsioPool, XAsioTimer*: an object is handed out once; a stopped timer is
  quiet.
- *XLogger*: no text is lost but by a file that does not open.
  *XTestClientPool*: no client is forgotten. *XCSVParser*: each field is found
  where it was written.

### What makes it hard

Callers' threads, the strand of each session or acceptor, and timer handlers
on any io thread touch the same objects.  Flags are plain `bool`s tested
before the mutex is taken.  Handlers are tested and called without a lock
while others reset them.  Completions are delivered after the operation that
cancelled them.  A handler works on an object that another thread destroys.
Sections under a mutex call back into code that takes it
again.  An attempt to connect outlives the call that replaced it.  Connections
between servers fail while packets are on their way.  The list of hazards, each
at its line and with the properties aimed at it, is in `PROJECT.json`.

## 2. Modules

| Module | What it is |
|---|---|
| `SendChannel` | abstract specification: the FIFO channel a session promises its callers |
| `SessionSend`, `SessionSendProofs` | send side of `XAsioTCPSession`, and theorems |
| `SessionRecv`, `SessionRecvProofs` | receive side of `XAsioTCPSession` with the dispatch timer, and theorems |
| `XServer`, `XServerProofs` | `XServer`, the accept loop of `XAsioTCPServer`, the connection counters, and theorems |
| `PacketFraming`, `PacketFramingProofs` | framing, `XAsioRecvPacket`, the list of received packets, and theorems |
| `XClient`, `XClientProofs` | `XClient` over `XAsioTCPClient`, and theorems |
| `XAsioServiceController`, `XAsioServiceControllerProofs` | the io threads and the services, and theorems |
| `XServerGroup`, `XServerGroupProofs` | `XAppServer`, `XAppConnector` and the five servers, and theorems |
| `PacketBuffer` | `XAsioBuffer` and `XAsioSendPacket` |
| `XDBMysql` | the connection pool |
| `XAsioPool` | the object pool over `XAsioTimer` |
| `XLog` | `XLogger` and `XLogUtil` |
| `XTestClientPool` | the pool of test clients |
| `XCSVParser` | the CSV parser |
| `MCSessionSend`, `MCSessionRecv`, `MCXServer`, `MCXAsioServiceController` | model values and symmetry for TLC |
| `Library`, `LibraryProofs` | the last six side by side, which TLC checks as one instance, and theorems about them |

What composes what: `SessionSend` implements `SendChannel`; `SessionRecv` has
the session's owner as the handler it calls, and `PacketFraming` is that owner
with the bytes, over a session of which it keeps suspension, queue and close;
`XServer` has sessions of which it keeps socket, handlers and outstanding
operations; `XClient` the same for one client; `XServerGroup` connects many
servers by connectors, of which it keeps whether they are connected.  Each
level keeps of the one below what its own properties tell apart, so that every
instance stays small enough to be checked whole.

`PacketBuffer`, `XDBMysql`, `XAsioPool`, `XLog`, `XTestClientPool` and
`XCSVParser` share no state with anything.  `Library` instantiates all six;
its variable `part`, chosen in `Init`, says which of them moves while the
others stand in one initial state, so that its states are the sum of theirs and
not the product.

### SessionSend

Threads are `Callers` and the `Strand`.  A thread's call is cut where another
thread can get in: `Send` is the section under `m_mutexs[SEND]` of `send`;
`TestSending` and `TestSuspend` are the two tests of `processSend`, made
without the mutex; `StartWrite` is its section under the mutex, with
`sendImmediately`; `onSendCallback` is the completion handler up to its call
of `processSend`; `Suspend`, `Resume` and `ReadBack` are `suspendSend`;
`Close`, `CloseSocket` and `ClearQueue` are `close`.  `Transfer` and
`FailWrite` are `boost::asio::async_write` as the code uses it: it reads
`m_sendBuffer` at the time of each `write_some`, which is why a message is
cut into `Chunks`.

The flags are written and read by several threads with no synchronisation.  In
C++ this is a data race; what an x86 build does is keep a store in the thread's
store buffer past its later loads, until its next lock operation at the latest.
`DelayedStores` adds exactly these behaviours (`StoreFlag`, `Drain`, and the
guard `buffered[t] = "none"` on every step that locks).

A message is its number in the order of acceptance; its bytes are not
modelled, only from which message and which chunk of it they come.  The
variables `accepted`, `issued`, `dropped`, `wire` and `late` are histories.

### SessionRecv

`onRecvCallback` reads `m_isSuspendDispatch` and then, without having held
anything, either queues (`Push`) or calls the owner's receive handler
(`Handle`).  That handler is `XAsioTCPSrvSession::onRecv` or
`XClient::onRecv`: take the data, and ask for the next read if the socket is
open.  `Suspend`, `Resume`, `ReadBack` and `SetTimer` are `suspendDispatch`;
`Expire`, `onTimerHandler`, `NothingQueued`, `DispatchQueue`, `ClearRead` and
`Restart` are the 50 ms timer and `processRead`, which holds the mutex while
it calls the receive handler (`recvLock`).  The flag is stored at once here:
each writer that clears it locks `m_timerMutex` before its store matters to
the timer, and its reader locks after reading, so a delayed store is
indistinguishable from a later call.
`Controllers` are the threads that suspend and `Resumers` those that resume: when
only the strand resumes, what is held back is dispatched in the end; when another
thread does, it need not be (finding 2).

### XServer

One strand per `XAsioTCPServer` and per session, io threads for the 5 s update
timer, one application thread that starts and stops and others that close and
send.  A section under `m_sessionMutex` is one step, but for two: `onAccept`,
inside which the session already reads (`onAccept`, then `insert`), and
`sendTo`, which calls `getSession` and so takes the mutex twice.  Of a session
the module keeps its socket, whether its handlers are set, and what becomes of
its read and its write.  Abstractions:

- The timeout of a session depends on clocks; `updateClient` may remove any
  set of members.
- `nextId` starts anywhere between `StartId` and the overflow, because the ids
  go round: the first accepts of the model may be the ones after a wrap.
  `ServerAssumption` takes it that fewer sessions are made than there are ids,
  so that an id is not in use twice.
- `m_acceptor` is tested and used in one step.  It is reset by `stopServer`
  with no lock; the outcome of that race is a crash.
- A late call of the close handler is modelled; that `std::function` may be
  found empty between its test and its call, and throw, is not: an exception
  on an io thread belongs to the service controller.
- Packets (`onSessionRecv`, `queryRecvPacket`, framing) are in `PacketFraming`.

### PacketFraming

`stream` is what the peer sent and the session has not read; a unit stands for
a few bytes and knows the packet it is of, so that a header that is not one can
be told.  `onRecvCallback(n)` is a read of `async_read_some` that delivers `n`
units, and leaves them in the session's queue or in the callback's `hand`;
`handle` is the receive handler `onRecv` on that block, with the `recv` at its
end.  Nothing is locked between the two, so `close` (`closeSession`,
`updateClient`, `stopServer`) may come first: then the handler was released in
time, or it runs on a session that is destroyed under it (`raced`).
`processRead` is the dispatch of a block held back, under the queue's mutex,
which the closing thread needs too; `queryRecvPacket` is the application's side.
`recv` throws for a size beyond `MAX_PACKET_SIZE` (`Throws`): no read is begun,
and a block that was dispatched from the queue stays there.
`heap` counts how often each block was freed, which is how `attach`, `detach`
and `import` can be judged.  `setData` is `setHeader` and `setPacket`; the size
field of what is not a header is any of `Garbage`.

Three things the code does disturb ownership, and the properties stop there
(`Undisturbed`): a session is destroyed under its handler, which goes on to use
it and its packet (`raced`); a packet without a body leaves the body of the packet before
it in `m_recvPacket`, and the list keeps that as well (`stale`); and a block
dispatched from the session's queue is freed with the queue's buffer although
the packet took it (`redispatched`, `XAsioTCPSession.cpp:165-168`).

### XClient

Attempt `k` is the `k`-th `XAsioTCPClient` a client makes, with its session.
`attempt[k]` is the operation under way, which keeps the object alive after
`m_ptrTCPClient` points elsewhere; `destroy` is its destructor.  `connect`,
`Disconnect`, `send`, `testEcho` and `release` are the application's calls;
the rest runs on io threads.  `m_bIsConnected` stays set through `disconnect`,
which releases the handlers of the session: `onClose` is not called for it, and
`connect` is refused for good, unless an attempt that is still under way takes
over and is lost.  `header` is what `m_recvPacket` holds: no header, or one whose
body is awaited and fits the session's buffer or does not.  For one that does not
`recv` throws (`Throws`), and the client stays connected with no read
outstanding; a header that an earlier session left asks the new one for its body.
`late` is set when a handler of an attempt that was replaced calls the client:
it then tears down, or takes over from, the newer connection.

### XAsioServiceController

A start is the caller polling (`StartReturns`, `GiveUp`) and a runner, the
thread it spawned: `Test`, `Reset`, `StartThem`, `Spawn`, `RunReturns`, `Join`
are the tests and assignments of `runAllServices` and `runIOService` one by
one.  `Throw` is the catch of `runIOServiceThread`; on the runner's own thread nothing
catches, and the behaviour ends.  `calm` is the history that starts and stops
did not overlap: with overlaps two runners may run one io_service, and one
clears the flag for both.

### XServerGroup

A link `<<s, d>>` is the connector of server `s` to `d`; `EndPoints` is the
configuration of the repository.  `wire` is what is on its connection, in both
directions, `received` the packet list of a server, `registered` its
`m_mapAppSrvSession`.  `onProcessPacket` is one packet on the packet thread,
`onConnectorRecv` one on an io thread; both run `Handle`, that is
`onProcessPacket` and `onProcessCmdPacket` with the redirection, and the
`onProcessMsgPacket` of the server in question (`gateSends`, `worldSends`,
`dbSends`, ...).  `connectAppServer` is one round of its loop: between two rounds
the io thread of a connector that is connected already may be given a packet,
and route it by the table because the connector it needs is not there yet.
`getAppServerCnt` may be called by any thread.  `Route` is `sendToServer`: the
connector if there is one, connected or not, or else the session the type
registered from.

What the code does on failure is in the actions: a registered session is never
taken out, a server started again keeps its stale entries, a connector that is
there but not connected loses the packet without falling back to the session,
a name that is not
resolved is tried again by `connectAppServer` only, a stopped server leaves its
connectors with `m_bIsConnected` set and so never connects them again, and the
answer to a logout goes by way of the center server.  Each such loss counts in
`gone`, once.

### The library: PacketBuffer, XDBMysql, XAsioPool, XLog, XTestClientPool, XCSVParser

- `PacketBuffer`: `resize` adds the present size to what callers have added it
  to already, so that room is refused from half of `MAX_PACKET_SIZE` on; a
  value is then written past the allocation (`pastHalf`).  `unread` is what was
  written and not yet read, item by item and with its place.  A buffer made with a size drops
  what would fit in it, because `resize` reports room only if it makes it.
- `XDBMysql`: `getPoolConnection` and `releaseConnection` are one step each, as
  their mutex makes them; `getConnection`, which has none, is two
  (`getConnection` tests, `makeMain` creates), so that two threads may both make
  the main connection (`overwritten`).  `createConnection` leaks the connection
  it made if the schema cannot be selected, and an exception of a connection
  that is closed leaves the list with those deleted before it.  A connection is
  leaked when `createStatement` throws and by every prepared statement; `close`
  leaves `m_iCurConnect`, and a main connection closed while a thread executes
  on it goes to the pool.
- `XAsioPool`: the two mutexes are taken one after the other, so an object is
  in one list, the other, or a `hand`.  The timer is started outside them by
  `expires_from_now` and `async_wait`, two steps, so that two threads can leave
  two waits outstanding (`XAsioTimer.cpp:63-67`).
- `XLog`: a call of `XLogger` takes `m_mutex` part by part; `todo` is what is
  left of it.  `XLogUtil` holds its own mutex throughout.  `openFails` is the file
  that does not open, which loses the text it was opened for and takes it out of
  `logged`; `writeString` writes `m_szText` and not its argument (`says` is what
  each call writes).
- `XTestClientPool`: `closeClient` holds the mutex of the maps, but its rounds
  are steps, because the io threads of the clients do not take it.  Nor do they
  to look for their client (`onClose`, `found`): that the map is changed meanwhile
  is `torn`.
- `XCSVParser`: `split` is `advplain` and `advquoted` as recursive functions; a
  row is written in every way a spreadsheet may quote it, and parsed (`getline`, a
  round of the loop of `parseFile`).

## 3. Runs

All bounds are constants of the cfg files.  Deadlock is not checked: every one
of these systems may come to rest (all messages sent, nobody calling; the peer
gone; the server stopped), and a bounded model stops at its bound.  What must
not come to rest is stated as liveness or as an invariant instead.

| Run | Properties | Shows |
|---|---|---|
| `SendRaces` | `FirstInFirstOut`, `NothingLost`, `NoLostWakeup`, `SuspendTakesHold`, `QueuedIsIssued` | two callers and the strand send, both callers suspend and resume, one closes |
| `SendInStrand` | `WireWhole`, `ImplementsChannel` | only the strand sends, two threads close, stores delayed: the bytes on the wire are the messages, and the session is a FIFO channel |
| `RecvRaces` | `OneReadAtATime`, `InOrder`, `NothingLost`, `ReceivedIsDispatched` | two threads and the strand suspend, the strand resumes, one thread closes, two io threads run the timer |
| `ServerRaces` | `NoOrphan`, `CountCoversTable` | accepts that succeed and fail, lost peers, errors, timeouts, `closeSession`, `stopServer` and a `sendTo` interleave |
| `ServerRestart` | `KeepsListening`, `TimerAlive`, `LostIsErased` | a server stopped and started again, old completions under way |
| `Framing` | `FramedInOrder`, `ForwardedWhole`, `OneOwner`, `NothingLeaks`, `SentIsTaken` | packets with and without a body, whole and short reads, held back, listed, queried, closed before, after and under the handler |
| `Client` | `OnlyCurrentOpen`, `NeverDeaf`, `OpenIsConnected`, `LossIsNoticed` | overlapping attempts that fail, time out, succeed late or are given up |
| `Controller` | `StopWaits`, `AskedIsStarted`, `ForceReturns` | two threads start and stop, runners come and go, threads die |
| `Group` | `RequestsAccounted`, `ReadyLosesNothing`, `TableOnPacketThread`, `EveryRequestEnds` | four servers connected one after the other, of which one starts late, fails and comes back |
| `Library` | `WithinAllocation`, `ReadsBack`, `Accounted`, `OneHome`, `StopIsQuiet`, `AllLogged`, `NoneForgotten`, `FieldsFound` | the six parts of `Library` |
| `FramingSplit` | `DeliveredAsSent`, violated | finding 6 |
| `ServerSendTo` | `SendToReturns`, violated | finding 5 |

The type invariants are conjuncts of the property named: of `NoOrphan`
(`XServer`), `OneOwner`, `OnlyCurrentOpen`, `AskedIsStarted`,
`RequestsAccounted`, `ReadsBack`, `Accounted`, `OneHome`, `AllLogged`,
`NoneForgotten`, `FieldsFound`; those of the session modules are theorems.

Several properties stop at a condition, each a history variable that names what
the code does there and that no comment of the code promises otherwise:
`late`, `header` (XClient), `calm` (controller), `short`, `stale`, `redispatched`,
`raced` (framing), `early`, `counted`, `failures` (group), `pastHalf`, `rewound`
(buffers), `wasClosed`, `overwritten` (MySQL), `raced`, `mixed` (XLogger), `torn`
(test clients).  What the code does beyond them is listed in section 6.  The runs
reach states on both sides of every one of them.

Why the bounds suffice:

- *Send side*: a race on the flags needs one thread past the tests, one that
  completes a write, and one message left in the queue: two callers and the
  strand, three messages.  Where the wire is compared there are four messages
  and two chunks, the least that lets a message be copied over one half sent.
- *Receive side*: two timer handlers due at once and two threads to run them
  are the least that lets rounds of the timer overlap; three packets let one be
  dispatched, one be held and one follow.
- *Server*: `ServerRaces` has two sessions, because an operation on one must
  not touch the other and because the second may be accepted while the first
  is removed.  `ServerRestart` has one session, so that it can also check
  liveness, but two servers, so that completions of the old acceptor meet the
  new one, `AcceptNum` 2, so that they overlap, and `MaxDue` 2, so that a
  handler that passed its test before the stop meets those of the new wait.
  Accepts do not fail in it: one that does is finding 3.  `StartId` 2 and
  `IdLimit` 5 leave ids on both sides of the wrap.  `Alike` permutes sessions
  and servers, which the module treats alike, in a run of invariants only.
- *Framing*: three packets with bodies of 0, 1 or 3 units: one disturbs the
  next and a third follows, and one short read shifts all.  With a header of 2
  and   at most 5 units the largest body is too large to be forwarded; of the
  garbage sizes, 2 and 6, one can be read and one makes `recv` throw.
- *Client*: two attempts are the least that overlap, and the second is also the
  retry after a failure; two reads with data bring a header and its body, or let a
  header that came first be left to the second attempt.
- *Controller*: two callers to overlap, two runners so that a start meets an
  old one, two threads so that joining matters, one operation to wait for.
- *Group*: gate, center, world and db are every server a request passes; the log
  server gets nothing.  One request is traced through all of them, as requests
  do not meet but in queues; one failure, at the db server, from which the
  longest way back leads, and a second connection for its return; one call of
  `getAppServerCnt`, as one is enough to use the table.
- *Library*: sizes 1 to 3 with at most 8, and one string longer than its length
  field; two users, three connections, which is one more than the pool may have;
  two objects, two io threads; three texts to a buffer, of which two fit, and
  four texts, so that it fills and is filled again; three clients; two rows of
  two fields of two characters, of which any may be a quote or a separator.

Each property has a mutant, named in `PROJECT.json`: an operator in the same
module, marked *Faulty* or *mutant*, that changes one definition the way a slip
in the code would, and under which TLC finds the property violated.

## 4. Fairness

Invariants and action properties hold without fairness.  `FairSpec` adds what
the code's scheduling gives:

- a thread inside a call takes its next step, and a free mutex is granted to
  one that waits for it in the end (strong fairness of each thread's steps
  where the mutex matters: `SessionRecv`, `XServer`);
- io threads run completion handlers and due timer handlers (an exception of a
  handler ends the thread it is on, so this takes it that one is left), and a
  strand runs
  what was posted to it (`io_service::run` in every io thread); the packet
  thread of an `XAppServer` takes from its list;
- an armed timer expires; a store buffer drains;
- the transport moves or fails an outstanding write, delivers what the peer
  sent, and fails what a closed socket or a lost peer has outstanding; a closed
  acceptor fails its accepts;
- as long as there are packets to be processed by the servers of the group, one or
  another thread processes one (`XServerGroup`; that a server is ever reached is
  not assumed), and the application goes on asking for packets (`PacketFraming`).

Nothing obliges a thread to call, a client to connect, a peer to vanish, an
operation to complete before the io_service is stopped (`Controller`), or a
working write to be anything but slow on the server side.

## 5. What is proved

`SessionSendProofs` proves, for any sets of threads, numbers of messages and
chunks, from `SendAssumption` (the strand is no caller; senders, controllers
and closers are threads):

- **TypeCorrect** `Spec => []TypeOK`.
- **OrderCorrect** `Spec => [](FirstInFirstOut /\ NothingLost)`, under any
  races on the flags and any delay of stores.  `FirstInFirstOut` speaks of a
  concatenation and is not convenient to carry through a step; the invariant
  `OrderInv` says the same of the two sequences apart (`Numbered`) and that no
  number is ahead of `accepted`.  `ElementsAppend` and `ElementsHeadTail` say
  what the two sequence operations do to the set of elements.
  **NothingLostCorrect** states the half of it that a run checks by itself.
- **WakeupCorrect** `Spec => []NoLostWakeup`, assuming `SimpleStores`: nobody
  calls `suspendSend`, or stores are not delayed.  The run `SendRaces` is the
  second case on a small instance.  `WakeInv` strengthens it: a
  set flag has a write behind it or a clearing store still in the strand's
  buffer (`FlagBacked`); a failed write means a dead session; behind a
  buffered store the strand is on its way to the mutex (`ClearFollowed`).
- **SuspendCorrect** `Spec => []SuspendTakesHold`, whatever the delays.  A
  thread past the test of `m_isSuspendSend` may begin one more write, and the
  thread that suspends is not past it itself: the invariant counts the writes
  begun after `suspendSend(true)` together with the threads that are past the
  test, and the sum stays below the number of threads.
- **FlagCorrect**: if only the strand sends and nobody suspends
  (`StrandOnly`), `m_isSending` covers every write and there is one at a time.
- **WireCorrect** `Spec => []WireWhole` under `StrandOnly`, which is how the run
  `SendInStrand` has it: the buffer under a write holds the message that was
  issued last, and the wire is as long as the writes before it and its own
  progress make it (`WireInv`).
- **ChannelCorrect** `Spec => ImplementsChannel` under `StrandOnly`: step by
  step, a `Send` is an `Accept` of `SendChannel`, the last `Transfer` of a
  message its `Transmit`, a failed write and `ClearQueue` a `Discard`, and every
  other step leaves the channel as it is.

`StrandOnly` is not needed by chance: with two threads that send, the first
finding below has two writes over one buffer.

The assumption of WakeupCorrect is needed.  With delayed stores *and*
`suspendSend`, `onSendCallback` (store `m_isSending`, load `m_isSuspendSend`)
and `suspendSend(false)` (store `m_isSuspendSend`, load `m_isSending`) are
the two halves of a store-buffer race: each may read the other's old value,
both turn back, and the queue waits for the next `send`.  No comment of the
code says what the flags do then, so this is a hazard and not a finding.

`SessionRecvProofs` proves, for any sets of threads, packets and due timer
handlers, from `RecvAssumption` (strand, callers and timer threads are
different threads; timer threads do not call the session from outside):

- **RecvTypeCorrect** `Spec => []TypeOK`.  The types need to know where threads
  can be (`Places`), who is in the long section of `processRead` (`Locked`),
  and that the strand has a packet in hand exactly inside `onRecvCallback`
  (`Handed`).
- **OneReadCorrect** `Spec => []OneReadAtATime`.  The invariant `OneInv` counts
  one token: the outstanding read, its completion, the packet in hand or the
  packet held back.  `processRead` begins the next read before it clears the
  queue, so the queue counts only while the mutex is free.
- **RecvOrderCorrect** `Spec => [](InOrder /\ NothingLost)`.  A packet on its
  way is newer than all that were dispatched (`Fresh`); that nothing else is on
  its way when the next arrives is what `OneInv` gives.  **NothingLostCorrect**
  is again one half.

`XClientProofs` proves, for any number of attempts and reads
(`ClientAssumption`: there is at least one attempt):

- **OnlyCurrentOpenCorrect**, **NeverDeafCorrect**, **OpenIsConnectedCorrect**
  `Spec => []OnlyCurrentOpen`, `[]NeverDeaf`, `[]OpenIsConnected`.  `NeverDeaf`
  says of a client without a read that `recv` has thrown.  The three
  need each other.  The invariant `IInv` adds what an attempt has before it is
  made (`Made`: no reads, no handlers, no open socket, and the client's session
  is of one that was made), that a session whose handlers call the client and
  that is the latest is the client's (`BoundIsCurrent`), and that a client that
  is connected over an open socket also hears of it (`Listening`): without the
  handlers a read that completes would not be replaced, and a failure not told.

`XAsioServiceControllerProofs` proves, for any sets of callers, services and
runners and any number of threads and operations (`ControllerAssumption`):

- **StopWaitsCorrect** `Spec => []StopWaits` and **AskedIsStartedCorrect**
  `Spec => []AskedIsStarted`.  While starts and stops do not overlap there is
  one runner at most, and the flag tells where it is (`OneRunner`): set exactly
  when it is inside `runIOService`, and nobody stops while it is before that.
  What was asked for is in the list until the runner has passed it (`Asked`).

`XServerProofs` proves, for any sets of sessions, servers, timer threads and
users, any number of accepts and any width of ids (`ServerAssumption`: the
sessions are finitely many, fewer than there are ids, and nobody is a thread of
two kinds):

- **TypeCorrect**, **NoneOrphaned** `Spec => []NoOrphan`, **CountersCorrect**
  `Spec => []CountCoversTable`, **TimerKept** `Spec => []TimerAlive`, and
  **KeysDistinct**, which no run checks.  One inductive invariant `IInv` carries
  them all.  Its parts: where each kind of thread can be (`Places`); which
  server has its acceptor (`Control`); that an accept is outstanding, completed
  or in hand (`Accepts`); that a connection is accepted once (`Fresh`); that the
  strand which enters a session has the mutex (`Holder`); that the ids given are
  the last ones behind the allocator, round its wrap (`Ids`: else two sessions
  could get one key of `m_mapSession`, and the first would be lost from it);
  that what is in the table has been given an id and what left it is closed
  (`Entry`); and `Counts`: connects are the sessions entered, and disconnects no
  more than those of them (`Gone`) that left the table and whose close has been
  handled, for an error and a close that are both reported are counted once.
- **ListeningKept** `Spec => []KeepsListening`, assuming that no accept fails;
  finding 3 is what happens if one does.

`PacketFramingProofs` proves, for any number of packets, any sizes and garbage
and any reads (`FramingAssumption`: a header is not empty and fits a buffer):

- **NothingLeaksCorrect** `Spec => []NothingLeaks`, which is inductive together
  with the types of the heap (`KindsInv`).  It stops where a session is destroyed
  under its handler, whose block then is nobody's.
- **OneOwnerCorrect** `Spec => []OneOwner`.  While ownership is `Undisturbed`, a
  block is in one place of five, and in none once it was freed (`OnceInv`); its
  parts `Apart` and `ListApart` say that one packet, or two packets of the list,
  do not share a block.
- **FramedInOrderCorrect** `Spec => []FramedInOrder` and
  **ForwardedWholeCorrect** `Spec => []ForwardedWhole`.  The invariant
  `FramedInv` cuts the stream where the reader is: at a header, or after a
  header with its body to come, in `m_recvPacket` or in the session's queue, with
  the packets after it still on their way (`Rest`); and it says that the i-th
  packet of the list is the i-th of those not yet taken.  The stream is
  `FlattenSeq` of the packets, a recursive function of the community modules;
  `FlattenSeqSplits` takes the first packet off it.

`XServerGroupProofs` proves, for any number of requests, connections and
failures, and any sets of servers that start late or fail:

- **TableOnPacketThreadCorrect** `Spec => []TableOnPacketThread`: the table of
  registered servers, which has no lock, is used on the packet threads only, of
  a group that was ready when it was asked and that nobody has counted.  That
  all connectors exist from then on is in the invariant; without it the io
  thread of one connector reads the table for want of another.  `Addressed` says
  what can be on each connection and in each list, so that what comes over a
  connector is nothing that uses the table.
- **ReadyLosesNothingCorrect** `Spec => []ReadyLosesNothing`: once the whole
  group is connected, and as long as nothing fails, no request is dropped.
  `CalmInv` adds that no request is under way before the first, that a link is
  connected once and stays, and that a group that was ready is.

- **RequestsAccountedCorrect** `Spec => []RequestsAccounted`: whatever is lost,
  stopped or late, each request is under way, answered or given up, and once.
  Requests are counted by where they are, as a set of places on the wires
  (`OnWires`) and in the lists (`InLists`); a step that moves one takes a place
  out of the set and puts one in, and a cut takes out those of its links
  (`ChangeWires`, `ChangeList`, `PutCounts`).  `AccountInv` needs `DownEmpty`: a
  link that is not up carries nothing, or what a loss took would be counted
  again with the next connection; and `Addressed`, that a server is only given
  what it takes, so that all it handles is sent on once or ends.

All three assume `Complete`: gate, center, world and DB server, by which every
request goes, are in the group.  Which other servers are is left open.

`LibraryProofs` proves about the parts of `Library`, for any sizes, threads,
connections, objects and clients:

- **WithinAllocationCorrect** `Spec => []WithinAllocation` (`PacketBuffer`):
  `WriteFits` says that where `resize` makes room it is exactly what is there
  and what is added.
- **ReadsBackCorrect** `Spec => []ReadsBack` (`PacketBuffer`).  The items lie
  `Contiguous` from the cursor to the end; `ReadInv` adds that a buffer without
  data has none, so that what is written to it begins where it is read.
- **AccountedCorrect** `Spec => []Accounted` (`XDBMysql`).  What is in the pool,
  in a thread's hand or leaked are different connections, and `m_iCurConnect` is
  their number, until `close` leaves it behind or the main connection is
  overwritten (`OnePlace`).  That it keeps its bounds after a close too needs
  `LiveCounted`: those of them that were not deleted are never more than are
  counted.
- **OneHomeCorrect** `Spec => []OneHome` (`XAsioPool`): an object is in one list
  or one hand (`OnceEach`), and the waits of the timer, with the threads that are
  about to start one, are no more than the threads (`WaitsBounded`).
- **AllLoggedCorrect** `Spec => []AllLogged` (`XLog`).  As long as one call is
  in progress at a time, which the mutex sees to in `XLogUtil`, file and buffer
  and the text the call still has to write are, in this order, all the texts
  that were logged, less those for which the file did not open; the invariant
  says so of each point of the call.
- **NoneForgottenCorrect** `Spec => []NoneForgotten` (`XTestClientPool`): the
  property, which stops where the map is changed under a reader, is inductive
  once a client that was not created is known to have no service (`NotYet`).
- **FieldsFoundCorrect** `Spec => []FieldsFound` (`XCSVParser`), for any
  characters, fields and rows: the table is the rows that were written (`CSVInv`),
  as `split` gives back what `Line` put together (`LineBack`).  That rests on where
  the pieces of a flattened sequence lie (`Laid`, `Flattened`), on `Unquotes`,
  by which `advquoted` reads one character on from where a doubled one begins,
  and on `FieldBack`: a field that ends at a separator or with the line is read as
  it was, quoted or not.

The library's induction theorems take an operator as a parameter, which no
prover here can instantiate.  Where something is to be shown of a recursive
function (`FlattenSeq`, `Without` of `XAsioPool`, `advquoted`, `split`), the proofs take the least
number for which it fails (`Least`, from the well-foundedness of `<`) and refute
that.

Only model-checked is all that must come about in the end: `NoLostWakeup` is a
theorem, but `QueuedIsIssued`, `ReceivedIsDispatched`, `LostIsErased`,
`SentIsTaken`, `LossIsNoticed`, `ForceReturns`, `EveryRequestEnds` and
`StopIsQuiet` are not; they rest on fairness and ENABLED, which are outside what
the proof system does.

## 6. Findings

Each quotes, in `PROJECT.json`, the comment the code contradicts.  Two have a
run that TLC shows violated; the others were met while modelling, are in the
actions as the code has them, and are read off the lines named.

1. `m_isSending` ("whether a send is under way") may be false while one is.
   Two callers pass its test before either takes the mutex, the first write to
   complete clears it for both, and a further `send` starts a write over the
   buffer of the second (`XAsioTCPSession.cpp:212`).
2. A packet can be queued after the last round of the dispatch timer, if
   another thread than the strand resumes; dispatch, and with it reading, does
   not resume (`XAsioTCPSession.cpp:185`).
3. An accept that fails is never begun again; with one accept the server is
   deaf while `isStarted()` is true (`XAsioTCPServer.cpp:93`).
4. Sessions closed by `closeSession` or by timeout are never subtracted from
   the current connections (`XAsioServer.cpp:219`).
5. Run `ServerSendTo`: `sendTo` and `sendToIdList` lock the non-recursive
   `m_sessionMutex` twice and never return.
6. Run `FramingSplit`: `recv` does not receive the length it is given, and the
   handlers take what comes for the whole header or body.
7. A connection refused is never told to the connect handler
   (`XAsioClient.cpp:169`).
8. `closeClient(-1)` need not close all connections
   (`XServerGroupTestClient.cpp:120`), and
9. `XTestClientPool::send` sends with the clients that were closed (`:53`).
10. `XLogger::clear` returns before it does anything (`XLog.cpp:119`); the model
    has the one case in which it does, while another call has the file open.
11. `XLogUtil::writeString` ignores its argument and writes the
    text of the last `writeLog` again (`XLog.cpp:204`); the model has it, and
    `AllLogged` says what each call writes.

More behaviours came up that no comment clearly rules out, and that no run is
spent on:

- `XAsioTCPSrvSession::onRecv` runs without a mutex on the raw session.
  `closeSession`, the update timer or `stopServer` may erase the session, and with
  it `m_recvPacket`, while it runs (`XAsioServer.cpp:122`, `:210`).
- `XAsioTCPSession::recv` throws for a body longer than `MAX_PACKET_SIZE`.  The
  exception ends the io thread; a client stays connected and reads no more, and so
  does not notice a loss either; a session of a server waits for its timeout.
- After `disconnect` a client is refused `connect` for good, as its handlers are
  released and `m_bIsConnected` stays set.
- The map of registered servers is read by an io thread of a connector if a packet
  for a server comes before the connector to it was made, and by whoever calls
  `getAppServerCnt` (`XServerGroup.cpp:200`, `:264`).
- Two threads that find no main connection make two; the first, if in use, goes to
  the pool without being counted.  A connection whose schema cannot be selected is
  nobody's (`XDBMysql.cpp:283-300`).
- A text for which `fopen_s` fails is lost (`XLog.cpp:47`, `:98`, `:107`).
- The io threads of the test clients look into `m_mapClient` without its mutex
  (`XServerGroupTestClient.cpp:174`).
- The dispatch timer does not look at the suspension, so that a session
  suspended again within 50 ms still dispatches what it holds.
- An accept that has completed enters its open session after `stopServer`, and
  a session that is handling data while `stopServer` closes it stays in the
  table, closed, until a restarted server times it out (the reason for the
  conditions of `LostIsErased`).
- A packet that arrives before the receive handler of a session is set is read
  and dropped.
- `disconnect` cancels a timer that another attempt may be waiting on, and the
  connect timeout reports a failure for an attempt that may still succeed.
- `stopAllServices` waits for ever if an operation never completes;
  `clearAllServices` clears nothing, its `splice` having the list as source and
  as destination.
- A text of `XLogger` that is to be written at once while others are in the
  buffer loses those, as `closeFile` forgets the buffer; one of size 0 or
  `MAX_LOG_BUFFER` is put off for ever.
- A test client that was closed stays connected in the eyes of `closeClient`,
  and is dropped only if its io thread noticed a loss in between.
- `parseFile` keeps the rows of earlier files, but `m_iMaxColumn` is of the
  last; `getColumnByString` with a row out of range reads past the table.

## 7. Not modelled

- *UDP*: the tests of `m_resolver` and of the list of sessions are inverted
  (`XAsioUDP.cpp:62`, `:127`), so that no exchange can start; nothing uses it.
- *XAsioServicePool*: `init` returns unless `m_bInit` is set already.
- *XAsioStat*: the byte and call counters only add up.
- *XTicker, XStringUtil, XAsioLog*: a cached clock, formatting into a buffer
  they share, conversions; without a lock, but nothing is decided by them.
- *XDataTable, XSingleton*: templates that nothing instantiates; the first names
  a type it does not declare.
- *Files commented out as a whole, or empty*: XAsioSocket, XAsioTCPSocket,
  XAsioPacker, XAsioInterface, XSerializtion.
- *What follows undefined behaviour*: a session used after it was destroyed, by
  its handler (that it comes about is `raced` of `PacketFraming`) or by who got it
  from `getSession`, `m_acceptor` reset while the strand uses it,
  a handler found empty between its test and its call.  After these there is
  nothing to check.
- *Log packets of the group*, which no server sends, and the answer to an echo
  packet.

## 8. Plan

All modules of the plan are written, and every safety property that the passing
runs check is a theorem.  What is left to TLC is liveness (section 5), and the
two violations of section 6, each of which shows that a statement is false.
