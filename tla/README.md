# Verification of hm-platform

TLA+ models of the concurrent core of hm-platform, TLC runs that check them on
small instances, and TLAPS proofs for any instance.  Everything here is
translated from the C sources in `src/`; comments and documents are used only
where a run tests what they say.  Line numbers refer to those sources.

hm-platform is a set of C libraries (`src/hm-libs`) for video surveillance
devices: an RTSP/RTP server and client on an event loop over libev, a framed TCP
transport, a multicast message bus for configuration, and containers, threads
and pools below them, and the XML messages in which devices, servers and clients
talk to each other.

## 1. Inventory

### RTSP server (hmrtspsvr)

| Component | State | Operations | Interactions and hard behaviours | What makes it correct |
|---|---|---|---|---|
| Packet queue of a track, `utils/bufferqueue.c` | list of elements with a reverse reference count (`seen`), serials, a cursor and a `last_element_serial` for each consumer | put, put_eof, reset, stop; consumer new, get, move, kill, unseen | The pusher's thread puts; the writers on the event loop read; handlers on pool threads kill readers (`rtp.c:797`) and reset the queue (`media.c:415`) in the middle of a writer's cycle; `killed` is tested outside the lock; `put` gives up the lock before it resets a full queue; the last reader frees | counts exact, no dangling cursor, no packet skipped, memory bounded |
| Registry of shared producers, `utils/bufferqueue.c`, `media/media.c` | hash table by key, reference count per producer | new, ref, unref, test_ref_and_remove | SETUP on the loop adds a track while a pool thread frees another; two locks and an atomic count | nothing freed while it is found or used; a source is closed only when nobody uses it |
| Wake-up descriptors, `utils/fdset.c` | table of callbacks under a mutex | add, remove, wake all | the pusher wakes the loops of the writers | every writer woken, none after it was removed |
| Resources, tracks, demuxers, `media/*` | resource, its tracks, reference counts, a closing pool | open, close, find track, play, pause, seek | closing runs in a pool, opening in the loop | a resource is used only while it is open |
| RTP sessions and writers, `rtp/*` | consumer, transport, timer, wake-up pipe, output queue of an interleaved channel | new, resume, pause, kill, write | timer and pipe call the writer, the queue may be full, the client may be killed | a killed session is not written to, a pending output is sent |
| RTSP sessions and methods, `rtsp/*`, `rtsp-server.c` | client with its sessions, session with state, timer, RTP sessions | DESCRIBE, SETUP, PLAY, PAUSE, TEARDOWN, OPTIONS, time-out, kill | lock order session before client; kill from other threads | each session is destroyed once, methods keep the state machine |
| UDP port allocator, `utils/ports.c`, `rtp/rtp_port.c` | byte map of ports, next, used, reserved | get/put one or a pair, set range | wraps around; an empty pool is reported as success | a port has one owner, a pair is found if there is one |
| Reverse connector, `reverse_connector/*` | an outgoing client with a keep-alive count | connect, keep alive, time out | owner is told from the loop | its owner learns of the end once |

### Event loops (hmgev, hmlib)

| Component | State | Operations | Hard behaviours | What makes it correct |
|---|---|---|---|---|
| `gev.c` | list of linked events, queue of operations, wake-up pipe and flag, references, conditions | attach, remove, add/remove conditions, unref, quit; callbacks | any thread queues, only the loop touches libev; a callback may remove its own event; conditions are changed without a lock | nothing slept over, no watcher of a freed event, conditions take effect |
| `gevsched.c` | loops and their weights | add, del | weights are returned when an event goes | balanced, weights never negative |
| `hm_event.c`, `hm_sched.c` | twins of the two above on the project's own lists | | | the same |
| `hm_queue.c`, `hm_asyncqueue.c`, `hm_threadpool.c`, threads, lists | | push, pop with a condition variable | lost wake-ups | no element lost |

### Message bus (hmmb)

| Component | State | Operations | Hard behaviours | What makes it correct |
|---|---|---|---|---|
| Client, `mb_api.c`, `mb_cu.c` | list of requests, sequence number, reference counts, two threads | query, get, set, release, stop | replies lost, doubled, late; a timer thread; counts and numbers without a lock | each request completed once, callers return, nothing used after free |
| Device, `mb_pu.c`, `mb_basic.c` | callbacks by command | receive, run, answer | requests doubled | answers tell what was done |

### Network transport (hmnet, hmshare)

| Component | State | Operations | Hard behaviours | What makes it correct |
|---|---|---|---|---|
| Output ring, `hm_netbuf.c` | blocks, next_use, next_deal, no_blocks, byte count | write, flush | wrap-around, appending, partial sends | bytes whole and in order |
| Watch, `hm_watch.c`, `hm_conn.c` | killed, w_pending, wanted events, connection in progress | dispatch, write, kill | the lock is dropped while a message is delivered; several threads may end it | nothing stranded, one end reported |
| Connections, `hm_net.c`, `hm_netio.c`, `hm_io.c`, `hm_hlio.c` | list of connections, references, callbacks, input buffer | connect, listen, kill, establish | callbacks after kill; children of a listening connection | callbacks and kill exclude each other |
| `hm_scheduler.c`, `hm_timer.c` | as gevsched | | | |
| hmshare | earlier variants of hmnet on GLib, reassembly of fragments | | | |

### XML messages (hmxml)

| Component | State | Operations | Hard behaviours | What makes it correct |
|---|---|---|---|---|
| Codec, `xml-merge.c`, `xml-parse.c`, `xml-tree.c` | none between messages; a tree of elements while one is written or read | a function that writes and one that reads each of some 300 messages, in pairs | the two of a pair were written by hand and far apart; rows of lists, branches by type or by content | what is written is read back |
| Handlers and table, `hm_xmlhandler.c`, `hm_xmlmsg.c` | a table of number, type, creator, parser | register, create, parse, destroy | found by number when written and by type when read; a parser fills what its handler allocated | each message reaches its reader, in a structure of its own that is released |
| `hm_transform.c` | none | copies a packet into a device's structure and back | | the same field on both sides |

### RTSP client and parser (hmrtspclient, hmrtspparser)

The client (`rtsp/rtsp.c`, `media.c`) keeps a connection, one awaited reply
(`wait_for`), a state, a medium with RTP sessions; it connects without waiting,
then sends DESCRIBE, one SETUP per track and PLAY, each when the reply to the one
before arrives; the user may play and close it from other threads, a timer keeps
it alive.  The parser is taken over from GStreamer, except the incremental
`rtspctx.c`.

Vendored: libev, netembryo, mxml.

`PROJECT.json` lists every component with its status and, under "hazards", each
behaviour above at the line where it bites, with the properties that cover it or
the reason why none does yet.

## 2. What is modelled

| Module | Code | State and actions |
|---|---|---|
| `BufferQueue` | `bufferqueue.c`, `r_seek` | `queue` is the GQueue as a function from element names (the value of `total_packets` at the append, so a name is never reused as an address would be) to records; `gen`, `current` are a cursor; `at` and `peeked` say where a writer is in its cycle and which payload it was given; `life` goes through the steps of a kill. `Put`, `PutEof`, `PutFull`/`PutFullReset` (the two locked regions of a put over a full queue), `Seek`, `ConsumerNew`, `StartGet` and `Get` (the test of `killed`, the locked region), `Sent` and `Move` (the same of a move), `StartKill` and `ConsumerKill`, `ConsumerFree`, `Unseen`. `process` ends the behaviour where a freed element is read or a `g_assert` fails; `overcount` is a history variable. |
| `BroadcastLog` | the promise of that queue | a log, the interval that is kept, a cursor per reader; no counts, no serials |
| `ProducerRegistry` | `bq_producer_new/_ref/_unref/_test_ref_and_remove`, `add_track`, `free_track` | one step per locked region or atomic access; `pc` of each track goes through adding, using and freeing it |
| `EventLoop` | `gev.c` | the operations queue, the pipe, the list, what libev watches; a call of another thread is split where it reads and writes `events` without a lock |
| `MessageBus` | `mb_cu.c`, `mb_api.c`, parts of `mb_pu.c`, `mb_basic.c` | the network is the set of what was ever sent; the receiver, the timer and each caller have a `pc`; decrement and test of a count are separate accesses, as in `mb_basic.h:79-85`; `met`, `misused` and the sender that a reply carries are history: who dropped the last references at the same time, who touched freed memory, which request the device ran |
| `NetBuf` | `hm_netbuf.c` | operators on the value of the ring |
| `NetWatch` | `hm_watch.c`, the calls it makes of `hm_conn.c` and `hm_event.c` | extends `NetBuf`; a step is a region under `watch->lock`; `owed` is a history variable: the bytes of accepted messages that the socket has not taken |
| `PortPool` | `ports.c` | operators on the value of the allocator: taking and returning one port or a pair, under its lock |
| `RtspSession` | `rtsp.c`, `rtsp_method_*.c`, `rtp_port.c` | extends `PortPool`; a connection, its sessions, RTP sessions and transports, each with its reference count; handler threads (`th`) run the requests of one peer at the same time, the loop ends the connection; a step is a region under the client's or the session's mutex |
| `OutputQueue` | `rtsp_client_write_data` and `rtsp_client_write` of `rtsp.c`, and their twins in `rtp_watch.c` | operators on the value of the output: queue, write buffer, backlog |
| `LiveStream` | `rtp.c` (live), `rtp_watch.c`, `fdset.c`, the output of `rtsp.c` | extends `OutputQueue`; producer, descriptor set, a pipe and a writer per PLAY, handler threads, the loop and its queued changes, a socket that takes a part |
| `NetIo` | `hm_net.c`, `hm_netio.c`, the life of a watch in `hm_watch.c` | the list, the references of `JNet`, `JNetIO` and `JWatch`, an acceptor, the loop and users that write and kill |
| `RtspClient` | `rtsp/rtsp.c`, `rtsp_describe.c`, `rtsp_setup.c`, `rtsp_play.c`, `rtsp_option.c`, `rtsp_client.c`, `media.c` of the client | the list of sessions; a session with its references, timer, watch, awaited reply and RTP sessions; its user, `rtsp_client_fin`, the callbacks of the loops and a server that answers as it likes; a call reads `client_single` twice, and `crashed` says that the second read found NULL; `stalled` and `late` are history variables |
| `XmlTree` | `xml-tree.c`, the helpers of `xml-merge.c` | elements with tag, text, attribute and children; what mxml drops of them; how a text reads as a number, a string or a date |
| `XmlPackets` | the structures of `hm_packet.h`, `hm_sdk.h`, `proxy_info.h` | the paths of their fields; arrays, lists, counts and indices |
| `XmlMergeDevice`, `XmlMergeProxy`, `XmlMergeExtended` | `xml-merge.c` | one operator per `merge_` function: the message it makes of a packet |
| `XmlParseDevice`, `XmlParseProxy`, `XmlParseExtended` | `xml-parse.c` | one operator per `parse_` function: the fields it fills from a message |
| `XmlMergeNamed`, `XmlParseNamed` | the same two files | the functions that only name their message and leave the rest to the function of its kind |
| `XmlHandlers` | `hm_xmlhandler.c` | the `create_` and `parse_` functions by name: which writer, reader and structure each uses, what it allocates and loses |
| `XmlRegistry` | `init_jpf_xml_msg` | the table, entry by entry in its order |
| `XmlCodec` | `hm_xmlmsg.c`, `xml_table_create`, `xml_table_parse` | a writer and a reader: fill, create, parse, destroy, and the two lookups |
| `MCBufferQueue`, `MCRtspSession`, `MCNetIo` | | symmetry sets for TLC; in `MCBufferQueue` the fairness and the progress of one consumer, which stands for each, since they are interchangeable |
| `BufferQueueProofs`, `EventLoopProofs`, `MessageBusProofs`, `NetWatchProofs`, `NetIoProofs`, `RtspClientProofs`, `RtspSessionProofs`, `LiveStreamProofs` | | the inductive invariant and the theorems of each (section 4); `BufferQueueProofs` extends `BufferQueue` and `ProducerRegistry`, the two parts of `bufferqueue.c`, which share no state, and proves both |

`BufferQueue` is related to `BroadcastLog` by the refinement mapping `Log`;
`NetWatch` composes ring, socket, event and threads, `RtspSession` the sessions with
the allocator of their ports, `LiveStream` the writer of a stream with the output that
it shares with the answers to requests, and `XmlCodec` the table with all writers,
readers and handlers.  `NetIo` uses of a watch only that it ends once, which is
`ReportedOnce` of `NetWatch`.  What `EventLoop` shows about
operations (applied in order, a removal is final) is what `NetWatch` assumes of the
queued changes of its event, which it keeps as one flag each.

Abstractions used throughout: payloads and messages are names or numbered bytes,
formatting and logging are left out, memory that was freed keeps its last value,
allocation does not fail (the code aborts or ignores it).

## 3. What the runs check

| Run | Bounds | Distinct states | Shows |
|---|---|---|---|
| `bq` | 3 consumers, 1 loop, backlog 2, 3 packets, 2 queues | 631 000 | with kills and seeks at any point of a writer's cycle: counts exact (`SeenCountsPassed`), no element outlives its readers, cursors and payloads in use linked, no packet skipped, and the queue implements `BroadcastLog`, all while no killed writer's late move is counted; only such late calls fail; the backlog is bounded in any case; a reader that is called again never stops before a packet |
| `reg_races` | 3 tracks of one stream, 3 producers | 20 000 | the count equals the holders, the table never leads to freed memory, no close before open, every free completes although it takes two locks |
| `loop_races` | 2 events (one with a timer), 3 calls | 156 000 | events owned, wake-ups, conditions, linking once, no free under the loop's lock; a removal takes effect for good |
| `bus_calls` | 2 requests of any kind, 1 request processed and 2 replies received | 369 000 | each request answered once and before its call returns, freed once and not in use but for three named windows, told what was done to it or to one of the same number; every call ends |
| `net_ring` | 2 blocks of 2 bytes, 3 messages of 1 or 2 bytes, 1 inbound message, a socket buffer of 1 | 32 000 | the ring is sound and served, bytes stay whole and in order, one end is reported, what was written is sent or the end is reported |
| `net_early_write` | a message before the connection is established | violation | such a message may stay in the ring for good |
| `rtsp_sessions` | 2 handlers, 2 sessions, 2 RTP sessions, 3 requests, 10 ports | 763 000 | references exact, each port with one owner, a pair found whenever there is one, nothing left when the connection is over but what the finding below leaves |
| `rtsp_no_ports` | 1 handler, 1 pair of ports, 2 requests | violation | with the allocator empty, SETUP gives back ports that it never took |
| `live_stream` | 2 pipes, 3 packets, 2 requests and TEARDOWN, a socket buffer of 2 units, an output of 3 | 204 000 | packets and answers leave whole, in order and without a gap; wake-ups go to open pipes only; what is queued is sent at last |
| `net_io` | 2 connections, 2 users with 2 calls, 2 messages each | 910 000 | references exact, each connection ends once for its user, no message after its end |
| `rtsp_client` | 1 session, 2 tracks, 2 calls of play, keep-alives up to the third request, 1 packet | 620 000 | references exact, close and `rtsp_client_fin` never take the same session, one SETUP per track and no PLAY lost or too many, a session gets ready unless something failed, and one that was killed is freed, unless the process ends at a NULL `client_single` |
| `xml_codec` | every message of the table, 5 variants of its object, lists of up to 2 rows | 5 300 | each message reaches its reader with what was written, in a structure of its own, and is released, but for the lists of exceptions in `XmlCodec` |

The two violations are the findings in `PROJECT.json`: each quotes the comment or
the assertion the code contradicts.

### What else the code does that its properties leave out

Some properties hold only with an exception that the code makes; each exception is
a named part of the model, so that it shows when it goes away or when another one
comes.

* `BufferQueue`: `bq_consumer_get` promises that "the new selection is not freed until
  the cursor is moved or the consumer is deleted" (`bufferqueue.c:1076`).  A put over a
  full queue, or the reset of a seek, frees it while a writer is still sending it, and
  when a handler kills the writer's own consumer meanwhile, which it may do since the removal of
  the writer's event is only queued, the payload may be freed too (`bufferqueue.c:863`);
  `PeekedLinked` says that nothing else does, not even the kill of another writer that is
  sending.
* `BufferQueue`: `bq_consumer_move` tests `killed` before it takes the lock.  A writer whose
  consumer is killed in between makes a move that counts for a consumer which is no longer
  counted (`overcount`): an element may then be freed before its last reader has left it, a
  cursor dangle and an assertion fail.  The counts are never too small, and are exact again
  when the queue is reset or its last consumer goes.  `OnlyLateCallsFail` says that a freed
  element is read, or an assertion fails, only after or by such a late call (a late `get`
  among them), and the other properties of the queue, but for the type and the bound of the
  backlog, are claimed for the states without an overcount.
* `ProducerRegistry`: the comment "only us" (`media.c:546`) is not so. A SETUP that
  has found the producer takes its reference after the test, and the stream is then
  closed under it.
* `EventLoop`: the field `events` is called "atomic get/set" (`gev.h:46`), but two
  threads read, change and store it, and one change may be lost. `EventsApplied`
  speaks of the value the field ends up with.
* `MessageBus`: a freed request may be touched in three windows, which `MisusedOnly`
  names and beyond which `RequestsOwned` allows nothing: the receiver's use of a query that
  `mb_release` frees (`mb_cu.c:347`); the sender's read of an asynchronous request after it was
  put into the list (`mb_cu.c:218`), when it has timed out or was answered by the reply to
  another of its number; and the two owners of a synchronous request that drop it at the same
  time (`mb_basic.h:79`).  The requests whose owners met that way (`met`) may be freed twice or
  leaked; every other synchronous or asynchronous request is freed once, when the last
  that uses it is done.
* `MessageBus`: two requests may get one number (`mb_basic.c:57`), and a reply completes the
  newest in the list that has it.  A set that the device never ran may then be told that it was
  done: `ResultHonest` says that this needs a request of the same number (`Twin`) which
  the device ran with that end.
* `RtspSession`: `__rtsp_client_session_new` tests the client's mutex where it means
  the killed flag, so a SETUP may add a session to a client that was killed;
  nobody kills that session and it keeps the client (`late` in `NothingLeft`).
* `LiveStream`: EV_WRITE is cleared after the mutex was released; what was queued in
  between waits for the next write (`overtaken`).
* `NetIo`: nothing ever sets `killed` of a `JNet`, so the `BUG_ON(!net->killed)` of
  `hm_net_free` fires when the last reference is dropped; the model ends before that,
  since the listening side keeps one.  A watch that a failed write kills before the
  loop has it stays in the loop until its peer acts.
* `RtspClient`:
  - a keep-alive takes the place of the awaited reply (`rtsp.c:252`, "fix me"): sent while
    the set-up waits, it ends the set-up.  So does a request that is refused or cannot be
    sent, or an answer without tracks (`stalled`); the user is not told, since nothing
    calls its `exp_cb`;
  - PLAY waits for a reply to SETUP (`rtsp_play.c:53`), and a session that is READY looks at
    no reply, so that this shows nowhere;
  - a session whose user read `client_single` before `rtsp_client_fin` cleared it, and links it
    when the list was emptied, stays there, and nobody can close it any more; `EndsAtLast`
    leaves out just that one;
  - `rtsp_client_create_session` and `rtsp_client_close_session` test `client_single` and read it
    again for the call that follows (`rtsp_client.c:139`, `151`): when `rtsp_client_fin` clears
    it in between, the process dereferences NULL and ends (`crashed`), so that what must happen at
    last does not.
* `XmlCodec`:
  - `Renamed`: types or creators used for two numbers, so that the message arrives as
    another one (the registration of a server is taken for that of a device);
  - `Unread`, `NoCreator`, `NoParser`: messages that their reader refuses, or whose
    writer or reader is NULL and is called;
  - `Misplaced`: a parser that fills another structure than its handler allocated (the
    answer to a question for the time is read into a `Result`);
  - `Leaky`: lists that are read and never released;
  - `Ignored`: fields that are written and not read. The result code of five answers is
    one of them: a failure arrives as a success. Others are the conditions of a log
    query, the list of wireless networks and the rows of a division, which arrive
    shifted by one;
  - `Weeks`: what the days of a week hold is lost unless they are numbered from 0;
  - `Asking`: the question about the linkage of an alarm does not carry the alarm,
    though `hm_packet.h:19` says that it does: the branch that would write it tests
    for another message (`xml-merge.c:295`).

### Why the bounds are enough

* Queue: three consumers give one that lags, one that leads and one that joins, or is
  killed in the middle of its cycle and moves late; a backlog of two with three packets fills,
  resets and goes on; a seek may reset it while a put over the full queue is about to, so that
  cursors are one and two queues old.  With one loop a writer waits for the others; that their
  locked regions mix is the interleaving of steps, and the proofs are for any number of loops.  In this
  instance a late move leads to the read of a freed element; that an assertion fails takes
  a longer backlog, so the half of `OnlyLateCallsFail` about `process = "aborted"` is
  met by TLC only in the mutant, and rests on the theorem otherwise.
* Registry: a race needs the last holder, a newcomer and one more track that
  finds the entry removed; every track is added and freed once, so three
  producers are all that can be allocated.
* Loop: an event is attached, changed and removed in three calls, and a
  second event interleaves with it in the queue.
* Bus: a doubled reply takes two receptions; two requests are the least that can
  be given one number or be confused in the list.
* Ring: two blocks wrap around, fill up and empty; messages of 1 and 2 bytes
  against blocks of 2 and a socket that takes one byte give appends that fit and that
  do not, sends that end inside and at the end of a block, and a dropped message.
* Sessions: three requests on two threads create, set up and end a session in every
  order while the connection ends; the range of ports begins with an odd one and has
  a reserved one, so that a search meets pairs of every kind and wraps around.
* Stream: an output of three units is full after one packet and one answer; two pipes
  let a PLAY overlap the end of the writer before it; the last packet is the end mark.
* Connections: two of them are enough for every race, which is between the threads of
  one connection; the second keeps the list and the counts of the `JNet` busy.
* Client: sessions share only the list, and its races (create, close, fin) are between
  the threads of one session.  With two tracks there is a first and a last SETUP; keep-alives
  may be sent after DESCRIBE and after the first SETUP, before and after their replies.
* Codec: messages are independent, so one at a time is enough. Lists are empty, have
  one row or as many as an array holds in the model (`MaxRows` stands for each of the
  limits); the variants take each branch that depends on the content: success and
  failure, a device and a group, the modes of a switch, a text that begins with a
  blank, data longer than an element holds.

### Deadlock

TLC checks for it in every run but those of `EventLoop`, `NetWatch` and `RtspClient`,
which may be idle, waiting in `ev_run`, and of `XmlCodec`, which ends when a handler is called that
is NULL; their configurations say so. Finished states are part of the
specifications: in `RtspSession` and `LiveStream` anything else that stops would be a
thread that waits for good.

### Fairness

| Specification | Assumed | Because |
|---|---|---|
| `BufferQueue` (`MCBufferQueue`) | SF of the calls of one consumer's writer, WF of the steps inside a cycle of any | the writer of a session is called again by its 100 ms timer or the pipe (`rtp.c:277,286`), a loop comes to each ready event in its round, and a cycle that began goes on; nothing is assumed of the calls of the other writers, and the producer, kills and resets are free to stop |
| `ProducerRegistry` | WF of each track's step | threads are scheduled; nothing makes a client end, so beginning a free is not fair |
| `EventLoop` | SF of the watcher of the pipe, WF of the steps inside a call or operation, SF of a callback's return | one round of `ev_run` calls every ready watcher; other callbacks may be ready forever, hence SF |
| `MessageBus` | SF of a caller's steps, WF of the two threads and of time | a mutex goes at last to a thread that keeps asking; neither the network nor the device owes an answer |
| `NetWatch` | WF of the callbacks, SF of the queued operations, WF of the end of connecting and of the peer taking bytes, WF of the second half of `hm_watch_kill` | operations wait only while the loop is in a callback; without a peer that reads, nothing can be sent |
| `LiveStream` | WF of a thread's next step and of the peer's reads, SF of the loop's operations, wake-ups and writes | threads that have begun go on; the loop is one thread and comes to each in its round; the timer wakes the writer without the pipe |
| `RtspClient` | WF of the calls that were begun, of `rtsp_client_fin`, of the callbacks and the finalization of events, and of the server's answers | threads go on with a call; a loop comes to every ready event and lets go of what was deleted; a server that never answers is a session that waits, without an end in the code |

The other specifications state safety only: that everything ends is shown in
`RtspSession` by the absence of deadlocks, and in `XmlCodec` each call is one step.

## 4. What is proved

Eight modules hold proofs.  Each has an inductive invariant `IInv` (or, where two
properties need different facts, one for each), one lemma per action that the action keeps it, and theorems that
take the properties of the runs from it.  TLC checked each of them as an invariant of
the run before it was proved.  The theorems hold for every value of the constants
that the assumptions admit; TLC evaluates the assumptions on every run.

| Module | Theorems | For any |
|---|---|---|
| `BufferQueueProofs` | `TypeCorrect`, `CountsExact`, `NoneSpent`, `CursorsLinked`, `PayloadsKept`, `BacklogKept`, `NoAssertionFails` (`[]TypeOK`, `[]SeenCountsPassed`, `[]NoSpentElement`, `[]CursorLinked`, `[]PeekedLinked`, `[]BacklogBounded`, `[]OnlyLateCallsFail`), `NoPacketSkipped` (the action property `ReadsEveryPacket`), `QueueIsBroadcastLog` (the refinement `ImplementsLog`) | finite set of consumers, number of loops, backlog, packets and resets (`ConsumersAssumption`, `LoopsAssumption`, `BoundsAssumption`); kills, seeks and puts fall anywhere in the cycle of a writer |
| `BufferQueueProofs`, about `ProducerRegistry` | `SharedProducersOwned` (`[]ProducersOwned`) | finite set of tracks, set of producers (`NobodyAssumption`, `TracksAssumption`) |
| `EventLoopProofs` | `EventsAreOwned`, `RequestsWakeTheLoop`, `ConditionsAreApplied` (`[]EventsOwned`, `[]WakeupNotLost`, `[]EventsApplied`), `EventsLinkAndFreeOnce` (the action property `LinkedAndFreedOnce`) | set of events, number of calls |
| `MessageBusProofs` | `CallsAnsweredOnce`, `RequestsAreOwned`, `ResultsAreHonest` (`[]AnsweredOnce`, `[]RequestsOwned`, `[]ResultHonest`) | set of requests, number of messages |
| `NetWatchProofs` | `StreamKept`, `ReportIsOne`, `RingIsServed` (`[]StreamInOrder`, `[]ReportedOnce`, `[]RingServed`) | number and size of blocks, sizes of messages, number of writes and of messages of the peer, room of the socket (`RingAssumption`, `WatchAssumption`); `RingIsServed` for a socket that is not written before it is connected |
| `NetIoProofs` | `CountsAreExact`, `ConnectionsEndOnce` (`[]RefsExact`, `[]EndedOnce`) | finite sets of connections and users, number of messages and calls (`NetIoAssumption`) |
| `RtspClientProofs` | `NobodyUsesAFreedSession`, `SetUpGoesInOrder` (`[]SessionsOwned`, `[]SetUpInOrder`) | set of sessions, number of tracks, requests and packets (`RtspClientAssumption`) |
| `RtspSessionProofs` | `CountsAreExact`, `NothingIsLeft` (`[]RefsExact`, `[]NothingLeft`), `PortsAreOwned`, `PairsAreFound`, `NoPortIsLost` (`[]PortsOwned`, `[]PairFound`), `PairSearchIsSound` (`SearchSound` of every allocator) | finite sets of handlers, sessions and RTP sessions, number of requests, range of ports and reserved port (`SessionAssumption`); the ports under the condition below |
| `LiveStreamProofs` | `PipesAlwaysOwned`, `OutputAlwaysSound` (`[]PipesOwned`, `[]OutputSound`) | number of plays, packets and requests, sizes of messages, limit of the output, room of the socket (`StreamAssumption`, `OutputAssumption`) |

Sets are assumed to be finite where the model counts their members: a process has
finitely many threads, sessions and connections.

### The packet queue

`SeenCountsPassed` alone is not inductive: when the last reader moves on, the code
frees the head of the list, whatever it is, so one must know that the element it
stood on is the head.  That follows from the counts (all counted consumers have
passed it or stand on it) only if the elements are those with consecutive names
above `Base` (`Contiguous`), if their serials count from that base
(`SerialsConsecutive`), and if no consumer is ahead of the producer's queue
serial (`GenBounded`), so that a reset puts every cursor out of step.  `MoveIInv`
splits on whether the consumer has an element and whether it is the last to leave it,
with `LastToSeeIsHead` and `NextIsConsecutive` as the facts about the list and
`LiveSubsets`, `LiveAdd`, `LiveRemove` as those about cardinalities.

A late move of a killed writer breaks that argument: the counts are then too large.  So
the facts about exact counts, cursors and consecutive names are stated under `~ overcount`, those that
survive (types, lower bounds of the counts, serials, generations) without, and each step is
shown to keep both; a reset and the leave of the last consumer, which empty the queue, give the
first ones back.  A kill in the middle of another cycle than a late one needs nothing more: up to
the locked region of the kill the consumer is counted (`Live` has those in `killing`).

The second layer, `UseInv`, holds what the first is used for: a payload in use by a counted
reader is linked or its queue was reset (`PeekedOwed`), and the serial of the slowest reader is
behind every other one (`MinSerialBehind`), which is why comparing the serials at the
head and at the end, as `bq_producer_put` does, bounds the backlog, overcount or not.
`OnlyLateCallsFail` is about the outcome of the steps themselves: each has a branch for the
element that is freed and one for each assertion that fails, and the proof shows these
branches closed without an overcount, but for a dangling cursor of a writer that was killed.

For the refinement, `InitLog` shows that initial states map to initial states and
one lemma per action that its step maps to a step of `BroadcastLog` or to a stutter.
What is kept in the log is everything from the oldest linked element on; a step of
the queue discards from the log exactly when it unlinks the head, which again is the
counting argument of the first layer (`HeadIsOldest`, `HeadIsSlowest`).  Steps that begin or
end with an overcount are not claimed to refine anything; from a reset on they are again.

### Shared producers

A stream is closed only after it was opened.  The track that opens it may be overtaken
by tracks that found its producer, used it and gave it back; it holds its own
reference all the time, so the count that `bq_producer_test_ref_and_remove` reads is
above 1 (`OpenedFirst` with `RefsCountHolders`).

### The event loop

The reference counts are sums over the queue of operations, so the proof first shows
what an operation that is queued, taken or dropped adds to such a sum (`Places` and the
lemmas about it).  `EventsOwned` needs to know that an event is linked, or asked to be
linked, at most once, and that only a linked event is called; `EventsApplied` that the
last queued change of an event carries what its field will be, while another thread
is between its read and its write of it.

### The message bus

A request of a call is in one place at a time: with its caller, in the list, or in the
hands of one handler (`OnePlace`); it is completed on the way from the second to the
third, so once.  Its count is decremented in separate accesses by two threads, so the
invariant cannot say that it is exact: `SyncCount` says what the count is while
neither of the two owners has written it back, and while one has, what each may have
read, and that the memory lives until both have.  An asynchronous request has
one reference that goes from the list to a handler (`AsyncCount`).

`RequestsAreOwned` goes on from there: of a synchronous request whose owners did not meet,
`SyncDropped` says which of them wrote the count last and therefore frees it, once, and that nobody
comes to it later; `AsyncSent` says what must have happened to an asynchronous request
that its sender finds freed, and `QueryHeld` that only the receiver can be left with a freed query.

`ResultsAreHonest` needs to know what the replies under way are replies to.  `Answers` says
of every datagram that the device sent that it has run the request it names with that end; a reply
names a request by number only, and `Explained` keeps the request, that one or a twin, that accounts
for what the callback is told.

### The watch and its ring

`StreamInOrder` relates the bytes in a ring of blocks, which writers fill and the flush of
the loop empties, to a history of what was accepted.  `Holds` says what a well-formed ring
of `n` blocks is: they start at `next_deal`, the `k`-th at the position `k` behind it, each
has a message of which something is left, and all other blocks are free.
`Carries(ring, owed)` says that such a ring holds the bytes that are owed, in order.
A write appends its message to the sequence of messages, or the message joins the last one
(`WriteKeeps`); a round of a flush takes the first one, or the part of it that the
socket takes (`FlushRound`); and the last block is the only one that a write and a flush
may both be about.

Both the bytes of a ring (`Joined`) and the rounds of a flush (`Rounds`) are recursive
functions of a natural number.  The library's induction theorems are out of reach, but
the theorem that a nonempty set of numbers has a least element is not (`Least`): `Induct`
says that a set which has 0 and the successor of each member is all of `Nat`, as otherwise
there were a least number outside it, and each induction of the module names its set.

`SafeInv` is what the bytes and the end of the watch need.  `WaitInv` says why
the ring is served: before the connection is established nothing is in it, and
afterwards the watch waits for room while something is.  It is proved for
`EarlyWrites = FALSE` only, and there the restriction is the finding: the run
`net_early_write` shows how a write before the socket is connected ends with a ring that
nobody serves.

### Connections

The counts are sums over all threads, so `CountStep` shows once what changing one thread
does to the number of threads with a property, and `RefsStep`, `WatchRefsStep` and
`NetRefsStep` reduce the three counts to an equation about the thread and the
connection of a step (`RefsDue`, `WatchDue`, `NetDue`).  `StepKeeps` frames everything
else, so that the lemma of an action is about its own thread and connection only.

What makes the counts inductive is who holds the reference of the list: the list, or the
one thread that took the connection off it (`OneTakesAt`).  That no net is left behind in a
freed connection, the assertion of `hm_net_io_release`, is `PairedAt`: whoever finds a
connection on the list finds its net in place, or another thread that has taken the net
and is about to look for it on the list.  `WatchingAt` says that a connection that still
has its watch is either dispatched or about to be ended by a thread, hence when
nothing runs any more nothing is left.  The pointers once taken stay away (`PointersAt`), so
that no reader is looked up after the end.

### The RTSP client

Sessions do not share anything but the list and their owner, so what a step does to the
session it is about is shown apart from the others: `Follows` says of two values of a
session that the set-up, the parts that hold it and its socket go on from one to the
other as they may, each operator that handles a reply or sends a request has a lemma that
its result follows its argument, and `OneSession` and `OthersKept` turn such a lemma into
one about the whole state.

`SetUpInOrder` needs to know that a reply that moves the set-up on is the answer to the
request that is awaited, and is read once.  `Numbers` says that every request and every
reply under way has a number of its own, none above the last one used, and `Tracks` that while
the reply to the awaited SETUP may still come (`Awaited`), exactly one track more was asked for
than was accepted.  The keep-alive OPTIONS takes the place of the awaited request without
that, which is why `Tracks` speaks of the method of `wait_for` too.

For `SessionsOwned` the count is that of the owner and of the parts: timer, watch and the RTP
sessions still referenced (`Parts`).  `Owner` says who the owner is: the user, or
`rtsp_client_fin` once it took the session off the list, never both, wherever the user is between
its two reads of `client_single` and the list.

### Server sessions and their ports

The three counts, of the client, of its sessions and of their RTP sessions, are sums over threads,
sessions and RTP sessions, each of which `ClientDue`, `SessionDue` and `RtpDue` give as
the part that the thread and the objects of a step account for and a rest that the step leaves
alone.  `ClientStep`, `SessionsStep` and `RtpsStep` then reduce each count to an
equation about those.  The invariant `IInv` has besides the counts only who may be where
(`Place`), that a thread with an RTP session in its hands has its owner too (`Paired`), that
what is listed or held is alive (`Alive`) and where the loop and the client stand (`ClientAt`).

`NothingLeft` is about the end, when nobody is at work any more, so it needs to know
who is going to end what is still there.  `EndInv` says for each session: it is in the
list of the client, or killed, or in the hands of the thread that took it off (`Kept`); once
it is killed its RTP sessions are gone, or a thread is on its way through their list
(`Emptied`); what is in the list after the loop went through it is not killed any more
(`Late`).  An RTP session that was taken off its list and still plays is in the
hands of a thread (`Stopped`), which will pause it, and so the writer's reference goes too.

The search for a pair of ports, `Search`, is a loop that takes a port, looks for its
neighbour and gives back what does not fit.  `PairSearchIsSound` is proved for every range,
reserved port, cursor and set of ports taken: each look takes one of the looks left or ends
the search (`Ends`), what is held in between is given back or returned (`Tracks`), and the
cursor, which goes around the range at most once, does not pass a free pair without finding it
(`Reaches`).  The inductions over the looks are those of a set of numbers, as in `NetWatchProofs`.

`PairsOwned` says that the ports taken are the pairs of the open transports.  It is kept by every
step in which whoever asks for a pair finds one free (`PairsLeft`), and that condition
is needed: `get_port_pair` (`rtp_port.c:20`) returns success when there is none, and the run
`rtsp_no_ports` shows SETUP giving back ports that it never took after that.  `PortsAreOwned` and
`PairsAreFound` have the condition as `[]PairsLeft`; `PairsSuffice` shows that it is met whenever
the range has a pair for each RTP session and each handler (`EnoughPairs`), because each of
them has at most one and two transports never have the same.  The run `rtsp_sessions` meets
it in another way: its range has three pairs and there are three requests, each of which
asks for one pair at most.

### The live stream and its output

Only the last PLAY's pipe belongs to the session; the earlier ones are the loop's until it
has run the removals that are queued.  `PipesOwned` alone is not inductive: it does not say
that the writer is still on its way to the loop when PLAY gives it up, or that the loop still
has the writer that it runs.  `PipeInv` has that: what the last pipe has follows from where the
handler is (`Current`); an end that is read is open exactly while the session or the loop
has the writer, and no earlier pipe is in the descriptor set (`Apart`); the writer that
the loop runs is one that it watches (`Writer`).  That last part is the order of the operations
of `EventLoop`: the loop does not run a removal in the middle of a callback.

`OutputSound` is about a client that gets answers and packets through the same socket, a part at
a time.  `Sent` says it in one equation: what was sent, then what is left of the message that is
being written, then the queue, are the units of the messages that were accepted.  A write
(`WriteKeeps`) puts its message behind all that, or sends it past an empty output, or refuses it;
a pass of the loop (`WritePassIs`) moves units from the front of what is owed to the
stream.  `Awaited` says why nothing is left waiting: while anything is queued EV_WRITE is asked
for, or somebody is just about to ask for it, or the loop has cleared it behind a request
that was accepted meanwhile (`overtaken`), the hazard that is listed at `rtp_watch.c:196`.

The units of a sequence of messages, `Units`, are a `FlattenSeq`, which the community modules
define as a recursive function.  `FlattenIs` shows that it puts the messages together one
by one (`Joined`); that a message more at the end or one less at the front changes the units by
just that message (`UnitsAppend`, `UnitsHead`) is proved by an induction over the number
of messages, as in `NetWatchProofs`.

### What stays with TLC

* Liveness: `EveryPacketRead`, `FreeCompletes`, `RemovedAtLast`, `EveryCallEnds`, `SentAtLast`,
  `EndsAtLast`.  They rest on fairness and ENABLED, which are
  outside the prover.
* The codec: its modules declare recursive operators, which the prover's SMT backend
  does not take, and what they compute for every message needs
  induction over trees.  (The induction of `NetWatchProofs` is over natural numbers, for
  recursive functions.)

## 5. What is not modelled

Each component's note in `PROJECT.json` gives the reason.  In short:

* still to come (below): the reverse connector, the schedulers, the
  asynchronous queue and the pool, the assembling of packets in `hm_io.c`;
* parts of modelled components: the watch of the RTSP client, whose source is not in the
  repository; writers of files and UDP output, DESCRIBE, RTCP, the
  demuxers; in the codec the characters of a message, the length of strings and the
  width of numbers;
* left out: vendored code, system-call wrappers, the text formats of RTSP, SDP, URLs
  and base64, GStreamer's part of the parser, `hm_transform.c` (it copies fields and
  keeps nothing, and nothing in `src/` calls it) and hmshare (older variants of hmnet).

`hm_event.c` has the protocol of `gev.c`; `EventLoop` is mapped to `gev.c` only, and
`NetWatch` to the part of `hm_event.c` it uses.

## 6. Plan

Order of work, most important first; done: 1 to 11.

1. `BufferQueue`, `BroadcastLog`, its proofs: the data path of every stream.
2. `ProducerRegistry`: who may free a stream.
3. `EventLoop`: under everything else.
4. `MessageBus`.
5. `NetBuf`, `NetWatch`.
6. `PortPool`, `RtspSession`: clients, sessions, RTP sessions and their ports.
7. `OutputQueue`, `LiveStream`: the writer of a live stream over TCP.
8. `NetIo`: the life of accepted connections.
9. `XmlTree`, `XmlPackets`, `XmlMerge*`, `XmlParse*`: what each message carries.
10. `XmlHandlers`, `XmlRegistry`, `XmlCodec`: how it reaches its reader.
11. `RtspClient`: the sequence of requests, `wait_for`, keep-alive, close.
12. `LoopScheduler`, `AsyncQueue`: `gevsched.c`, `hm_asyncqueue.c`, `hm_threadpool.c`.
13. `PacketBuffer`: reassembly of packets in `hm_io.c`, and the incremental RTSP parser
    `rtspctx.c`, compared with a definition over the whole stream.

Every invariant and every action property that a run checks is a theorem, except those of the
codec, whose modules declare recursive operators and stay with TLC (section 4).  A module
of 12 or 13 would need a run and a proof of its own.

To run: `tlc -workers 2 -config <cfg> <module>`, with the pairs listed under "runs" in
`PROJECT.json`, and `tlapm <module>` for the modules of section 4.
