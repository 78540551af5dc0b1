------------------------------ MODULE BufferQueue ------------------------------
(***************************************************************************)
(* The shared packet queue of the RTSP server                              *)
(* (hmrtspsvr/src/utils/bufferqueue.c).  One producer appends packets; any *)
(* number of consumers read the same queue, each with its own cursor, and  *)
(* an element is freed by whichever consumer is the last to leave it.      *)
(*                                                                         *)
(* Threads.  Packets are put by the thread of the demuxer or of the        *)
(* external pusher.  A consumer is read by the writer of its session on    *)
(* the event loop (rtp.c:699-737): get, send, move, over and over.  It is  *)
(* killed by a thread of the pool that handles requests (rtsp.c:728-757,   *)
(* rtp.c:797-803), where PLAY also resets the queue (media.c:415), at any  *)
(* moment of that cycle: the removal of the writer's event is only queued. *)
(* The flag `killed' is tested and set outside the lock, so a get or a     *)
(* move has two steps, the test and the locked region, and so has a kill.  *)
(* bq_producer_put, which drops the lock before it resets a full queue,    *)
(* has two as well.  Every other locked region is one step.                *)
(*                                                                         *)
(* An element is named by the value of total_packets when it was appended, *)
(* so the order of the names is the order of the GQueue and a name is      *)
(* never reused, as an address would be.  A step that reads an element     *)
(* already freed ends in process = "undefined", one whose g_assert fails   *)
(* in process = "aborted"; nothing is said of the program after that.      *)
(***************************************************************************)
EXTENDS Integers, FiniteSets

CONSTANTS
  Consumers,   \* identities of BufferQueue_Consumer structures
  Loops,       \* event loops that run the writers: DEFAULT_LOOPS (rtsp-server.c:27,222)
  MaxBacklog,  \* max_backlog of the producer
  MaxPackets,  \* bound on total_packets
  MaxResets    \* bound on queue_serial

ASSUME ConsumersAssumption == IsFiniteSet(Consumers)
ASSUME LoopsAssumption == Loops \in Nat \ {0}
ASSUME BoundsAssumption ==
  /\ MaxBacklog \in Nat
  /\ MaxPackets \in Nat
  /\ MaxResets \in Nat \ {0}

VARIABLES
  queue,          \* the GQueue: element name -> [seen, serial, eof]
  next_serial,
  min_serial,
  queue_serial,
  total_packets,
  consumers,      \* the producer's count of registered consumers
  producer,       \* "idle", or "full" between the unlock and the reset of a put
  life,           \* of each consumer: "none", "live", "killing" once killed is set, or "killed"
  at,             \* its writer: "out", "sending", or at "get" or "move" past the test of killed
  gen,            \* consumer->queue_serial
  current,        \* consumer->current_element_pointer
  peeked,         \* the payload bq_consumer_get returned and its caller still uses
  overcount,      \* history: a move made after its kill counted in the queue in use
  process         \* "runs", "undefined" or "aborted"

producerVars == <<next_serial, queue_serial, total_packets, producer>>
consumerVars == <<life, at, gen, current, peeked>>
queueVars == <<queue, min_serial, consumers, overcount>>
vars == <<queueVars, producerVars, consumerVars, process>>

NULL == 0
Element == [seen : Nat, serial : Nat, eof : BOOLEAN]
Linked == DOMAIN queue
EmptyQueue == [e \in {} |-> 0]
Runs == process = "runs"

\* The consumers the producer counts: from bq_consumer_new to the locked region of
\* bq_consumer_kill.
Live == {c \in Consumers : life[c] \in {"live", "killing"}}
\* The consumer's cursor belongs to the queue the producer uses now.
InStep(c) == gen[c] = queue_serial
Least(S) == {e \in S : \A f \in S : e <= f}

Init ==
  /\ queue = EmptyQueue
  /\ next_serial = 0 /\ min_serial = 0
  /\ queue_serial = 1
  /\ total_packets = 0
  /\ consumers = 0
  /\ producer = "idle"
  /\ life = [c \in Consumers |-> "none"]
  /\ at = [c \in Consumers |-> "out"]
  /\ gen = [c \in Consumers |-> 0]
  /\ current = [c \in Consumers |-> NULL]
  /\ peeked = [c \in Consumers |-> NULL]
  /\ overcount = FALSE
  /\ process = "runs"

--------------------------------------------------------------------------------
(* The producer.                                                            *)

Append(eof) ==
  LET e == total_packets + 1 IN
  /\ Runs
  /\ total_packets < MaxPackets
  /\ queue' = [f \in Linked \cup {e} |->
                 IF f = e THEN [seen |-> 0, serial |-> next_serial, eof |-> eof]
                          ELSE queue[f]]
  /\ next_serial' = next_serial + 1
  /\ total_packets' = e
  /\ UNCHANGED <<min_serial, queue_serial, consumers, producer, overcount,
                 consumerVars, process>>

PutOverFull == producer = "idle" /\ next_serial - min_serial <= MaxBacklog /\ Append(FALSE)

\* bq_producer_put with room in the backlog.
Put == producer = "idle" /\ next_serial - min_serial < MaxBacklog /\ Append(FALSE)

\* bq_producer_put_eof tests no backlog.
PutEof == producer = "idle" /\ Append(TRUE)

\* bq_producer_put over a full backlog: it gives up the lock before it resets.
PutFull ==
  /\ Runs
  /\ producer = "idle"
  /\ next_serial - min_serial >= MaxBacklog
  /\ queue_serial < MaxResets
  /\ producer' = "full"
  /\ UNCHANGED <<queueVars, next_serial, queue_serial, total_packets, consumerVars, process>>

ResetSameSerial ==
  /\ Runs
  /\ queue' = EmptyQueue
  /\ next_serial' = 0 /\ min_serial' = 0
  /\ overcount' = FALSE
  /\ UNCHANGED <<queue_serial, total_packets, consumers, consumerVars, process>>

\* bq_producer_reset_queue: free every element and start a new queue.
Reset ==
  /\ Runs
  /\ queue' = EmptyQueue
  /\ queue_serial' = queue_serial + 1
  /\ next_serial' = 0 /\ min_serial' = 0
  /\ overcount' = FALSE
  /\ UNCHANGED <<total_packets, consumers, consumerVars, process>>

PutFullReset == producer = "full" /\ Reset /\ producer' = "idle"

\* r_seek resets the queue of each track.  It is called by the handler of PLAY, on a
\* thread of the pool: it waits neither for the writers nor for a put that is under way.
Seek ==
  /\ queue_serial < MaxResets
  /\ Reset
  /\ UNCHANGED producer

--------------------------------------------------------------------------------
(* The consumers.                                                           *)

\* A step that cannot go on.
Fault(outcome) ==
  /\ process' = outcome
  /\ UNCHANGED <<queue, min_serial, consumers, producerVars, consumerVars>>

\* bq_consumer_new.
ConsumerNew(c) ==
  /\ Runs
  /\ life[c] = "none"
  /\ life' = [life EXCEPT ![c] = "live"]
  /\ gen' = [gen EXCEPT ![c] = 0]
  /\ current' = [current EXCEPT ![c] = NULL]
  /\ consumers' = consumers + 1
  /\ UNCHANGED <<queue, min_serial, overcount, at, peeked, producerVars, process>>

\* The cursor is set and not out of date; it dangles when its element is freed.
HasElement(c) == InStep(c) /\ current[c] # NULL
Dangling(c) == HasElement(c) /\ current[c] \notin Linked

SuccessorNotRestarted(c) ==
  IF InStep(c) THEN Least({e \in Linked : e > current[c]}) ELSE {}
SuccessorNewest(c) == {e \in Linked : e > current[c] /\ \A f \in Linked : f <= e}

\* The element a consumer turns to next, as a set with at most one member: the
\* head of the queue when the cursor is unset or out of date, else the element
\* linked behind the cursor.
Successor(c) ==
  IF HasElement(c) THEN Least({e \in Linked : e > current[c]}) ELSE Least(Linked)

\* current_element_pointer once an out-of-date cursor is dropped.
Cursor(c) == IF InStep(c) THEN current[c] ELSE NULL

\* The writers that are in the middle of their cycle, each on a loop of its own.
Running == {d \in Consumers : at[d] # "out"}

\* A loop calls the writer, which calls bq_consumer_get; that goes on past the test of a
\* flag not yet set.
StartGet(c) ==
  /\ Runs
  /\ at[c] = "out" /\ life[c] = "live"
  /\ Cardinality(Running) < Loops
  /\ at' = [at EXCEPT ![c] = "get"]
  /\ UNCHANGED <<queueVars, producerVars, life, gen, current, peeked, process>>

\* The locked region of bq_consumer_get: hand out the next payload without moving; the
\* caller uses it after the unlock.  An end-of-stream mark ends the caller's loop.
Get(c) ==
  /\ Runs
  /\ at[c] = "get"
  /\ \/ Dangling(c) /\ Fault("undefined")
     \/ /\ ~ Dangling(c)
        /\ current' = [current EXCEPT ![c] = Cursor(c)]
        /\ \/ \E e \in Successor(c) :
                /\ ~ queue[e].eof
                /\ peeked' = [peeked EXCEPT ![c] = e]
                /\ at' = [at EXCEPT ![c] = "sending"]
           \/ /\ \A e \in Successor(c) : queue[e].eof
              /\ at' = [at EXCEPT ![c] = "out"]
              /\ UNCHANGED peeked
        /\ UNCHANGED <<queue, min_serial, consumers, life, gen, producerVars, process>>
  /\ UNCHANGED overcount

\* The payload is sent and given up; bq_consumer_move tests the flag as the get did.
Sent(c) ==
  /\ Runs
  /\ at[c] = "sending"
  /\ at' = [at EXCEPT ![c] = IF life[c] = "live" THEN "move" ELSE "out"]
  /\ peeked' = [peeked EXCEPT ![c] = NULL]
  /\ UNCHANGED <<queueVars, producerVars, life, gen, current, process>>

LastToSeeEarly(c) == queue[current[c]].seen + 2 >= consumers

\* bq_consumer_elem_unref by a consumer whose cursor is in step: count the element
\* as seen, or free it and pop the head when every consumer has seen it.
LastToSee(c) == queue[current[c]].seen + 1 >= consumers
PopsOther(c) == HasElement(c) /\ LastToSee(c) /\ current[c] \notin Least(Linked)

ElemUnref(c) ==
  IF ~ HasElement(c) THEN queue
  ELSE IF LastToSee(c) THEN [e \in Linked \ Least(Linked) |-> queue[e]]
  ELSE [queue EXCEPT ![current[c]].seen = @ + 1]

MinSerialAfterUnref(c) ==
  IF HasElement(c) /\ LastToSee(c) THEN queue[current[c]].serial ELSE min_serial

\* A move whose consumer was killed after the test counts for one no longer counted.
Overcounts(c) == life[c] = "killed" /\ HasElement(c)

\* The locked region of bq_consumer_move, for a cursor that has an element to go to.
MoveOn(c) ==
  /\ overcount' = (overcount \/ Overcounts(c))
  /\ \/ PopsOther(c) /\ Fault("aborted")
     \/ /\ ~ PopsOther(c)
        /\ queue' = ElemUnref(c)
        /\ min_serial' = MinSerialAfterUnref(c)
        /\ gen' = [gen EXCEPT ![c] = queue_serial]
        /\ \E e \in Successor(c) : current' = [current EXCEPT ![c] = e]
        /\ at' = [at EXCEPT ![c] = "out"]
        /\ UNCHANGED <<consumers, life, peeked, producerVars, process>>

Move(c) ==
  /\ Runs
  /\ at[c] = "move"
  /\ \/ Dangling(c) /\ Fault("undefined") /\ UNCHANGED overcount
     \/ ~ Dangling(c) /\ Successor(c) # {} /\ MoveOn(c)
     \/ /\ ~ Dangling(c) /\ Successor(c) = {}
        /\ current' = [current EXCEPT ![c] = Cursor(c)]
        /\ at' = [at EXCEPT ![c] = "out"]
        /\ UNCHANGED <<queueVars, life, gen, peeked, producerVars, process>>

\* bq_consumer_unseen, which the fill pool of a stored stream calls: it changes nothing,
\* but it reads the current element and asserts that the next serial is above its own.
Unseen(c) ==
  /\ Runs
  /\ life[c] = "live"
  /\ HasElement(c)
  /\ \/ Dangling(c) /\ Fault("undefined")
     \/ ~ Dangling(c) /\ next_serial <= queue[current[c]].serial /\ Fault("aborted")
  /\ UNCHANGED overcount

QueueWithoutUncount(c, n) ==
  [e \in {f \in DOMAIN ElemUnref(c) : ElemUnref(c)[f].seen < n} |-> ElemUnref(c)[e]]
QueueWithoutUncountsAll(c, n) ==
  [e \in DOMAIN ElemUnref(c) |-> [ElemUnref(c)[e] EXCEPT !.seen = @ - 1]]

\* The queue once a consumer no longer counts among those that have seen the elements up
\* to its cursor; nothing is left to uncount when it was the last to see its element.
Uncounted(c) ==
  LET q == ElemUnref(c) IN
  [e \in DOMAIN q |-> IF HasElement(c) /\ ~ LastToSee(c) /\ e <= current[c]
                        THEN [q[e] EXCEPT !.seen = @ - 1] ELSE q[e]]

QueueWithoutSweep(c, n) == Uncounted(c)

\* The queue a killed consumer leaves to the n others: elements that all the others have
\* seen are freed.
QueueWithout(c, n) ==
  LET q == Uncounted(c)
      kept == {e \in DOMAIN q : q[e].seen < n}
  IN  [e \in kept |-> q[e]]

\* The assertions of bq_consumer_kill and bq_all_seen_element: no element up to the cursor,
\* and after the uncounting no element at all, was seen by more than the n others.
OverSeen(c, n) ==
  \/ HasElement(c) /\ ~ LastToSee(c)
       /\ \E e \in Linked : e <= current[c] /\ ElemUnref(c)[e].seen > n
  \/ \E e \in DOMAIN Uncounted(c) : Uncounted(c)[e].seen > n

KillAborts(c) == consumers = 0 \/ PopsOther(c) \/ (consumers > 1 /\ OverSeen(c, consumers - 1))

\* bq_consumer_kill first sets the flag that get and move test.
StartKill(c) ==
  /\ Runs
  /\ life[c] = "live"
  /\ life' = [life EXCEPT ![c] = "killing"]
  /\ UNCHANGED <<queueVars, producerVars, at, gen, current, peeked, process>>

\* What the locked region of bq_consumer_kill changes: the last consumer to go empties the
\* queue and leaves the serials as they are.
Leave(c) ==
  /\ life' = [life EXCEPT ![c] = "killed"]
  /\ consumers' = consumers - 1
  /\ min_serial' = MinSerialAfterUnref(c)
  /\ queue' = IF consumers = 1 THEN EmptyQueue ELSE QueueWithout(c, consumers - 1)
  /\ current' = [current EXCEPT ![c] = IF HasElement(c) /\ LastToSee(c) THEN NULL ELSE @]
  /\ overcount' = (overcount /\ consumers # 1)
  /\ UNCHANGED <<at, gen, peeked, producerVars, process>>

ConsumerKill(c) ==
  /\ Runs
  /\ life[c] = "killing"
  /\ \/ Dangling(c) /\ Fault("undefined") /\ UNCHANGED overcount
     \/ ~ Dangling(c) /\ KillAborts(c) /\ Fault("aborted") /\ UNCHANGED overcount
     \/ ~ Dangling(c) /\ ~ KillAborts(c) /\ Leave(c)

\* bq_consumer_free, when the session is finalized: its writer is gone, since the event of
\* the writer holds a reference to the session.  For a consumer that nobody has killed the
\* code first takes the steps of bq_consumer_kill.
ConsumerFree(c) ==
  /\ Runs
  /\ at[c] = "out"
  /\ life[c] = "killed"
  /\ life' = [life EXCEPT ![c] = "none"]
  /\ gen' = [gen EXCEPT ![c] = 0]
  /\ current' = [current EXCEPT ![c] = NULL]
  /\ UNCHANGED <<queueVars, at, peeked, producerVars, process>>

\* The process has crashed: nothing happens any more.
Crashed == ~ Runs /\ UNCHANGED vars

Next ==
  \/ Put \/ PutEof \/ PutFull \/ PutFullReset \/ Seek
  \/ \E c \in Consumers :
       \/ ConsumerNew(c) \/ StartGet(c) \/ Get(c) \/ Sent(c) \/ Move(c) \/ Unseen(c)
       \/ StartKill(c) \/ ConsumerKill(c) \/ ConsumerFree(c)
  \/ Crashed

Spec == Init /\ [][Next]_vars

\* The cycle of a writer once its loop has called it.
Advance(c) == Get(c) \/ Sent(c) \/ Move(c)

\* The writer of a session is called again by its 100 ms timer or by the wake-up
\* pipe whenever it is not running (rtp.c:277,286), so a consumer that is not killed
\* keeps reading as long as its transport accepts data.  A loop calls each of its ready
\* events once in a round, so that no writer waits for ever while others are called.  For
\* the progress of reader c it is enough that c is called and that no cycle takes for ever.
Fairness(c) == SF_vars(StartGet(c)) /\ \A d \in Consumers : WF_vars(Advance(d))

--------------------------------------------------------------------------------
(* Properties.  What a writer does after the kill of its own consumer may    *)
(* upset the counts of the queue in use until it is reset or emptied;        *)
(* overcount says that it has.                                               *)

\* The type of each variable; the kills and late moves of a behaviour drive no count below
\* zero, whatever else they do to it.
TypeOK ==
  /\ Linked \subseteq 1 .. total_packets
  /\ queue \in [Linked -> Element]
  /\ next_serial \in Nat /\ min_serial \in Nat
  /\ queue_serial \in 1 .. MaxResets + 1
  /\ total_packets \in 0 .. MaxPackets
  /\ consumers \in Nat
  /\ producer \in {"idle", "full"}
  /\ life \in [Consumers -> {"none", "live", "killing", "killed"}]
  /\ at \in [Consumers -> {"out", "get", "sending", "move"}]
  /\ gen \in [Consumers -> Nat]
  /\ current \in [Consumers -> Nat]
  /\ peeked \in [Consumers -> Nat]
  /\ overcount \in BOOLEAN
  /\ process \in {"runs", "undefined", "aborted"}

\* Counted consumers whose cursor has gone past element e.
Passed(e) == {c \in Live : InStep(c) /\ current[c] > e}

\* The producer counts its consumers exactly, and the reverse reference count of an
\* element is the number of counted consumers that have left it: kills at any point of a
\* reader's cycle, resets and late joiners keep it exact (bufferqueue.c:69).  A late move
\* makes it too large, never too small.
SeenCountsPassed ==
  /\ consumers = Cardinality(Live)
  /\ \A e \in Linked :
       /\ queue[e].seen >= Cardinality(Passed(e))
       /\ ~ overcount => queue[e].seen = Cardinality(Passed(e))

\* No element outlives its last reader: while there are consumers, each linked
\* element is still owed to one of them.
NoSpentElement ==
  ~ overcount /\ Live # {} => \A e \in Linked : \E c \in Live : c \notin Passed(e)

\* The cursor of a counted consumer that is in step points to a linked element, never
\* to one that another consumer freed, also while that other is killed as it sends.
CursorLinked == ~ overcount => \A c \in Live : InStep(c) => current[c] \in Linked

\* The elements of the queue in use have the names above this one.
Base == total_packets - next_serial

\* A payload handed out by bq_consumer_get stays allocated while its reader sends it,
\* unless the whole queue was reset in between or the reader itself was killed; the kill
\* of another reader that is sending does not free it.
PeekedLinked ==
  ~ overcount => \A c \in Live : peeked[c] > Base => peeked[c] \in Linked

\* Only what a writer does after the kill of its own consumer makes the program fail: an
\* assertion of the consumers' half of bufferqueue.c fails only once such a move was
\* counted, and a freed element is read only then or by such a writer itself.
OnlyLateCallsFail ==
  /\ process = "aborted" => overcount
  /\ process = "undefined" =>
       overcount \/ \E c \in Consumers : life[c] = "killed" /\ at[c] \in {"get", "move"}

\* The queue never holds more packets than max_backlog: the serials that
\* bq_producer_put compares bound the length although they do not equal it.
BacklogBounded ==
  Cardinality({e \in Linked : ~ queue[e].eof}) <= MaxBacklog

\* A consumer that moves on within one queue reads the very next packet that was put:
\* none is skipped and none is read twice, whatever the other consumers free.
ReadsEveryPacket ==
  [][\A c \in Live :
       (/\ ~ overcount'
        /\ InStep(c) /\ gen'[c] = gen[c]
        /\ current'[c] # current[c] /\ current[c] # NULL /\ c \in Live')
         => current'[c] = current[c] + 1]_vars

\* A packet that a live consumer has still to read is linked, and no end-of-stream mark
\* comes before it.
Waiting(c) ==
  /\ Runs /\ ~ overcount
  /\ life[c] = "live"
  /\ \E e \in Linked : /\ InStep(c) => e > current[c]
                      /\ \A f \in Linked : f <= e => ~ queue[f].eof

\* A live consumer never stops before a packet that waits for it, in the first queue or
\* after a reset: it reads all there is again and again, or it moves on for ever.  With
\* ReadsEveryPacket, each packet of a queue that is not reset is at last read.
PacketsRead(c) ==
  []<>(~ Waiting(c)) \/ []<><<InStep(c)' /\ current'[c] > current[c]>>_vars

\* The queue as a log with a cursor per reader.
OldestLinked ==
  IF Linked = {} THEN total_packets + 1 ELSE CHOOSE e \in Linked : e \in Least(Linked)
LogCursor ==
  [c \in Consumers |->
     IF c \notin Live THEN -1 ELSE IF InStep(c) THEN current[c] ELSE 0]
Log == INSTANCE BroadcastLog WITH
  Readers <- Consumers, last <- total_packets, first <- OldestLinked, cursor <- LogCursor

\* The queue keeps the promise of the broadcast log: a packet stays until the last
\* reader that was owed it has left it, and a late reader begins at the oldest one.  The
\* promise holds from the start, and again from the reset that mends an overcount.
ImplementsLog ==
  Log!Init /\ [][overcount \/ overcount' \/ Log!Next]_(Log!logVars)
================================================================================
