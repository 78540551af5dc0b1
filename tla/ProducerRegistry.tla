--------------------------- MODULE ProducerRegistry ----------------------------
(***************************************************************************)
(* Sharing of the producers of live streams by key: bq_producer_new,       *)
(* bq_producer_ref, bq_producer_test_ref_and_remove and bq_producer_unref  *)
(* of hmrtspsvr/src/utils/bufferqueue.c, as add_track and free_track of    *)
(* hmrtspsvr/src/media/media.c call them.                                  *)
(*                                                                         *)
(* Threads.  A track is added by the event loop that handles SETUP, and    *)
(* freed by a thread of the closing pool (media.c:473-489), so one track   *)
(* is freed while another is added.  All tracks here have the same mrl,    *)
(* that is the same key.  The consumers of a track hold references too,    *)
(* but are gone before their track is freed (rtp.c:812-815) and so are     *)
(* left out, and so are references an embedding program may take with      *)
(* stream_handle_ref.                                                      *)
(*                                                                         *)
(* A step is a region under one lock or one atomic access: the reference   *)
(* count is changed with atomic operations and without any lock.  Freed    *)
(* memory keeps its last value: the allocator has not reused it yet.       *)
(*                                                                         *)
(* The queue of a producer is the subject of BufferQueue, which shares no  *)
(* state with this module; BufferQueueProofs extends both, hence the names *)
(* RegistryInit and so on.                                                 *)
(***************************************************************************)
EXTENDS Naturals, FiniteSets

CONSTANTS
  Tracks,     \* tracks of the same stream, each added and freed once
  Producers,  \* producer structures that may be allocated
  NoTrack,
  NoProducer

ASSUME NobodyAssumption == NoTrack \notin Tracks /\ NoProducer \notin Producers
ASSUME TracksAssumption == IsFiniteSet(Tracks)

VARIABLES
  table,      \* bq_shared_producers: the producer found under the key
  memory,     \* of each producer structure: "unused", "live" or "freed"
  ref_count,
  lock,       \* the track whose thread holds producer->lock
  shared,     \* the track whose thread holds bq_shared_producers_lock
  source,     \* of each producer: was its stream opened or closed by the demuxer
  pc,         \* what the thread of each track does next
  mine        \* track->producer

registryVars == <<table, memory, ref_count, lock, shared, source, pc, mine>>

AddSteps == {"found", "ref", "start"}
FreeSteps == {"test", "remove", "stop", "unref", "unregister", "free"}

RegistryInit ==
  /\ table = NoProducer
  /\ memory = [p \in Producers |-> "unused"]
  /\ ref_count = [p \in Producers |-> 0]
  /\ lock = [p \in Producers |-> NoTrack]
  /\ shared = NoTrack
  /\ source = [p \in Producers |-> "none"]
  /\ pc = [t \in Tracks |-> "new"]
  /\ mine = [t \in Tracks |-> NoProducer]

\* The assertion of bq_producer_ref (bufferqueue.c:402) has failed.
Aborted == \E t \in Tracks : pc[t] = "found" /\ ref_count[mine[t]] = 0

Goto(t, from, to) == pc[t] = from /\ ~ Aborted /\ pc' = [pc EXCEPT ![t] = to]

--------------------------------------------------------------------------------
(* add_track.                                                               *)

\* bq_producer_new finds no producer under the key: it makes and registers one
\* without giving up the shared lock, so nobody can wait for the lock of the new one.
NewProducer(t) ==
  /\ Goto(t, "new", "start")
  /\ shared = NoTrack
  /\ table = NoProducer
  /\ \E p \in Producers :
       /\ memory[p] = "unused"
       /\ memory' = [memory EXCEPT ![p] = "live"]
       /\ ref_count' = [ref_count EXCEPT ![p] = 1]
       /\ table' = p
       /\ mine' = [mine EXCEPT ![t] = p]
  /\ UNCHANGED <<lock, shared, source>>

\* bq_producer_new finds a producer and keeps the shared lock.
FindProducer(t) ==
  /\ Goto(t, "new", "found")
  /\ shared = NoTrack
  /\ table # NoProducer
  /\ shared' = t
  /\ mine' = [mine EXCEPT ![t] = table]
  /\ UNCHANGED <<table, memory, ref_count, lock, source>>

\* bq_producer_ref asserts that the count is positive; the process aborts otherwise.
AssertRef(t) ==
  /\ Goto(t, "found", "ref")
  /\ ref_count[mine[t]] > 0
  /\ UNCHANGED <<table, memory, ref_count, lock, shared, source, mine>>

\* ... then counts the reference, and bq_producer_new releases the shared lock.
AddRef(t) ==
  /\ Goto(t, "ref", "using")
  /\ ref_count' = [ref_count EXCEPT ![mine[t]] = @ + 1]
  /\ shared' = NoTrack
  /\ UNCHANGED <<table, memory, lock, source, mine>>

\* r_start_track for a new producer.
StartTrack(t) ==
  /\ Goto(t, "start", "using")
  /\ source' = [source EXCEPT ![mine[t]] = "started"]
  /\ UNCHANGED <<table, memory, ref_count, lock, shared, mine>>

--------------------------------------------------------------------------------
(* free_track.                                                              *)

\* r_free_cb reaches the track.
BeginFree(t) ==
  /\ Goto(t, "using", "test")
  /\ UNCHANGED <<table, memory, ref_count, lock, shared, source, mine>>

\* bq_producer_test_ref_and_remove reads the count under producer->lock.
TestRef(t) ==
  LET p == mine[t] IN
  /\ pc[t] = "test"
  /\ lock[p] = NoTrack
  /\ IF ref_count[p] = 1
       THEN Goto(t, "test", "remove") /\ lock' = [lock EXCEPT ![p] = t]
       ELSE Goto(t, "test", "unref") /\ UNCHANGED lock
  /\ UNCHANGED <<table, memory, ref_count, shared, source, mine>>

RemoveKeyKeepingLock(t) ==
  /\ Goto(t, "remove", "stop")
  /\ shared = NoTrack
  /\ table' = NoProducer
  /\ UNCHANGED <<lock, memory, ref_count, shared, source, mine>>

\* ... and takes the key out of the table, whichever producer it leads to.
RemoveKey(t) ==
  /\ Goto(t, "remove", "stop")
  /\ shared = NoTrack
  /\ table' = NoProducer
  /\ lock' = [lock EXCEPT ![mine[t]] = NoTrack]
  /\ UNCHANGED <<memory, ref_count, shared, source, mine>>

\* r_stop_track: the stream of the producer is closed.
StopTrack(t) ==
  /\ Goto(t, "stop", "unref")
  /\ source' = [source EXCEPT ![mine[t]] = "stopped"]
  /\ UNCHANGED <<table, memory, ref_count, lock, shared, mine>>

\* bq_producer_unref drops the reference.
DropRef(t) ==
  LET p == mine[t] IN
  /\ pc[t] = "unref"
  /\ ref_count' = [ref_count EXCEPT ![p] = @ - 1]
  /\ Goto(t, "unref", IF ref_count[p] = 1 THEN "unregister" ELSE "done")
  /\ UNCHANGED <<table, memory, lock, shared, source, mine>>

UnregisterNothing(t) == Goto(t, "unregister", "free")
  /\ UNCHANGED <<table, memory, ref_count, lock, shared, source, mine>>

\* The last reference is gone: take the key out of the table under both locks.
Unregister(t) ==
  /\ Goto(t, "unregister", "free")
  /\ lock[mine[t]] = NoTrack
  /\ shared = NoTrack
  /\ table' = NoProducer
  /\ UNCHANGED <<memory, ref_count, lock, shared, source, mine>>

\* bq_producer_free_internal.
FreeProducer(t) ==
  /\ Goto(t, "free", "done")
  /\ memory' = [memory EXCEPT ![mine[t]] = "freed"]
  /\ UNCHANGED <<table, ref_count, lock, shared, source, mine>>

\* All tracks are gone, or a failed assertion has aborted the process.
Stopped == ((\A t \in Tracks : pc[t] = "done") \/ Aborted) /\ UNCHANGED registryVars

Step(t) ==
  \/ NewProducer(t) \/ FindProducer(t) \/ AssertRef(t) \/ AddRef(t) \/ StartTrack(t)
  \/ TestRef(t) \/ RemoveKey(t) \/ StopTrack(t)
  \/ DropRef(t) \/ Unregister(t) \/ FreeProducer(t)

RegistryNext == (\E t \in Tracks : Step(t) \/ BeginFree(t)) \/ Stopped

RegistrySpec == RegistryInit /\ [][RegistryNext]_registryVars

\* The threads of the pool and of the loop are scheduled; nothing obliges a client to
\* end its session, so BeginFree is not fair.
RegistryFairSpec == RegistrySpec /\ \A t \in Tracks : WF_registryVars(Step(t))

--------------------------------------------------------------------------------
(* Properties.                                                              *)

\* The tracks that own a counted reference to p.
Holders(p) ==
  {t \in Tracks : mine[t] = p /\ pc[t] \in {"start", "using", "test", "remove", "stop", "unref"}}

RegistryTypeOK ==
  /\ table \in Producers \cup {NoProducer}
  /\ memory \in [Producers -> {"unused", "live", "freed"}]
  /\ ref_count \in [Producers -> Nat]
  /\ lock \in [Producers -> Tracks \cup {NoTrack}]
  /\ shared \in Tracks \cup {NoTrack}
  /\ source \in [Producers -> {"none", "started", "stopped"}]
  /\ pc \in [Tracks -> {"new", "using", "done"} \cup AddSteps \cup FreeSteps]
  /\ mine \in [Tracks -> Producers \cup {NoProducer}]

\* The count is the number of tracks that hold a reference, in every interleaving of
\* additions and frees.
RefsCountHolders == \A p \in Producers : ref_count[p] = Cardinality(Holders(p))

\* The table never leads to freed memory: bq_producer_new can always read what it finds.
TableNotFreed == table # NoProducer => memory[table] = "live"

\* A stream is closed only after it was opened, although the track that opened it and
\* the one that closes it may differ.
StoppedAfterStarted ==
  \A t \in Tracks : pc[t] = "stop" => source[mine[t]] # "none"

\* A producer and its stream belong to the tracks that hold it: counted, found in the table
\* only while it is allocated, opened before it is closed.
ProducersOwned == RegistryTypeOK /\ RefsCountHolders /\ TableNotFreed /\ StoppedAfterStarted

\* Taking producer->lock and the shared lock in the order of the code never leaves a
\* track waiting for good: each free that has begun is finished, unless the process
\* aborts.
FreeCompletes == \A t \in Tracks : pc[t] \in FreeSteps ~> (pc[t] = "done" \/ Aborted)
================================================================================
