------------------------------- MODULE EventLoop -------------------------------
(***************************************************************************)
(* The event loop the servers and clients run on (hmgev/src/gev.c): libev  *)
(* behind a queue of operations.                                           *)
(*                                                                         *)
(* Threads.  Any thread may attach an event to the loop, remove it, change *)
(* the conditions it waits for, or drop its reference.  These calls do not *)
(* touch libev: they queue an operation under the lock of the loop and     *)
(* write a byte to a pipe the loop polls.  The thread of the loop calls    *)
(* the callbacks of the events and, when the pipe is readable, runs the    *)
(* queued operations; it holds the lock while it runs one, and gives it up *)
(* to drop the reference the operation held.  A step here is a region      *)
(* under the lock or one access to a field that is read without it.        *)
(***************************************************************************)
EXTENDS Integers, Sequences, FiniteSets

CONSTANTS
  Events,    \* GEvent structures with a file descriptor
  Timed,     \* those given a timeout before they are attached
  MaxCalls,  \* bound on the calls made by threads other than the loop's
  NoEvent

ASSUME EventsAssumption ==
  /\ IsFiniteSet(Events)
  /\ Timed \subseteq Events
  /\ NoEvent \notin Events
  /\ MaxCalls \in Nat

VARIABLES
  operations,       \* queued GLoopOps: [func, event]
  request_pending,  \* of the wake-up block
  pipe,             \* bytes in the wake-up pipe
  loop_quited,
  events_list,      \* how often each event is linked into the list of the loop
  in_loop,          \* events with FLAGS_EVENT_IN_LOOP
  attached,         \* events whose loop field is set
  events,           \* of each event: the conditions it asks for
  watching,         \* of each event: the libev watchers that are started
  ref_count,
  held,             \* events whose creator still holds its reference
  pc,               \* the loop: "polling", "callback", "storing" or "unref"
  hand,             \* the event the loop is calling or whose reference it drops
  loaded,           \* the value of events a callback is about to store
  writer,           \* another thread inside g_event_add_events or _remove_events
  calls

queueVars == <<operations, request_pending, pipe>>
loopVars == <<pc, hand, loaded>>
vars == <<operations, request_pending, pipe, loop_quited, events_list, in_loop, attached,
          events, watching, ref_count, held, pc, hand, loaded, writer, calls>>

Conditions == {"read", "write"}
NoWriter == [at |-> "none", event |-> NoEvent, value |-> {}]

Init ==
  /\ operations = <<>>
  /\ request_pending = FALSE /\ pipe = 0
  /\ loop_quited = FALSE
  /\ events_list = [e \in Events |-> 0]
  /\ in_loop = {} /\ attached = {}
  /\ events \in [Events -> {{"read"}, {"write"}}]
  /\ watching = [e \in Events |-> {}]
  /\ ref_count = [e \in Events |-> 1]
  /\ held = Events
  /\ pc = "polling" /\ hand = NoEvent /\ loaded = {}
  /\ writer = NoWriter
  /\ calls = 0

--------------------------------------------------------------------------------
(* Calls of other threads.                                                  *)

Call == calls < MaxCalls /\ calls' = calls + 1

\* g_event_block_wakup: one byte for any number of requests.
Wakeup ==
  /\ request_pending' = TRUE
  /\ pipe' = IF request_pending THEN pipe ELSE pipe + 1

\* Queue an operation, which holds a reference to its event until it was run.
Push(func, e) ==
  /\ operations' = Append(operations, [func |-> func, event |-> e])
  /\ ref_count' = [ref_count EXCEPT ![e] = @ + 1]
  /\ Wakeup

AttachAgain(e) ==
  /\ Call /\ e \in held /\ ~ loop_quited /\ Push("add", e)
  /\ attached' = attached \cup {e}
  /\ UNCHANGED <<loop_quited, events_list, in_loop, events, watching, held, loopVars, writer>>

\* g_event_loop_attach of an event that was never added; once the loop has quit the
\* event is marked as added all the same.
Attach(e) ==
  /\ Call
  /\ e \in held \ attached
  /\ attached' = attached \cup {e}
  /\ IF loop_quited THEN UNCHANGED <<queueVars, ref_count>> ELSE Push("add", e)
  /\ UNCHANGED <<loop_quited, events_list, in_loop, events, watching, held, loopVars, writer>>

\* g_event_remove.
Remove(e) ==
  /\ Call
  /\ e \in held \cap attached
  /\ ~ loop_quited
  /\ Push("remove", e)
  /\ UNCHANGED <<loop_quited, events_list, in_loop, attached, events, watching, held,
                 loopVars, writer>>

\* g_event_unref by the creator.
Unref(e) ==
  /\ e \in held
  /\ writer.event # e
  /\ held' = held \ {e}
  /\ ref_count' = [ref_count EXCEPT ![e] = @ - 1]
  /\ UNCHANGED <<queueVars, loop_quited, events_list, in_loop, attached, events, watching,
                 loopVars, writer, calls>>

\* g_event_add_events(e, add) or g_event_remove_events(e, drop): read the conditions.
LoadEvents(e, add, drop) ==
  /\ Call
  /\ writer.at = "none"
  /\ e \in held
  /\ (events[e] \cup add) \ drop # events[e]
  /\ writer' = [at |-> "store", event |-> e, value |-> (events[e] \cup add) \ drop]
  /\ UNCHANGED <<queueVars, loop_quited, events_list, in_loop, attached, events, watching,
                 ref_count, held, loopVars>>

\* ... store the changed conditions
StoreEvents ==
  /\ writer.at = "store"
  /\ events' = [events EXCEPT ![writer.event] = writer.value]
  /\ writer' = IF writer.event \in attached THEN [writer EXCEPT !.at = "push"] ELSE NoWriter
  /\ UNCHANGED <<queueVars, loop_quited, events_list, in_loop, attached, watching,
                 ref_count, held, loopVars, calls>>

PushModifyNothing ==
  /\ writer.at = "push"
  /\ writer' = NoWriter
  /\ UNCHANGED <<queueVars, ref_count, loop_quited, events_list, in_loop, attached, events,
                 watching, held, loopVars, calls>>

\* ... and ask the loop to apply them.
PushModify ==
  /\ writer.at = "push"
  /\ writer' = NoWriter
  /\ IF loop_quited THEN UNCHANGED <<queueVars, ref_count>> ELSE Push("modify", writer.event)
  /\ UNCHANGED <<loop_quited, events_list, in_loop, attached, events, watching, held,
                 loopVars, calls>>

\* g_event_loop_quit allocates an operation that stops the loop, and does not queue it.
Quit ==
  /\ Call
  /\ ~ loop_quited
  /\ loop_quited' = TRUE
  /\ Wakeup
  /\ UNCHANGED <<operations, events_list, in_loop, attached, events, watching, ref_count,
                 held, loopVars, writer>>

--------------------------------------------------------------------------------
(* The thread of the loop.                                                  *)

\* g_event_loop_ops_add.
OpsAdd(e) ==
  /\ events_list' = [events_list EXCEPT ![e] = @ + 1]
  /\ ref_count' = [ref_count EXCEPT ![e] = @ + 1]
  /\ watching' = [watching EXCEPT ![e] = events[e] \cup (IF e \in Timed THEN {"timer"} ELSE {})]
  /\ in_loop' = in_loop \cup {e}

\* Unlink e, stop its watchers and drop the reference of the list.
Detach(e) ==
  IF events_list[e] = 0 THEN UNCHANGED <<events_list, ref_count, watching, in_loop>>
  ELSE /\ events_list' = [events_list EXCEPT ![e] = @ - 1]
       /\ ref_count' = [ref_count EXCEPT ![e] = @ - 1]
       /\ watching' = [watching EXCEPT ![e] = {}]
       /\ in_loop' = in_loop \ {e}

ApplyEventsAlways(e, asked) ==
  watching' = [watching EXCEPT ![e] = (@ \cap {"timer"}) \cup asked]

\* g_event_loop_sync_io_modified.
ApplyEvents(e, asked) ==
  IF e \notin in_loop THEN UNCHANGED watching
  ELSE watching' = [watching EXCEPT ![e] = (@ \cap {"timer"}) \cup asked]

\* One round of g_event_loop_exec_operations under the lock.
ExecNext ==
  /\ IF operations = <<>>
       THEN /\ pc' = "polling"
            /\ UNCHANGED <<operations, hand, events_list, ref_count, watching, in_loop>>
       ELSE LET op == Head(operations) IN
            /\ operations' = Tail(operations)
            /\ pc' = "unref" /\ hand' = op.event
            /\ CASE op.func = "add" -> OpsAdd(op.event)
                 [] op.func = "remove" -> Detach(op.event)
                 [] op.func = "modify" ->
                      ApplyEvents(op.event, events[op.event]) /\ UNCHANGED <<events_list, ref_count, in_loop>>
  /\ UNCHANGED <<loop_quited, attached, events, held, loaded, writer, calls>>

WokenLeavingRequest ==
  pc = "polling" /\ pipe > 0 /\ pipe' = pipe - 1 /\ UNCHANGED request_pending /\ ExecNext

\* The pipe is readable: take the byte and run the first operation.
Woken ==
  /\ pc = "polling"
  /\ pipe > 0
  /\ pipe' = pipe - 1
  /\ request_pending' = FALSE
  /\ ExecNext

\* Outside the lock, drop the reference of the operation, then take the next one.
DropOpRef ==
  /\ pc = "unref"
  /\ hand # NoEvent
  /\ ref_count' = [ref_count EXCEPT ![hand] = @ - 1]
  /\ hand' = NoEvent
  /\ UNCHANGED <<queueVars, loop_quited, events_list, in_loop, attached, events, watching,
                 held, pc, loaded, writer, calls>>

NextOp == pc = "unref" /\ hand = NoEvent /\ ExecNext /\ UNCHANGED <<request_pending, pipe>>

\* libev calls g_event_cb_io or g_event_cb_to.
Dispatch(e) ==
  /\ pc = "polling"
  /\ watching[e] # {}
  /\ pc' = "callback" /\ hand' = e
  /\ UNCHANGED <<queueVars, loop_quited, events_list, in_loop, attached, events, watching,
                 ref_count, held, loaded, writer, calls>>

\* The callback calls g_event_add_events_sync or g_event_remove_events_sync: it reads the
\* conditions,
SyncLoad(add, drop) ==
  /\ pc = "callback"
  /\ (events[hand] \cup add) \ drop # events[hand]
  /\ loaded' = (events[hand] \cup add) \ drop
  /\ pc' = "storing"
  /\ UNCHANGED <<queueVars, loop_quited, events_list, in_loop, attached, events, watching,
                 ref_count, held, hand, writer, calls>>

\* ... stores and applies them.
SyncStore ==
  /\ pc = "storing"
  /\ events' = [events EXCEPT ![hand] = loaded]
  /\ ApplyEvents(hand, loaded)
  /\ pc' = "callback"
  /\ UNCHANGED <<queueVars, loop_quited, events_list, in_loop, attached, ref_count, held,
                 hand, loaded, writer, calls>>

\* The callback returns TRUE: the timer is started afresh.
KeepEvent ==
  /\ pc = "callback"
  /\ pc' = "polling" /\ hand' = NoEvent
  /\ watching' = [watching EXCEPT ![hand] = @ \cup (IF hand \in Timed THEN {"timer"} ELSE {})]
  /\ UNCHANGED <<queueVars, loop_quited, events_list, in_loop, attached, events, ref_count,
                 held, loaded, writer, calls>>

\* The callback returns FALSE: g_event_sync_remove.
DropEvent ==
  /\ pc = "callback"
  /\ pc' = "polling" /\ hand' = NoEvent
  /\ Detach(hand)
  /\ UNCHANGED <<queueVars, loop_quited, attached, events, held, loaded, writer, calls>>

--------------------------------------------------------------------------------

LoopStep ==
  Woken \/ DropOpRef \/ NextOp \/ SyncStore \/ KeepEvent

Next ==
  \/ LoopStep \/ DropEvent \/ StoreEvents \/ PushModify \/ Quit
  \/ \E e \in Events : Attach(e) \/ Remove(e) \/ Unref(e) \/ Dispatch(e)
  \/ \E c \in Conditions :
       \/ SyncLoad({c}, {}) \/ SyncLoad({}, {c})
       \/ \E e \in Events : LoadEvents(e, {c}, {}) \/ LoadEvents(e, {}, {c})

Spec == Init /\ [][Next]_vars

\* ev_run calls every watcher that is ready once in each round, the one of the pipe
\* among them, callbacks return, and a thread inside a call finishes it.
FairSpec ==
  /\ Spec
  /\ SF_vars(Woken)
  /\ WF_vars(DropOpRef) /\ WF_vars(NextOp)
  /\ WF_vars(SyncStore) /\ WF_vars(PushModify) /\ WF_vars(StoreEvents)
  /\ SF_vars(KeepEvent \/ DropEvent)

--------------------------------------------------------------------------------
(* Properties.                                                              *)

OpsOn(e) == {i \in 1 .. Len(operations) : operations[i].event = e}
OpsOf(func, e) == {i \in OpsOn(e) : operations[i].func = func}

\* The type of each variable.
TypeOK ==
  /\ operations \in Seq([func : {"add", "remove", "modify"}, event : Events])
  /\ request_pending \in BOOLEAN /\ pipe \in Nat /\ loop_quited \in BOOLEAN
  /\ events_list \in [Events -> Nat]
  /\ in_loop \subseteq Events /\ attached \subseteq Events /\ held \subseteq Events
  /\ events \in [Events -> SUBSET Conditions]
  /\ watching \in [Events -> SUBSET (Conditions \cup {"timer"})]
  /\ ref_count \in [Events -> Nat]
  /\ pc \in {"polling", "callback", "storing", "unref"}
  /\ hand \in Events \cup {NoEvent}
  /\ loaded \subseteq Conditions
  /\ writer \in [at : {"none", "store", "push"}, event : Events \cup {NoEvent},
                 value : SUBSET Conditions]
  /\ calls \in 0 .. MaxCalls

\* The reference count of an event is the number of its owners: its creator, the list,
\* and each operation that is queued or whose reference is still to be dropped.  So an
\* event is freed exactly when nothing leads to it any more.
RefsExact ==
  \A e \in Events :
    ref_count[e] = (IF e \in held THEN 1 ELSE 0) + events_list[e] + Cardinality(OpsOn(e))
                   + (IF pc = "unref" /\ hand = e THEN 1 ELSE 0)

\* libev watches, and calls, only events that are linked and so not freed, in every
\* order of queued operations and removals by the callback itself.
WatchersOwned ==
  \A e \in Events : (watching[e] # {} \/ e \in in_loop) => events_list[e] = 1 /\ ref_count[e] > 0

\* No event is freed while anything still leads to it, and none is forgotten.
EventsOwned == TypeOK /\ RefsExact /\ WatchersOwned

\* No request is slept over: while operations are queued and the loop is not running
\* them, the pipe has a byte; and it never has two, so a write under the lock of the
\* loop cannot block.
WakeupNotLost ==
  /\ operations # <<>> /\ pc # "unref" => pipe = 1
  /\ pipe <= 1

\* An event that is no subject of a queued operation is watched for just the conditions
\* that its events field has, whoever changed it, as long as the loop has not quit.
EventsApplied ==
  ~ loop_quited => \A e \in in_loop :
    (OpsOn(e) = {} /\ writer.event # e) => watching[e] \cap Conditions = events[e]

\* An event is linked at most once, and once only (gev.h:94-99): no second link is made
\* or requested, also after it was removed.
LinksOnce ==
  \A e \in Events :
    /\ events_list[e] + Cardinality(OpsOf("add", e)) <= 1
    /\ (e \in attached /\ events_list[e] = 0 /\ OpsOf("add", e) = {})
         => (events_list'[e] = 0 /\ OpsOf("add", e)' = {})

\* Running an operation never frees an event under the lock of the loop, where its
\* finalizer could not call the loop again.
FreesUnlocked ==
  \A e \in Events :
    (Len(operations') < Len(operations) /\ ref_count[e] > 0) => ref_count'[e] > 0

\* Every step keeps to both rules.
LinkedAndFreedOnce == [][LinksOnce /\ FreesUnlocked]_vars

\* A removal takes effect for good, although the event goes on being called meanwhile.
RemovedAtLast ==
  \A e \in Events : OpsOf("remove", e) # {} ~> [](events_list[e] = 0)
================================================================================
