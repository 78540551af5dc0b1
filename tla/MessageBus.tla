------------------------------- MODULE MessageBus -------------------------------
(***************************************************************************)
(* The message bus (hmmb): configuration requests sent as multicast        *)
(* datagrams.  The client side (mb_api.c, mb_cu.c) keeps a list of         *)
(* outstanding requests; a thread that receives replies and a thread that  *)
(* looks for timeouts each second take requests out of the list, run their *)
(* callbacks and wake the callers that wait.  The device side (mb_pu.c)    *)
(* answers.                                                                *)
(*                                                                         *)
(* A datagram may be lost, delayed past later ones, or arrive twice: one   *)
(* copy goes out of each network interface (mb_cu.c:254-280).  So the      *)
(* network is the set of what was ever sent, and what is never taken from  *)
(* it is lost.  The list is guarded by its mutex.  The "atomic" operations *)
(* of mb_basic.h:81-85 are plain reads and writes, in a build without      *)
(* optimisation each its own access of memory (hmmb/src/Makefile.am:5), and *)
(* are so modelled where two threads can meet in them.  A thread that      *)
(* touches a request after it was freed is recorded in misused; nothing is *)
(* said of the client after that, and it takes no further step.            *)
(***************************************************************************)
EXTENDS Integers, Sequences, FiniteSets

CONSTANTS
  Requests,      \* requests, each of mb_query, mb_cfg_get or mb_cfg_set
  Settable,      \* those that may be of mb_cfg_set, not of mb_cfg_get
  Receiver,      \* the thread mb_recv_task
  Timer,         \* the thread mb_recv_timer
  NoRequest,
  MaxProcessed,  \* bound on the requests the device takes from the network
  MaxReceived    \* bound on the replies the client takes from the network

Handlers == {Receiver, Timer}
Threads == Requests \cup Handlers

ASSUME MessageBusAssumption ==
  /\ IsFiniteSet(Requests) /\ Settable \subseteq Requests
  /\ Handlers \cap Requests = {} /\ Receiver # Timer
  /\ NoRequest \notin Requests
  /\ MaxProcessed \in Nat /\ MaxReceived \in Nat

VARIABLES
  kind,        \* of each request: "none" yet, "query", or how its caller takes the result
  seq_no,
  req_no,      \* of each request
  memory,      \* of each request: "unused", "live" or "freed"
  ref_count,
  event_true,
  list,        \* req_list, newest request first
  list_mutex,  \* TRUE while the timer thread holds it; the others hold it for one step
  pass,        \* what the timer thread has still to look at in this pass
  expired,     \* requests whose ttl lies in the past
  pc,          \* of each thread; the caller of a request has its name
  hand,        \* the request a handler is working on
  loaded,      \* what a thread has read of a shared counter
  handle,      \* the mb_handle_t: "running", "stopping" or "deleted"
  wire,        \* datagrams sent to the device; `from' is the request, which none carries
  executed,    \* requests the device has run, and how they ended
  replies,     \* datagrams sent to the client
  answer,      \* the error of the reply the receiver is handling
  result,      \* what the callback of each request was told last
  completions, \* how often the callback of each request was called
  processed, received,
  met,         \* history: requests whose two owners met in mb_req_unref
  misused      \* history: <<thread, request>> when it touched a freed request

requestVars == <<kind, seq_no, req_no, memory, ref_count>>
listVars == <<list, list_mutex, pass>>
netVars == <<wire, executed, replies, processed, received>>
doneVars == <<event_true, result, completions>>
historyVars == <<met, misused>>
vars == <<requestVars, listVars, netVars, doneVars, historyVars, expired, pc, hand, loaded,
          handle, answer>>

Init ==
  /\ kind = [r \in Requests |-> "none"]
  /\ seq_no = 1
  /\ req_no = [r \in Requests |-> 0]
  /\ memory = [r \in Requests |-> "unused"]
  /\ ref_count = [r \in Requests |-> 0]
  /\ event_true = [r \in Requests |-> FALSE]
  /\ list = <<>> /\ list_mutex = FALSE /\ pass = <<>>
  /\ expired = {}
  /\ pc = [t \in Threads |-> IF t = Receiver THEN "select" ELSE IF t = Timer THEN "sleep" ELSE "idle"]
  /\ hand = [h \in Handlers |-> NoRequest]
  /\ loaded = [t \in Threads |-> 0]
  /\ handle = "running"
  /\ wire = {} /\ executed = {} /\ replies = {}
  /\ answer = "ok"
  /\ result = [r \in Requests |-> "none"]
  /\ completions = [r \in Requests |-> 0]
  /\ processed = 0 /\ received = 0
  /\ met = {} /\ misused = {}

Sync == {r \in Requests : kind[r] = "sync"}
Async == {r \in Requests : kind[r] = "async"}
Queries == {r \in Requests : kind[r] = "query"}
Normal == Sync \cup Async
Args(r) == IF r \in Normal \cap Settable THEN "SET" ELSE "GET"

\* No freed request was touched yet.
Defined == misused = {}
Goto(t, from, to) == Defined /\ pc[t] = from /\ pc' = [pc EXCEPT ![t] = to]

\* Thread t reads or writes a field of request r.
Touch(t, r) == misused' = IF memory[r] = "freed" THEN misused \cup {<<t, r>>} ELSE misused

Linked(r) == \E i \in DOMAIN list : list[i] = r
Place(r) == CHOOSE i \in DOMAIN list : list[i] = r
\* list_del of a request that is in the list.
Without(r) ==
  [i \in 1 .. Len(list) - 1 |-> IF i < Place(r) THEN list[i] ELSE list[i + 1]]

--------------------------------------------------------------------------------
(* The callers.                                                             *)

\* mb_query, mb_cfg_get and mb_cfg_set begin alike: seq_generate reads the sequence
\* number,
SeqLoad(r, k) ==
  /\ handle = "running"
  /\ kind' = [kind EXCEPT ![r] = k]
  /\ Goto(r, "idle", "new")
  /\ loaded' = [loaded EXCEPT ![r] = seq_no]
  /\ UNCHANGED <<historyVars, seq_no, req_no, memory, ref_count, listVars, netVars, doneVars, expired, hand, handle, answer>>

\* ... and writes the next; mb_req_new takes it, and a caller that will wait takes a
\* reference of its own.
New(r) ==
  /\ Goto(r, "new", "add")
  /\ seq_no' = loaded[r] + 1
  /\ req_no' = [req_no EXCEPT ![r] = loaded[r] + 1]
  /\ memory' = [memory EXCEPT ![r] = "live"]
  /\ ref_count' = [ref_count EXCEPT ![r] = IF r \in Sync THEN 2 ELSE 1]
  /\ loaded' = [loaded EXCEPT ![r] = 0]
  /\ UNCHANGED <<historyVars, kind, listVars, netVars, doneVars, expired, hand, handle, answer>>

\* mb_hdl_add.
Add(r) ==
  /\ ~ list_mutex
  /\ Goto(r, "add", "send")
  /\ list' = <<r>> \o list
  /\ UNCHANGED <<historyVars, requestVars, list_mutex, pass, netVars, doneVars, expired, hand, loaded,
                 handle, answer>>

\* mb_req_send, to the device or to all of them: it reads the request, which others can
\* find in the list by now.
Send(r) ==
  /\ Goto(r, "send", IF r \in Sync THEN "wait" ELSE IF r \in Async THEN "done" ELSE "open")
  /\ Touch(r, r)
  /\ wire' = wire \cup {[no |-> req_no[r], args |-> Args(r), from |-> r]}
  /\ UNCHANGED <<met, requestVars, listVars, executed, replies, processed, received, doneVars,
                 expired, hand, loaded, handle, answer>>

\* The condition the caller of a synchronous request waits for.
Wake(r) ==
  /\ event_true[r]
  /\ Goto(r, "wait", "drop")
  /\ UNCHANGED <<historyVars, requestVars, listVars, netVars, doneVars, expired, hand, loaded, handle, answer>>

\* mb_release: unlink the request, then drop its reference.
Release(q) ==
  /\ ~ list_mutex
  /\ Goto(q, "open", "drop")
  /\ list' = Without(q)
  /\ UNCHANGED <<historyVars, requestVars, list_mutex, pass, netVars, doneVars, expired, hand, loaded,
                 handle, answer>>

--------------------------------------------------------------------------------
(* mb_req_unref.                                                            *)

\* The request whose reference thread t drops.
Dropped(t) == IF t \in Handlers THEN hand[t] ELSE t

\* Another thread drops its reference to the same request and is at place.
Meets(t, place) ==
  \E u \in Threads \ {t} : Dropped(u) = Dropped(t) /\ pc[u] = place

\* The other has read the count and will write it back: one of the decrements is lost.
DropLoad(t) ==
  /\ Goto(t, "drop", "store")
  /\ Touch(t, Dropped(t))
  /\ met' = IF Meets(t, "store") THEN met \cup {Dropped(t)} ELSE met
  /\ loaded' = [loaded EXCEPT ![t] = ref_count[Dropped(t)]]
  /\ UNCHANGED <<requestVars, listVars, netVars, doneVars, expired, hand, handle, answer>>

\* The other has written the count and will read it again: both read zero.
DropStore(t) ==
  /\ Goto(t, "store", "test")
  /\ Touch(t, Dropped(t))
  /\ met' = IF Meets(t, "test") THEN met \cup {Dropped(t)} ELSE met
  /\ ref_count' = [ref_count EXCEPT ![Dropped(t)] = loaded[t] - 1]
  /\ loaded' = [loaded EXCEPT ![t] = 0]
  /\ UNCHANGED <<kind, seq_no, req_no, memory, listVars, netVars, doneVars, expired, hand, handle,
                 answer>>

\* Where a handler goes on: tid_running is tested at the top of the receiver's loop.
AfterMessage == IF handle = "running" THEN "select" ELSE "exited"

FreeIfZero(t) ==
  memory' = IF ref_count[Dropped(t)] = 0
              THEN [memory EXCEPT ![Dropped(t)] = "freed"] ELSE memory

DropTest(t) ==
  /\ Goto(t, "test", IF t = Receiver THEN AfterMessage ELSE IF t = Timer THEN "scan" ELSE "done")
  /\ Touch(t, Dropped(t))
  /\ FreeIfZero(t)
  /\ hand' = IF t \in Handlers THEN [hand EXCEPT ![t] = NoRequest] ELSE hand
  /\ UNCHANGED <<met, kind, seq_no, req_no, ref_count, listVars, netVars, doneVars, expired,
                 loaded, handle, answer>>

--------------------------------------------------------------------------------
(* The thread that receives replies.                                        *)

AnsweredNewest(no) == {list[i] : i \in {j \in DOMAIN list : j = 1}}

\* The first request of the list with the number of a reply.
Answered(no) ==
  {list[i] : i \in {j \in DOMAIN list : req_no[list[j]] = no
                                         /\ \A k \in 1 .. j - 1 : req_no[list[k]] # no}}

ReceiveKeeping(m) ==
  /\ received < MaxReceived /\ received' = received + 1
  /\ ~ list_mutex
  /\ \E r \in Answered(m.no) :
       Goto(Receiver, "select", "callback") /\ hand' = [hand EXCEPT ![Receiver] = r]
  /\ answer' = m.error
  /\ UNCHANGED <<historyVars, requestVars, listVars, wire, executed, replies, processed, doneVars, expired,
                 loaded, handle>>

\* mb_recv_func takes a reply and looks for its request; one that is not a query is
\* unlinked.
Receive(m) ==
  /\ received < MaxReceived /\ received' = received + 1
  /\ ~ list_mutex
  /\ \/ \E r \in Answered(m.no) :
          /\ Goto(Receiver, "select", "callback")
          /\ hand' = [hand EXCEPT ![Receiver] = r]
          /\ list' = IF r \in Queries THEN list ELSE Without(r)
          /\ answer' = m.error
     \/ /\ Answered(m.no) = {}
        /\ Goto(Receiver, "select", AfterMessage)
        /\ UNCHANGED <<hand, list, answer>>
  /\ UNCHANGED <<historyVars, requestVars, list_mutex, pass, wire, executed, replies, processed, doneVars,
                 expired, loaded, handle>>

Complete(r, outcome) ==
  /\ result' = [result EXCEPT ![r] = outcome]
  /\ completions' = [completions EXCEPT ![r] = @ + 1]

\* It calls the callback without the mutex of the list,
Callback ==
  /\ Goto(Receiver, "callback", "called")
  /\ Touch(Receiver, hand[Receiver])
  /\ Complete(hand[Receiver], answer)
  /\ answer' = "ok"
  /\ UNCHANGED <<met, requestVars, listVars, netVars, event_true, expired, hand, loaded, handle>>

\* ... and returns to its loop if the request is a query.
QueryCalled ==
  /\ hand[Receiver] \in Queries
  /\ Goto(Receiver, "called", AfterMessage)
  /\ Touch(Receiver, hand[Receiver])
  /\ hand' = [hand EXCEPT ![Receiver] = NoRequest]
  /\ UNCHANGED <<met, requestVars, listVars, netVars, doneVars, expired, loaded, handle, answer>>

SignalTimerForgets(h) ==
  /\ hand[h] \in Normal
  /\ Goto(h, "called", "drop")
  /\ Touch(h, hand[h])
  /\ event_true' = IF h = Timer THEN event_true ELSE [event_true EXCEPT ![hand[h]] = TRUE]
  /\ UNCHANGED <<met, requestVars, listVars, netVars, result, completions, expired, hand, loaded,
                 handle, answer>>

\* Either handler wakes the caller that may wait for a request, then drops the reference
\* of the list.
Signal(h) ==
  /\ hand[h] \in Normal
  /\ Goto(h, "called", "drop")
  /\ Touch(h, hand[h])
  /\ event_true' = [event_true EXCEPT ![hand[h]] = TRUE]
  /\ UNCHANGED <<met, requestVars, listVars, netVars, result, completions, expired, hand, loaded,
                 handle, answer>>

--------------------------------------------------------------------------------
(* The thread of the timer.                                                 *)

\* The ttl of a request goes by; that of a query is a year (mb_cu.h:7).
Expire(r) ==
  /\ Defined
  /\ r \in Normal \ expired
  /\ memory[r] = "live"
  /\ expired' = expired \cup {r}
  /\ UNCHANGED <<historyVars, requestVars, listVars, netVars, doneVars, pc, hand, loaded, handle, answer>>

\* on_mb_timer holds the mutex of the list for the whole pass.
TimerLock ==
  /\ ~ list_mutex
  /\ Goto(Timer, "sleep", "scan")
  /\ list_mutex' = TRUE
  /\ pass' = list
  /\ UNCHANGED <<historyVars, requestVars, list, netVars, doneVars, expired, hand, loaded, handle, answer>>

\* A request that has timed out is unlinked and its callback called.
TimeOut ==
  /\ pass # <<>> /\ Head(pass) \in expired
  /\ Goto(Timer, "scan", "called")
  /\ pass' = Tail(pass)
  /\ list' = Without(Head(pass))
  /\ hand' = [hand EXCEPT ![Timer] = Head(pass)]
  /\ Complete(Head(pass), "timeout")
  /\ UNCHANGED <<historyVars, requestVars, list_mutex, netVars, event_true, expired, loaded, handle, answer>>

NotYet ==
  /\ Defined
  /\ pass # <<>> /\ Head(pass) \notin expired
  /\ pc[Timer] = "scan"
  /\ pass' = Tail(pass)
  /\ UNCHANGED <<historyVars, requestVars, list, list_mutex, netVars, doneVars, expired, pc, hand, loaded,
                 handle, answer>>

TimerUnlock ==
  /\ pass = <<>>
  /\ Goto(Timer, "scan", IF handle = "running" THEN "sleep" ELSE "exited")
  /\ list_mutex' = FALSE
  /\ UNCHANGED <<historyVars, requestVars, list, pass, netVars, doneVars, expired, hand, loaded, handle, answer>>

--------------------------------------------------------------------------------
(* mb_cu_uinit, called when no call is under way and every query is released. *)

Stop ==
  /\ Defined
  /\ handle = "running"
  /\ \A r \in Requests : pc[r] \in {"idle", "done"}
  /\ handle' = "stopping"
  /\ UNCHANGED <<historyVars, requestVars, listVars, netVars, doneVars, expired, pc, hand, loaded, answer>>

\* select() has timed out.
ReceiverExit ==
  /\ handle = "stopping"
  /\ Goto(Receiver, "select", "exited")
  /\ UNCHANGED <<historyVars, requestVars, listVars, netVars, doneVars, expired, hand, loaded, handle, answer>>

DeleteKeeping ==
  /\ Defined
  /\ handle = "stopping"
  /\ \A h \in Handlers : pc[h] = "exited"
  /\ handle' = "deleted"
  /\ list' = <<>>
  /\ UNCHANGED <<historyVars, requestVars, list_mutex, pass, netVars, doneVars, expired, pc, hand, loaded, answer>>

\* Both threads are joined, and every request still in the list is unreferenced.
Delete ==
  /\ Defined
  /\ handle = "stopping"
  /\ \A h \in Handlers : pc[h] = "exited"
  /\ handle' = "deleted"
  /\ list' = <<>>
  /\ ref_count' = [r \in Requests |-> IF Linked(r) THEN ref_count[r] - 1 ELSE ref_count[r]]
  /\ memory' = [r \in Requests |->
                  IF Linked(r) /\ ref_count[r] = 1 THEN "freed" ELSE memory[r]]
  /\ UNCHANGED <<historyVars, kind, seq_no, req_no, list_mutex, pass, netVars, doneVars, expired, pc, hand,
                 loaded, answer>>

Deleted == handle = "deleted" /\ UNCHANGED vars

\* The client has touched freed memory.
Undefined == ~ Defined /\ UNCHANGED vars

--------------------------------------------------------------------------------
(* The device.                                                              *)

\* Which requests pu_mb_recv_func answers once the program of the device has run them.
RepliesTo(args, error, empty) == args = "SET" \/ (error = "ok" /\ ~ empty)

\* The program of the device ends with error, and has or has not filled the buffer.
Process(m, error, empty) ==
  /\ processed < MaxProcessed /\ processed' = processed + 1
  /\ LET reply == [no |-> m.no, error |-> error, from |-> m.from] IN
     /\ executed' = executed \cup {reply}
     /\ replies' = IF RepliesTo(m.args, error, empty) THEN replies \cup {reply} ELSE replies
  /\ UNCHANGED <<historyVars, requestVars, listVars, wire, received, doneVars, expired, pc, hand, loaded,
                 handle, answer>>

--------------------------------------------------------------------------------

DropStep(t) == DropLoad(t) \/ DropStore(t) \/ DropTest(t)
CallStep(r) == New(r) \/ Add(r) \/ Send(r) \/ Wake(r) \/ DropStep(r)
ReceiverStep == Callback \/ QueryCalled \/ Signal(Receiver) \/ ReceiverExit \/ DropStep(Receiver)
TimerStep == TimerLock \/ TimeOut \/ NotYet \/ TimerUnlock \/ Signal(Timer) \/ DropStep(Timer)

Next ==
  \/ \E r \in Requests :
       \/ \E k \in {"query", "sync", "async"} : SeqLoad(r, k)
       \/ CallStep(r) \/ Expire(r)
  \/ \E q \in Requests : Release(q)
  \/ \E m \in replies : Receive(m)
  \/ ReceiverStep \/ TimerStep
  \/ Stop \/ Delete \/ Deleted \/ Undefined
  \/ \E m \in wire, error \in {"ok", "failed"}, empty \in BOOLEAN : Process(m, error, empty)

Spec == Init /\ [][Next]_vars

\* The threads run, a mutex goes to a thread that keeps asking for it, and time passes.
\* Nothing obliges the device to answer, the network to deliver, or a query to be released.
FairSpec ==
  /\ Spec
  /\ \A r \in Requests : SF_vars(CallStep(r)) /\ WF_vars(Expire(r))
  /\ WF_vars(ReceiverStep) /\ WF_vars(TimerStep)

--------------------------------------------------------------------------------
(* Properties.                                                              *)

Datagram == [no : Nat, error : {"ok", "failed"}, from : Requests]

\* The type of each variable.
TypeOK ==
  /\ kind \in [Requests -> {"none", "query", "sync", "async"}]
  /\ seq_no \in Nat /\ req_no \in [Requests -> Nat]
  /\ memory \in [Requests -> {"unused", "live", "freed"}]
  /\ ref_count \in [Requests -> Nat]
  /\ event_true \in [Requests -> BOOLEAN]
  /\ list \in Seq(Requests) /\ pass \in Seq(Requests) /\ list_mutex \in BOOLEAN
  /\ expired \subseteq Requests
  /\ pc \in [Threads -> {"idle", "new", "add", "send", "wait", "open", "done", "drop", "store",
                         "test", "select", "callback", "called", "sleep", "scan", "exited"}]
  /\ hand \in [Handlers -> Requests \cup {NoRequest}]
  /\ loaded \in [Threads -> Nat]
  /\ handle \in {"running", "stopping", "deleted"}
  /\ wire \subseteq [no : Nat, args : {"GET", "SET"}, from : Requests]
  /\ executed \subseteq Datagram /\ replies \subseteq Datagram
  /\ answer \in {"ok", "failed"}
  /\ result \in [Requests -> {"none", "ok", "failed", "timeout"}]
  /\ completions \in [Requests -> Nat]
  /\ processed \in 0 .. MaxProcessed /\ received \in 0 .. MaxReceived

HistoryOK == met \subseteq Requests /\ misused \subseteq Threads \X Requests

\* A request is completed once: a reply that comes twice, one that comes after the
\* timeout and one that races it never call the callback again, and a request in the
\* list has not been called.
CompletedOnce ==
  \A r \in Normal : completions[r] <= 1 /\ (Linked(r) => completions[r] = 0)

\* A synchronous call returns only when the callback of its request has returned, so what
\* the callback uses of the caller's is still there.
ReturnsCompleted ==
  \A r \in Sync : pc[r] \in {"drop", "store", "test", "done"} => completions[r] = 1

\* Every call is answered once, and before it returns.
AnsweredOnce == CompletedOnce /\ ReturnsCompleted

\* A handler works on the request.
InHand(r) == \E h \in Handlers : hand[h] = r

\* A synchronous request is allocated exactly while its caller, the list or a handler has
\* still to touch it, up to the last test of its count, although the count is changed
\* without any lock: it is neither freed early nor leaked unless its two owners met in
\* mb_req_unref.
SyncOwned ==
  \A r \in Sync \ met :
    pc[r] # "new" =>
      (memory[r] = "live" <=> pc[r] # "done" \/ Linked(r) \/ InHand(r))

\* An asynchronous request is allocated exactly while its caller has not yet added it, the
\* list has it or a handler works on it: it is not leaked, also when the client is shut down.
\* Nothing keeps it for its caller, who sends it last.
AsyncOwned ==
  \A r \in Async :
    pc[r] # "new" => (memory[r] = "live" <=> pc[r] = "add" \/ Linked(r) \/ InHand(r))

\* Another request has the number of r: their callers met in seq_generate, or the sequence
\* number was set back by two that did.
Twin(r) == \E s \in Requests \ {r} : pc[s] \notin {"idle", "new"} /\ req_no[s] = req_no[r]

\* A freed request is touched only by the second of two owners that met, by the receiver
\* when its user released the query that is being answered, and by the caller that sends
\* an asynchronous request which by then has timed out, or was answered by the reply to
\* another of the same number.
MisusedOnly ==
  \A use \in misused :
    LET t == use[1] r == use[2] IN
      \/ r \in met /\ r \in Sync
      \/ r \in Queries /\ t = Receiver
      \/ r \in Async /\ t = r /\ (result[r] = "timeout" \/ Twin(r))

\* Who drops a reference finds one to drop, as mb_req_unref asserts.
CountedBeforeDrop == \A t \in Threads : pc[t] = "drop" => ref_count[Dropped(t)] > 0

\* A request is freed once, when the last that uses it is done with it, and touched by
\* nobody after that, but for the three windows that MisusedOnly and met name.
RequestsOwned ==
  TypeOK /\ HistoryOK /\ SyncOwned /\ AsyncOwned /\ CountedBeforeDrop /\ MisusedOnly

\* What a callback is told by a reply is what the device did with that very request: success
\* only when it has run it, and a failure only of a set.  Of requests with the same number
\* it may be what the device did with another of them.
ResultHonest ==
  \A r \in Requests :
    LET RanAs(s) == /\ [no |-> req_no[r], error |-> result[r], from |-> s] \in executed
                    /\ result[r] = "failed" => Args(s) = "SET"
    IN  result[r] \in {"ok", "failed"} =>
          RanAs(r) \/ (Twin(r) /\ \E s \in Requests : req_no[s] = req_no[r] /\ RanAs(s))

\* Every call ends: a synchronous caller returns, and the callback of an asynchronous
\* request is called unless the client is shut down, whatever the network loses.
EveryCallEnds ==
  \A r \in Requests :
    pc[r] = "add" ~> \/ kind[r] = "query"
                     \/ kind[r] = "sync" /\ pc[r] = "done"
                     \/ kind[r] = "async" /\ (completions[r] = 1 \/ handle # "running")
                     \/ ~ Defined
================================================================================
