---------------------------- MODULE MessageBusProofs ----------------------------
(***************************************************************************)
(* Proofs about the client side of MessageBus for every number of          *)
(* requests.                                                               *)
(*                                                                         *)
(* A request of a call is in one place at a time: with its caller, in the  *)
(* list, or in the hands of one handler.  That is why it is completed      *)
(* once.  Its reference count is changed without a lock, so the inductive  *)
(* invariant IInv says what the count is while neither of the two owners   *)
(* has written it back, while one has, and that the memory lives until     *)
(* both have.  What follows once both have, Owners says of the requests    *)
(* whose owners did not meet.  Honest is what the network knows: a reply   *)
(* carries, unseen by the client, the request that it answers.             *)
(***************************************************************************)
EXTENDS MessageBus, SequenceTheorems, TLAPS

\* Nobody but its caller knows a request yet.
Unseen(r) == pc[r] \in {"idle", "new", "add"}

\* Handler h is working on request r.
Handles(h, r) == hand[h] = r

In(s, x) == \E i \in DOMAIN s : s[i] = x
Distinct(s) == \A i, j \in DOMAIN s : s[i] = s[j] => i = j

\* Where each thread can be, by the kind of request it makes or handles.
Positions ==
  /\ \A r \in Requests : kind[r] = "none" <=> pc[r] = "idle"
  /\ \A r \in Sync : pc[r] \in {"new", "add", "send", "wait", "drop", "store", "test", "done"}
  /\ \A r \in Async : pc[r] \in {"new", "add", "send", "done"}
  /\ \A q \in Queries : pc[q] \in {"new", "add", "send", "open", "drop", "store", "test", "done"}
  /\ pc[Receiver] \in {"select", "callback", "called", "drop", "store", "test", "exited"}
  /\ pc[Timer] \in {"sleep", "scan", "called", "drop", "store", "test", "exited"}

\* A handler has a request in hand from the list on until it has dropped the reference;
\* only the callback of a query is called by the receiver without that.
Hands ==
  /\ hand[Receiver] = NoRequest <=> pc[Receiver] \in {"select", "exited"}
  /\ hand[Timer] = NoRequest <=> pc[Timer] \in {"sleep", "scan", "exited"}
  /\ \A h \in Handlers : pc[h] \in {"drop", "store", "test"} => hand[h] \in Normal
  /\ hand[Timer] # NoRequest => hand[Timer] \in Normal
  /\ expired \subseteq Normal

\* The client is shut down when all calls have returned.
ShutDown ==
  /\ handle # "running" => \A r \in Requests : pc[r] \in {"idle", "done"}
  /\ handle = "deleted" => list = <<>> /\ \A h \in Handlers : pc[h] = "exited"

\* The list has each request at most once, and so has the pass of the timer thread, which
\* holds the mutex meanwhile, so that what it has still to look at stays linked.
ListSound ==
  /\ Distinct(list) /\ Distinct(pass)
  /\ \A r \in Requests : In(pass, r) => Linked(r)
  /\ list_mutex <=> pc[Timer] \notin {"sleep", "exited"}
  /\ ~ list_mutex => pass = <<>>
  /\ \A r \in Requests : Linked(r) => ~ Unseen(r)
  /\ \A h \in Handlers, r \in Requests : Handles(h, r) => ~ Unseen(r)
  /\ \A q \in Queries : Linked(q) <=> pc[q] \in {"send", "open"}

\* A request of a call is in the list or in the hands of one handler.
OnePlace ==
  \A r \in Normal :
    /\ \A h \in Handlers : Handles(h, r) => ~ Linked(r)
    /\ ~ (Handles(Receiver, r) /\ Handles(Timer, r))

\* Its callback was not yet called, or called once.
Told ==
  /\ \A r \in Requests : Unseen(r) => completions[r] = 0
  /\ \A r \in Normal :
       /\ completions[r] \in {0, 1}
       /\ Linked(r) \/ (Handles(Receiver, r) /\ pc[Receiver] = "callback")
            => completions[r] = 0
       /\ \A h \in Handlers : Handles(h, r) /\ pc[h] # "callback" => completions[r] = 1

\* The caller is woken after the callback was called, and not before.
Woken ==
  /\ \A r \in Requests : Unseen(r) => ~ event_true[r]
  /\ \A r \in Normal :
       /\ event_true[r] => completions[r] = 1
       /\ Linked(r) => ~ event_true[r]
       /\ \A h \in Handlers : Handles(h, r) =>
            (event_true[r] <=> pc[h] \in {"drop", "store", "test"})
  /\ \A r \in Sync : pc[r] \in {"drop", "store", "test", "done"} => event_true[r]

\* Which of the two owners of a synchronous request have written its count back.
HandlerStored(r) == event_true[r] /\ \A h \in Handlers : Handles(h, r) => pc[h] = "test"
CallerStored(r) == pc[r] \in {"test", "done"}

\* What thread t has read of the count of r and is about to write back.
Storing(t, r) == pc[t] = "store" /\ Dropped(t) = r

SyncCount(r) ==
  /\ ~ HandlerStored(r) /\ ~ CallerStored(r) =>
       /\ ref_count[r] = 2
       /\ \A t \in Threads : Storing(t, r) => loaded[t] = 2
  /\ HandlerStored(r) /\ ~ CallerStored(r) => ref_count[r] = 1
  /\ ~ HandlerStored(r) /\ CallerStored(r) => ref_count[r] = 1
  /\ \A t \in Threads : Storing(t, r) => loaded[t] \in {1, 2}
  /\ ~ HandlerStored(r) \/ ~ CallerStored(r) => memory[r] = "live"
  /\ ref_count[r] \in {0, 1, 2}

SyncCounts == \A r \in Sync : pc[r] # "new" => SyncCount(r)

\* The one reference of an asynchronous request is that of the list, then of the handler.
AsyncCount(r) ==
  /\ pc[r] = "add" \/ Linked(r) => memory[r] = "live" /\ ref_count[r] = 1
  /\ \A h \in Handlers : Handles(h, r) =>
       /\ memory[r] = "live"
       /\ ref_count[r] = IF pc[h] = "test" THEN 0 ELSE 1
       /\ pc[h] = "store" => loaded[h] = 1
  /\ pc[r] \in {"send", "done"} /\ memory[r] = "live" =>
       Linked(r) \/ \E h \in Handlers : Handles(h, r)

AsyncCounts == \A r \in Async : AsyncCount(r)

\* ... and of a query that of its caller.
QueryCounts ==
  \A q \in Queries :
    /\ pc[q] \in {"add", "send", "open", "drop", "store"} => ref_count[q] = 1
    /\ pc[q] = "store" => loaded[q] = 1

IInv ==
  /\ TypeOK
  /\ Positions
  /\ Hands
  /\ ShutDown
  /\ ListSound
  /\ OnePlace
  /\ Told
  /\ Woken
  /\ SyncCounts
  /\ AsyncCounts
  /\ QueryCounts

--------------------------------------------------------------------------------
LEMMA ThreadFacts ==
  /\ Requests \subseteq Threads /\ Handlers = {Receiver, Timer} /\ Receiver # Timer
  /\ Receiver \in Threads /\ Timer \in Threads
  /\ Receiver \notin Requests /\ Timer \notin Requests /\ NoRequest \notin Requests
  /\ \A t \in Threads : t \in Requests \/ t = Receiver \/ t = Timer
BY MessageBusAssumption DEF Threads, Handlers

LEMMA SameKinds == kind' = kind => /\ Sync' = Sync /\ Async' = Async
                                   /\ Queries' = Queries /\ Normal' = Normal
BY DEF Sync, Async, Queries, Normal

LEMMA KindsOfRequests ==
  /\ Normal = Sync \cup Async /\ Normal \subseteq Requests /\ Queries \subseteq Requests
  /\ Sync \cap Async = {} /\ Sync \cap Queries = {} /\ Async \cap Queries = {}
BY DEF Sync, Async, Queries, Normal

\* A list to which a request is added in front, or from which one is taken, has the others
\* as before.
LEMMA PushSound ==
  ASSUME NEW s \in Seq(Requests), NEW r \in Requests, Distinct(s), ~ In(s, r)
  PROVE  /\ <<r>> \o s \in Seq(Requests) /\ Distinct(<<r>> \o s)
         /\ \A x : In(<<r>> \o s, x) <=> In(s, x) \/ x = r
<1> DEFINE t == <<r>> \o s
<1>1. /\ Len(s) \in Nat /\ t \in Seq(Requests) /\ Len(t) = Len(s) + 1
      /\ t[1] = r /\ \A i \in 2 .. Len(s) + 1 : t[i] = s[i - 1]
      /\ DOMAIN s = 1 .. Len(s) /\ DOMAIN t = 1 .. Len(s) + 1
  OBVIOUS
<1>2. \A i \in 1 .. Len(s) : i + 1 \in DOMAIN t /\ t[i + 1] = s[i]
  BY <1>1
<1> HIDE DEF t
<1>3. Distinct(t)
  <2> SUFFICES ASSUME NEW i \in DOMAIN t, NEW j \in DOMAIN t, t[i] = t[j] PROVE i = j
    BY DEF Distinct
  <2>1. CASE i = 1 \/ j = 1
    BY <1>1, <2>1 DEF In
  <2>2. CASE i # 1 /\ j # 1
    BY SMTT(20), <1>1, <2>2 DEF Distinct
  <2>. QED  BY <2>1, <2>2
<1>4. \A x : In(t, x) <=> In(s, x) \/ x = r
  BY <1>1, <1>2 DEF In
<1>. QED  BY <1>1, <1>3, <1>4 DEF t

LEMMA TailSound ==
  ASSUME NEW s \in Seq(Requests), s # <<>>, Distinct(s)
  PROVE  /\ Tail(s) \in Seq(Requests) /\ Distinct(Tail(s))
         /\ Head(s) \in Requests /\ In(s, Head(s))
         /\ \A x : In(Tail(s), x) <=> In(s, x) /\ x # Head(s)
<1> DEFINE t == Tail(s)
<1>1. /\ Len(s) \in Nat \ {0} /\ t \in Seq(Requests)
      /\ \A i \in 1 .. Len(s) - 1 : t[i] = s[i + 1]
      /\ DOMAIN s = 1 .. Len(s) /\ DOMAIN t = 1 .. Len(s) - 1 /\ Head(s) = s[1]
      /\ Head(s) \in Requests
  BY EmptySeq, HeadTailProperties, LenProperties
<1>2. \A i \in 2 .. Len(s) : i - 1 \in DOMAIN t /\ t[i - 1] = s[i]
  BY <1>1
<1>3. Distinct(t)
  BY <1>1 DEF Distinct
<1> HIDE DEF t
<1>4. ASSUME NEW x PROVE In(t, x) <=> In(s, x) /\ x # Head(s)
  <2>1. ASSUME In(t, x) PROVE In(s, x) /\ x # Head(s)
    <3>1. PICK i \in 1 .. Len(s) - 1 : t[i] = x
      BY <1>1, <2>1 DEF In
    <3>2. i + 1 \in DOMAIN s /\ s[i + 1] = x /\ 1 \in DOMAIN s /\ i + 1 # 1
      BY <1>1, <3>1
    <3>. QED  BY <1>1, <3>2 DEF In, Distinct
  <2>2. ASSUME In(s, x), x # Head(s) PROVE In(t, x)
    <3>1. PICK i \in 1 .. Len(s) : s[i] = x
      BY <1>1, <2>2 DEF In
    <3>2. i \in 2 .. Len(s)
      BY <1>1, <2>2, <3>1
    <3>. QED  BY <1>2, <3>1, <3>2 DEF In
  <2>. QED  BY <2>1, <2>2
<1>5. In(s, Head(s))
  BY <1>1 DEF In
<1>. QED  BY <1>1, <1>3, <1>4, <1>5 DEF t

LEMMA WithoutSound ==
  ASSUME list \in Seq(Requests), Distinct(list), NEW r, Linked(r)
  PROVE  /\ Without(r) \in Seq(Requests) /\ Distinct(Without(r))
         /\ \A x : In(Without(r), x) <=> Linked(x) /\ x # r
<1> DEFINE w == Without(r)
<1>1. Place(r) \in DOMAIN list /\ list[Place(r)] = r
  BY DEF Linked, Place
<1>2. Len(list) \in Nat /\ DOMAIN list = 1 .. Len(list)
      /\ \A i \in DOMAIN list : list[i] \in Requests
  BY LenProperties, ElementOfSeq
<1>3. PICK p \in 1 .. Len(list) : p = Place(r)
  BY <1>1, <1>2
<1>4. /\ DOMAIN w = 1 .. Len(list) - 1
      /\ \A i \in DOMAIN w : w[i] = IF i < p THEN list[i] ELSE list[i + 1]
  BY <1>3 DEF Without
<1>5. w \in Seq(Requests)
  <2>1. Len(list) - 1 \in Nat
    BY <1>2, <1>3
  <2>2. w \in [1 .. Len(list) - 1 -> Requests]
    BY <1>2, <1>3 DEF Without
  <2>. QED  BY <2>1, <2>2, SeqDef
<1> HIDE DEF w
<1>6. Distinct(w)
  BY <1>2, <1>4 DEF Distinct
<1>7. ASSUME NEW x PROVE In(w, x) <=> Linked(x) /\ x # r
  <2>1. ASSUME In(w, x) PROVE Linked(x) /\ x # r
    <3>1. PICK i \in DOMAIN w : w[i] = x
      BY <2>1 DEF In
    <3>2. PICK j \in DOMAIN list : list[j] = x /\ j # p
      BY <1>2, <1>4, <3>1
    <3>. QED  BY <1>1, <1>2, <1>3, <3>2 DEF Linked, Distinct
  <2>2. ASSUME Linked(x), x # r PROVE In(w, x)
    <3>1. PICK j \in DOMAIN list : list[j] = x
      BY <2>2 DEF Linked
    <3>2. j # p
      BY <1>1, <1>3, <2>2, <3>1
    <3>3. CASE j < p
      <4>1. j \in DOMAIN w /\ w[j] = x
        BY <1>2, <1>4, <3>1, <3>3
      <4>. QED  BY <4>1 DEF In
    <3>4. CASE j > p
      <4>1. j - 1 \in DOMAIN w /\ w[j - 1] = x
        BY <1>2, <1>4, <3>1, <3>4
      <4>. QED  BY <4>1 DEF In
    <3>. QED  BY <1>2, <3>2, <3>3, <3>4
  <2>. QED  BY <2>1, <2>2
<1>. QED  BY <1>5, <1>6, <1>7 DEF w

LEMMA AnsweredLinked ==
  ASSUME list \in Seq(Requests), NEW no, NEW r \in Answered(no)
  PROVE  r \in Requests /\ Linked(r) /\ req_no[r] = no
<1>1. PICK i \in DOMAIN list : list[i] = r /\ req_no[list[i]] = no
  BY DEF Answered
<1>2. list[i] \in Requests
  BY <1>1, ElementOfSeq, LenProperties
<1>. QED  BY <1>1, <1>2 DEF Linked

LEMMA KindCases ==
  ASSUME TypeOK, Positions, NEW r \in Requests, pc[r] # "idle"
  PROVE  r \in Sync \/ r \in Async \/ r \in Queries
<1>1. kind[r] \in {"query", "sync", "async"}
  BY DEF TypeOK, Positions
<1>. QED  BY <1>1 DEF Sync, Async, Queries

\* Whose reference a thread drops: its own request's, or that of the request in its hands.
LEMMA DroppedBy ==
  ASSUME IInv, NEW t \in Threads, pc[t] \in {"drop", "store", "test"}
  PROVE  /\ Dropped(t) \in Requests
         /\ \/ t = Dropped(t) /\ t \notin Handlers /\ (t \in Sync \/ t \in Queries)
            \/ t \in Handlers /\ Handles(t, Dropped(t)) /\ Dropped(t) \in Normal
<1>1. CASE t \in Handlers
  BY <1>1, KindsOfRequests DEF IInv, Hands, Dropped, Handles
<1>2. CASE t \in Requests
  <2>1. t \notin Handlers /\ Dropped(t) = t
    BY <1>2, ThreadFacts DEF Dropped
  <2>2. t \in Sync \/ t \in Queries
    BY <1>2, KindCases DEF IInv, Positions
  <2>. QED  BY <1>2, <2>1, <2>2
<1>. QED  BY <1>1, <1>2 DEF Threads

LEMMA InitIInv == Init => IInv
<1> SUFFICES ASSUME Init PROVE IInv
  OBVIOUS
<1>1. Sync = {} /\ Async = {} /\ Queries = {} /\ Normal = {}
  BY DEF Init, Sync, Async, Queries, Normal
<1>2. \A r : ~ In(list, r) /\ ~ Linked(r) /\ ~ In(pass, r)
  BY DEF Init, In, Linked
<1>3. TypeOK
  <2>1. /\ list \in Seq(Requests) /\ pass \in Seq(Requests)
        /\ loaded \in [Threads -> Nat] /\ completions \in [Requests -> Nat]
        /\ req_no \in [Requests -> Nat] /\ ref_count \in [Requests -> Nat]
        /\ processed \in 0 .. MaxProcessed /\ received \in 0 .. MaxReceived
    BY MessageBusAssumption DEF Init
  <2>2. pc \in [Threads -> {"idle", "new", "add", "send", "wait", "open", "done", "drop", "store",
                         "test", "select", "callback", "called", "sleep", "scan", "exited"}]
    BY DEF Init
  <2>. QED  BY <2>1, <2>2 DEF Init, TypeOK
<1>4. \A t \in Threads : pc[t] = IF t = Receiver THEN "select" ELSE IF t = Timer THEN "sleep"
                                                                            ELSE "idle"
  BY DEF Init
<1>5. Positions /\ Hands /\ ShutDown
  BY <1>1, <1>4, ThreadFacts DEF Init, Positions, Hands, ShutDown
<1>6. ListSound
  BY <1>1, <1>2, <1>4, ThreadFacts DEF Init, ListSound, Distinct, Handles
<1>7. OnePlace /\ Told /\ Woken /\ SyncCounts /\ AsyncCounts /\ QueryCounts
  BY <1>1 DEF Init, OnePlace, Told, Woken, SyncCounts, AsyncCounts, QueryCounts
<1>. QED  BY <1>3, <1>5, <1>6, <1>7 DEF IInv

--------------------------------------------------------------------------------
(* The callers.                                                             *)

LEMMA SeqLoadIInv == ASSUME IInv, NEW r \in Requests, NEW k \in {"query", "sync", "async"}, SeqLoad(r, k) PROVE IInv'
<1> USE DEF IInv
<1>1. /\ handle = "running" /\ kind' = [kind EXCEPT ![r] = k] /\ pc[r] = "idle"
      /\ pc' = [pc EXCEPT ![r] = "new"] /\ loaded' = [loaded EXCEPT ![r] = seq_no]
      /\ UNCHANGED <<seq_no, req_no, memory, ref_count, list, list_mutex, pass, wire, executed,
                     replies, processed, received, event_true, result, completions, expired,
                              hand, handle, answer>>
  BY DEF SeqLoad, Goto, requestVars, listVars, netVars, doneVars
<1>2. \A t \in Threads : pc'[t] = IF t = r THEN "new" ELSE pc[t]
  BY <1>1, ThreadFacts DEF TypeOK
<1>3. kind[r] = "none" /\ kind'[r] = k /\ \A x \in Requests \ {r} : kind'[x] = kind[x]
  BY <1>1 DEF TypeOK, Positions
<1>4. /\ Sync \subseteq Sync' /\ Sync' \subseteq Sync \cup {r}
      /\ Async \subseteq Async' /\ Async' \subseteq Async \cup {r}
      /\ Queries \subseteq Queries' /\ Queries' \subseteq Queries \cup {r}
      /\ Normal \subseteq Normal' /\ Normal' \subseteq Normal \cup {r}
      /\ r \notin Sync /\ r \notin Async /\ r \notin Queries /\ r \notin Normal
  BY <1>3 DEF Sync, Async, Queries, Normal
<1>5. \A x : Linked(x)' <=> Linked(x)
  BY <1>1 DEF Linked
<1>6. ~ Linked(r) /\ (\A h \in Handlers : ~ Handles(h, r)) /\ completions[r] = 0 /\ ~ event_true[r]
  BY <1>1 DEF ListSound, Unseen, Told, Woken
<1>7. TypeOK'
  BY <1>1, <1>2, <1>3, <1>4, <1>5, <1>6, ThreadFacts, KindsOfRequests DEF TypeOK
<1>8. Positions'
  BY <1>1, <1>2, <1>3, <1>4, <1>5, <1>6, ThreadFacts, KindsOfRequests DEF Positions
<1>9. Hands'
  BY <1>1, <1>2, <1>3, <1>4, <1>5, <1>6, ThreadFacts, KindsOfRequests DEF Hands
<1>10. ShutDown'
  BY <1>1, <1>2, <1>3, <1>4, <1>5, <1>6, ThreadFacts, KindsOfRequests DEF ShutDown
<1>11. ListSound'
  BY <1>1, <1>2, <1>3, <1>4, <1>5, <1>6, ThreadFacts, KindsOfRequests
  DEF ListSound, Handles, Unseen
<1>12. OnePlace'
  BY <1>1, <1>2, <1>3, <1>4, <1>5, <1>6, ThreadFacts, KindsOfRequests DEF OnePlace, Handles
<1>13. Told'
  BY <1>1, <1>2, <1>3, <1>4, <1>5, <1>6, ThreadFacts, KindsOfRequests DEF Told, Handles, Unseen
<1>14. Woken'
  BY <1>1, <1>2, <1>3, <1>4, <1>5, <1>6, ThreadFacts, KindsOfRequests DEF Woken, Handles, Unseen
<1>15. SyncCounts'
  BY <1>1, <1>2, <1>3, <1>4, <1>5, <1>6, ThreadFacts, KindsOfRequests
  DEF SyncCounts, SyncCount, HandlerStored, CallerStored, Storing, Dropped, Handles
<1>16. AsyncCounts'
  BY <1>1, <1>2, <1>3, <1>4, <1>5, <1>6, ThreadFacts, KindsOfRequests
  DEF AsyncCounts, AsyncCount, Handles
<1>17. QueryCounts'
  BY <1>1, <1>2, <1>3, <1>4, <1>5, <1>6, ThreadFacts, KindsOfRequests DEF QueryCounts
<1>. QED  BY <1>7, <1>8, <1>9, <1>10, <1>11, <1>12, <1>13, <1>14, <1>15, <1>16, <1>17

LEMMA NewIInv == ASSUME IInv, NEW r \in Requests, New(r) PROVE IInv'
<1> USE DEF IInv
<1>1. /\ pc[r] = "new" /\ pc' = [pc EXCEPT ![r] = "add"]
      /\ seq_no' = loaded[r] + 1 /\ req_no' = [req_no EXCEPT ![r] = loaded[r] + 1]
      /\ memory' = [memory EXCEPT ![r] = "live"]
      /\ ref_count' = [ref_count EXCEPT ![r] = IF r \in Sync THEN 2 ELSE 1]
      /\ loaded' = [loaded EXCEPT ![r] = 0]
      /\ UNCHANGED <<kind, list, list_mutex, pass, wire, executed, replies, processed, received,
                     event_true, result, completions, expired, hand, handle, answer>>
  BY DEF New, Goto, requestVars, listVars, netVars, doneVars
<1>2. \A t \in Threads : pc'[t] = IF t = r THEN "add" ELSE pc[t]
  BY <1>1, ThreadFacts DEF TypeOK
<1>3. Sync' = Sync /\ Async' = Async /\ Queries' = Queries /\ Normal' = Normal
  BY <1>1, SameKinds
<1>4. \A x : Linked(x)' <=> Linked(x)
  BY <1>1 DEF Linked
<1>5. ~ Linked(r) /\ (\A h \in Handlers : ~ Handles(h, r)) /\ ~ event_true[r]
  BY <1>1 DEF ListSound, Unseen, Woken
<1>6. \A x \in Requests : /\ req_no'[x] = IF x = r THEN loaded[r] + 1 ELSE req_no[x]
                          /\ memory'[x] = IF x = r THEN "live" ELSE memory[x]
                          /\ ref_count'[x] = IF x # r THEN ref_count[x] ELSE IF r \in Sync THEN 2 ELSE 1
  BY <1>1 DEF TypeOK
<1>7. \A t \in Threads : loaded'[t] = IF t = r THEN 0 ELSE loaded[t]
  BY <1>1 DEF TypeOK
<1>8. pc[Receiver] = "callback" => hand[Receiver] \in Requests /\ hand[Receiver] # r
  BY <1>5, ThreadFacts DEF Hands, TypeOK, Handles
<1>9. TypeOK'
  BY SMTT(20), <1>1, <1>2, <1>3, <1>4, <1>5, <1>6, <1>7, <1>8, ThreadFacts, KindsOfRequests
  DEF TypeOK
<1>10. Positions'
  BY <1>1, <1>2, <1>3, <1>4, <1>5, <1>6, <1>7, <1>8, ThreadFacts, KindsOfRequests DEF Positions
<1>11. Hands'
  BY <1>1, <1>2, <1>3, <1>4, <1>5, <1>6, <1>7, <1>8, ThreadFacts, KindsOfRequests DEF Hands
<1>12. ShutDown'
  BY <1>1, <1>2, <1>3, <1>4, <1>5, <1>6, <1>7, <1>8, ThreadFacts, KindsOfRequests DEF ShutDown
<1>13. ListSound'
  BY <1>1, <1>2, <1>3, <1>4, <1>5, <1>6, <1>7, <1>8, ThreadFacts, KindsOfRequests
  DEF ListSound, Handles, Unseen
<1>14. OnePlace'
  BY <1>1, <1>2, <1>3, <1>4, <1>5, <1>6, <1>7, <1>8, ThreadFacts, KindsOfRequests
  DEF OnePlace, Handles
<1>15. Told'
  BY <1>1, <1>2, <1>3, <1>4, <1>5, <1>6, <1>7, <1>8, ThreadFacts, KindsOfRequests
  DEF Told, Handles, Unseen
<1>16. Woken'
  BY <1>1, <1>2, <1>3, <1>4, <1>5, <1>6, <1>7, <1>8, ThreadFacts, KindsOfRequests
  DEF Woken, Handles, Unseen
<1>17. SyncCounts'
  BY <1>1, <1>2, <1>3, <1>4, <1>5, <1>6, <1>7, <1>8, ThreadFacts, KindsOfRequests
  DEF SyncCounts, SyncCount, HandlerStored, CallerStored, Storing, Dropped, Handles
<1>18. AsyncCounts'
  BY <1>1, <1>2, <1>3, <1>4, <1>5, <1>6, <1>7, <1>8, ThreadFacts, KindsOfRequests
  DEF AsyncCounts, AsyncCount, Handles
<1>19. QueryCounts'
  BY <1>1, <1>2, <1>3, <1>4, <1>5, <1>6, <1>7, <1>8, ThreadFacts, KindsOfRequests DEF QueryCounts
<1>. QED  BY <1>9, <1>10, <1>11, <1>12, <1>13, <1>14, <1>15, <1>16, <1>17, <1>18, <1>19

LEMMA AddIInv == ASSUME IInv, NEW r \in Requests, Add(r) PROVE IInv'
<1> USE DEF IInv
<1>1. /\ ~ list_mutex /\ pc[r] = "add" /\ pc' = [pc EXCEPT ![r] = "send"] /\ list' = <<r>> \o list
      /\ UNCHANGED <<kind, seq_no, req_no, memory, ref_count, list_mutex, pass, wire, executed,
                     replies, processed, received, event_true, result, completions, expired,
                              hand, loaded, handle, answer>>
  BY DEF Add, Goto, requestVars, listVars, netVars, doneVars
<1>2. \A t \in Threads : pc'[t] = IF t = r THEN "send" ELSE pc[t]
  BY <1>1, ThreadFacts DEF TypeOK
<1>3. Sync' = Sync /\ Async' = Async /\ Queries' = Queries /\ Normal' = Normal
  BY <1>1, SameKinds
<1>4. ~ Linked(r) /\ (\A h \in Handlers : ~ Handles(h, r)) /\ completions[r] = 0 /\ ~ event_true[r]
  BY <1>1 DEF ListSound, Unseen, Told, Woken
<1>5. list' \in Seq(Requests) /\ Distinct(list') /\ \A x : Linked(x)' <=> Linked(x) \/ x = r
  <2>1. ~ In(list, r) /\ list \in Seq(Requests) /\ Distinct(list)
    BY <1>4 DEF TypeOK, ListSound, Linked, In
  <2>2. \A x : (Linked(x)' <=> In(list', x)) /\ (Linked(x) <=> In(list, x))
    BY DEF Linked, In
  <2>. QED  BY <1>1, <2>1, <2>2, PushSound
<1>6. handle = "running"
  BY <1>1 DEF ShutDown, TypeOK
<1>7. TypeOK'
  BY <1>1, <1>2, <1>3, <1>4, <1>5, <1>6, ThreadFacts, KindsOfRequests DEF TypeOK
<1>8. Positions'
  BY <1>1, <1>2, <1>3, <1>4, <1>5, <1>6, ThreadFacts, KindsOfRequests DEF Positions
<1>9. Hands'
  BY <1>1, <1>2, <1>3, <1>4, <1>5, <1>6, ThreadFacts, KindsOfRequests DEF Hands
<1>10. ShutDown'
  BY <1>1, <1>2, <1>3, <1>4, <1>5, <1>6, ThreadFacts, KindsOfRequests DEF ShutDown
<1>11. ListSound'
  BY <1>1, <1>2, <1>3, <1>4, <1>5, <1>6, ThreadFacts, KindsOfRequests
  DEF ListSound, Handles, Unseen
<1>12. OnePlace'
  BY <1>1, <1>2, <1>3, <1>4, <1>5, <1>6, ThreadFacts, KindsOfRequests DEF OnePlace, Handles
<1>13. Told'
  BY <1>1, <1>2, <1>3, <1>4, <1>5, <1>6, ThreadFacts, KindsOfRequests DEF Told, Handles, Unseen
<1>14. Woken'
  BY <1>1, <1>2, <1>3, <1>4, <1>5, <1>6, ThreadFacts, KindsOfRequests DEF Woken, Handles, Unseen
<1>15. SyncCounts'
  BY <1>1, <1>2, <1>3, <1>4, <1>5, <1>6, ThreadFacts, KindsOfRequests
  DEF SyncCounts, SyncCount, HandlerStored, CallerStored, Storing, Dropped, Handles
<1>16. AsyncCounts'
  BY <1>1, <1>2, <1>3, <1>4, <1>5, <1>6, ThreadFacts, KindsOfRequests
  DEF AsyncCounts, AsyncCount, Handles
<1>17. QueryCounts'
  BY <1>1, <1>2, <1>3, <1>4, <1>5, <1>6, ThreadFacts, KindsOfRequests DEF QueryCounts
<1>. QED  BY <1>7, <1>8, <1>9, <1>10, <1>11, <1>12, <1>13, <1>14, <1>15, <1>16, <1>17

LEMMA SendIInv == ASSUME IInv, NEW r \in Requests, Send(r) PROVE IInv'
<1> USE DEF IInv
<1>1. /\ pc[r] = "send" /\ pc' = [pc EXCEPT ![r] = IF r \in Sync THEN "wait" ELSE IF r \in Async THEN "done" ELSE "open"]
      /\ wire' = wire \cup {[no |-> req_no[r], args |-> Args(r), from |-> r]}
      /\ UNCHANGED <<kind, seq_no, req_no, memory, ref_count, list, list_mutex, pass, executed,
                     replies, processed, received, event_true, result, completions, expired,
                              hand, loaded, handle, answer>>
  BY DEF Send, Goto, requestVars, listVars, netVars, doneVars
<1>2. \A t \in Threads : pc'[t] = IF t = r THEN (IF r \in Sync THEN "wait" ELSE IF r \in Async THEN "done" ELSE "open") ELSE pc[t]
  BY <1>1, ThreadFacts DEF TypeOK
<1>3. Sync' = Sync /\ Async' = Async /\ Queries' = Queries /\ Normal' = Normal
  BY <1>1, SameKinds
<1>4. \A x : Linked(x)' <=> Linked(x)
  BY <1>1 DEF Linked
<1>5. r \in Sync \/ r \in Async \/ r \in Queries
  BY <1>1, KindCases
<1>6. wire' \subseteq [no : Nat, args : {"GET", "SET"}, from : Requests]
  BY <1>1 DEF TypeOK, Args
<1>7. TypeOK'
  BY <1>1, <1>2, <1>3, <1>4, <1>5, <1>6, ThreadFacts, KindsOfRequests DEF TypeOK
<1>8. Positions'
  BY <1>1, <1>2, <1>3, <1>4, <1>5, <1>6, ThreadFacts, KindsOfRequests DEF Positions
<1>9. Hands'
  BY <1>1, <1>2, <1>3, <1>4, <1>5, <1>6, ThreadFacts, KindsOfRequests DEF Hands
<1>10. ShutDown'
  BY <1>1, <1>2, <1>3, <1>4, <1>5, <1>6, ThreadFacts, KindsOfRequests DEF ShutDown
<1>11. ListSound'
  BY <1>1, <1>2, <1>3, <1>4, <1>5, <1>6, ThreadFacts, KindsOfRequests
  DEF ListSound, Handles, Unseen
<1>12. OnePlace'
  BY <1>1, <1>2, <1>3, <1>4, <1>5, <1>6, ThreadFacts, KindsOfRequests DEF OnePlace, Handles
<1>13. Told'
  BY <1>1, <1>2, <1>3, <1>4, <1>5, <1>6, ThreadFacts, KindsOfRequests DEF Told, Handles, Unseen
<1>14. Woken'
  BY <1>1, <1>2, <1>3, <1>4, <1>5, <1>6, ThreadFacts, KindsOfRequests DEF Woken, Handles, Unseen
<1>15. SyncCounts'
  BY <1>1, <1>2, <1>3, <1>4, <1>5, <1>6, ThreadFacts, KindsOfRequests
  DEF SyncCounts, SyncCount, HandlerStored, CallerStored, Storing, Dropped, Handles
<1>16. AsyncCounts'
  BY <1>1, <1>2, <1>3, <1>4, <1>5, <1>6, ThreadFacts, KindsOfRequests
  DEF AsyncCounts, AsyncCount, Handles
<1>17. QueryCounts'
  BY <1>1, <1>2, <1>3, <1>4, <1>5, <1>6, ThreadFacts, KindsOfRequests DEF QueryCounts
<1>. QED  BY <1>7, <1>8, <1>9, <1>10, <1>11, <1>12, <1>13, <1>14, <1>15, <1>16, <1>17

LEMMA WakeIInv == ASSUME IInv, NEW r \in Requests, Wake(r) PROVE IInv'
<1> USE DEF IInv
<1>1. /\ event_true[r] /\ pc[r] = "wait" /\ pc' = [pc EXCEPT ![r] = "drop"]
      /\ UNCHANGED <<kind, seq_no, req_no, memory, ref_count, list, list_mutex, pass, wire,
                     executed, replies, processed, received, event_true, result, completions,
                              expired, hand, loaded, handle, answer>>
  BY DEF Wake, Goto, requestVars, listVars, netVars, doneVars
<1>2. \A t \in Threads : pc'[t] = IF t = r THEN "drop" ELSE pc[t]
  BY <1>1, ThreadFacts DEF TypeOK
<1>3. Sync' = Sync /\ Async' = Async /\ Queries' = Queries /\ Normal' = Normal
  BY <1>1, SameKinds
<1>4. \A x : Linked(x)' <=> Linked(x)
  BY <1>1 DEF Linked
<1>5. r \in Sync
  BY <1>1, KindCases DEF Positions
<1>6. TypeOK'
  BY <1>1, <1>2, <1>3, <1>4, <1>5, ThreadFacts, KindsOfRequests DEF TypeOK
<1>7. Positions'
  BY <1>1, <1>2, <1>3, <1>4, <1>5, ThreadFacts, KindsOfRequests DEF Positions
<1>8. Hands'
  BY <1>1, <1>2, <1>3, <1>4, <1>5, ThreadFacts, KindsOfRequests DEF Hands
<1>9. ShutDown'
  BY <1>1, <1>2, <1>3, <1>4, <1>5, ThreadFacts, KindsOfRequests DEF ShutDown
<1>10. ListSound'
  BY <1>1, <1>2, <1>3, <1>4, <1>5, ThreadFacts, KindsOfRequests DEF ListSound, Handles, Unseen
<1>11. OnePlace'
  BY <1>1, <1>2, <1>3, <1>4, <1>5, ThreadFacts, KindsOfRequests DEF OnePlace, Handles
<1>12. Told'
  BY <1>1, <1>2, <1>3, <1>4, <1>5, ThreadFacts, KindsOfRequests DEF Told, Handles, Unseen
<1>13. Woken'
  BY <1>1, <1>2, <1>3, <1>4, <1>5, ThreadFacts, KindsOfRequests DEF Woken, Handles, Unseen
<1>14. SyncCounts'
  BY <1>1, <1>2, <1>3, <1>4, <1>5, ThreadFacts, KindsOfRequests
  DEF SyncCounts, SyncCount, HandlerStored, CallerStored, Storing, Dropped, Handles
<1>15. AsyncCounts'
  BY <1>1, <1>2, <1>3, <1>4, <1>5, ThreadFacts, KindsOfRequests
  DEF AsyncCounts, AsyncCount, Handles
<1>16. QueryCounts'
  BY <1>1, <1>2, <1>3, <1>4, <1>5, ThreadFacts, KindsOfRequests DEF QueryCounts
<1>. QED  BY <1>6, <1>7, <1>8, <1>9, <1>10, <1>11, <1>12, <1>13, <1>14, <1>15, <1>16

LEMMA ReleaseIInv == ASSUME IInv, NEW q \in Requests, Release(q) PROVE IInv'
<1> USE DEF IInv
<1>1. /\ ~ list_mutex /\ pc[q] = "open" /\ pc' = [pc EXCEPT ![q] = "drop"] /\ list' = Without(q)
      /\ UNCHANGED <<kind, seq_no, req_no, memory, ref_count, list_mutex, pass, wire, executed,
                     replies, processed, received, event_true, result, completions, expired,
                              hand, loaded, handle, answer>>
  BY DEF Release, Goto, requestVars, listVars, netVars, doneVars
<1>2. \A t \in Threads : pc'[t] = IF t = q THEN "drop" ELSE pc[t]
  BY <1>1, ThreadFacts DEF TypeOK
<1>3. Sync' = Sync /\ Async' = Async /\ Queries' = Queries /\ Normal' = Normal
  BY <1>1, SameKinds
<1>4. q \in Queries /\ Linked(q)
  BY <1>1, KindCases DEF Positions, ListSound
<1>5. list' \in Seq(Requests) /\ Distinct(list') /\ \A x : Linked(x)' <=> Linked(x) /\ x # q
  <2>1. list \in Seq(Requests) /\ Distinct(list)
    BY DEF TypeOK, ListSound
  <2>2. \A x : Linked(x)' <=> In(list', x)
    BY DEF Linked, In
  <2>. QED  BY <1>1, <1>4, <2>1, <2>2, WithoutSound
<1>6. pass = <<>> /\ \A x : ~ In(pass, x)
  BY <1>1 DEF ListSound, In
<1>7. TypeOK'
  BY <1>1, <1>2, <1>3, <1>4, <1>5, <1>6, ThreadFacts, KindsOfRequests DEF TypeOK
<1>8. Positions'
  BY <1>1, <1>2, <1>3, <1>4, <1>5, <1>6, ThreadFacts, KindsOfRequests DEF Positions
<1>9. Hands'
  BY <1>1, <1>2, <1>3, <1>4, <1>5, <1>6, ThreadFacts, KindsOfRequests DEF Hands
<1>10. ShutDown'
  BY <1>1, <1>2, <1>3, <1>4, <1>5, <1>6, ThreadFacts, KindsOfRequests DEF ShutDown
<1>11. ListSound'
  BY <1>1, <1>2, <1>3, <1>4, <1>5, <1>6, ThreadFacts, KindsOfRequests
  DEF ListSound, Handles, Unseen
<1>12. OnePlace'
  BY <1>1, <1>2, <1>3, <1>4, <1>5, <1>6, ThreadFacts, KindsOfRequests DEF OnePlace, Handles
<1>13. Told'
  BY <1>1, <1>2, <1>3, <1>4, <1>5, <1>6, ThreadFacts, KindsOfRequests DEF Told, Handles, Unseen
<1>14. Woken'
  BY <1>1, <1>2, <1>3, <1>4, <1>5, <1>6, ThreadFacts, KindsOfRequests DEF Woken, Handles, Unseen
<1>15. SyncCounts'
  BY <1>1, <1>2, <1>3, <1>4, <1>5, <1>6, ThreadFacts, KindsOfRequests
  DEF SyncCounts, SyncCount, HandlerStored, CallerStored, Storing, Dropped, Handles
<1>16. AsyncCounts'
  BY <1>1, <1>2, <1>3, <1>4, <1>5, <1>6, ThreadFacts, KindsOfRequests
  DEF AsyncCounts, AsyncCount, Handles
<1>17. QueryCounts'
  BY <1>1, <1>2, <1>3, <1>4, <1>5, <1>6, ThreadFacts, KindsOfRequests DEF QueryCounts
<1>. QED  BY <1>7, <1>8, <1>9, <1>10, <1>11, <1>12, <1>13, <1>14, <1>15, <1>16, <1>17

--------------------------------------------------------------------------------
(* mb_req_unref.                                                            *)

LEMMA DropLoadIInv == ASSUME IInv, NEW t \in Threads, DropLoad(t) PROVE IInv'
<1> USE DEF IInv
<1>1. PICK d : d = Dropped(t)
  OBVIOUS
<1>2. /\ pc[t] = "drop" /\ pc' = [pc EXCEPT ![t] = "store"]
      /\ loaded' = [loaded EXCEPT ![t] = ref_count[d]]
      /\ UNCHANGED <<kind, seq_no, req_no, memory, ref_count, list, list_mutex, pass, wire,
                     executed, replies, processed, received, event_true, result, completions,
                              expired, hand, handle, answer>>
  BY <1>1 DEF DropLoad, Goto, requestVars, listVars, netVars, doneVars
<1>3. /\ d \in Requests
      /\ (t = d /\ t \notin Handlers /\ (t \in Sync \/ t \in Queries)) \/ (t \in Handlers /\ Handles(t, d) /\ d \in Normal)
  BY <1>1, <1>2, DroppedBy
<1>4. \A s \in Threads : pc'[s] = IF s = t THEN "store" ELSE pc[s]
  BY <1>2, ThreadFacts DEF TypeOK
<1>5. \A s \in Threads : loaded'[s] = IF s = t THEN ref_count[d] ELSE loaded[s]
  BY <1>2 DEF TypeOK
<1>6. Sync' = Sync /\ Async' = Async /\ Queries' = Queries /\ Normal' = Normal
  BY <1>2, SameKinds
<1>7. \A x : Linked(x)' <=> Linked(x)
  BY <1>2 DEF Linked
<1>8. TypeOK'
  BY <1>1, <1>2, <1>3, <1>4, <1>5, <1>6, <1>7, ThreadFacts, KindsOfRequests DEF TypeOK
<1>9. Positions'
  BY <1>1, <1>2, <1>3, <1>4, <1>5, <1>6, <1>7, ThreadFacts, KindsOfRequests DEF Positions
<1>10. Hands'
  BY <1>1, <1>2, <1>3, <1>4, <1>5, <1>6, <1>7, ThreadFacts, KindsOfRequests DEF Hands
<1>11. ShutDown'
  BY <1>1, <1>2, <1>3, <1>4, <1>5, <1>6, <1>7, ThreadFacts, KindsOfRequests DEF ShutDown
<1>12. ListSound'
  BY <1>1, <1>2, <1>3, <1>4, <1>5, <1>6, <1>7, ThreadFacts, KindsOfRequests
  DEF ListSound, Handles, Unseen
<1>13. OnePlace'
  BY <1>1, <1>2, <1>3, <1>4, <1>5, <1>6, <1>7, ThreadFacts, KindsOfRequests DEF OnePlace, Handles
<1>14. Told'
  BY <1>1, <1>2, <1>3, <1>4, <1>5, <1>6, <1>7, ThreadFacts, KindsOfRequests
  DEF Told, Handles, Unseen
<1>15. Woken'
  BY <1>1, <1>2, <1>3, <1>4, <1>5, <1>6, <1>7, ThreadFacts, KindsOfRequests
  DEF Woken, Handles, Unseen
<1>16. SyncCounts'
  BY <1>1, <1>2, <1>3, <1>4, <1>5, <1>6, <1>7, ThreadFacts, KindsOfRequests
  DEF SyncCounts, SyncCount, HandlerStored, CallerStored, Storing, Dropped, Handles
<1>17. AsyncCounts'
  BY <1>1, <1>2, <1>3, <1>4, <1>5, <1>6, <1>7, ThreadFacts, KindsOfRequests
  DEF AsyncCounts, AsyncCount, Handles
<1>18. QueryCounts'
  BY <1>1, <1>2, <1>3, <1>4, <1>5, <1>6, <1>7, ThreadFacts, KindsOfRequests DEF QueryCounts
<1>. QED  BY <1>8, <1>9, <1>10, <1>11, <1>12, <1>13, <1>14, <1>15, <1>16, <1>17, <1>18

LEMMA DropStoreIInv == ASSUME IInv, NEW t \in Threads, DropStore(t) PROVE IInv'
<1> USE DEF IInv
<1>1. PICK d : d = Dropped(t)
  OBVIOUS
<1>2. /\ pc[t] = "store" /\ pc' = [pc EXCEPT ![t] = "test"]
      /\ ref_count' = [ref_count EXCEPT ![d] = loaded[t] - 1] /\ loaded' = [loaded EXCEPT ![t] = 0]
      /\ UNCHANGED <<kind, seq_no, req_no, memory, list, list_mutex, pass, wire, executed,
                     replies, processed, received, event_true, result, completions, expired,
                              hand, handle, answer>>
  BY <1>1 DEF DropStore, Goto, requestVars, listVars, netVars, doneVars
<1>3. /\ d \in Requests
      /\ (t = d /\ t \notin Handlers /\ (t \in Sync \/ t \in Queries)) \/ (t \in Handlers /\ Handles(t, d) /\ d \in Normal)
  BY <1>1, <1>2, DroppedBy
<1>4. \A s \in Threads : pc'[s] = IF s = t THEN "test" ELSE pc[s]
  BY <1>2, ThreadFacts DEF TypeOK
<1>5. \A s \in Threads : loaded'[s] = IF s = t THEN 0 ELSE loaded[s]
  BY <1>2 DEF TypeOK
<1>6. \A x \in Requests : ref_count'[x] = IF x = d THEN loaded[t] - 1 ELSE ref_count[x]
  BY <1>2 DEF TypeOK
<1>7. Sync' = Sync /\ Async' = Async /\ Queries' = Queries /\ Normal' = Normal
  BY <1>2, SameKinds
<1>8. \A x : Linked(x)' <=> Linked(x)
  BY <1>2 DEF Linked
<1>9. loaded[t] \in {1, 2} /\ (d \in Async \/ d \in Queries => loaded[t] = 1)
  <2>1. d \in Async => loaded[t] = 1
    BY <1>2, <1>3, KindsOfRequests DEF AsyncCounts, AsyncCount
  <2>2. d \in Queries => loaded[t] = 1
    BY <1>2, <1>3, KindsOfRequests DEF QueryCounts
  <2>3. d \in Sync => loaded[t] \in {1, 2}
    <3>1. Storing(t, d)
      BY <1>1, <1>2 DEF Storing
    <3>2. d \in Sync => pc[d] # "new"
      BY <1>2, <1>3, KindsOfRequests DEF ListSound, Unseen
    <3>. QED  BY <3>1, <3>2 DEF SyncCounts, SyncCount
  <2>. QED  BY <1>3, <2>1, <2>2, <2>3, KindsOfRequests
<1>10. TypeOK'
  <2>1. loaded[t] - 1 \in Nat
    BY <1>9
  <2>2. ref_count' \in [Requests -> Nat] /\ loaded' \in [Threads -> Nat]
    BY <1>2, <2>1 DEF TypeOK
  <2>3. pc' \in [Threads -> {"idle", "new", "add", "send", "wait", "open", "done", "drop", "store",
                         "test", "select", "callback", "called", "sleep", "scan", "exited"}]
    BY <1>2 DEF TypeOK
  <2>. QED  BY <1>2, <2>2, <2>3 DEF TypeOK
<1>11. Positions'
  BY <1>1, <1>2, <1>3, <1>4, <1>5, <1>6, <1>7, <1>8, <1>9, ThreadFacts, KindsOfRequests
  DEF Positions
<1>12. Hands'
  BY <1>1, <1>2, <1>3, <1>4, <1>5, <1>6, <1>7, <1>8, <1>9, ThreadFacts, KindsOfRequests DEF Hands
<1>13. ShutDown'
  BY <1>1, <1>2, <1>3, <1>4, <1>5, <1>6, <1>7, <1>8, <1>9, ThreadFacts, KindsOfRequests
  DEF ShutDown
<1>14. ListSound'
  BY <1>1, <1>2, <1>3, <1>4, <1>5, <1>6, <1>7, <1>8, <1>9, ThreadFacts, KindsOfRequests
  DEF ListSound, Handles, Unseen
<1>15. OnePlace'
  BY <1>1, <1>2, <1>3, <1>4, <1>5, <1>6, <1>7, <1>8, <1>9, ThreadFacts, KindsOfRequests
  DEF OnePlace, Handles
<1>16. Told'
  BY <1>1, <1>2, <1>3, <1>4, <1>5, <1>6, <1>7, <1>8, <1>9, ThreadFacts, KindsOfRequests
  DEF Told, Handles, Unseen
<1>17. Woken'
  BY <1>1, <1>2, <1>3, <1>4, <1>5, <1>6, <1>7, <1>8, <1>9, ThreadFacts, KindsOfRequests
  DEF Woken, Handles, Unseen
<1>18. SyncCounts'
  <2> SUFFICES ASSUME NEW r \in Sync, pc[r] # "new", SyncCount(r) PROVE SyncCount(r)'
    BY <1>2, <1>4, <1>7, KindsOfRequests, ThreadFacts DEF SyncCounts
  <2>1. CASE r # d
    <3>1. /\ HandlerStored(r)' <=> HandlerStored(r)
          /\ CallerStored(r)' <=> CallerStored(r)
      BY <1>2, <1>3, <1>4, <2>1, KindsOfRequests, ThreadFacts
      DEF HandlerStored, CallerStored, Handles
    <3>2. \A s \in Threads : Storing(s, r)' => Storing(s, r) /\ loaded'[s] = loaded[s]
      BY <1>1, <1>2, <1>4, <1>5, <2>1 DEF Storing, Dropped
    <3>3. ref_count'[r] = ref_count[r] /\ memory'[r] = memory[r]
      BY <1>2, <1>6, <2>1, KindsOfRequests
    <3>. QED  BY <3>1, <3>2, <3>3 DEF SyncCount
  <2>2. CASE r = d
    <3>1. Storing(t, r) /\ loaded[t] \in {1, 2} /\ ref_count'[r] = loaded[t] - 1
      BY <1>1, <1>2, <1>6, <1>9, <2>2, KindsOfRequests DEF Storing
    <3>2. \A s \in Threads : Storing(s, r)' => Storing(s, r) /\ loaded'[s] = loaded[s] /\ s # t
      BY <1>1, <1>2, <1>4, <1>5 DEF Storing, Dropped
    <3>3. CASE t \in Handlers
      <4>1. Handles(t, r) /\ \A h \in Handlers : Handles(h, r) => h = t
        BY <1>3, <2>2, <3>3, KindsOfRequests, ThreadFacts DEF OnePlace, Handles
      <4>2. ~ HandlerStored(r) /\ HandlerStored(r)'
        BY <1>2, <1>4, <3>3, <4>1, KindsOfRequests, ThreadFacts DEF HandlerStored, Handles, Woken
      <4>3. CallerStored(r)' <=> CallerStored(r)
        BY <1>4, <3>3, KindsOfRequests, ThreadFacts DEF CallerStored
      <4>. QED  BY <1>2, <3>1, <3>2, <4>2, <4>3 DEF SyncCount
    <3>4. CASE t \notin Handlers
      <4>1. t = r /\ ~ CallerStored(r) /\ CallerStored(r)'
        BY <1>2, <1>3, <1>4, <2>2, <3>4 DEF CallerStored
      <4>2. HandlerStored(r)' <=> HandlerStored(r)
        BY <1>2, <1>4, <3>4, ThreadFacts DEF HandlerStored, Handles
      <4>. QED  BY <1>2, <3>1, <3>2, <4>1, <4>2 DEF SyncCount
    <3>. QED  BY <3>3, <3>4
  <2>. QED  BY <2>1, <2>2
<1>19. AsyncCounts'
  <2> SUFFICES ASSUME NEW r \in Async, AsyncCount(r) PROVE AsyncCount(r)'
    BY <1>7 DEF AsyncCounts
  <2>1. pc'[r] = pc[r] /\ r \notin Handlers /\ r # t /\ r \in Requests
    BY <1>3, <1>4, KindsOfRequests, ThreadFacts
  <2>2. CASE r # d
    <3>1. \A h \in Handlers : Handles(h, r)' <=> Handles(h, r)
      BY <1>2 DEF Handles
    <3>2. \A h \in Handlers : Handles(h, r) => pc'[h] = pc[h] /\ loaded'[h] = loaded[h]
      BY <1>3, <1>4, <1>5, <2>2, ThreadFacts DEF Handles
    <3>. QED  BY <1>2, <1>6, <1>8, <2>1, <2>2, <3>1, <3>2 DEF AsyncCount
  <2>3. CASE r = d
    <3>1. t \in Handlers /\ Handles(t, r) /\ \A h \in Handlers : Handles(h, r)' => h = t
      BY <1>2, <1>3, <2>1, <2>3, KindsOfRequests, ThreadFacts DEF OnePlace, Handles
    <3>2. ~ Linked(r) /\ pc[r] # "add"
      BY <3>1, <2>1, KindsOfRequests DEF OnePlace, ListSound, Unseen
    <3>3. loaded[t] = 1 /\ ref_count'[r] = 0 /\ memory'[r] = "live" /\ pc'[t] = "test"
      BY <1>2, <1>4, <1>6, <1>9, <2>1, <2>3, <3>1 DEF AsyncCount
    <3>. QED  BY <1>2, <1>8, <2>1, <3>1, <3>2, <3>3 DEF AsyncCount, Handles
  <2>. QED  BY <2>2, <2>3
<1>20. QueryCounts'
  BY <1>1, <1>2, <1>3, <1>4, <1>5, <1>6, <1>7, <1>8, <1>9, ThreadFacts, KindsOfRequests
  DEF QueryCounts
<1>. QED  BY <1>10, <1>11, <1>12, <1>13, <1>14, <1>15, <1>16, <1>17, <1>18, <1>19, <1>20

LEMMA DropTestIInv == ASSUME IInv, NEW t \in Threads, DropTest(t) PROVE IInv'
<1> USE DEF IInv
<1>1. PICK d : d = Dropped(t)
  OBVIOUS
<1>2. PICK to : /\ pc[t] = "test" /\ pc' = [pc EXCEPT ![t] = to]
                /\ t = Receiver => to \in {"select", "exited"}
                /\ t = Timer => to = "scan"
                /\ t \notin Handlers => to = "done"
                /\ hand' = IF t \in Handlers THEN [hand EXCEPT ![t] = NoRequest] ELSE hand
                /\ memory' = IF ref_count[d] = 0 THEN [memory EXCEPT ![d] = "freed"] ELSE memory
                /\ UNCHANGED <<kind, seq_no, req_no, ref_count, list, list_mutex, pass, wire,
                               executed, replies, processed, received, event_true, result,
                                        completions, expired, loaded, handle, answer>>
  BY <1>1, ThreadFacts
  DEF DropTest, Goto, requestVars, listVars, netVars, doneVars, FreeIfZero, AfterMessage
<1>3. /\ d \in Requests
      /\ (t = d /\ t \notin Handlers /\ (t \in Sync \/ t \in Queries)) \/ (t \in Handlers /\ Handles(t, d) /\ d \in Normal)
  BY <1>1, <1>2, DroppedBy
<1>4. \A s \in Threads : pc'[s] = IF s = t THEN to ELSE pc[s]
  BY <1>2, ThreadFacts DEF TypeOK
<1>5. \A h \in Handlers : hand'[h] = IF h = t THEN NoRequest ELSE hand[h]
  BY <1>2 DEF TypeOK
<1>6. \A x \in Requests : memory'[x] = IF x = d /\ ref_count[d] = 0 THEN "freed" ELSE memory[x]
  BY <1>2 DEF TypeOK
<1>7. Sync' = Sync /\ Async' = Async /\ Queries' = Queries /\ Normal' = Normal
  BY <1>2, SameKinds
<1>8. \A x : Linked(x)' <=> Linked(x)
  BY <1>2 DEF Linked
<1>9. TypeOK'
  BY <1>1, <1>2, <1>3, <1>4, <1>5, <1>6, <1>7, <1>8, ThreadFacts, KindsOfRequests DEF TypeOK
<1>10. Positions'
  BY <1>1, <1>2, <1>3, <1>4, <1>5, <1>6, <1>7, <1>8, ThreadFacts, KindsOfRequests DEF Positions
<1>11. Hands'
  BY <1>1, <1>2, <1>3, <1>4, <1>5, <1>6, <1>7, <1>8, ThreadFacts, KindsOfRequests DEF Hands
<1>12. ShutDown'
  BY <1>1, <1>2, <1>3, <1>4, <1>5, <1>6, <1>7, <1>8, ThreadFacts, KindsOfRequests DEF ShutDown
<1>13. ListSound'
  BY <1>1, <1>2, <1>3, <1>4, <1>5, <1>6, <1>7, <1>8, ThreadFacts, KindsOfRequests
  DEF ListSound, Handles, Unseen
<1>14. OnePlace'
  BY <1>1, <1>2, <1>3, <1>4, <1>5, <1>6, <1>7, <1>8, ThreadFacts, KindsOfRequests
  DEF OnePlace, Handles
<1>15. Told'
  BY <1>1, <1>2, <1>3, <1>4, <1>5, <1>6, <1>7, <1>8, ThreadFacts, KindsOfRequests
  DEF Told, Handles, Unseen
<1>16. Woken'
  BY <1>1, <1>2, <1>3, <1>4, <1>5, <1>6, <1>7, <1>8, ThreadFacts, KindsOfRequests
  DEF Woken, Handles, Unseen
<1>17. SyncCounts'
  BY <1>1, <1>2, <1>3, <1>4, <1>5, <1>6, <1>7, <1>8, ThreadFacts, KindsOfRequests
  DEF SyncCounts, SyncCount, HandlerStored, CallerStored, Storing, Dropped, Handles
<1>18. AsyncCounts'
  <2> SUFFICES ASSUME NEW r \in Async, AsyncCount(r) PROVE AsyncCount(r)'
    BY <1>7 DEF AsyncCounts
  <2>1. pc'[r] = pc[r] /\ r \notin Handlers /\ r # t /\ r \in Requests
    BY <1>3, <1>4, KindsOfRequests, ThreadFacts
  <2>2. CASE r # d
    <3>1. \A h \in Handlers : (Handles(h, r)' <=> Handles(h, r)) /\ (Handles(h, r) => h # t)
      BY <1>3, <1>5, <2>1, <2>2, ThreadFacts DEF Handles
    <3>2. \A h \in Handlers : Handles(h, r) => pc'[h] = pc[h]
      BY <1>4, <3>1, ThreadFacts
    <3>. QED  BY <1>2, <1>6, <1>8, <2>1, <2>2, <3>1, <3>2 DEF AsyncCount
  <2>3. CASE r = d
    <3>1. t \in Handlers /\ Handles(t, r) /\ \A h \in Handlers : ~ Handles(h, r)'
      BY <1>2, <1>3, <1>5, <2>1, <2>3, KindsOfRequests, ThreadFacts DEF OnePlace, Handles
    <3>2. ~ Linked(r) /\ pc[r] # "add"
      BY <3>1, <2>1, KindsOfRequests DEF OnePlace, ListSound, Unseen
    <3>3. memory'[r] = "freed"
      BY <1>2, <1>6, <2>1, <2>3, <3>1 DEF AsyncCount
    <3>. QED  BY <1>8, <2>1, <3>1, <3>2, <3>3 DEF AsyncCount
  <2>. QED  BY <2>2, <2>3
<1>19. QueryCounts'
  BY <1>1, <1>2, <1>3, <1>4, <1>5, <1>6, <1>7, <1>8, ThreadFacts, KindsOfRequests DEF QueryCounts
<1>. QED  BY <1>9, <1>10, <1>11, <1>12, <1>13, <1>14, <1>15, <1>16, <1>17, <1>18, <1>19

--------------------------------------------------------------------------------
(* The handlers.                                                             *)

\* A reply for which there is a request,
LEMMA AnswerIInv == ASSUME IInv, NEW m \in replies, NEW r \in Answered(m.no), received < MaxReceived,
         received' = received + 1, ~ list_mutex, Goto(Receiver, "select", "callback"),
         hand' = [hand EXCEPT ![Receiver] = r], answer' = m.error,
         list' = (IF r \in Queries THEN list ELSE Without(r)),
         UNCHANGED <<requestVars, list_mutex, pass, wire, executed, replies, processed, doneVars,
                     expired, loaded, handle>> PROVE IInv'
<1> USE DEF IInv
<1>1. /\ pc[Receiver] = "select" /\ pc' = [pc EXCEPT ![Receiver] = "callback"]
      /\ hand' = [hand EXCEPT ![Receiver] = r] /\ answer' = m.error
      /\ ~ list_mutex /\ list' = IF r \in Queries THEN list ELSE Without(r)
      /\ UNCHANGED <<kind, seq_no, req_no, memory, ref_count, list_mutex, pass, wire, executed,
                     replies, processed, event_true, result, completions, expired, loaded, handle>>
  BY DEF Goto, requestVars, doneVars
<1>2. \A t \in Threads : pc'[t] = IF t = Receiver THEN "callback" ELSE pc[t]
  BY <1>1, ThreadFacts DEF TypeOK
<1>3. Sync' = Sync /\ Async' = Async /\ Queries' = Queries /\ Normal' = Normal
  BY <1>1, SameKinds
<1>4. pass = <<>> /\ \A x : ~ In(pass, x)
  BY <1>1 DEF ListSound, In
<1>5. m.no \in Nat /\ m.error \in {"ok", "failed"}
  BY DEF TypeOK, Datagram
<1>6. received' \in 0 .. MaxReceived
  BY MessageBusAssumption DEF TypeOK
<1>7. handle # "deleted"
  BY <1>1, ThreadFacts DEF ShutDown
<1>8. r \in Requests /\ Linked(r) /\ req_no[r] = m.no /\ ~ Unseen(r)
  BY AnsweredLinked DEF TypeOK, ListSound
<1>9. list' \in Seq(Requests) /\ Distinct(list') /\ \A x : Linked(x)' <=> Linked(x) /\ (x = r => r \in Queries)
  <2>1. list \in Seq(Requests) /\ Distinct(list)
    BY DEF TypeOK, ListSound
  <2>2. \A x : Linked(x)' <=> In(list', x)
    BY DEF Linked, In
  <2>3. CASE r \in Queries
    BY <1>1, <2>1, <2>3 DEF Linked
  <2>4. CASE r \notin Queries
    BY <1>1, <1>8, <2>1, <2>2, <2>4, WithoutSound
  <2>. QED  BY <2>3, <2>4
<1>10. \A h \in Handlers : hand'[h] = IF h = Receiver THEN r ELSE hand[h]
  BY <1>1 DEF TypeOK
<1>11. TypeOK'
  <2>1. pc' \in [Threads -> {"idle", "new", "add", "send", "wait", "open", "done", "drop", "store",
                         "test", "select", "callback", "called", "sleep", "scan", "exited"}]
    BY <1>1 DEF TypeOK
  <2>2. hand' \in [Handlers -> Requests \cup {NoRequest}] /\ answer' \in {"ok", "failed"}
    BY <1>1, <1>5, <1>8 DEF TypeOK
  <2>. QED  BY <1>1, <1>6, <1>9, <2>1, <2>2 DEF TypeOK
<1>12. Positions'
  BY <1>1, <1>2, <1>3, <1>4, <1>5, <1>6, <1>7, <1>8, <1>9, <1>10, ThreadFacts, KindsOfRequests
  DEF Positions
<1>13. Hands'
  BY <1>1, <1>2, <1>3, <1>4, <1>5, <1>6, <1>7, <1>8, <1>9, <1>10, ThreadFacts, KindsOfRequests
  DEF Hands
<1>14. ShutDown'
  BY <1>1, <1>2, <1>3, <1>4, <1>5, <1>6, <1>7, <1>8, <1>9, <1>10, ThreadFacts, KindsOfRequests
  DEF ShutDown
<1>15. ListSound'
  BY <1>1, <1>2, <1>3, <1>4, <1>5, <1>6, <1>7, <1>8, <1>9, <1>10, ThreadFacts, KindsOfRequests
  DEF ListSound, Handles, Unseen
<1>16. OnePlace'
  BY <1>1, <1>2, <1>3, <1>4, <1>5, <1>6, <1>7, <1>8, <1>9, <1>10, ThreadFacts, KindsOfRequests
  DEF OnePlace, Handles
<1>17. Told'
  BY <1>1, <1>2, <1>3, <1>4, <1>5, <1>6, <1>7, <1>8, <1>9, <1>10, ThreadFacts, KindsOfRequests
  DEF Told, Handles, Unseen
<1>18. Woken'
  BY <1>1, <1>2, <1>3, <1>4, <1>5, <1>6, <1>7, <1>8, <1>9, <1>10, ThreadFacts, KindsOfRequests
  DEF Woken, Handles, Unseen
<1>19. SyncCounts'
  <2> SUFFICES ASSUME NEW x \in Sync, pc[x] # "new", SyncCount(x) PROVE SyncCount(x)'
    BY <1>2, <1>3, KindsOfRequests, ThreadFacts DEF SyncCounts
  <2>1. (HandlerStored(x)' <=> HandlerStored(x)) /\ (CallerStored(x)' <=> CallerStored(x))
    <3>1. CASE x = r
      BY <1>1, <1>2, <1>8, <1>10, <3>1, KindsOfRequests, ThreadFacts
      DEF HandlerStored, CallerStored, Handles, Woken
    <3>2. CASE x # r
      BY <1>1, <1>2, <1>8, <1>10, <3>2, KindsOfRequests, ThreadFacts
      DEF HandlerStored, CallerStored, Handles, Hands
    <3>. QED  BY <3>1, <3>2
  <2>2. \A t \in Threads : Storing(t, x)' => Storing(t, x)
    BY <1>1, <1>2, <1>10 DEF Storing, Dropped
  <2>. QED  BY <1>1, <2>1, <2>2 DEF SyncCount
<1>20. AsyncCounts'
  <2> SUFFICES ASSUME NEW x \in Async, AsyncCount(x) PROVE AsyncCount(x)'
    BY <1>3 DEF AsyncCounts
  <2>1. pc'[x] = pc[x] /\ x \in Requests
    BY <1>2, KindsOfRequests, ThreadFacts
  <2>2. CASE x # r
    <3>1. \A h \in Handlers : Handles(h, x)' => Handles(h, x) /\ h # Receiver
      BY <1>1, <1>10, <2>2, KindsOfRequests, ThreadFacts DEF Handles, Hands
    <3>2. \A h \in Handlers : Handles(h, x) => Handles(h, x)'
      BY <1>1, <1>10, <2>2, KindsOfRequests, ThreadFacts DEF Handles, Hands
    <3>3. \A h \in Handlers : Handles(h, x)' => pc'[h] = pc[h]
      BY <1>2, <3>1, ThreadFacts
    <3>. QED  BY <1>1, <1>9, <2>1, <2>2, <3>1, <3>2, <3>3 DEF AsyncCount
  <2>3. CASE x = r
    <3>1. ~ Linked(x)' /\ pc[x] # "add" /\ Handles(Receiver, x)' /\ pc'[Receiver] = "callback"
      BY <1>2, <1>8, <1>9, <1>10, <2>3, KindsOfRequests, ThreadFacts DEF Unseen, Handles
    <3>2. \A h \in Handlers : Handles(h, x)' => h = Receiver
      BY <1>8, <1>10, <2>3, KindsOfRequests DEF OnePlace, Handles
    <3>3. memory'[x] = "live" /\ ref_count'[x] = 1
      BY <1>1, <1>8, <2>3 DEF AsyncCount
    <3>. QED  BY <2>1, <3>1, <3>2, <3>3, ThreadFacts DEF AsyncCount
  <2>. QED  BY <2>2, <2>3
<1>21. QueryCounts'
  BY <1>1, <1>2, <1>3, ThreadFacts, KindsOfRequests DEF QueryCounts
<1>. QED  BY <1>11, <1>12, <1>13, <1>14, <1>15, <1>16, <1>17, <1>18, <1>19, <1>20, <1>21

\* ... and one that is ignored.
LEMMA IgnoreIInv == ASSUME IInv, NEW m \in replies, received < MaxReceived, received' = received + 1,
         Goto(Receiver, "select", AfterMessage), UNCHANGED <<hand, list, answer>>,
         UNCHANGED <<requestVars, list_mutex, pass, wire, executed, replies, processed, doneVars,
                     expired, loaded, handle>> PROVE IInv'
<1> USE DEF IInv
<1>1. PICK to \in {"select", "exited"} :
        /\ pc[Receiver] = "select" /\ pc' = [pc EXCEPT ![Receiver] = to]
        /\ UNCHANGED <<hand, list, answer>>
        /\ UNCHANGED <<kind, seq_no, req_no, memory, ref_count, list_mutex, pass, wire, executed,
                       replies, processed, event_true, result, completions, expired, loaded,
                                handle>>
  BY DEF AfterMessage, Goto, requestVars, doneVars
<1>2. \A t \in Threads : pc'[t] = IF t = Receiver THEN to ELSE pc[t]
  BY <1>1, ThreadFacts DEF TypeOK
<1>3. Sync' = Sync /\ Async' = Async /\ Queries' = Queries /\ Normal' = Normal
  BY <1>1, SameKinds
<1>4. \A x : Linked(x)' <=> Linked(x)
  BY <1>1 DEF Linked
<1>5. received' \in 0 .. MaxReceived
  BY MessageBusAssumption DEF TypeOK
<1>6. handle # "deleted"
  BY <1>1, ThreadFacts DEF ShutDown
<1>7. TypeOK'
  BY <1>1, <1>2, <1>3, <1>4, <1>5, <1>6, ThreadFacts, KindsOfRequests DEF TypeOK
<1>8. Positions'
  BY <1>1, <1>2, <1>3, <1>4, <1>5, <1>6, ThreadFacts, KindsOfRequests DEF Positions
<1>9. Hands'
  BY <1>1, <1>2, <1>3, <1>4, <1>5, <1>6, ThreadFacts, KindsOfRequests DEF Hands
<1>10. ShutDown'
  BY <1>1, <1>2, <1>3, <1>4, <1>5, <1>6, ThreadFacts, KindsOfRequests DEF ShutDown
<1>11. ListSound'
  BY <1>1, <1>2, <1>3, <1>4, <1>5, <1>6, ThreadFacts, KindsOfRequests
  DEF ListSound, Handles, Unseen
<1>12. OnePlace'
  BY <1>1, <1>2, <1>3, <1>4, <1>5, <1>6, ThreadFacts, KindsOfRequests DEF OnePlace, Handles
<1>13. Told'
  BY <1>1, <1>2, <1>3, <1>4, <1>5, <1>6, ThreadFacts, KindsOfRequests DEF Told, Handles, Unseen
<1>14. Woken'
  BY <1>1, <1>2, <1>3, <1>4, <1>5, <1>6, ThreadFacts, KindsOfRequests DEF Woken, Handles, Unseen
<1>15. SyncCounts'
  BY <1>1, <1>2, <1>3, <1>4, <1>5, <1>6, ThreadFacts, KindsOfRequests
  DEF SyncCounts, SyncCount, HandlerStored, CallerStored, Storing, Dropped, Handles
<1>16. AsyncCounts'
  BY <1>1, <1>2, <1>3, <1>4, <1>5, <1>6, ThreadFacts, KindsOfRequests
  DEF AsyncCounts, AsyncCount, Handles
<1>17. QueryCounts'
  BY <1>1, <1>2, <1>3, <1>4, <1>5, <1>6, ThreadFacts, KindsOfRequests DEF QueryCounts
<1>. QED  BY <1>7, <1>8, <1>9, <1>10, <1>11, <1>12, <1>13, <1>14, <1>15, <1>16, <1>17

LEMMA ReceiveIInv == ASSUME IInv, NEW m \in replies, Receive(m) PROVE IInv'
BY AnswerIInv, IgnoreIInv DEF Receive

LEMMA CallbackIInv == ASSUME IInv, Callback PROVE IInv'
<1> USE DEF IInv
<1>1. PICK r : r = hand[Receiver]
  OBVIOUS
<1>2. /\ pc[Receiver] = "callback" /\ pc' = [pc EXCEPT ![Receiver] = "called"]
      /\ result' = [result EXCEPT ![r] = answer]
      /\ completions' = [completions EXCEPT ![r] = completions[r] + 1] /\ answer' = "ok"
      /\ UNCHANGED <<kind, seq_no, req_no, memory, ref_count, list, list_mutex, pass, wire,
                     executed, replies, processed, received, event_true, expired, hand, loaded,
                              handle>>
  BY <1>1 DEF Callback, Complete, Goto, requestVars, listVars, netVars
<1>3. \A t \in Threads : pc'[t] = IF t = Receiver THEN "called" ELSE pc[t]
  BY <1>2, ThreadFacts DEF TypeOK
<1>4. Sync' = Sync /\ Async' = Async /\ Queries' = Queries /\ Normal' = Normal
  BY <1>2, SameKinds
<1>5. \A x : Linked(x)' <=> Linked(x)
  BY <1>2 DEF Linked
<1>6. r \in Requests /\ Handles(Receiver, r) /\ ~ Unseen(r)
  BY <1>1, <1>2, ThreadFacts DEF Hands, Handles, TypeOK, ListSound
<1>7. r \in Normal => completions[r] = 0 /\ ~ Linked(r) /\ ~ Handles(Timer, r) /\ ~ event_true[r]
  BY <1>2, <1>6, ThreadFacts DEF Told, OnePlace, Woken
<1>8. \A x \in Requests : /\ completions'[x] = IF x = r THEN completions[r] + 1 ELSE completions[x]
                          /\ result'[x] = IF x = r THEN answer ELSE result[x]
  BY <1>2 DEF TypeOK
<1>9. TypeOK'
  <2>1. pc' \in [Threads -> {"idle", "new", "add", "send", "wait", "open", "done", "drop", "store",
                         "test", "select", "callback", "called", "sleep", "scan", "exited"}]
    BY <1>2 DEF TypeOK
  <2>2. completions' \in [Requests -> Nat]
    BY <1>2, <1>6 DEF TypeOK
  <2>3. result' \in [Requests -> {"none", "ok", "failed", "timeout"}]
    BY <1>2, <1>6 DEF TypeOK
  <2>. QED  BY <1>2, <2>1, <2>2, <2>3 DEF TypeOK
<1>10. Positions'
  BY <1>1, <1>2, <1>3, <1>4, <1>5, <1>6, <1>7, <1>8, ThreadFacts, KindsOfRequests DEF Positions
<1>11. Hands'
  BY <1>1, <1>2, <1>3, <1>4, <1>5, <1>6, <1>7, <1>8, ThreadFacts, KindsOfRequests DEF Hands
<1>12. ShutDown'
  BY <1>1, <1>2, <1>3, <1>4, <1>5, <1>6, <1>7, <1>8, ThreadFacts, KindsOfRequests DEF ShutDown
<1>13. ListSound'
  BY <1>1, <1>2, <1>3, <1>4, <1>5, <1>6, <1>7, <1>8, ThreadFacts, KindsOfRequests
  DEF ListSound, Handles, Unseen
<1>14. OnePlace'
  BY <1>1, <1>2, <1>3, <1>4, <1>5, <1>6, <1>7, <1>8, ThreadFacts, KindsOfRequests
  DEF OnePlace, Handles
<1>15. Told'
  BY <1>1, <1>2, <1>3, <1>4, <1>5, <1>6, <1>7, <1>8, ThreadFacts, KindsOfRequests
  DEF Told, Handles, Unseen
<1>16. Woken'
  BY <1>1, <1>2, <1>3, <1>4, <1>5, <1>6, <1>7, <1>8, ThreadFacts, KindsOfRequests
  DEF Woken, Handles, Unseen
<1>17. SyncCounts'
  BY <1>1, <1>2, <1>3, <1>4, <1>5, <1>6, <1>7, <1>8, ThreadFacts, KindsOfRequests
  DEF SyncCounts, SyncCount, HandlerStored, CallerStored, Storing, Dropped, Handles
<1>18. AsyncCounts'
  BY <1>1, <1>2, <1>3, <1>4, <1>5, <1>6, <1>7, <1>8, ThreadFacts, KindsOfRequests
  DEF AsyncCounts, AsyncCount, Handles
<1>19. QueryCounts'
  BY <1>1, <1>2, <1>3, <1>4, <1>5, <1>6, <1>7, <1>8, ThreadFacts, KindsOfRequests DEF QueryCounts
<1>. QED  BY <1>9, <1>10, <1>11, <1>12, <1>13, <1>14, <1>15, <1>16, <1>17, <1>18, <1>19

LEMMA QueryCalledIInv == ASSUME IInv, QueryCalled PROVE IInv'
<1> USE DEF IInv
<1>1. PICK to \in {"select", "exited"} :
        /\ pc[Receiver] = "called" /\ pc' = [pc EXCEPT ![Receiver] = to]
        /\ hand[Receiver] \in Queries /\ hand' = [hand EXCEPT ![Receiver] = NoRequest]
        /\ UNCHANGED <<kind, seq_no, req_no, memory, ref_count, list, list_mutex, pass, wire,
                       executed, replies, processed, received, event_true, result, completions,
                                expired, loaded, handle, answer>>
  BY DEF QueryCalled, Goto, requestVars, listVars, netVars, doneVars, AfterMessage
<1>2. \A t \in Threads : pc'[t] = IF t = Receiver THEN to ELSE pc[t]
  BY <1>1, ThreadFacts DEF TypeOK
<1>3. Sync' = Sync /\ Async' = Async /\ Queries' = Queries /\ Normal' = Normal
  BY <1>1, SameKinds
<1>4. \A x : Linked(x)' <=> Linked(x)
  BY <1>1 DEF Linked
<1>5. \A h \in Handlers : hand'[h] = IF h = Receiver THEN NoRequest ELSE hand[h]
  BY <1>1 DEF TypeOK
<1>6. TypeOK'
  BY <1>1, <1>2, <1>3, <1>4, <1>5, ThreadFacts, KindsOfRequests DEF TypeOK
<1>7. Positions'
  BY <1>1, <1>2, <1>3, <1>4, <1>5, ThreadFacts, KindsOfRequests DEF Positions
<1>8. Hands'
  BY <1>1, <1>2, <1>3, <1>4, <1>5, ThreadFacts, KindsOfRequests DEF Hands
<1>9. ShutDown'
  BY <1>1, <1>2, <1>3, <1>4, <1>5, ThreadFacts, KindsOfRequests DEF ShutDown
<1>10. ListSound'
  BY <1>1, <1>2, <1>3, <1>4, <1>5, ThreadFacts, KindsOfRequests DEF ListSound, Handles, Unseen
<1>11. OnePlace'
  BY <1>1, <1>2, <1>3, <1>4, <1>5, ThreadFacts, KindsOfRequests DEF OnePlace, Handles
<1>12. Told'
  BY <1>1, <1>2, <1>3, <1>4, <1>5, ThreadFacts, KindsOfRequests DEF Told, Handles, Unseen
<1>13. Woken'
  BY <1>1, <1>2, <1>3, <1>4, <1>5, ThreadFacts, KindsOfRequests DEF Woken, Handles, Unseen
<1>14. SyncCounts'
  BY <1>1, <1>2, <1>3, <1>4, <1>5, ThreadFacts, KindsOfRequests
  DEF SyncCounts, SyncCount, HandlerStored, CallerStored, Storing, Dropped, Handles
<1>15. AsyncCounts'
  BY <1>1, <1>2, <1>3, <1>4, <1>5, ThreadFacts, KindsOfRequests
  DEF AsyncCounts, AsyncCount, Handles
<1>16. QueryCounts'
  BY <1>1, <1>2, <1>3, <1>4, <1>5, ThreadFacts, KindsOfRequests DEF QueryCounts
<1>. QED  BY <1>6, <1>7, <1>8, <1>9, <1>10, <1>11, <1>12, <1>13, <1>14, <1>15, <1>16

LEMMA SignalIInv == ASSUME IInv, NEW h \in Handlers, Signal(h) PROVE IInv'
<1> USE DEF IInv
<1>1. PICK r : r = hand[h]
  OBVIOUS
<1>2. /\ r \in Normal /\ pc[h] = "called" /\ pc' = [pc EXCEPT ![h] = "drop"]
      /\ event_true' = [event_true EXCEPT ![r] = TRUE]
      /\ UNCHANGED <<kind, seq_no, req_no, memory, ref_count, list, list_mutex, pass, wire,
                     executed, replies, processed, received, result, completions, expired, hand,
                              loaded, handle, answer>>
  BY <1>1 DEF Signal, Goto, requestVars, listVars, netVars
<1>3. \A t \in Threads : pc'[t] = IF t = h THEN "drop" ELSE pc[t]
  BY <1>2, ThreadFacts DEF TypeOK
<1>4. Sync' = Sync /\ Async' = Async /\ Queries' = Queries /\ Normal' = Normal
  BY <1>2, SameKinds
<1>5. \A x : Linked(x)' <=> Linked(x)
  BY <1>2 DEF Linked
<1>6. Handles(h, r) /\ ~ Linked(r) /\ ~ Unseen(r) /\ completions[r] = 1 /\ ~ event_true[r]
  BY <1>1, <1>2, KindsOfRequests, ThreadFacts DEF Handles, OnePlace, ListSound, Told, Woken
<1>7. \A x \in Requests : event_true'[x] = IF x = r THEN TRUE ELSE event_true[x]
  BY <1>2 DEF TypeOK
<1>8. \A g \in Handlers : Handles(g, r) => g = h
  BY <1>2, <1>6, ThreadFacts DEF OnePlace
<1>9. TypeOK'
  BY <1>1, <1>2, <1>3, <1>4, <1>5, <1>6, <1>7, <1>8, ThreadFacts, KindsOfRequests DEF TypeOK
<1>10. Positions'
  BY <1>1, <1>2, <1>3, <1>4, <1>5, <1>6, <1>7, <1>8, ThreadFacts, KindsOfRequests DEF Positions
<1>11. Hands'
  BY <1>1, <1>2, <1>3, <1>4, <1>5, <1>6, <1>7, <1>8, ThreadFacts, KindsOfRequests DEF Hands
<1>12. ShutDown'
  BY <1>1, <1>2, <1>3, <1>4, <1>5, <1>6, <1>7, <1>8, ThreadFacts, KindsOfRequests DEF ShutDown
<1>13. ListSound'
  BY <1>1, <1>2, <1>3, <1>4, <1>5, <1>6, <1>7, <1>8, ThreadFacts, KindsOfRequests
  DEF ListSound, Handles, Unseen
<1>14. OnePlace'
  BY <1>1, <1>2, <1>3, <1>4, <1>5, <1>6, <1>7, <1>8, ThreadFacts, KindsOfRequests
  DEF OnePlace, Handles
<1>15. Told'
  BY <1>1, <1>2, <1>3, <1>4, <1>5, <1>6, <1>7, <1>8, ThreadFacts, KindsOfRequests
  DEF Told, Handles, Unseen
<1>16. Woken'
  <2>1. r \in Requests /\ event_true'[r] = TRUE /\ pc'[h] = "drop"
    BY <1>2, <1>3, <1>7, KindsOfRequests, ThreadFacts
  <2>2. \A x \in Requests : Unseen(x)' <=> Unseen(x)
    BY <1>3, ThreadFacts DEF Unseen
  <2>3. \A x \in Requests : Unseen(x)' => ~ event_true'[x]
    BY <1>6, <1>7, <2>2 DEF Woken
  <2>4. \A g \in Handlers, x \in Requests : Handles(g, x)' <=> Handles(g, x)
    BY <1>2 DEF Handles
  <2>5. ASSUME NEW x \in Normal
        PROVE  /\ event_true'[x] => completions'[x] = 1
               /\ Linked(x)' => ~ event_true'[x]
               /\ \A g \in Handlers : Handles(g, x)' =>
                    (event_true'[x] <=> pc'[g] \in {"drop", "store", "test"})
    <3>1. CASE x = r
      BY <1>2, <1>5, <1>6, <1>8, <2>1, <2>4, <3>1
    <3>2. CASE x # r
      <4>1. \A g \in Handlers : Handles(g, x) => g # h
        BY <1>6, <3>2 DEF Handles
      <4>. QED
        BY <1>2, <1>3, <1>5, <1>7, <2>4, <3>2, <4>1, KindsOfRequests, ThreadFacts DEF Woken
    <3>. QED  BY <3>1, <3>2
  <2>6. \A x \in Sync : pc'[x] \in {"drop", "store", "test", "done"} => event_true'[x]
    BY <1>3, <1>7, <2>1, KindsOfRequests, ThreadFacts DEF Woken
  <2>. QED  BY <1>4, <2>3, <2>5, <2>6 DEF Woken
<1>17. SyncCounts'
  BY <1>1, <1>2, <1>3, <1>4, <1>5, <1>6, <1>7, <1>8, ThreadFacts, KindsOfRequests
  DEF SyncCounts, SyncCount, HandlerStored, CallerStored, Storing, Dropped, Handles
<1>18. AsyncCounts'
  BY <1>1, <1>2, <1>3, <1>4, <1>5, <1>6, <1>7, <1>8, ThreadFacts, KindsOfRequests
  DEF AsyncCounts, AsyncCount, Handles
<1>19. QueryCounts'
  BY <1>1, <1>2, <1>3, <1>4, <1>5, <1>6, <1>7, <1>8, ThreadFacts, KindsOfRequests DEF QueryCounts
<1>. QED  BY <1>9, <1>10, <1>11, <1>12, <1>13, <1>14, <1>15, <1>16, <1>17, <1>18, <1>19

--------------------------------------------------------------------------------
(* Time, the timer thread and the end.                                      *)

LEMMA ExpireIInv == ASSUME IInv, NEW r \in Requests, Expire(r) PROVE IInv'
<1> USE DEF IInv
<1>1. /\ r \in Normal /\ expired' = expired \cup {r}
      /\ UNCHANGED <<kind, seq_no, req_no, memory, ref_count, list, list_mutex, pass, wire,
                     executed, replies, processed, received, event_true, result, completions, pc,
                              hand, loaded, handle, answer>>
  BY DEF Expire, Goto, requestVars, listVars, netVars, doneVars
<1>2. Sync' = Sync /\ Async' = Async /\ Queries' = Queries /\ Normal' = Normal
  BY <1>1, SameKinds
<1>3. \A x : Linked(x)' <=> Linked(x)
  BY <1>1 DEF Linked
<1>4. TypeOK'
  BY <1>1, <1>2, <1>3, ThreadFacts, KindsOfRequests DEF TypeOK
<1>5. Positions'
  BY <1>1, <1>2, <1>3, ThreadFacts, KindsOfRequests DEF Positions
<1>6. Hands'
  BY <1>1, <1>2, <1>3, ThreadFacts, KindsOfRequests DEF Hands
<1>7. ShutDown'
  BY <1>1, <1>2, <1>3, ThreadFacts, KindsOfRequests DEF ShutDown
<1>8. ListSound'
  BY <1>1, <1>2, <1>3, ThreadFacts, KindsOfRequests DEF ListSound, Handles, Unseen
<1>9. OnePlace'
  BY <1>1, <1>2, <1>3, ThreadFacts, KindsOfRequests DEF OnePlace, Handles
<1>10. Told'
  BY <1>1, <1>2, <1>3, ThreadFacts, KindsOfRequests DEF Told, Handles, Unseen
<1>11. Woken'
  BY <1>1, <1>2, <1>3, ThreadFacts, KindsOfRequests DEF Woken, Handles, Unseen
<1>12. SyncCounts'
  BY <1>1, <1>2, <1>3, ThreadFacts, KindsOfRequests
  DEF SyncCounts, SyncCount, HandlerStored, CallerStored, Storing, Dropped, Handles
<1>13. AsyncCounts'
  BY <1>1, <1>2, <1>3, ThreadFacts, KindsOfRequests DEF AsyncCounts, AsyncCount, Handles
<1>14. QueryCounts'
  BY <1>1, <1>2, <1>3, ThreadFacts, KindsOfRequests DEF QueryCounts
<1>. QED  BY <1>4, <1>5, <1>6, <1>7, <1>8, <1>9, <1>10, <1>11, <1>12, <1>13, <1>14

LEMMA TimerLockIInv == ASSUME IInv, TimerLock PROVE IInv'
<1> USE DEF IInv
<1>1. /\ ~ list_mutex /\ list_mutex' = TRUE /\ pass' = list
      /\ pc[Timer] = "sleep" /\ pc' = [pc EXCEPT ![Timer] = "scan"]
      /\ UNCHANGED <<kind, seq_no, req_no, memory, ref_count, list, wire, executed, replies,
                     processed, received, event_true, result, completions, expired, hand, loaded,
                              handle, answer>>
  BY DEF TimerLock, Goto, requestVars, listVars, netVars, doneVars
<1>2. \A t \in Threads : pc'[t] = IF t = Timer THEN "scan" ELSE pc[t]
  BY <1>1, ThreadFacts DEF TypeOK
<1>3. Sync' = Sync /\ Async' = Async /\ Queries' = Queries /\ Normal' = Normal
  BY <1>1, SameKinds
<1>4. \A x : Linked(x)' <=> Linked(x)
  BY <1>1 DEF Linked
<1>5. \A x : In(list, x) <=> Linked(x)
  BY DEF In, Linked
<1>6. handle # "deleted"
  BY <1>1, ThreadFacts DEF ShutDown
<1>7. TypeOK'
  BY <1>1, <1>2, <1>3, <1>4, <1>5, <1>6, ThreadFacts, KindsOfRequests DEF TypeOK
<1>8. Positions'
  BY <1>1, <1>2, <1>3, <1>4, <1>5, <1>6, ThreadFacts, KindsOfRequests DEF Positions
<1>9. Hands'
  BY <1>1, <1>2, <1>3, <1>4, <1>5, <1>6, ThreadFacts, KindsOfRequests DEF Hands
<1>10. ShutDown'
  BY <1>1, <1>2, <1>3, <1>4, <1>5, <1>6, ThreadFacts, KindsOfRequests DEF ShutDown
<1>11. ListSound'
  BY <1>1, <1>2, <1>3, <1>4, <1>5, <1>6, ThreadFacts, KindsOfRequests
  DEF ListSound, Handles, Unseen
<1>12. OnePlace'
  BY <1>1, <1>2, <1>3, <1>4, <1>5, <1>6, ThreadFacts, KindsOfRequests DEF OnePlace, Handles
<1>13. Told'
  BY <1>1, <1>2, <1>3, <1>4, <1>5, <1>6, ThreadFacts, KindsOfRequests DEF Told, Handles, Unseen
<1>14. Woken'
  BY <1>1, <1>2, <1>3, <1>4, <1>5, <1>6, ThreadFacts, KindsOfRequests DEF Woken, Handles, Unseen
<1>15. SyncCounts'
  BY <1>1, <1>2, <1>3, <1>4, <1>5, <1>6, ThreadFacts, KindsOfRequests
  DEF SyncCounts, SyncCount, HandlerStored, CallerStored, Storing, Dropped, Handles
<1>16. AsyncCounts'
  BY <1>1, <1>2, <1>3, <1>4, <1>5, <1>6, ThreadFacts, KindsOfRequests
  DEF AsyncCounts, AsyncCount, Handles
<1>17. QueryCounts'
  BY <1>1, <1>2, <1>3, <1>4, <1>5, <1>6, ThreadFacts, KindsOfRequests DEF QueryCounts
<1>. QED  BY <1>7, <1>8, <1>9, <1>10, <1>11, <1>12, <1>13, <1>14, <1>15, <1>16, <1>17

LEMMA NotYetIInv == ASSUME IInv, NotYet PROVE IInv'
<1> USE DEF IInv
<1>1. /\ pass # <<>> /\ pc[Timer] = "scan" /\ pass' = Tail(pass)
      /\ UNCHANGED <<kind, seq_no, req_no, memory, ref_count, list, list_mutex, wire, executed,
                     replies, processed, received, event_true, result, completions, expired, pc,
                              hand, loaded, handle, answer>>
  BY DEF NotYet, Goto, requestVars, listVars, netVars, doneVars
<1>2. Sync' = Sync /\ Async' = Async /\ Queries' = Queries /\ Normal' = Normal
  BY <1>1, SameKinds
<1>3. \A x : Linked(x)' <=> Linked(x)
  BY <1>1 DEF Linked
<1>4. pass' \in Seq(Requests) /\ Distinct(pass') /\ \A x : In(pass', x) => In(pass, x)
  BY <1>1, TailSound DEF TypeOK, ListSound
<1>5. TypeOK'
  BY <1>1, <1>2, <1>3, <1>4, ThreadFacts, KindsOfRequests DEF TypeOK
<1>6. Positions'
  BY <1>1, <1>2, <1>3, <1>4, ThreadFacts, KindsOfRequests DEF Positions
<1>7. Hands'
  BY <1>1, <1>2, <1>3, <1>4, ThreadFacts, KindsOfRequests DEF Hands
<1>8. ShutDown'
  BY <1>1, <1>2, <1>3, <1>4, ThreadFacts, KindsOfRequests DEF ShutDown
<1>9. ListSound'
  BY <1>1, <1>2, <1>3, <1>4, ThreadFacts, KindsOfRequests DEF ListSound, Handles, Unseen
<1>10. OnePlace'
  BY <1>1, <1>2, <1>3, <1>4, ThreadFacts, KindsOfRequests DEF OnePlace, Handles
<1>11. Told'
  BY <1>1, <1>2, <1>3, <1>4, ThreadFacts, KindsOfRequests DEF Told, Handles, Unseen
<1>12. Woken'
  BY <1>1, <1>2, <1>3, <1>4, ThreadFacts, KindsOfRequests DEF Woken, Handles, Unseen
<1>13. SyncCounts'
  BY <1>1, <1>2, <1>3, <1>4, ThreadFacts, KindsOfRequests
  DEF SyncCounts, SyncCount, HandlerStored, CallerStored, Storing, Dropped, Handles
<1>14. AsyncCounts'
  BY <1>1, <1>2, <1>3, <1>4, ThreadFacts, KindsOfRequests DEF AsyncCounts, AsyncCount, Handles
<1>15. QueryCounts'
  BY <1>1, <1>2, <1>3, <1>4, ThreadFacts, KindsOfRequests DEF QueryCounts
<1>. QED  BY <1>5, <1>6, <1>7, <1>8, <1>9, <1>10, <1>11, <1>12, <1>13, <1>14, <1>15

LEMMA TimerUnlockIInv == ASSUME IInv, TimerUnlock PROVE IInv'
<1> USE DEF IInv
<1>1. PICK to \in {"sleep", "exited"} :
        /\ pass = <<>> /\ pc[Timer] = "scan" /\ pc' = [pc EXCEPT ![Timer] = to] /\ list_mutex' = FALSE
        /\ UNCHANGED <<kind, seq_no, req_no, memory, ref_count, list, pass, wire, executed,
                       replies, processed, received, event_true, result, completions, expired,
                                hand, loaded, handle, answer>>
  BY DEF TimerUnlock, Goto, requestVars, listVars, netVars, doneVars
<1>2. \A t \in Threads : pc'[t] = IF t = Timer THEN to ELSE pc[t]
  BY <1>1, ThreadFacts DEF TypeOK
<1>3. Sync' = Sync /\ Async' = Async /\ Queries' = Queries /\ Normal' = Normal
  BY <1>1, SameKinds
<1>4. \A x : Linked(x)' <=> Linked(x)
  BY <1>1 DEF Linked
<1>5. TypeOK'
  BY <1>1, <1>2, <1>3, <1>4, ThreadFacts, KindsOfRequests DEF TypeOK
<1>6. Positions'
  BY <1>1, <1>2, <1>3, <1>4, ThreadFacts, KindsOfRequests DEF Positions
<1>7. Hands'
  BY <1>1, <1>2, <1>3, <1>4, ThreadFacts, KindsOfRequests DEF Hands
<1>8. ShutDown'
  BY <1>1, <1>2, <1>3, <1>4, ThreadFacts, KindsOfRequests DEF ShutDown
<1>9. ListSound'
  BY <1>1, <1>2, <1>3, <1>4, ThreadFacts, KindsOfRequests DEF ListSound, Handles, Unseen
<1>10. OnePlace'
  BY <1>1, <1>2, <1>3, <1>4, ThreadFacts, KindsOfRequests DEF OnePlace, Handles
<1>11. Told'
  BY <1>1, <1>2, <1>3, <1>4, ThreadFacts, KindsOfRequests DEF Told, Handles, Unseen
<1>12. Woken'
  BY <1>1, <1>2, <1>3, <1>4, ThreadFacts, KindsOfRequests DEF Woken, Handles, Unseen
<1>13. SyncCounts'
  BY <1>1, <1>2, <1>3, <1>4, ThreadFacts, KindsOfRequests
  DEF SyncCounts, SyncCount, HandlerStored, CallerStored, Storing, Dropped, Handles
<1>14. AsyncCounts'
  BY <1>1, <1>2, <1>3, <1>4, ThreadFacts, KindsOfRequests DEF AsyncCounts, AsyncCount, Handles
<1>15. QueryCounts'
  BY <1>1, <1>2, <1>3, <1>4, ThreadFacts, KindsOfRequests DEF QueryCounts
<1>. QED  BY <1>5, <1>6, <1>7, <1>8, <1>9, <1>10, <1>11, <1>12, <1>13, <1>14, <1>15

LEMMA TimeOutIInv == ASSUME IInv, TimeOut PROVE IInv'
<1> USE DEF IInv
<1>1. PICK r : r = Head(pass)
  OBVIOUS
<1>2. /\ pass # <<>> /\ r \in expired /\ pc[Timer] = "scan" /\ pc' = [pc EXCEPT ![Timer] = "called"]
      /\ pass' = Tail(pass) /\ list' = Without(r) /\ hand' = [hand EXCEPT ![Timer] = r]
      /\ result' = [result EXCEPT ![r] = "timeout"]
      /\ completions' = [completions EXCEPT ![r] = completions[r] + 1]
      /\ UNCHANGED <<kind, seq_no, req_no, memory, ref_count, list_mutex, wire, executed,
                     replies, processed, received, event_true, expired, loaded, handle, answer>>
  BY <1>1 DEF TimeOut, Complete, Goto, requestVars, netVars
<1>3. \A t \in Threads : pc'[t] = IF t = Timer THEN "called" ELSE pc[t]
  BY <1>2, ThreadFacts DEF TypeOK
<1>4. Sync' = Sync /\ Async' = Async /\ Queries' = Queries /\ Normal' = Normal
  BY <1>2, SameKinds
<1>5. pass' \in Seq(Requests) /\ Distinct(pass') /\ In(pass,
         r) /\ r \in Requests /\ \A x : In(pass', x) <=> In(pass, x) /\ x # r
  BY <1>1, <1>2, TailSound DEF TypeOK, ListSound
<1>6. Linked(r) /\ r \in Normal /\ ~ Unseen(r)
  BY <1>2, <1>5 DEF ListSound, Hands
<1>7. list' \in Seq(Requests) /\ Distinct(list') /\ \A x : Linked(x)' <=> Linked(x) /\ x # r
  <2>1. list \in Seq(Requests) /\ Distinct(list)
    BY DEF TypeOK, ListSound
  <2>2. \A x : Linked(x)' <=> In(list', x)
    BY DEF Linked, In
  <2>. QED  BY <1>2, <1>6, <2>1, <2>2, WithoutSound
<1>8. completions[r] = 0 /\ ~ event_true[r] /\ \A h \in Handlers : ~ Handles(h, r)
  BY <1>6 DEF Told, Woken, OnePlace
<1>9. \A x \in Requests : /\ completions'[x] = IF x = r THEN completions[r] + 1 ELSE completions[x]
                          /\ result'[x] = IF x = r THEN "timeout" ELSE result[x]
  BY <1>2 DEF TypeOK
<1>10. \A h \in Handlers : hand'[h] = IF h = Timer THEN r ELSE hand[h]
  BY <1>2 DEF TypeOK
<1>11. hand[Timer] = NoRequest /\ handle # "deleted"
  BY <1>2, ThreadFacts DEF Hands, ShutDown
<1>12. TypeOK'
  <2>1. pc' \in [Threads -> {"idle", "new", "add", "send", "wait", "open", "done", "drop", "store",
                         "test", "select", "callback", "called", "sleep", "scan", "exited"}]
    BY <1>2 DEF TypeOK
  <2>2. hand' \in [Handlers -> Requests \cup {NoRequest}]
    BY <1>2, <1>5 DEF TypeOK
  <2>3. completions' \in [Requests -> Nat]
    BY <1>2, <1>5, <1>8 DEF TypeOK
  <2>4. result' \in [Requests -> {"none", "ok", "failed", "timeout"}]
    BY <1>2, <1>5 DEF TypeOK
  <2>. QED  BY <1>2, <1>5, <1>7, <2>1, <2>2, <2>3, <2>4 DEF TypeOK
<1>13. Positions'
  BY <1>1, <1>2, <1>3, <1>4, <1>5, <1>6, <1>7, <1>8, <1>9, <1>10, <1>11, ThreadFacts,
     KindsOfRequests
  DEF Positions
<1>14. Hands'
  BY <1>1, <1>2, <1>3, <1>4, <1>5, <1>6, <1>7, <1>8, <1>9, <1>10, <1>11, ThreadFacts,
     KindsOfRequests
  DEF Hands
<1>15. ShutDown'
  BY <1>1, <1>2, <1>3, <1>4, <1>5, <1>6, <1>7, <1>8, <1>9, <1>10, <1>11, ThreadFacts,
     KindsOfRequests
  DEF ShutDown
<1>16. ListSound'
  BY <1>1, <1>2, <1>3, <1>4, <1>5, <1>6, <1>7, <1>8, <1>9, <1>10, <1>11, ThreadFacts,
     KindsOfRequests
  DEF ListSound, Handles, Unseen
<1>17. OnePlace'
  BY <1>1, <1>2, <1>3, <1>4, <1>5, <1>6, <1>7, <1>8, <1>9, <1>10, <1>11, ThreadFacts,
     KindsOfRequests
  DEF OnePlace, Handles
<1>18. Told'
  BY <1>1, <1>2, <1>3, <1>4, <1>5, <1>6, <1>7, <1>8, <1>9, <1>10, <1>11, ThreadFacts,
     KindsOfRequests
  DEF Told, Handles, Unseen
<1>19. Woken'
  BY <1>1, <1>2, <1>3, <1>4, <1>5, <1>6, <1>7, <1>8, <1>9, <1>10, <1>11, ThreadFacts,
     KindsOfRequests
  DEF Woken, Handles, Unseen
<1>20. SyncCounts'
  BY <1>1, <1>2, <1>3, <1>4, <1>5, <1>6, <1>7, <1>8, <1>9, <1>10, <1>11, ThreadFacts,
     KindsOfRequests
  DEF SyncCounts, SyncCount, HandlerStored, CallerStored, Storing, Dropped, Handles
<1>21. AsyncCounts'
  BY <1>1, <1>2, <1>3, <1>4, <1>5, <1>6, <1>7, <1>8, <1>9, <1>10, <1>11, ThreadFacts,
     KindsOfRequests
  DEF AsyncCounts, AsyncCount, Handles
<1>22. QueryCounts'
  BY <1>1, <1>2, <1>3, <1>4, <1>5, <1>6, <1>7, <1>8, <1>9, <1>10, <1>11, ThreadFacts,
     KindsOfRequests
  DEF QueryCounts
<1>. QED  BY <1>12, <1>13, <1>14, <1>15, <1>16, <1>17, <1>18, <1>19, <1>20, <1>21, <1>22

LEMMA StopIInv == ASSUME IInv, Stop PROVE IInv'
<1> USE DEF IInv
<1>1. /\ handle = "running" /\ handle' = "stopping" /\ \A r \in Requests : pc[r] \in {"idle",
         "done"}
      /\ UNCHANGED <<kind, seq_no, req_no, memory, ref_count, list, list_mutex, pass, wire,
                     executed, replies, processed, received, event_true, result, completions,
                              expired, pc, hand, loaded, answer>>
  BY DEF Stop, Goto, requestVars, listVars, netVars, doneVars
<1>2. Sync' = Sync /\ Async' = Async /\ Queries' = Queries /\ Normal' = Normal
  BY <1>1, SameKinds
<1>3. \A x : Linked(x)' <=> Linked(x)
  BY <1>1 DEF Linked
<1>4. TypeOK'
  BY <1>1, <1>2, <1>3, ThreadFacts, KindsOfRequests DEF TypeOK
<1>5. Positions'
  BY <1>1, <1>2, <1>3, ThreadFacts, KindsOfRequests DEF Positions
<1>6. Hands'
  BY <1>1, <1>2, <1>3, ThreadFacts, KindsOfRequests DEF Hands
<1>7. ShutDown'
  BY <1>1, <1>2, <1>3, ThreadFacts, KindsOfRequests DEF ShutDown
<1>8. ListSound'
  BY <1>1, <1>2, <1>3, ThreadFacts, KindsOfRequests DEF ListSound, Handles, Unseen
<1>9. OnePlace'
  BY <1>1, <1>2, <1>3, ThreadFacts, KindsOfRequests DEF OnePlace, Handles
<1>10. Told'
  BY <1>1, <1>2, <1>3, ThreadFacts, KindsOfRequests DEF Told, Handles, Unseen
<1>11. Woken'
  BY <1>1, <1>2, <1>3, ThreadFacts, KindsOfRequests DEF Woken, Handles, Unseen
<1>12. SyncCounts'
  BY <1>1, <1>2, <1>3, ThreadFacts, KindsOfRequests
  DEF SyncCounts, SyncCount, HandlerStored, CallerStored, Storing, Dropped, Handles
<1>13. AsyncCounts'
  BY <1>1, <1>2, <1>3, ThreadFacts, KindsOfRequests DEF AsyncCounts, AsyncCount, Handles
<1>14. QueryCounts'
  BY <1>1, <1>2, <1>3, ThreadFacts, KindsOfRequests DEF QueryCounts
<1>. QED  BY <1>4, <1>5, <1>6, <1>7, <1>8, <1>9, <1>10, <1>11, <1>12, <1>13, <1>14

LEMMA ReceiverExitIInv == ASSUME IInv, ReceiverExit PROVE IInv'
<1> USE DEF IInv
<1>1. /\ handle = "stopping" /\ pc[Receiver] = "select" /\ pc' = [pc EXCEPT ![Receiver] = "exited"]
      /\ UNCHANGED <<kind, seq_no, req_no, memory, ref_count, list, list_mutex, pass, wire,
                     executed, replies, processed, received, event_true, result, completions,
                              expired, hand, loaded, handle, answer>>
  BY DEF ReceiverExit, Goto, requestVars, listVars, netVars, doneVars
<1>2. \A t \in Threads : pc'[t] = IF t = Receiver THEN "exited" ELSE pc[t]
  BY <1>1, ThreadFacts DEF TypeOK
<1>3. Sync' = Sync /\ Async' = Async /\ Queries' = Queries /\ Normal' = Normal
  BY <1>1, SameKinds
<1>4. \A x : Linked(x)' <=> Linked(x)
  BY <1>1 DEF Linked
<1>5. TypeOK'
  BY <1>1, <1>2, <1>3, <1>4, ThreadFacts, KindsOfRequests DEF TypeOK
<1>6. Positions'
  BY <1>1, <1>2, <1>3, <1>4, ThreadFacts, KindsOfRequests DEF Positions
<1>7. Hands'
  BY <1>1, <1>2, <1>3, <1>4, ThreadFacts, KindsOfRequests DEF Hands
<1>8. ShutDown'
  BY <1>1, <1>2, <1>3, <1>4, ThreadFacts, KindsOfRequests DEF ShutDown
<1>9. ListSound'
  BY <1>1, <1>2, <1>3, <1>4, ThreadFacts, KindsOfRequests DEF ListSound, Handles, Unseen
<1>10. OnePlace'
  BY <1>1, <1>2, <1>3, <1>4, ThreadFacts, KindsOfRequests DEF OnePlace, Handles
<1>11. Told'
  BY <1>1, <1>2, <1>3, <1>4, ThreadFacts, KindsOfRequests DEF Told, Handles, Unseen
<1>12. Woken'
  BY <1>1, <1>2, <1>3, <1>4, ThreadFacts, KindsOfRequests DEF Woken, Handles, Unseen
<1>13. SyncCounts'
  BY <1>1, <1>2, <1>3, <1>4, ThreadFacts, KindsOfRequests
  DEF SyncCounts, SyncCount, HandlerStored, CallerStored, Storing, Dropped, Handles
<1>14. AsyncCounts'
  BY <1>1, <1>2, <1>3, <1>4, ThreadFacts, KindsOfRequests DEF AsyncCounts, AsyncCount, Handles
<1>15. QueryCounts'
  BY <1>1, <1>2, <1>3, <1>4, ThreadFacts, KindsOfRequests DEF QueryCounts
<1>. QED  BY <1>5, <1>6, <1>7, <1>8, <1>9, <1>10, <1>11, <1>12, <1>13, <1>14, <1>15

LEMMA DeleteIInv == ASSUME IInv, Delete PROVE IInv'
<1> USE DEF IInv
<1>1. /\ handle = "stopping" /\ \A h \in Handlers : pc[h] = "exited"
      /\ handle' = "deleted" /\ list' = <<>>
      /\ ref_count' = [r \in Requests |-> IF Linked(r) THEN ref_count[r] - 1 ELSE ref_count[r]]
      /\ memory' = [r \in Requests |-> IF Linked(r) /\ ref_count[r] = 1 THEN "freed" ELSE memory[r]]
      /\ UNCHANGED <<kind, seq_no, req_no, list_mutex, pass, wire, executed, replies, processed,
                     received, event_true, result, completions, expired, pc, hand, loaded, answer>>
  BY DEF Delete, Goto, requestVars, listVars, netVars, doneVars
<1>2. Sync' = Sync /\ Async' = Async /\ Queries' = Queries /\ Normal' = Normal
  BY <1>1, SameKinds
<1>3. \A x : ~ Linked(x)' /\ ~ In(pass, x) /\ ~ In(list', x)
  BY <1>1, ThreadFacts DEF Linked, In, ListSound
<1>4. \A r \in Requests : pc[r] \in {"idle", "done"} /\ pc[r] \notin {"send", "open"}
  BY <1>1 DEF ShutDown
<1>5. \A r \in Requests : Linked(r) => r \in Async /\ ref_count[r] = 1 /\ memory[r] = "live"
  <2> SUFFICES ASSUME NEW r \in Requests, Linked(r)
               PROVE  r \in Async /\ ref_count[r] = 1 /\ memory[r] = "live"
    OBVIOUS
  <2>1. pc[r] = "done"
    BY <1>4 DEF ListSound, Unseen
  <2>2. r \notin Queries
    BY <1>4 DEF ListSound
  <2>3. r \notin Sync
    BY <2>1, KindsOfRequests DEF Woken
  <2>4. r \in Async
    BY <2>1, <2>2, <2>3, KindCases
  <2>. QED  BY <2>4 DEF AsyncCounts, AsyncCount
<1>6. \A r \in Requests : /\ ref_count'[r] = IF Linked(r) THEN 0 ELSE ref_count[r]
                          /\ memory'[r] = IF Linked(r) THEN "freed" ELSE memory[r]
  BY <1>1, <1>5
<1>7. TypeOK'
  <2>1. ref_count' \in [Requests -> Nat]
    <3>1. \A r \in Requests : (IF Linked(r) THEN ref_count[r] - 1 ELSE ref_count[r]) \in Nat
      BY <1>5 DEF TypeOK
    <3>. QED  BY <1>1, <3>1
  <2>2. memory' \in [Requests -> {"unused", "live", "freed"}]
    BY <1>1 DEF TypeOK
  <2>3. list' \in Seq(Requests)
    BY <1>1
  <2>. QED  BY <1>1, <2>1, <2>2, <2>3 DEF TypeOK
<1>8. Positions'
  BY <1>1, <1>2, <1>3, <1>4, <1>5, <1>6, ThreadFacts, KindsOfRequests DEF Positions
<1>9. Hands'
  BY <1>1, <1>2, <1>3, <1>4, <1>5, <1>6, ThreadFacts, KindsOfRequests DEF Hands
<1>10. ShutDown'
  BY <1>1, <1>2, <1>3, <1>4, <1>5, <1>6, ThreadFacts, KindsOfRequests DEF ShutDown
<1>11. ListSound'
  BY <1>1, <1>2, <1>3, <1>4, <1>5, <1>6, ThreadFacts, KindsOfRequests
  DEF ListSound, Handles, Unseen
<1>12. OnePlace'
  BY <1>1, <1>2, <1>3, <1>4, <1>5, <1>6, ThreadFacts, KindsOfRequests DEF OnePlace, Handles
<1>13. Told'
  BY <1>1, <1>2, <1>3, <1>4, <1>5, <1>6, ThreadFacts, KindsOfRequests DEF Told, Handles, Unseen
<1>14. Woken'
  BY <1>1, <1>2, <1>3, <1>4, <1>5, <1>6, ThreadFacts, KindsOfRequests DEF Woken, Handles, Unseen
<1>15. SyncCounts'
  BY <1>1, <1>2, <1>3, <1>4, <1>5, <1>6, ThreadFacts, KindsOfRequests
  DEF SyncCounts, SyncCount, HandlerStored, CallerStored, Storing, Dropped, Handles
<1>16. AsyncCounts'
  <2> SUFFICES ASSUME NEW r \in Async, AsyncCount(r) PROVE AsyncCount(r)'
    BY <1>2 DEF AsyncCounts
  <2>1. /\ pc'[r] = pc[r] /\ pc[r] # "add" /\ r \in Requests /\ ~ Linked(r)'
        /\ \A h \in Handlers : ~ Handles(h, r) /\ (Handles(h, r)' <=> Handles(h, r))
    BY <1>1, <1>3, <1>4, KindsOfRequests, ThreadFacts DEF Handles, Hands
  <2>2. memory'[r] = "live" => memory[r] = "live" /\ ~ Linked(r)
    BY <1>6, <2>1
  <2>. QED  BY <2>1, <2>2 DEF AsyncCount
<1>17. QueryCounts'
  BY <1>1, <1>2, <1>3, <1>4, <1>5, <1>6, ThreadFacts, KindsOfRequests DEF QueryCounts
<1>. QED  BY <1>7, <1>8, <1>9, <1>10, <1>11, <1>12, <1>13, <1>14, <1>15, <1>16, <1>17

--------------------------------------------------------------------------------
(* The device.                                                              *)

LEMMA ProcessIInv == ASSUME IInv, NEW m \in wire, NEW error \in {"ok", "failed"}, NEW empty \in BOOLEAN,
         Process(m, error, empty) PROVE IInv'
<1> USE DEF IInv
<1>1. PICK d : d = [no |-> m.no, error |-> error, from |-> m.from]
  OBVIOUS
<1>2. /\ processed < MaxProcessed /\ processed' = processed + 1 /\ executed' = executed \cup {d}
      /\ replies' = replies \cup {d} \/ replies' = replies
      /\ UNCHANGED <<kind, seq_no, req_no, memory, ref_count, list, list_mutex, pass, wire,
                     received, event_true, result, completions, expired, pc, hand, loaded,
                              handle, answer>>
  BY <1>1 DEF Process, requestVars, listVars, doneVars
<1>3. Sync' = Sync /\ Async' = Async /\ Queries' = Queries /\ Normal' = Normal
  BY <1>2, SameKinds
<1>4. \A x : Linked(x)' <=> Linked(x)
  BY <1>2 DEF Linked
<1>5. d \in Datagram /\ processed' \in 0 .. MaxProcessed
  BY <1>1, <1>2, MessageBusAssumption DEF TypeOK, Datagram
<1>6. TypeOK'
  BY <1>1, <1>2, <1>3, <1>4, <1>5, ThreadFacts, KindsOfRequests DEF TypeOK
<1>7. Positions'
  BY <1>1, <1>2, <1>3, <1>4, <1>5, ThreadFacts, KindsOfRequests DEF Positions
<1>8. Hands'
  BY <1>1, <1>2, <1>3, <1>4, <1>5, ThreadFacts, KindsOfRequests DEF Hands
<1>9. ShutDown'
  BY <1>1, <1>2, <1>3, <1>4, <1>5, ThreadFacts, KindsOfRequests DEF ShutDown
<1>10. ListSound'
  BY <1>1, <1>2, <1>3, <1>4, <1>5, ThreadFacts, KindsOfRequests DEF ListSound, Handles, Unseen
<1>11. OnePlace'
  BY <1>1, <1>2, <1>3, <1>4, <1>5, ThreadFacts, KindsOfRequests DEF OnePlace, Handles
<1>12. Told'
  BY <1>1, <1>2, <1>3, <1>4, <1>5, ThreadFacts, KindsOfRequests DEF Told, Handles, Unseen
<1>13. Woken'
  BY <1>1, <1>2, <1>3, <1>4, <1>5, ThreadFacts, KindsOfRequests DEF Woken, Handles, Unseen
<1>14. SyncCounts'
  BY <1>1, <1>2, <1>3, <1>4, <1>5, ThreadFacts, KindsOfRequests
  DEF SyncCounts, SyncCount, HandlerStored, CallerStored, Storing, Dropped, Handles
<1>15. AsyncCounts'
  BY <1>1, <1>2, <1>3, <1>4, <1>5, ThreadFacts, KindsOfRequests
  DEF AsyncCounts, AsyncCount, Handles
<1>16. QueryCounts'
  BY <1>1, <1>2, <1>3, <1>4, <1>5, ThreadFacts, KindsOfRequests DEF QueryCounts
<1>. QED  BY <1>6, <1>7, <1>8, <1>9, <1>10, <1>11, <1>12, <1>13, <1>14, <1>15, <1>16

LEMMA StutterIInv == ASSUME IInv, UNCHANGED vars PROVE IInv'
<1> USE DEF IInv
<1>1. UNCHANGED <<kind, seq_no, req_no, memory, ref_count, list, list_mutex, pass, wire,
                  executed, replies, processed, received, event_true, result, completions,
                           expired, pc, hand, loaded, handle, answer>>
  BY DEF vars, requestVars, listVars, netVars, doneVars
<1>2. Sync' = Sync /\ Async' = Async /\ Queries' = Queries /\ Normal' = Normal
  BY <1>1, SameKinds
<1>3. \A x : Linked(x)' <=> Linked(x)
  BY <1>1 DEF Linked
<1>4. TypeOK'
  BY <1>1, <1>2, <1>3, ThreadFacts, KindsOfRequests DEF TypeOK
<1>5. Positions'
  BY <1>1, <1>2, <1>3, ThreadFacts, KindsOfRequests DEF Positions
<1>6. Hands'
  BY <1>1, <1>2, <1>3, ThreadFacts, KindsOfRequests DEF Hands
<1>7. ShutDown'
  BY <1>1, <1>2, <1>3, ThreadFacts, KindsOfRequests DEF ShutDown
<1>8. ListSound'
  BY <1>1, <1>2, <1>3, ThreadFacts, KindsOfRequests DEF ListSound, Handles, Unseen
<1>9. OnePlace'
  BY <1>1, <1>2, <1>3, ThreadFacts, KindsOfRequests DEF OnePlace, Handles
<1>10. Told'
  BY <1>1, <1>2, <1>3, ThreadFacts, KindsOfRequests DEF Told, Handles, Unseen
<1>11. Woken'
  BY <1>1, <1>2, <1>3, ThreadFacts, KindsOfRequests DEF Woken, Handles, Unseen
<1>12. SyncCounts'
  BY <1>1, <1>2, <1>3, ThreadFacts, KindsOfRequests
  DEF SyncCounts, SyncCount, HandlerStored, CallerStored, Storing, Dropped, Handles
<1>13. AsyncCounts'
  BY <1>1, <1>2, <1>3, ThreadFacts, KindsOfRequests DEF AsyncCounts, AsyncCount, Handles
<1>14. QueryCounts'
  BY <1>1, <1>2, <1>3, ThreadFacts, KindsOfRequests DEF QueryCounts
<1>. QED  BY <1>4, <1>5, <1>6, <1>7, <1>8, <1>9, <1>10, <1>11, <1>12, <1>13, <1>14


LEMMA NextIInv == ASSUME IInv, [Next]_vars PROVE IInv'
<1>1. ASSUME NEW t \in Threads, DropStep(t) PROVE IInv'
  BY <1>1, DropLoadIInv, DropStoreIInv, DropTestIInv DEF DropStep
<1>2. ASSUME NEW r \in Requests, CallStep(r) PROVE IInv'
  <2>1. r \in Threads
    BY ThreadFacts
  <2>. QED  BY <1>1, <1>2, <2>1, NewIInv, AddIInv, SendIInv, WakeIInv DEF CallStep
<1>3. CASE ReceiverStep
  BY <1>1, <1>3, ThreadFacts, CallbackIInv, QueryCalledIInv, SignalIInv, ReceiverExitIInv
  DEF ReceiverStep
<1>4. CASE TimerStep
  BY <1>1, <1>4, ThreadFacts, TimerLockIInv, TimeOutIInv, NotYetIInv, TimerUnlockIInv, SignalIInv
  DEF TimerStep
<1>5. CASE Stop \/ Delete \/ Deleted \/ Undefined \/ UNCHANGED vars
  BY <1>5, StopIInv, DeleteIInv, StutterIInv DEF Deleted, Undefined
<1>6. ASSUME NEW r \in Requests,
             (\E k \in {"query", "sync", "async"} : SeqLoad(r, k)) \/ Expire(r) \/ Release(r)
      PROVE  IInv'
  BY <1>6, SeqLoadIInv, ExpireIInv, ReleaseIInv
<1>7. ASSUME NEW m \in replies, Receive(m) PROVE IInv'
  BY <1>7, ReceiveIInv
<1>8. ASSUME NEW m \in wire, NEW error \in {"ok", "failed"}, NEW empty \in BOOLEAN,
             Process(m, error, empty)
      PROVE  IInv'
  BY <1>8, ProcessIInv
<1>. QED  BY <1>2, <1>3, <1>4, <1>5, <1>6, <1>7, <1>8 DEF Next

--------------------------------------------------------------------------------
(* The theorems.                                                            *)

\* The inductive invariant holds of every state the callers, the handlers, the network and
\* the device bring the client to.
THEOREM Invariance == Spec => []IInv
<1>1. Init => IInv
  BY InitIInv
<1>2. IInv /\ [Next]_vars => IInv'
  BY NextIInv
<1>. QED  BY <1>1, <1>2, PTL DEF Spec

LEMMA IInvAnsweredOnce == IInv => AnsweredOnce
<1> SUFFICES ASSUME IInv PROVE AnsweredOnce
  OBVIOUS
<1>1. CompletedOnce
  BY DEF IInv, Told, CompletedOnce
<1>2. ReturnsCompleted
  BY KindsOfRequests DEF IInv, Woken, ReturnsCompleted
<1>. QED  BY <1>1, <1>2 DEF AnsweredOnce

\* Whatever the network loses, delays or doubles, and however a reply races the timer, the
\* callback of a call is called at most once, and before a synchronous call returns.
THEOREM CallsAnsweredOnce == Spec => []AnsweredOnce
BY Invariance, IInvAnsweredOnce, PTL

--------------------------------------------------------------------------------
(* Results.                                                                 *)

\* Its datagram is out.
Sent(r) == pc[r] \notin {"idle", "new", "add", "send"}

\* What the network and the receiver know of the device: a reply is what the device did
\* with the very request it answers.
Answers ==
  /\ replies \subseteq executed
  /\ \A m \in wire : /\ Sent(m.from) /\ m.no = req_no[m.from] /\ m.args = Args(m.from)
  /\ \A m \in executed : Sent(m.from) /\ m.no = req_no[m.from]
  /\ \A m \in replies : m.error = "failed" => Args(m.from) = "SET"
  /\ pc[Receiver] = "callback" =>
       \E m \in replies : m.no = req_no[hand[Receiver]] /\ m.error = answer
  /\ \A r \in Requests : Unseen(r) => result[r] = "none"

Honest == Answers /\ ResultHonest

\* A request that has its number keeps it, and its kind, and does not go back.
Keeps(r) ==
  pc[r] \notin {"idle", "new"} =>
    /\ kind'[r] = kind[r] /\ req_no'[r] = req_no[r]
    /\ pc'[r] \notin {"idle", "new"}
    /\ Sent(r) => Sent(r)'
    /\ Unseen(r)' => Unseen(r)

LEMMA StepKeeps == ASSUME IInv, [Next]_vars PROVE \A r \in Requests : Keeps(r)
<1> SUFFICES ASSUME NEW r \in Requests, pc[r] \notin {"idle", "new"}
             PROVE  /\ kind'[r] = kind[r] /\ req_no'[r] = req_no[r]
                    /\ pc'[r] \notin {"idle", "new"}
                    /\ Sent(r) => Sent(r)'
                    /\ Unseen(r)' => Unseen(r)
  BY DEF Keeps
<1> USE DEF Sent, Unseen
<1>1. /\ pc \in [Threads -> {"idle", "new", "add", "send", "wait", "open", "done", "drop", "store",
                         "test", "select", "callback", "called", "sleep", "scan", "exited"}]
      /\ kind \in [Requests -> {"none", "query", "sync", "async"}] /\ req_no \in [Requests -> Nat]
      /\ r \in Threads /\ r # Receiver /\ r # Timer
  BY ThreadFacts DEF IInv, TypeOK
<1>2. ASSUME NEW t \in Threads, DropStep(t)
      PROVE  /\ kind' = kind /\ req_no' = req_no
             /\ pc'[r] = pc[r] \/ (Sent(r) /\ pc'[r] \in {"store", "test", "done"})
  BY <1>1, <1>2, ThreadFacts
  DEF DropStep, DropLoad, DropStore, DropTest, Goto, requestVars, AfterMessage
<1>3. ASSUME NEW x \in Requests, CallStep(x) \/ Release(x)
      PROVE  /\ kind' = kind /\ req_no'[r] = req_no[r]
             /\ \/ pc'[r] = pc[r]
                \/ pc[r] = "add" /\ pc'[r] = "send"
                \/ pc'[r] \in {"wait", "open", "done", "drop", "store", "test"}
  <2>1. CASE DropStep(x)
    BY <1>2, <2>1, ThreadFacts
  <2>2. CASE New(x)
    BY <1>1, <2>2 DEF New, Goto
  <2>3. CASE Add(x) \/ Send(x) \/ Wake(x) \/ Release(x)
    BY <1>1, <2>3 DEF Add, Send, Wake, Release, Goto, requestVars
  <2>. QED  BY <1>3, <2>1, <2>2, <2>3 DEF CallStep
<1>4. ASSUME NEW x \in Requests, NEW k \in {"query", "sync", "async"}, SeqLoad(x, k)
      PROVE  kind'[r] = kind[r] /\ req_no' = req_no /\ pc'[r] = pc[r]
  BY <1>1, <1>4 DEF SeqLoad, Goto
<1>5. CASE ReceiverStep
  <2>1. CASE DropStep(Receiver)
    BY <1>2, <2>1, ThreadFacts
  <2>2. CASE Callback \/ QueryCalled \/ Signal(Receiver) \/ ReceiverExit
    BY <1>1, <2>2 DEF Callback, QueryCalled, Signal, ReceiverExit, Goto, requestVars
  <2>. QED  BY <1>5, <2>1, <2>2 DEF ReceiverStep
<1>6. CASE TimerStep
  <2>1. CASE DropStep(Timer)
    BY <1>2, <2>1, ThreadFacts
  <2>2. CASE TimerLock \/ TimeOut \/ NotYet \/ TimerUnlock \/ Signal(Timer)
    BY <1>1, <2>2 DEF TimerLock, TimeOut, NotYet, TimerUnlock, Signal, Goto, requestVars
  <2>. QED  BY <1>6, <2>1, <2>2 DEF TimerStep
<1>7. ASSUME NEW m \in replies, Receive(m) PROVE kind' = kind /\ req_no' = req_no /\ pc'[r] = pc[r]
  BY <1>1, <1>7 DEF Receive, Goto, requestVars
<1>8. ASSUME Stop \/ Delete \/ Deleted \/ Undefined \/ UNCHANGED vars
      PROVE  kind' = kind /\ req_no' = req_no /\ pc' = pc
  BY <1>8 DEF Stop, Delete, Deleted, Undefined, vars, requestVars
<1>9. ASSUME NEW x \in Requests, Expire(x) PROVE kind' = kind /\ req_no' = req_no /\ pc' = pc
  BY <1>9 DEF Expire, requestVars
<1>10. ASSUME NEW m \in wire, NEW error \in {"ok", "failed"}, NEW empty \in BOOLEAN,
              Process(m, error, empty)
       PROVE  kind' = kind /\ req_no' = req_no /\ pc' = pc
  BY <1>10 DEF Process, requestVars
<1>11. CASE \E x \in Requests : \/ \E k \in {"query", "sync", "async"} : SeqLoad(x, k)
                                \/ CallStep(x) \/ Expire(x) \/ Release(x)
  BY <1>3, <1>4, <1>9, <1>11
<1>12. CASE \/ \E m \in replies : Receive(m)
            \/ \E m \in wire, error \in {"ok", "failed"}, empty \in BOOLEAN : Process(m, error, empty)
  BY <1>7, <1>10, <1>12
<1>. QED  BY <1>5, <1>6, <1>8, <1>11, <1>12 DEF Next

\* What the device did with request s, as a reply with the number of r.
RanAs(r, s, e) ==
  [no |-> req_no[r], error |-> e, from |-> s] \in executed /\ (e = "failed" => Args(s) = "SET")

Explained(r, e) ==
  RanAs(r, r, e) \/ (Twin(r) /\ \E s \in Requests : req_no[s] = req_no[r] /\ RanAs(r, s, e))

LEMMA HonestExplained ==
  ResultHonest <=> \A r \in Requests : result[r] \in {"ok", "failed"} => Explained(r, result[r])
BY DEF ResultHonest, Explained, RanAs

\* The network knows the requests of what it carries.
LEMMA FromRequests ==
  ASSUME IInv
  PROVE  /\ \A m \in wire : m.from \in Requests /\ m.no \in Nat /\ m.args \in {"GET", "SET"}
         /\ \A m \in executed : /\ m.from \in Requests
                                /\ m = [no |-> m.no, error |-> m.error, from |-> m.from]
         /\ \A m \in replies : m.from \in Requests /\ m.error \in {"ok", "failed"}
BY DEF IInv, TypeOK, Datagram

LEMMA ArgsKept ==
  ASSUME NEW r \in Requests, Keeps(r), Sent(r)
  PROVE  Args(r)' = Args(r) /\ req_no'[r] = req_no[r] /\ Sent(r)'
<1>1. kind'[r] = kind[r] /\ req_no'[r] = req_no[r] /\ Sent(r)'
  BY DEF Keeps, Sent
<1>2. (r \in Normal)' <=> r \in Normal
  BY <1>1 DEF Normal, Sync, Async
<1>. QED  BY <1>1, <1>2 DEF Args

\* What explained a result still does.
LEMMA ExplainedKept ==
  ASSUME IInv, Answers, \A x \in Requests : Keeps(x), executed \subseteq executed',
         NEW r \in Requests, pc[r] \notin {"idle", "new"}, NEW e, Explained(r, e)
  PROVE  Explained(r, e)'
<1>1. req_no'[r] = req_no[r]
  BY DEF Keeps
<1>2. ASSUME NEW s \in Requests, RanAs(r, s, e) PROVE RanAs(r, s, e)' /\ Sent(s) /\ req_no'[s] = req_no[s]
  <2>1. PICK m \in executed : m = [no |-> req_no[r], error |-> e, from |-> s]
    BY <1>2 DEF RanAs
  <2>2. Sent(s)
    BY <2>1 DEF Answers
  <2>3. Args(s)' = Args(s) /\ req_no'[s] = req_no[s]
    BY <2>2, ArgsKept
  <2>. QED  BY <1>1, <1>2, <2>2, <2>3 DEF RanAs
<1>3. Twin(r) => Twin(r)'
  BY <1>1 DEF Twin, Keeps
<1>. QED  BY <1>1, <1>2, <1>3 DEF Explained

\* Results stay honest while no callback is called, and the network keeps what it knew.
LEMMA HonestKept ==
  ASSUME IInv, Honest, \A x \in Requests : Keeps(x), executed \subseteq executed',
         UNCHANGED result
  PROVE  ResultHonest'
<1> SUFFICES ASSUME NEW r \in Requests, result[r] \in {"ok", "failed"}
             PROVE  Explained(r, result[r])'
  BY HonestExplained DEF ResultHonest, Explained, RanAs
<1>1. pc[r] \notin {"idle", "new"}
  BY DEF Honest, Answers, Unseen
<1>2. Explained(r, result[r])
  BY HonestExplained DEF Honest
<1>3. PICK e : e = result[r]
  OBVIOUS
<1>. QED  BY <1>1, <1>2, <1>3, ExplainedKept DEF Honest, Explained, RanAs

\* A step that leaves the network, the results and the receiver's reply alone.
LEMMA QuietHonest ==
  ASSUME IInv, Honest, \A x \in Requests : Keeps(x),
         UNCHANGED <<wire, executed, replies, result>>,
         pc'[Receiver] = "callback" =>
           pc[Receiver] = "callback" /\ hand'[Receiver] = hand[Receiver] /\ answer' = answer
  PROVE  Honest'
<1>1. ResultHonest'
  BY HonestKept
<1>2. \A m \in wire \cup executed : /\ m.from \in Requests /\ Sent(m.from)
                                    /\ Args(m.from)' = Args(m.from)
                                    /\ req_no'[m.from] = req_no[m.from] /\ Sent(m.from)'
  BY ArgsKept, FromRequests DEF Honest, Answers
<1>3. pc[Receiver] = "callback" => req_no'[hand[Receiver]] = req_no[hand[Receiver]]
  <2> SUFFICES ASSUME pc[Receiver] = "callback" PROVE req_no'[hand[Receiver]] = req_no[hand[Receiver]]
    OBVIOUS
  <2>1. hand[Receiver] \in Requests /\ ~ Unseen(hand[Receiver])
    BY ThreadFacts DEF IInv, TypeOK, Hands, ListSound, Handles
  <2>. QED  BY <2>1 DEF Keeps, Unseen
<1>4. \A r \in Requests : Unseen(r)' => result'[r] = "none"
  <2> SUFFICES ASSUME NEW r \in Requests, Unseen(r)' PROVE result[r] = "none"
    OBVIOUS
  <2>. QED  BY DEF Keeps, Unseen, Honest, Answers
<1>5. Answers'
  BY <1>2, <1>3, <1>4 DEF Honest, Answers
<1>. QED  BY <1>1, <1>5 DEF Honest

LEMMA SendHonest == ASSUME IInv, Honest, \A x \in Requests : Keeps(x), NEW r \in Requests, Send(r) PROVE Honest'
<1>1. /\ pc[r] = "send" /\ wire' = wire \cup {[no |-> req_no[r], args |-> Args(r), from |-> r]}
      /\ UNCHANGED <<executed, replies, result, hand, answer, kind, req_no>>
      /\ pc'[r] \in {"wait", "done", "open"} /\ pc'[Receiver] = pc[Receiver]
  BY ThreadFacts DEF Send, Goto, requestVars, doneVars, IInv, TypeOK
<1>2. ResultHonest'
  BY <1>1, HonestKept
<1>3. \A x \in Requests : /\ Sent(x) => Sent(x)' /\ Args(x)' = Args(x) /\ req_no'[x] = req_no[x]
                          /\ Unseen(x)' => Unseen(x)
  <2>1. Sync' = Sync /\ Async' = Async /\ Normal' = Normal
    BY <1>1, SameKinds
  <2>2. \A x \in Requests : Args(x)' = Args(x) /\ req_no'[x] = req_no[x]
    BY <1>1, <2>1 DEF Args
  <2>. QED  BY <2>2 DEF Keeps, Sent, Unseen
<1>4. Sent(r)' /\ Args(r)' = Args(r) /\ req_no'[r] = req_no[r]
  <2>1. Sent(r)'
    BY <1>1 DEF Sent
  <2>2. Args(r)' = Args(r)
    <3>1. Sync' = Sync /\ Async' = Async /\ Normal' = Normal
      BY <1>1, SameKinds
    <3>. QED  BY <3>1 DEF Args
  <2>. QED  BY <1>1, <2>1, <2>2
<1>5. \A m \in wire' : Sent(m.from)' /\ m.no = req_no'[m.from] /\ m.args = Args(m.from)'
  <2>1. \A m \in wire : Sent(m.from)' /\ m.no = req_no'[m.from] /\ m.args = Args(m.from)'
    BY <1>3, FromRequests DEF Honest, Answers
  <2>. QED  BY <1>1, <1>4, <2>1
<1>6. \A m \in executed : Sent(m.from)' /\ m.no = req_no'[m.from] /\ Args(m.from)' = Args(m.from)
  BY <1>3, FromRequests DEF Honest, Answers
<1>7. Answers'
  BY <1>1, <1>3, <1>5, <1>6 DEF Honest, Answers
<1>. QED  BY <1>2, <1>7 DEF Honest

LEMMA ReceiveHonest == ASSUME IInv, Honest, \A x \in Requests : Keeps(x), NEW m \in replies, Receive(m) PROVE Honest'
<1>1. UNCHANGED <<wire, executed, replies, result, req_no, kind>>
  BY DEF Receive, requestVars, doneVars
<1>2. CASE pc'[Receiver] # "callback"
  BY <1>1, <1>2, QuietHonest
<1>3. CASE pc'[Receiver] = "callback"
  <2>1. PICK r \in Answered(m.no) : hand' = [hand EXCEPT ![Receiver] = r] /\ answer' = m.error
    BY <1>3, ThreadFacts DEF Receive, Goto, AfterMessage, IInv, TypeOK
  <2>2. hand'[Receiver] = r /\ req_no[r] = m.no
    BY <2>1, AnsweredLinked DEF IInv, TypeOK, Handlers
  <2>3. ResultHonest'
    BY <1>1, HonestKept
  <2>4. \A x \in Requests : /\ Sent(x) => Sent(x)' /\ Args(x)' = Args(x)
                            /\ Unseen(x)' => Unseen(x)
    <3>1. Sync' = Sync /\ Async' = Async /\ Normal' = Normal
      BY <1>1, SameKinds
    <3>. QED  BY <3>1 DEF Args, Keeps, Sent, Unseen
  <2>5. \A d \in wire \cup executed : Sent(d.from)' /\ Args(d.from)' = Args(d.from)
    BY <2>4, FromRequests DEF Honest, Answers
  <2>6. \E d \in replies : d.no = req_no'[hand'[Receiver]] /\ d.error = answer'
    BY <1>1, <2>1, <2>2
  <2>7. Answers'
    BY <1>1, <2>4, <2>5, <2>6 DEF Honest, Answers
  <2>. QED  BY <2>3, <2>7 DEF Honest
<1>. QED  BY <1>2, <1>3

\* The callback of r is called with the error of a reply that has the number of r.
LEMMA CallbackHonest == ASSUME IInv, Honest, \A x \in Requests : Keeps(x), Callback PROVE Honest'
<1>1. PICK r : r = hand[Receiver]
  OBVIOUS
<1>2. /\ pc[Receiver] = "callback" /\ pc'[Receiver] # "callback"
      /\ result' = [result EXCEPT ![r] = answer]
      /\ UNCHANGED <<wire, executed, replies, kind, req_no>>
  BY <1>1, ThreadFacts DEF Callback, Complete, Goto, requestVars, netVars, IInv, TypeOK
<1>3. r \in Requests /\ ~ Unseen(r) /\ answer \in {"ok", "failed"}
  BY <1>1, <1>2, ThreadFacts DEF IInv, TypeOK, Hands, ListSound, Handles
<1>4. \A x \in Requests : result'[x] = IF x = r THEN answer ELSE result[x]
  BY <1>2 DEF IInv, TypeOK
<1>5. Explained(r, answer)
  <2>1. PICK m \in replies : m.no = req_no[r] /\ m.error = answer
    BY <1>1, <1>2 DEF Honest, Answers
  <2>2. PICK s \in Requests : s = m.from
    BY FromRequests
  <2>3. m \in executed /\ m = [no |-> req_no[r], error |-> answer, from |-> s]
    BY <2>1, <2>2, FromRequests DEF Honest, Answers
  <2>4. Sent(s) /\ req_no[s] = req_no[r] /\ RanAs(r, s, answer)
    BY <2>1, <2>2, <2>3 DEF Honest, Answers, RanAs
  <2>. QED  BY <2>4 DEF Explained, Twin, Sent
<1>6. \A x \in Requests : result'[x] \in {"ok", "failed"} =>
         Explained(x, result'[x]) /\ pc[x] \notin {"idle", "new"}
  <2> SUFFICES ASSUME NEW x \in Requests, result'[x] \in {"ok", "failed"}
               PROVE  Explained(x, result'[x]) /\ pc[x] \notin {"idle", "new"}
    OBVIOUS
  <2>1. CASE x = r
    BY <1>3, <1>4, <1>5, <2>1 DEF Unseen
  <2>2. CASE x # r
    BY <1>4, <2>2, HonestExplained DEF Honest, Answers, Unseen
  <2>. QED  BY <2>1, <2>2
<1>7. ResultHonest'
  <2> SUFFICES ASSUME NEW x \in Requests, result'[x] \in {"ok", "failed"},
                      NEW e, e = result'[x]
               PROVE  Explained(x, e)'
    BY DEF ResultHonest, Explained, RanAs
  <2>. QED  BY <1>2, <1>6, ExplainedKept DEF Honest
<1>8. Answers'
  <2>1. \A d \in wire \cup executed : Sent(d.from)' /\ Args(d.from)' = Args(d.from)
    BY ArgsKept, FromRequests DEF Honest, Answers
  <2>2. \A x \in Requests : Unseen(x)' => Unseen(x)
    BY DEF Keeps, Unseen
  <2>. QED  BY <1>2, <1>3, <1>4, <2>1, <2>2 DEF Honest, Answers
<1>. QED  BY <1>7, <1>8 DEF Honest

LEMMA TimeOutHonest == ASSUME IInv, Honest, \A x \in Requests : Keeps(x), TimeOut PROVE Honest'
<1>1. PICK r : r = Head(pass)
  OBVIOUS
<1>2. /\ result' = [result EXCEPT ![r] = "timeout"] /\ pass # <<>>
      /\ hand' = [hand EXCEPT ![Timer] = r] /\ pc' = [pc EXCEPT ![Timer] = "called"]
      /\ UNCHANGED <<wire, executed, replies, kind, req_no, answer>>
  BY <1>1 DEF TimeOut, Complete, Goto, requestVars, netVars
<1>3. r \in Requests /\ ~ Unseen(r)
  BY <1>1, <1>2, TailSound DEF IInv, TypeOK, ListSound
<1>4. /\ \A x \in Requests : result'[x] = IF x = r THEN "timeout" ELSE result[x]
      /\ hand'[Receiver] = hand[Receiver] /\ pc'[Receiver] = pc[Receiver]
  BY <1>2, ThreadFacts DEF IInv, TypeOK
<1>5. \A x \in Requests : result'[x] \in {"ok", "failed"} =>
         Explained(x, result'[x]) /\ pc[x] \notin {"idle", "new"}
  BY <1>4, HonestExplained DEF Honest, Answers, Unseen
<1>6. ResultHonest'
  <2> SUFFICES ASSUME NEW x \in Requests, result'[x] \in {"ok", "failed"},
                      NEW e, e = result'[x]
               PROVE  Explained(x, e)'
    BY DEF ResultHonest, Explained, RanAs
  <2>. QED  BY <1>2, <1>5, ExplainedKept DEF Honest
<1>7. Answers'
  <2>1. \A d \in wire \cup executed : Sent(d.from)' /\ Args(d.from)' = Args(d.from)
    BY ArgsKept, FromRequests DEF Honest, Answers
  <2>2. \A x \in Requests : Unseen(x)' => Unseen(x)
    BY DEF Keeps, Unseen
  <2>. QED  BY <1>2, <1>3, <1>4, <2>1, <2>2 DEF Honest, Answers
<1>. QED  BY <1>6, <1>7 DEF Honest

\* The device answers what it has run, and tells of a failure only a set.
LEMMA ProcessHonest == ASSUME IInv, Honest, \A x \in Requests : Keeps(x), NEW m \in wire,
         NEW error \in {"ok", "failed"}, NEW empty \in BOOLEAN, Process(m, error, empty) PROVE Honest'
<1>1. PICK d : d = [no |-> m.no, error |-> error, from |-> m.from]
  OBVIOUS
<1>2. /\ executed' = executed \cup {d}
      /\ \/ replies' = replies \cup {d} /\ (error = "failed" => m.args = "SET")
         \/ replies' = replies
      /\ UNCHANGED <<wire, result, kind, req_no, pc, hand, answer>>
  BY <1>1 DEF Process, RepliesTo, requestVars, doneVars
<1>3. ResultHonest'
  BY <1>2, HonestKept
<1>4. /\ \A x \in Requests : Args(x)' = Args(x)
      /\ \A x : (Sent(x)' <=> Sent(x)) /\ (Unseen(x)' <=> Unseen(x))
  <2>1. Sync' = Sync /\ Async' = Async /\ Normal' = Normal
    BY <1>2, SameKinds
  <2>. QED  BY <1>2, <2>1 DEF Args, Sent, Unseen
<1>5. /\ d.from \in Requests /\ Sent(d.from) /\ d.no = req_no[d.from]
      /\ replies' = replies \cup {d} => (d.error = "failed" => Args(d.from) = "SET") \/ d \in replies
  BY <1>1, <1>2, FromRequests DEF Honest, Answers
<1>6. \A x \in wire \cup executed \cup replies : x.from \in Requests
  BY FromRequests
<1>7. \A x \in replies' : x \in replies \/ (x = d /\ replies' = replies \cup {d})
  BY <1>2
<1>8. Answers'
  BY <1>2, <1>4, <1>5, <1>6, <1>7 DEF Honest, Answers
<1>. QED  BY <1>3, <1>8 DEF Honest

LEMMA NextHonest == ASSUME IInv, Honest, [Next]_vars PROVE Honest'
<1> USE StepKeeps
<1> DEFINE Quiet == /\ UNCHANGED <<wire, executed, replies, result>>
                    /\ pc'[Receiver] = "callback" =>
                         /\ pc[Receiver] = "callback" /\ hand'[Receiver] = hand[Receiver]
                         /\ answer' = answer
<1>1. Quiet => Honest'
  BY QuietHonest
<1>2. pc \in [Threads -> {"idle", "new", "add", "send", "wait", "open", "done", "drop", "store",
                         "test", "select", "callback", "called", "sleep", "scan", "exited"}]
      /\ hand \in [Handlers -> Requests \cup {NoRequest}]
  BY DEF IInv, TypeOK
<1>3. ASSUME NEW t \in Threads, DropStep(t) PROVE Quiet
  BY <1>2, <1>3, ThreadFacts
  DEF DropStep, DropLoad, DropStore, DropTest, Goto, netVars, doneVars, AfterMessage
<1>4. ASSUME NEW r \in Requests, New(r) \/ Add(r) \/ Wake(r) \/ Release(r) PROVE Quiet
  BY <1>2, <1>4, ThreadFacts DEF New, Add, Wake, Release, Goto, netVars, doneVars
<1>5. ASSUME NEW r \in Requests, NEW k \in {"query", "sync", "async"}, SeqLoad(r, k) PROVE Quiet
  BY <1>2, <1>5, ThreadFacts DEF SeqLoad, Goto, netVars, doneVars
<1>6. ASSUME QueryCalled \/ Signal(Receiver) \/ ReceiverExit PROVE Quiet
  BY <1>2, <1>6, ThreadFacts DEF QueryCalled, Signal, ReceiverExit, Goto, netVars, doneVars, AfterMessage
<1>7. ASSUME TimerLock \/ NotYet \/ TimerUnlock \/ Signal(Timer) PROVE Quiet
  BY <1>2, <1>7, ThreadFacts DEF TimerLock, NotYet, TimerUnlock, Signal, Goto, netVars, doneVars
<1>8. ASSUME Stop \/ Delete \/ Deleted \/ Undefined \/ UNCHANGED vars PROVE Quiet
  BY <1>8 DEF Stop, Delete, Deleted, Undefined, vars, netVars, doneVars
<1>9. ASSUME NEW r \in Requests, Expire(r) PROVE Quiet
  BY <1>9 DEF Expire, netVars, doneVars
<1> HIDE DEF Quiet
<1>10. ASSUME NEW r \in Requests, CallStep(r) PROVE Honest'
  BY <1>1, <1>3, <1>4, <1>10, SendHonest, ThreadFacts DEF CallStep
<1>11. CASE ReceiverStep
  BY <1>1, <1>3, <1>6, <1>11, CallbackHonest, ThreadFacts DEF ReceiverStep
<1>12. CASE TimerStep
  BY <1>1, <1>3, <1>7, <1>12, TimeOutHonest, ThreadFacts DEF TimerStep
<1>13. CASE \E r \in Requests : \/ \E k \in {"query", "sync", "async"} : SeqLoad(r, k)
                                \/ CallStep(r) \/ Expire(r) \/ Release(r)
  BY <1>1, <1>4, <1>5, <1>9, <1>10, <1>13
<1>14. CASE \/ \E m \in replies : Receive(m)
            \/ \E m \in wire, error \in {"ok", "failed"}, empty \in BOOLEAN : Process(m, error, empty)
  BY <1>14, ReceiveHonest, ProcessHonest
<1>. QED  BY <1>1, <1>8, <1>11, <1>12, <1>13, <1>14 DEF Next

LEMMA InitHonest == Init => Honest
<1> SUFFICES ASSUME Init PROVE Honest
  OBVIOUS
<1>1. \A r \in Requests : result[r] = "none"
  BY DEF Init
<1>. QED  BY <1>1, ThreadFacts DEF Init, Honest, Answers, ResultHonest

\* A callback is told that its request was done, or that a set failed, only if the device
\* ran that very request with that end, or one of the same number did.
THEOREM ResultsAreHonest == Spec => []ResultHonest
<1>1. Init => Honest
  BY InitHonest
<1>2. IInv /\ Honest /\ [Next]_vars => Honest'
  BY NextHonest
<1>3. Honest => ResultHonest
  BY DEF Honest
<1>. QED  BY <1>1, <1>2, <1>3, Invariance, PTL DEF Spec

--------------------------------------------------------------------------------
(* Owners that do not meet.                                                  *)

HandlerAt(r, place) == \E h \in Handlers : Handles(h, r) /\ pc[h] = place

\* The two owners of a synchronous request, if they never met: they are never both about to
\* write its count, or both about to test it; the second of them reads one and writes zero;
\* and then it is allocated until the one that is still to test it has done so.
SyncDrops(r) ==
  /\ ~ (pc[r] = "store" /\ HandlerAt(r, "store"))
  /\ ~ (pc[r] = "test" /\ HandlerAt(r, "test"))
  /\ pc[r] = "store" /\ HandlerStored(r) => loaded[r] = 1
  /\ \A h \in Handlers : Handles(h, r) /\ pc[h] = "store" /\ CallerStored(r) => loaded[h] = 1
  /\ HandlerStored(r) /\ CallerStored(r) =>
       ref_count[r] = 0 /\ (memory[r] = "live" <=> pc[r] = "test" \/ HandlerAt(r, "test"))

SyncDropped == \A r \in Sync \ met : SyncDrops(r)

\* A step that neither owner of r takes in mb_req_unref.
SameFor(r) ==
  /\ HandlerStored(r)' <=> HandlerStored(r)
  /\ CallerStored(r)' <=> CallerStored(r)
  /\ pc'[r] = "store" <=> pc[r] = "store"
  /\ pc'[r] = "test" <=> pc[r] = "test"
  /\ HandlerAt(r, "store")' <=> HandlerAt(r, "store")
  /\ HandlerAt(r, "test")' <=> HandlerAt(r, "test")
  /\ pc[r] = "store" => loaded'[r] = loaded[r]
  /\ \A h \in Handlers : Handles(h, r)' /\ pc'[h] = "store" =>
       Handles(h, r) /\ pc[h] = "store" /\ loaded'[h] = loaded[h]
  /\ ref_count'[r] = ref_count[r] /\ memory'[r] = memory[r]

LEMMA SameDrops == ASSUME NEW r \in Requests, SyncDrops(r), SameFor(r) PROVE SyncDrops(r)'
BY DEF SyncDrops, SameFor

LEMMA FreshDrops ==
  ASSUME NEW r, pc[r] \notin {"store", "test", "done"}, ~ event_true[r],
         \A h \in Handlers : ~ Handles(h, r)
  PROVE  SyncDrops(r)
BY DEF SyncDrops, HandlerStored, CallerStored, HandlerAt

LEMMA DropLoadDrops == ASSUME IInv, SyncDropped, NEW t \in Threads, DropLoad(t) PROVE SyncDropped'
<1> USE DEF IInv
<1>1. PICK d : d = Dropped(t)
  OBVIOUS
<1>2. /\ pc[t] = "drop" /\ pc' = [pc EXCEPT ![t] = "store"]
      /\ met' = (IF Meets(t, "store") THEN met \cup {d} ELSE met)
      /\ loaded' = [loaded EXCEPT ![t] = ref_count[d]]
      /\ UNCHANGED <<kind, ref_count, memory, event_true, hand>>
  BY <1>1 DEF DropLoad, Goto, requestVars, doneVars
<1>3. /\ \A u \in Threads : pc'[u] = IF u = t THEN "store" ELSE pc[u]
      /\ \A u \in Threads : loaded'[u] = IF u = t THEN ref_count[d] ELSE loaded[u]
  BY <1>2 DEF TypeOK
<1>4. Sync' = Sync /\ \A h, x : Handles(h, x)' <=> Handles(h, x)
  BY <1>2, SameKinds DEF Handles
<1>5. \/ t = d /\ t \notin Handlers /\ t \in Requests
      \/ t \in Handlers /\ Handles(t, d)
  BY <1>1, <1>2, DroppedBy
<1> SUFFICES ASSUME NEW r \in Sync, r \notin met' PROVE SyncDrops(r)'
  BY <1>4 DEF SyncDropped
<1>6. SyncDrops(r) /\ r \in Requests /\ r \in Threads
  BY <1>2, KindsOfRequests, ThreadFacts DEF SyncDropped
<1>7. CASE r # d
  <2>1. r # t /\ \A h \in Handlers : Handles(h, r) => h # t
    BY <1>5, <1>6, <1>7, ThreadFacts DEF Handles
  <2>2. SameFor(r)
    BY <1>2, <1>3, <1>4, <1>6, <2>1, ThreadFacts
    DEF SameFor, HandlerStored, CallerStored, HandlerAt, Handles
  <2>. QED  BY <1>6, <2>2, SameDrops
<1>8. CASE r = d
  <2>1. \A u \in Threads \ {t} : Dropped(u) = r => pc[u] # "store"
    BY <1>1, <1>2, <1>8 DEF Meets
  <2>2. SyncCount(r)
    BY <1>5, <1>6, <1>2, <1>8, ThreadFacts DEF SyncCounts, ListSound, Unseen, Handles
  <2>3. CASE t = d /\ t \notin Handlers
    <3>1. \A h \in Handlers : Handles(h, r) => Dropped(h) = r /\ h # t /\ h \in Threads
      BY <2>3, ThreadFacts DEF Handles, Dropped
    <3>2. ~ HandlerAt(r, "store") /\ ~ HandlerAt(r, "store")'
      BY <1>3, <1>4, <2>1, <3>1 DEF HandlerAt
    <3>3. (HandlerStored(r)' <=> HandlerStored(r)) /\ ~ CallerStored(r) /\ ~ CallerStored(r)'
      BY <1>2, <1>3, <1>4, <1>6, <1>8, <2>3, <3>1 DEF HandlerStored, CallerStored
    <3>4. HandlerStored(r) => loaded'[r] = 1
      BY <1>3, <1>6, <1>8, <2>2, <2>3, <3>3 DEF SyncCount
    <3>. QED  BY <1>3, <1>6, <1>8, <2>3, <3>2, <3>3, <3>4 DEF SyncDrops, HandlerAt
  <2>4. CASE t \in Handlers /\ Handles(t, d)
    <3>1. /\ \A h \in Handlers : Handles(h, r) => h = t
          /\ r # t /\ Dropped(r) = r /\ Dropped(t) = r
      BY <1>1, <1>6, <1>8, <2>4, KindsOfRequests, ThreadFacts DEF OnePlace, Handles, Dropped
    <3>2. pc[r] # "store" /\ pc'[r] = pc[r]
      BY <1>3, <1>6, <2>1, <3>1
    <3>3. ~ HandlerStored(r) /\ ~ HandlerStored(r)' /\ (CallerStored(r)' <=> CallerStored(r))
      BY <1>2, <1>3, <1>4, <1>8, <2>4, <3>2 DEF HandlerStored, CallerStored
    <3>4. CallerStored(r) => loaded'[t] = 1
      BY <1>3, <1>8, <2>2, <3>3 DEF SyncCount
    <3>5. ~ HandlerAt(r, "test")'
      BY <1>3, <1>4, <3>1 DEF HandlerAt
    <3>. QED  BY <1>3, <1>4, <3>1, <3>2, <3>3, <3>4, <3>5 DEF SyncDrops, HandlerAt
  <2>. QED  BY <1>5, <2>3, <2>4
<1>. QED  BY <1>7, <1>8

LEMMA DropStoreDrops == ASSUME IInv, SyncDropped, NEW t \in Threads, DropStore(t) PROVE SyncDropped'
<1> USE DEF IInv
<1>1. PICK d : d = Dropped(t)
  OBVIOUS
<1>2. /\ pc[t] = "store" /\ pc' = [pc EXCEPT ![t] = "test"]
      /\ met' = (IF Meets(t, "test") THEN met \cup {d} ELSE met)
      /\ ref_count' = [ref_count EXCEPT ![d] = loaded[t] - 1]
      /\ loaded' = [loaded EXCEPT ![t] = 0]
      /\ UNCHANGED <<kind, memory, event_true, hand>>
  BY <1>1 DEF DropStore, Goto, doneVars
<1>3. d \in Requests /\ \/ t = d /\ t \notin Handlers /\ t \in Requests
                        \/ t \in Handlers /\ Handles(t, d)
  BY <1>1, <1>2, DroppedBy
<1>4. /\ \A u \in Threads : pc'[u] = IF u = t THEN "test" ELSE pc[u]
      /\ \A u \in Threads : loaded'[u] = IF u = t THEN 0 ELSE loaded[u]
      /\ \A x \in Requests : ref_count'[x] = IF x = d THEN loaded[t] - 1 ELSE ref_count[x]
  BY <1>2, <1>3 DEF TypeOK
<1>5. Sync' = Sync /\ \A h, x : Handles(h, x)' <=> Handles(h, x)
  BY <1>2, SameKinds DEF Handles
<1> SUFFICES ASSUME NEW r \in Sync, r \notin met' PROVE SyncDrops(r)'
  BY <1>5 DEF SyncDropped
<1>6. SyncDrops(r) /\ r \in Requests /\ r \in Threads
  BY <1>2, KindsOfRequests, ThreadFacts DEF SyncDropped
<1>7. CASE r # d
  <2>1. r # t /\ \A h \in Handlers : Handles(h, r) => h # t
    BY <1>3, <1>6, <1>7, ThreadFacts DEF Handles
  <2>2. SameFor(r)
    BY <1>2, <1>4, <1>5, <1>6, <1>7, <2>1, ThreadFacts
    DEF SameFor, HandlerStored, CallerStored, HandlerAt, Handles
  <2>. QED  BY <1>6, <2>2, SameDrops
<1>8. CASE r = d
  <2>1. \A u \in Threads \ {t} : Dropped(u) = r => pc[u] # "test"
    BY <1>1, <1>2, <1>8 DEF Meets
  <2>2. SyncCount(r)
    BY <1>3, <1>6, <1>2, <1>8, ThreadFacts DEF SyncCounts, ListSound, Unseen, Handles
  <2>3. CASE t = d /\ t \notin Handlers
    <3>1. \A h \in Handlers : Handles(h, r) => Dropped(h) = r /\ h # t /\ h \in Threads
      BY <2>3, ThreadFacts DEF Handles, Dropped
    <3>2. ~ HandlerAt(r, "test") /\ ~ HandlerAt(r, "test")' /\ ~ HandlerAt(r, "store")
           /\ ~ HandlerAt(r, "store")'
      BY <1>2, <1>4, <1>5, <1>6, <1>8, <2>1, <2>3, <3>1 DEF HandlerAt, SyncDrops
    <3>3. (HandlerStored(r)' <=> HandlerStored(r)) /\ ~ CallerStored(r) /\ CallerStored(r)'
           /\ pc'[r] = "test"
      BY <1>2, <1>4, <1>5, <1>6, <1>8, <2>3, <3>1 DEF HandlerStored, CallerStored
    <3>4. HandlerStored(r) => ref_count'[r] = 0 /\ memory'[r] = "live"
      BY <1>2, <1>4, <1>6, <1>8, <2>2, <2>3, <3>3 DEF SyncCount, SyncDrops
    <3>5. \A h \in Handlers : ~ (Handles(h, r)' /\ pc'[h] = "store")
      BY <3>2 DEF HandlerAt
    <3>. QED  BY <3>2, <3>3, <3>4, <3>5 DEF SyncDrops
  <2>4. CASE t \in Handlers /\ Handles(t, d)
    <3>1. /\ \A h \in Handlers : Handles(h, r) => h = t
          /\ r # t /\ Dropped(r) = r /\ Dropped(t) = r
      BY <1>1, <1>6, <1>8, <2>4, KindsOfRequests, ThreadFacts DEF OnePlace, Handles, Dropped
    <3>2. pc[r] # "test" /\ pc'[r] = pc[r]
      BY <1>4, <1>6, <2>1, <3>1
    <3>3. ~ HandlerStored(r) /\ (CallerStored(r)' <=> CallerStored(r))
      BY <1>2, <1>4, <1>5, <1>8, <2>4, <3>2 DEF HandlerStored, CallerStored
    <3>4. HandlerAt(r, "store") /\ ~ HandlerAt(r, "store")' /\ HandlerAt(r, "test")'
      BY <1>2, <1>4, <1>5, <1>8, <2>4, <3>1 DEF HandlerAt
    <3>5. pc[r] # "store"
      BY <1>6, <3>4 DEF SyncDrops
    <3>6. CallerStored(r) => ref_count'[r] = 0 /\ memory'[r] = "live"
      BY <1>2, <1>4, <1>6, <1>8, <2>2, <2>4, <3>3 DEF SyncCount, SyncDrops
    <3>7. \A h \in Handlers : ~ (Handles(h, r)' /\ pc'[h] = "store")
      BY <3>4 DEF HandlerAt
    <3>. QED  BY <3>2, <3>3, <3>4, <3>5, <3>6, <3>7 DEF SyncDrops
  <2>. QED  BY <1>3, <2>3, <2>4
<1>. QED  BY <1>7, <1>8

LEMMA DropTestDrops == ASSUME IInv, SyncDropped, NEW t \in Threads, DropTest(t) PROVE SyncDropped'
<1> USE DEF IInv
<1>1. PICK d : d = Dropped(t)
  OBVIOUS
<1>2. /\ pc[t] = "test"
      /\ pc' = [pc EXCEPT ![t] = IF t = Receiver THEN AfterMessage ELSE IF t = Timer THEN "scan" ELSE "done"]
      /\ memory' = (IF ref_count[d] = 0 THEN [memory EXCEPT ![d] = "freed"] ELSE memory)
      /\ hand' = (IF t \in Handlers THEN [hand EXCEPT ![t] = NoRequest] ELSE hand)
      /\ UNCHANGED <<kind, ref_count, loaded, event_true, met>>
  BY <1>1 DEF DropTest, FreeIfZero, Goto, doneVars
<1>3. d \in Requests /\ \/ t = d /\ t \notin Handlers /\ t \in Requests
                        \/ t \in Handlers /\ Handles(t, d)
  BY <1>1, <1>2, DroppedBy
<1>4. /\ \A u \in Threads \ {t} : pc'[u] = pc[u]
      /\ pc'[t] \in {"select", "exited", "scan", "done"}
      /\ t \notin Handlers => pc'[t] = "done"
      /\ \A x \in Requests \ {d} : memory'[x] = memory[x]
      /\ ref_count[d] = 0 => memory'[d] = "freed"
      /\ ref_count[d] # 0 => memory' = memory
  BY <1>2, <1>3, ThreadFacts DEF TypeOK, AfterMessage
<1>5. /\ Sync' = Sync
      /\ \A h \in Handlers, x \in Requests : Handles(h, x)' <=> Handles(h, x) /\ h # t
  <2>1. \A h \in Handlers : hand'[h] = IF h = t THEN NoRequest ELSE hand[h]
    BY <1>2 DEF TypeOK
  <2>. QED  BY <1>2, <2>1, SameKinds, ThreadFacts DEF Handles
<1> SUFFICES ASSUME NEW r \in Sync, r \notin met PROVE SyncDrops(r)'
  BY <1>2, <1>5 DEF SyncDropped
<1>6. SyncDrops(r) /\ r \in Requests /\ r \in Threads
  BY <1>2, KindsOfRequests, ThreadFacts DEF SyncDropped
<1>7. CASE r # d
  <2>1. r # t /\ \A h \in Handlers : Handles(h, r) => h # t
    BY <1>3, <1>6, <1>7, ThreadFacts DEF Handles
  <2>2. SameFor(r)
    BY <1>2, <1>4, <1>5, <1>6, <1>7, <2>1, ThreadFacts
    DEF SameFor, HandlerStored, CallerStored, HandlerAt
  <2>. QED  BY <1>6, <2>2, SameDrops
<1>8. CASE r = d
  <2>1. SyncCount(r)
    BY <1>3, <1>6, <1>2, <1>8, ThreadFacts DEF SyncCounts, ListSound, Unseen, Handles
  <2>2. CASE t = d /\ t \notin Handlers
    <3>1. \A h \in Handlers : (Handles(h, r)' <=> Handles(h, r)) /\ h # t /\ pc'[h] = pc[h]
      BY <1>4, <1>5, <1>6, <2>2, ThreadFacts
    <3>2. ~ HandlerAt(r, "test")' /\ pc'[r] = "done" /\ pc[r] = "test"
      BY <1>2, <1>4, <1>6, <1>8, <2>2, <3>1 DEF HandlerAt, SyncDrops
    <3>3. (HandlerStored(r)' <=> HandlerStored(r)) /\ CallerStored(r) /\ CallerStored(r)'
      BY <1>2, <3>1, <3>2 DEF HandlerStored, CallerStored
    <3>4. HandlerStored(r) => ref_count'[r] = 0 /\ memory'[r] = "freed"
      BY <1>2, <1>4, <1>6, <1>8, <3>3 DEF SyncDrops
    <3>5. \A h \in Handlers : Handles(h, r)' /\ pc'[h] = "store" => loaded'[h] = 1
      BY <1>2, <1>6, <3>1, <3>3 DEF SyncDrops
    <3>. QED  BY <3>2, <3>3, <3>4, <3>5 DEF SyncDrops
  <2>3. CASE t \in Handlers /\ Handles(t, d)
    <3>1. \A h \in Handlers : ~ Handles(h, r)'
      BY <1>5, <1>6, <1>8, <2>3, KindsOfRequests DEF OnePlace, Handles, Handlers
    <3>2. pc'[r] = pc[r] /\ HandlerAt(r, "test") /\ event_true[r] /\ r # t
      BY <1>2, <1>4, <1>6, <1>8, <2>3, KindsOfRequests, ThreadFacts DEF HandlerAt, Woken
    <3>3. HandlerStored(r) /\ HandlerStored(r)' /\ (CallerStored(r)' <=> CallerStored(r))
      BY <1>2, <1>5, <1>6, <1>8, <2>3, <3>1, <3>2, KindsOfRequests
      DEF HandlerStored, CallerStored, OnePlace, Handles, Handlers
    <3>4. pc[r] # "test" /\ ~ HandlerAt(r, "test")' /\ ~ HandlerAt(r, "store")'
      BY <1>6, <3>1, <3>2 DEF SyncDrops, HandlerAt
    <3>5. CallerStored(r) => ref_count'[r] = 0 /\ memory'[r] = "freed"
      BY <1>2, <1>4, <1>6, <1>8, <3>3 DEF SyncDrops
    <3>6. pc[r] = "store" => loaded'[r] = 1
      BY <1>2, <1>6, <3>3 DEF SyncDrops
    <3>. QED  BY <3>1, <3>2, <3>3, <3>4, <3>5, <3>6 DEF SyncDrops
  <2>. QED  BY <1>3, <2>2, <2>3
<1>. QED  BY <1>7, <1>8

LEMMA NextDrops == ASSUME IInv, SyncDropped, [Next]_vars PROVE SyncDropped'
<1> USE DEF IInv
<1>1. /\ pc \in [Threads -> {"idle", "new", "add", "send", "wait", "open", "done", "drop", "store",
                         "test", "select", "callback", "called", "sleep", "scan", "exited"}]
      /\ hand \in [Handlers -> Requests \cup {NoRequest}] /\ loaded \in [Threads -> Nat]
      /\ event_true \in [Requests -> BOOLEAN] /\ kind \in [Requests -> {"none", "query", "sync", "async"}]
      /\ ref_count \in [Requests -> Nat] /\ memory \in [Requests -> {"unused", "live", "freed"}]
  BY DEF TypeOK
<1>2. ASSUME UNCHANGED <<kind, met>>, \A r \in Sync : SameFor(r) PROVE SyncDropped'
  BY <1>2, SameKinds, SameDrops, KindsOfRequests DEF SyncDropped
<1>3. ASSUME NEW t \in Threads, DropStep(t) PROVE SyncDropped'
  BY <1>3, DropLoadDrops, DropStoreDrops, DropTestDrops DEF DropStep
<1>4. ASSUME NEW x \in Requests, Add(x) \/ Send(x) \/ Wake(x) \/ Release(x) PROVE SyncDropped'
  <2>1. UNCHANGED <<kind, met, ref_count, memory, hand, event_true, loaded>>
    BY <1>4 DEF Add, Send, Wake, Release, requestVars, doneVars, historyVars
  <2>2. /\ pc[x] \in {"add", "send", "wait", "open"} /\ \A u \in Threads \ {x} : pc'[u] = pc[u]
        /\ pc'[x] \in {"send", "wait", "open", "drop"} \/ (pc'[x] = "done" /\ x \in Async)
    BY <1>1, <1>4, ThreadFacts DEF Add, Send, Wake, Release, Goto
  <2>3. \A r \in Sync : SameFor(r)
    BY <1>1, <2>1, <2>2, KindsOfRequests, ThreadFacts
    DEF SameFor, HandlerStored, CallerStored, HandlerAt, Handles
  <2>. QED  BY <1>2, <2>1, <2>3
<1>5. ASSUME NEW x \in Requests, New(x) PROVE SyncDropped'
  <2>1. /\ UNCHANGED <<kind, met, hand, event_true>> /\ pc[x] = "new" /\ pc' = [pc EXCEPT ![x] = "add"]
        /\ \A r \in Requests \ {x} : ref_count'[r] = ref_count[r] /\ memory'[r] = memory[r]
        /\ \A u \in Threads \ {x} : loaded'[u] = loaded[u] /\ pc'[u] = pc[u]
        /\ pc'[x] = "add"
    BY <1>1, <1>5, ThreadFacts DEF New, Goto, doneVars, historyVars
  <2>2. \A r \in Sync \ {x} : SameFor(r)
    BY <1>1, <2>1, KindsOfRequests, ThreadFacts
    DEF SameFor, HandlerStored, CallerStored, HandlerAt, Handles
  <2>3. ~ event_true[x] /\ \A h \in Handlers : ~ Handles(h, x)
    BY <2>1 DEF ListSound, Woken, Unseen
  <2>4. SyncDrops(x)'
    BY <2>1, <2>3 DEF SyncDrops, HandlerStored, CallerStored, HandlerAt, Handles
  <2>5. Sync' = Sync
    BY <2>1, SameKinds
  <2>. QED  BY <2>1, <2>2, <2>4, <2>5, SameDrops, KindsOfRequests DEF SyncDropped
<1>6. ASSUME NEW x \in Requests, NEW k \in {"query", "sync", "async"}, SeqLoad(x, k) PROVE SyncDropped'
  <2>1. /\ UNCHANGED <<met, hand, event_true, ref_count, memory>> /\ pc[x] = "idle"
        /\ \A u \in Threads \ {x} : loaded'[u] = loaded[u] /\ pc'[u] = pc[u]
        /\ pc'[x] = "new" /\ \A r \in Requests \ {x} : kind'[r] = kind[r]
    BY <1>1, <1>6, ThreadFacts DEF SeqLoad, Goto, doneVars, historyVars
  <2>2. \A r \in Sync \ {x} : SameFor(r)
    BY <1>1, <2>1, KindsOfRequests, ThreadFacts
    DEF SameFor, HandlerStored, CallerStored, HandlerAt, Handles
  <2>3. ~ event_true[x] /\ \A h \in Handlers : ~ Handles(h, x)
    BY <2>1 DEF ListSound, Woken, Unseen
  <2>4. SyncDrops(x)'
    BY <2>1, <2>3 DEF SyncDrops, HandlerStored, CallerStored, HandlerAt, Handles
  <2>5. Sync' \ {x} \subseteq Sync
    BY <2>1 DEF Sync
  <2>. QED  BY <2>1, <2>2, <2>4, <2>5, SameDrops, KindsOfRequests DEF SyncDropped
<1>7. ASSUME NEW h \in Handlers, Signal(h) PROVE SyncDropped'
  <2>1. /\ UNCHANGED <<kind, met, ref_count, memory, hand, loaded>> /\ pc[h] = "called"
        /\ \A u \in Threads \ {h} : pc'[u] = pc[u]
        /\ pc'[h] = "drop" /\ \A r \in Requests : hand[h] # r => event_true'[r] = event_true[r]
    BY <1>1, <1>7, ThreadFacts DEF Signal, Goto, requestVars, historyVars
  <2>2. \A r \in Sync : SameFor(r)
    BY <1>1, <2>1, KindsOfRequests, ThreadFacts
    DEF SameFor, HandlerStored, CallerStored, HandlerAt, Handles
  <2>. QED  BY <1>2, <2>1, <2>2
<1>8. ASSUME Callback \/ ReceiverExit \/ TimerLock \/ NotYet \/ TimerUnlock PROVE SyncDropped'
  <2>1. /\ UNCHANGED <<kind, met, ref_count, memory, hand, loaded, event_true>>
        /\ \A r \in Requests : pc'[r] = pc[r]
        /\ \A h \in Handlers : \/ pc'[h] = pc[h]
                               \/ pc[h] \notin {"store", "test"} /\ pc'[h] \notin {"store", "test"}
    BY <1>1, <1>8, ThreadFacts
    DEF Callback, ReceiverExit, TimerLock, NotYet, TimerUnlock, Goto, requestVars, doneVars, historyVars
  <2>2. \A r \in Sync : SameFor(r)
    BY <1>1, <2>1, KindsOfRequests, ThreadFacts
    DEF SameFor, HandlerStored, CallerStored, HandlerAt, Handles
  <2>. QED  BY <1>2, <2>1, <2>2
<1>9. ASSUME QueryCalled PROVE SyncDropped'
  <2>1. /\ UNCHANGED <<kind, met, ref_count, memory, loaded, event_true>>
        /\ \A r \in Requests : pc'[r] = pc[r]
        /\ pc[Receiver] = "called" /\ pc'[Receiver] \notin {"store", "test"} /\ pc'[Timer] = pc[Timer]
        /\ hand[Receiver] \in Queries /\ hand'[Receiver] = NoRequest /\ hand'[Timer] = hand[Timer]
    BY <1>1, <1>9, ThreadFacts
    DEF QueryCalled, Goto, requestVars, doneVars, historyVars, AfterMessage
  <2>2. \A r \in Sync : SameFor(r)
    BY <1>1, <2>1, KindsOfRequests, ThreadFacts
    DEF SameFor, HandlerStored, CallerStored, HandlerAt, Handles
  <2>. QED  BY <1>2, <2>1, <2>2
<1>10. ASSUME NEW m \in replies, Receive(m) PROVE SyncDropped'
  <2>1. /\ UNCHANGED <<kind, met, ref_count, memory, loaded, event_true>>
        /\ \A r \in Requests : pc'[r] = pc[r]
        /\ pc[Receiver] = "select" /\ pc'[Receiver] \notin {"store", "test"} /\ pc'[Timer] = pc[Timer]
        /\ hand'[Timer] = hand[Timer]
        /\ \A r \in Requests : hand'[Receiver] = r => Linked(r) \/ hand[Receiver] = r
    BY <1>1, <1>10, ThreadFacts, AnsweredLinked
    DEF Receive, Goto, requestVars, doneVars, historyVars, AfterMessage, TypeOK
  <2>2. \A r \in Requests : hand[Receiver] # r
    BY <2>1, ThreadFacts DEF Hands
  <2>3. \A r \in Sync : Linked(r) => ~ event_true[r]
    BY KindsOfRequests DEF Woken
  <2>4. \A r \in Sync : SameFor(r)
    BY <1>1, <2>1, <2>2, <2>3, KindsOfRequests, ThreadFacts
    DEF SameFor, HandlerStored, CallerStored, HandlerAt, Handles
  <2>. QED  BY <1>2, <2>1, <2>4
<1>11. ASSUME TimeOut PROVE SyncDropped'
  <2>1. /\ UNCHANGED <<kind, met, ref_count, memory, loaded, event_true>>
        /\ \A r \in Requests : pc'[r] = pc[r]
        /\ pc[Timer] = "scan" /\ pc'[Timer] \notin {"store", "test"} /\ pc'[Receiver] = pc[Receiver]
        /\ hand'[Receiver] = hand[Receiver] /\ hand'[Timer] = Head(pass) /\ pass # <<>>
    BY <1>1, <1>11, ThreadFacts
    DEF TimeOut, Complete, Goto, requestVars, doneVars, historyVars
  <2>2. \A r \in Requests : hand[Timer] # r
    BY <2>1, ThreadFacts DEF Hands
  <2>3. Head(pass) \in Requests /\ Linked(Head(pass))
    BY <2>1, TailSound DEF TypeOK, ListSound
  <2>4. \A r \in Sync : Linked(r) => ~ event_true[r]
    BY KindsOfRequests DEF Woken
  <2>5. \A r \in Sync : SameFor(r)
    BY <1>1, <2>1, <2>2, <2>3, <2>4, KindsOfRequests, ThreadFacts
    DEF SameFor, HandlerStored, CallerStored, HandlerAt, Handles
  <2>. QED  BY <1>2, <2>1, <2>5
<1>12. ASSUME Stop \/ Deleted \/ Undefined \/ UNCHANGED vars PROVE SyncDropped'
  <2>1. UNCHANGED <<kind, met, ref_count, memory, loaded, event_true, pc, hand>>
    BY <1>12 DEF Stop, Deleted, Undefined, vars, requestVars, doneVars, historyVars
  <2>2. \A r \in Sync : SameFor(r)
    BY <2>1 DEF SameFor, HandlerStored, CallerStored, HandlerAt, Handles
  <2>. QED  BY <1>2, <2>1, <2>2
<1>13. ASSUME Delete PROVE SyncDropped'
  <2>1. /\ UNCHANGED <<kind, met, loaded, event_true, pc, hand>> /\ handle # "running"
        /\ \A r \in Requests : ~ Linked(r) => ref_count'[r] = ref_count[r] /\ memory'[r] = memory[r]
    BY <1>13 DEF Delete, doneVars, historyVars
  <2>2. \A r \in Sync : pc[r] = "done"
    BY <2>1, KindsOfRequests DEF ShutDown, Positions
  <2>3. \A r \in Sync : ~ Linked(r)
    BY <2>2, KindsOfRequests DEF Woken
  <2>4. \A r \in Sync : SameFor(r)
    BY <2>1, <2>3, KindsOfRequests DEF SameFor, HandlerStored, CallerStored, HandlerAt, Handles
  <2>. QED  BY <1>2, <2>1, <2>4
<1>14. ASSUME NEW x \in Requests, Expire(x) PROVE SyncDropped'
  <2>1. UNCHANGED <<kind, met, ref_count, memory, loaded, event_true, pc, hand>>
    BY <1>14 DEF Expire, requestVars, doneVars, historyVars
  <2>2. \A r \in Sync : SameFor(r)
    BY <2>1 DEF SameFor, HandlerStored, CallerStored, HandlerAt, Handles
  <2>. QED  BY <1>2, <2>1, <2>2
<1>15. ASSUME NEW m \in wire, NEW error \in {"ok", "failed"}, NEW empty \in BOOLEAN,
              Process(m, error, empty)
       PROVE  SyncDropped'
  <2>1. UNCHANGED <<kind, met, ref_count, memory, loaded, event_true, pc, hand>>
    BY <1>15 DEF Process, requestVars, doneVars, historyVars
  <2>2. \A r \in Sync : SameFor(r)
    BY <2>1 DEF SameFor, HandlerStored, CallerStored, HandlerAt, Handles
  <2>. QED  BY <1>2, <2>1, <2>2
<1>16. CASE ReceiverStep
  BY <1>3, <1>7, <1>8, <1>9, <1>16, ThreadFacts DEF ReceiverStep
<1>17. CASE TimerStep
  BY <1>3, <1>7, <1>8, <1>11, <1>17, ThreadFacts DEF TimerStep
<1>18. CASE \E r \in Requests : \/ \E k \in {"query", "sync", "async"} : SeqLoad(r, k)
                                \/ CallStep(r) \/ Expire(r) \/ Release(r)
  BY <1>3, <1>4, <1>5, <1>6, <1>14, <1>18, ThreadFacts DEF CallStep
<1>19. CASE \/ \E m \in replies : Receive(m)
            \/ \E m \in wire, error \in {"ok", "failed"}, empty \in BOOLEAN : Process(m, error, empty)
  BY <1>10, <1>15, <1>19
<1>. QED  BY <1>12, <1>13, <1>16, <1>17, <1>18, <1>19 DEF Next

\* The reference of a query is its caller's.
QueryHeld ==
  \A q \in Queries :
    pc[q] \in {"add", "send", "open", "drop", "store", "test"} => memory[q] = "live"

\* A request that its caller has still to send is in the list, or with the receiver, or was
\* completed, and its callback was then told something.
AsyncSent ==
  /\ \A r \in Requests : completions[r] # 0 => result[r] # "none"
  /\ \A r \in Async : pc[r] = "send" => Linked(r) \/ Handles(Receiver, r) \/ completions[r] # 0

LEMMA NextQueryHeld == ASSUME IInv, QueryHeld, [Next]_vars PROVE QueryHeld'
<1> USE DEF IInv
<1> DEFINE S == {"add", "send", "open", "drop", "store", "test"}
<1>1. /\ pc \in [Threads -> {"idle", "new", "add", "send", "wait", "open", "done", "drop", "store",
                         "test", "select", "callback", "called", "sleep", "scan", "exited"}]
      /\ kind \in [Requests -> {"none", "query", "sync", "async"}]
      /\ memory \in [Requests -> {"unused", "live", "freed"}]
  BY DEF TypeOK
<1>2. ASSUME \A q \in Requests : /\ pc'[q] \in S => pc[q] \in S
                                 /\ q \in Queries /\ pc'[q] \in S => memory'[q] = memory[q],
             \A q \in Requests : pc'[q] \in S => kind'[q] = kind[q]
      PROVE  QueryHeld'
  BY <1>2 DEF QueryHeld, Queries
<1>3. ASSUME NEW t \in Threads, DropStep(t) PROVE QueryHeld'
  <2>1. CASE DropLoad(t) \/ DropStore(t)
    <3>1. /\ UNCHANGED <<kind, memory>> /\ pc[t] \in S
          /\ \A q \in Threads \ {t} : pc'[q] = pc[q]
      BY <1>1, <2>1 DEF DropLoad, DropStore, Goto, requestVars
    <3>. QED  BY <1>2, <3>1, ThreadFacts
  <2>2. CASE DropTest(t)
    <3>1. /\ UNCHANGED kind /\ pc[t] = "test" /\ \A q \in Threads \ {t} : pc'[q] = pc[q]
          /\ t \notin Handlers => pc'[t] = "done"
          /\ \A q \in Requests : memory'[q] = memory[q] \/ q = Dropped(t)
      BY <1>1, <2>2, ThreadFacts DEF DropTest, FreeIfZero, Goto
    <3>2. t \notin Handlers => Dropped(t) = t
      BY DEF Dropped
    <3>3. t \in Handlers => t \notin Requests /\ Dropped(t) \notin Queries
      BY <3>1, DroppedBy, KindsOfRequests, ThreadFacts
    <3>. QED  BY <1>2, <3>1, <3>2, <3>3, ThreadFacts
  <2>. QED  BY <1>3, <2>1, <2>2 DEF DropStep
<1>4. ASSUME NEW x \in Requests, Add(x) \/ Send(x) \/ Wake(x) \/ Release(x) PROVE QueryHeld'
  <2>1. CASE Wake(x)
    <3>1. x \in Sync
      BY <2>1, KindCases DEF Wake, Goto, Positions
    <3>2. UNCHANGED <<kind, memory>> /\ \A q \in Threads \ {x} : pc'[q] = pc[q]
      BY <1>1, <2>1 DEF Wake, Goto, requestVars
    <3>3. Queries' = Queries
      BY <3>2, SameKinds
    <3>. QED  BY <3>1, <3>2, <3>3, KindsOfRequests, ThreadFacts DEF QueryHeld
  <2>2. CASE Add(x) \/ Send(x) \/ Release(x)
    <3>1. UNCHANGED <<kind, memory>> /\ pc[x] \in S /\ \A q \in Threads \ {x} : pc'[q] = pc[q]
      BY <1>1, <2>2, ThreadFacts DEF Add, Send, Release, Goto, requestVars
    <3>. QED  BY <1>2, <3>1, ThreadFacts
  <2>. QED  BY <1>4, <2>1, <2>2
<1>5. ASSUME NEW x \in Requests, New(x) PROVE QueryHeld'
  <2>1. /\ UNCHANGED kind /\ \A q \in Threads \ {x} : pc'[q] = pc[q]
        /\ \A q \in Requests \ {x} : memory'[q] = memory[q]
        /\ memory'[x] = "live"
    BY <1>1, <1>5 DEF New, Goto
  <2>2. Queries' = Queries
    BY <2>1, SameKinds
  <2>. QED  BY <2>1, <2>2, KindsOfRequests, ThreadFacts DEF QueryHeld
<1>6. ASSUME NEW x \in Requests, NEW k \in {"query", "sync", "async"}, SeqLoad(x, k) PROVE QueryHeld'
  <2>1. /\ UNCHANGED memory /\ \A q \in Threads \ {x} : pc'[q] = pc[q]
        /\ pc'[x] = "new" /\ \A q \in Requests \ {x} : kind'[q] = kind[q]
    BY <1>1, <1>6, ThreadFacts DEF SeqLoad, Goto
  <2>. QED  BY <1>2, <2>1, ThreadFacts
<1>7. ASSUME UNCHANGED <<kind, memory>>, \A q \in Requests : pc'[q] = pc[q] PROVE QueryHeld'
  BY <1>2, <1>7
<1>8. ASSUME NEW h \in Handlers, Signal(h) PROVE QueryHeld'
  BY <1>1, <1>7, <1>8, ThreadFacts DEF Signal, Goto, requestVars
<1>9. ASSUME Callback \/ QueryCalled \/ ReceiverExit PROVE QueryHeld'
  BY <1>1, <1>7, <1>9, ThreadFacts DEF Callback, QueryCalled, ReceiverExit, Goto, requestVars
<1>10. ASSUME TimerLock \/ TimeOut \/ NotYet \/ TimerUnlock PROVE QueryHeld'
  BY <1>1, <1>7, <1>10, ThreadFacts DEF TimerLock, TimeOut, NotYet, TimerUnlock, Goto, requestVars
<1>11. ASSUME NEW m \in replies, Receive(m) PROVE QueryHeld'
  BY <1>1, <1>7, <1>11, ThreadFacts DEF Receive, Goto, requestVars
<1>12. ASSUME Stop \/ Deleted \/ Undefined \/ UNCHANGED vars PROVE QueryHeld'
  BY <1>7, <1>12 DEF Stop, Deleted, Undefined, vars, requestVars
<1>13. ASSUME Delete PROVE QueryHeld'
  <2>1. UNCHANGED <<kind, pc>> /\ handle # "running"
    BY <1>13 DEF Delete
  <2>2. \A q \in Requests : pc'[q] \in {"idle", "done"}
    BY <2>1 DEF ShutDown
  <2>. QED  BY <2>1, <2>2, SameKinds, KindsOfRequests DEF QueryHeld
<1>14. ASSUME NEW x \in Requests, Expire(x) PROVE QueryHeld'
  BY <1>7, <1>14 DEF Expire, requestVars
<1>15. ASSUME NEW m \in wire, NEW error \in {"ok", "failed"}, NEW empty \in BOOLEAN,
              Process(m, error, empty)
       PROVE  QueryHeld'
  BY <1>7, <1>15 DEF Process, requestVars
<1>16. CASE ReceiverStep
  BY <1>3, <1>8, <1>9, <1>16, ThreadFacts DEF ReceiverStep
<1>17. CASE TimerStep
  BY <1>3, <1>8, <1>10, <1>17, ThreadFacts DEF TimerStep
<1>18. CASE \E r \in Requests : \/ \E k \in {"query", "sync", "async"} : SeqLoad(r, k)
                                \/ CallStep(r) \/ Expire(r) \/ Release(r)
  BY <1>3, <1>4, <1>5, <1>6, <1>14, <1>18, ThreadFacts DEF CallStep
<1>19. CASE \/ \E m \in replies : Receive(m)
            \/ \E m \in wire, error \in {"ok", "failed"}, empty \in BOOLEAN : Process(m, error, empty)
  BY <1>11, <1>15, <1>19
<1>. QED  BY <1>12, <1>13, <1>16, <1>17, <1>18, <1>19 DEF Next

LEMMA NextAsyncSent == ASSUME IInv, AsyncSent, [Next]_vars PROVE AsyncSent'
<1> USE DEF IInv
<1>1. /\ pc \in [Threads -> {"idle", "new", "add", "send", "wait", "open", "done", "drop", "store",
                         "test", "select", "callback", "called", "sleep", "scan", "exited"}]
      /\ kind \in [Requests -> {"none", "query", "sync", "async"}]
      /\ hand \in [Handlers -> Requests \cup {NoRequest}]
      /\ completions \in [Requests -> Nat] /\ list \in Seq(Requests)
      /\ result \in [Requests -> {"none", "ok", "failed", "timeout"}] /\ answer \in {"ok", "failed"}
  BY DEF TypeOK
<1>2. ASSUME UNCHANGED <<completions, result>>,
             \A r \in Requests : pc'[r] = "send" => kind'[r] = kind[r] /\ pc[r] = "send",
             \A r \in Async : /\ Linked(r) => Linked(r)' \/ Handles(Receiver, r)'
                              /\ Handles(Receiver, r) => Handles(Receiver, r)' \/ completions[r] # 0
      PROVE  AsyncSent'
  BY <1>2 DEF AsyncSent, Async
<1>3. ASSUME UNCHANGED <<completions, result, list, hand>>,
             \A r \in Requests : pc'[r] = "send" => kind'[r] = kind[r] /\ pc[r] = "send"
      PROVE  AsyncSent'
  BY <1>2, <1>3 DEF Linked, Handles
<1>4. ASSUME NEW t \in Threads, DropStep(t) PROVE AsyncSent'
  <2>1. /\ UNCHANGED <<completions, result, kind, list>>
        /\ \A r \in Requests : pc'[r] = "send" => pc[r] = "send"
    BY <1>1, <1>4, ThreadFacts
    DEF DropStep, DropLoad, DropStore, DropTest, Goto, requestVars, listVars, doneVars, AfterMessage
  <2>2. \/ UNCHANGED hand
        \/ hand' = [hand EXCEPT ![t] = NoRequest] /\ pc[t] = "test"
    BY <1>4 DEF DropStep, DropLoad, DropStore, DropTest, Goto
  <2>3. \A r \in Async : Handles(Receiver, r) => Handles(Receiver, r)' \/ completions[r] # 0
    BY <1>1, <2>2, KindsOfRequests, ThreadFacts DEF Told, Handles
  <2>4. \A r : Linked(r)' <=> Linked(r)
    BY <2>1 DEF Linked
  <2>. QED  BY <1>2, <2>1, <2>3, <2>4
<1>5. ASSUME NEW x \in Requests, Send(x) \/ Wake(x) \/ New(x) PROVE AsyncSent'
  <2>1. UNCHANGED <<completions, result, kind, list, hand>> /\ pc'[x] # "send"
        /\ \A r \in Threads \ {x} : pc'[r] = pc[r]
    BY <1>1, <1>5, ThreadFacts DEF Send, Wake, New, Goto, requestVars, listVars, doneVars
  <2>. QED  BY <1>3, <2>1, ThreadFacts
<1>6. ASSUME NEW x \in Requests, Add(x) PROVE AsyncSent'
  <2>1. /\ UNCHANGED <<completions, result, kind, hand>> /\ pc[x] = "add" /\ list' = <<x>> \o list
        /\ \A r \in Threads \ {x} : pc'[r] = pc[r]
    BY <1>1, <1>6 DEF Add, Goto, requestVars, doneVars
  <2>2. \A r : Linked(r)' <=> Linked(r) \/ r = x
    <3>1. ~ In(list, x) /\ Distinct(list)
      BY <2>1 DEF ListSound, Linked, In, Unseen
    <3>2. \A r : (Linked(r)' <=> In(list', r)) /\ (Linked(r) <=> In(list, r))
      BY DEF Linked, In
    <3>. QED  BY <1>1, <2>1, <3>1, <3>2, PushSound
  <2>3. Async' = Async /\ \A r : Handles(Receiver, r)' <=> Handles(Receiver, r)
    BY <2>1, SameKinds DEF Handles
  <2>. QED  BY <2>1, <2>2, <2>3, KindsOfRequests, ThreadFacts DEF AsyncSent
<1>7. ASSUME NEW q \in Requests, Release(q) PROVE AsyncSent'
  <2>1. /\ UNCHANGED <<completions, result, kind, hand>> /\ pc[q] = "open" /\ list' = Without(q)
        /\ \A r \in Threads \ {q} : pc'[r] = pc[r]
        /\ pc'[q] = "drop"
    BY <1>1, <1>7, ThreadFacts DEF Release, Goto, requestVars, doneVars
  <2>2. q \in Queries /\ Linked(q)
    BY <2>1, KindCases DEF Positions, ListSound
  <2>3. \A r : Linked(r)' <=> Linked(r) /\ r # q
    <3>1. \A r : Linked(r)' <=> In(list', r)
      BY DEF Linked, In
    <3>. QED  BY <1>1, <2>1, <2>2, <3>1, WithoutSound DEF ListSound
  <2>4. \A r \in Async : r # q /\ (Handles(Receiver, r)' <=> Handles(Receiver, r))
    BY <2>1, <2>2, KindsOfRequests DEF Handles
  <2>. QED  BY <1>2, <2>1, <2>3, <2>4, ThreadFacts
<1>8. ASSUME NEW x \in Requests, NEW k \in {"query", "sync", "async"}, SeqLoad(x, k) PROVE AsyncSent'
  <2>1. /\ UNCHANGED <<completions, result, list, hand>> /\ pc'[x] = "new"
        /\ \A r \in Threads \ {x} : pc'[r] = pc[r]
        /\ \A r \in Requests \ {x} : kind'[r] = kind[r]
    BY <1>1, <1>8, ThreadFacts DEF SeqLoad, Goto, listVars, doneVars
  <2>. QED  BY <1>3, <2>1, ThreadFacts
<1>9. ASSUME NEW h \in Handlers, Signal(h) PROVE AsyncSent'
  BY <1>1, <1>3, <1>9, ThreadFacts DEF Signal, Goto, requestVars, listVars
<1>10. ASSUME ReceiverExit \/ TimerLock \/ NotYet \/ TimerUnlock PROVE AsyncSent'
  BY <1>1, <1>3, <1>10, ThreadFacts
  DEF ReceiverExit, TimerLock, NotYet, TimerUnlock, Goto, requestVars, listVars, doneVars
<1>11. ASSUME QueryCalled PROVE AsyncSent'
  <2>1. /\ UNCHANGED <<completions, result, kind, list>> /\ hand[Receiver] \in Queries
        /\ \A r \in Requests : pc'[r] = pc[r]
    BY <1>1, <1>11, ThreadFacts DEF QueryCalled, Goto, requestVars, listVars, doneVars
  <2>2. \A r \in Async : ~ Handles(Receiver, r) /\ (Linked(r)' <=> Linked(r))
    BY <2>1, KindsOfRequests DEF Handles, Linked
  <2>. QED  BY <1>2, <2>1, <2>2
<1>12. ASSUME Callback PROVE AsyncSent'
  <2>1. PICK x : x = hand[Receiver]
    OBVIOUS
  <2>2. /\ UNCHANGED <<kind, list, hand>> /\ \A r \in Requests : pc'[r] = pc[r]
        /\ result' = [result EXCEPT ![x] = answer]
        /\ completions' = [completions EXCEPT ![x] = completions[x] + 1]
    BY <1>1, <1>12, <2>1, ThreadFacts DEF Callback, Complete, Goto, requestVars, listVars
  <2>3. \A r \in Requests : /\ completions[r] # 0 => completions'[r] # 0
                            /\ completions'[r] # 0 => completions[r] # 0 \/ result'[r] # "none"
                            /\ result[r] # "none" => result'[r] # "none"
    BY <1>1, <2>2
  <2>4. Async' = Async /\ \A r : (Linked(r)' <=> Linked(r)) /\ (Handles(Receiver, r)' <=> Handles(Receiver, r))
    BY <2>2, SameKinds DEF Linked, Handles
  <2>. QED  BY <2>2, <2>3, <2>4, KindsOfRequests DEF AsyncSent
<1>13. ASSUME TimeOut PROVE AsyncSent'
  <2>1. PICK x : x = Head(pass)
    OBVIOUS
  <2>2. /\ UNCHANGED kind /\ \A r \in Requests : pc'[r] = pc[r]
        /\ pass # <<>> /\ list' = Without(x) /\ hand' = [hand EXCEPT ![Timer] = x]
        /\ result' = [result EXCEPT ![x] = "timeout"]
        /\ completions' = [completions EXCEPT ![x] = completions[x] + 1]
    BY <1>1, <1>13, <2>1, ThreadFacts DEF TimeOut, Complete, Goto, requestVars
  <2>3. x \in Requests /\ Linked(x)
    BY <2>1, <2>2, TailSound DEF TypeOK, ListSound
  <2>4. \A r : Linked(r)' <=> Linked(r) /\ r # x
    <3>1. \A r : Linked(r)' <=> In(list', r)
      BY DEF Linked, In
    <3>. QED  BY <1>1, <2>2, <2>3, <3>1, WithoutSound DEF ListSound
  <2>5. /\ \A r \in Requests : /\ completions[r] # 0 => completions'[r] # 0
                               /\ completions'[r] # 0 => completions[r] # 0 \/ result'[r] # "none"
                               /\ result[r] # "none" => result'[r] # "none"
        /\ completions'[x] # 0
    BY <1>1, <2>2, <2>3
  <2>6. Async' = Async /\ \A r : Handles(Receiver, r)' <=> Handles(Receiver, r)
    BY <1>1, <2>2, SameKinds, ThreadFacts DEF Handles
  <2>. QED  BY <2>2, <2>4, <2>5, <2>6, KindsOfRequests DEF AsyncSent
<1>14. ASSUME NEW m \in replies, Receive(m) PROVE AsyncSent'
  <2>1. UNCHANGED <<completions, result, kind>> /\ \A r \in Requests : pc'[r] = pc[r]
        /\ pc[Receiver] = "select"
    BY <1>1, <1>14, ThreadFacts DEF Receive, Goto, requestVars, doneVars
  <2>2. \A r \in Async : ~ Handles(Receiver, r)
    BY <2>1, KindsOfRequests, ThreadFacts DEF Hands, Handles
  <2>3. CASE UNCHANGED list
    BY <1>2, <2>1, <2>2, <2>3 DEF Linked
  <2>4. CASE \E r \in Answered(m.no) : hand' = [hand EXCEPT ![Receiver] = r] /\ list' = Without(r)
    <3>1. PICK x \in Answered(m.no) : hand' = [hand EXCEPT ![Receiver] = x] /\ list' = Without(x)
      BY <2>4
    <3>2. x \in Requests /\ Linked(x)
      BY <1>1, AnsweredLinked
    <3>3. \A r : Linked(r)' <=> Linked(r) /\ r # x
      <4>1. \A r : Linked(r)' <=> In(list', r)
        BY DEF Linked, In
      <4>. QED  BY <1>1, <3>1, <3>2, <4>1, WithoutSound DEF ListSound
    <3>4. Handles(Receiver, x)'
      BY <1>1, <3>1 DEF Handles, Handlers
    <3>. QED  BY <1>2, <2>1, <2>2, <3>3, <3>4
  <2>. QED  BY <1>14, <2>3, <2>4 DEF Receive
<1>15. ASSUME Stop \/ Deleted \/ Undefined \/ UNCHANGED vars PROVE AsyncSent'
  BY <1>3, <1>15 DEF Stop, Deleted, Undefined, vars, requestVars, listVars, doneVars
<1>16. ASSUME Delete PROVE AsyncSent'
  <2>1. UNCHANGED <<kind, pc, completions, result>> /\ handle # "running"
    BY <1>16 DEF Delete, doneVars
  <2>2. \A r \in Requests : pc'[r] \in {"idle", "done"}
    BY <2>1 DEF ShutDown
  <2>3. Async' = Async
    BY <2>1, SameKinds
  <2>. QED  BY <2>1, <2>2, <2>3, KindsOfRequests DEF AsyncSent
<1>17. ASSUME NEW x \in Requests, Expire(x) PROVE AsyncSent'
  BY <1>3, <1>17 DEF Expire, requestVars, listVars, doneVars
<1>18. ASSUME NEW m \in wire, NEW error \in {"ok", "failed"}, NEW empty \in BOOLEAN,
              Process(m, error, empty)
       PROVE  AsyncSent'
  BY <1>3, <1>18 DEF Process, requestVars, listVars, doneVars
<1>19. CASE ReceiverStep
  BY <1>4, <1>9, <1>10, <1>11, <1>12, <1>19, ThreadFacts DEF ReceiverStep
<1>20. CASE TimerStep
  BY <1>4, <1>9, <1>10, <1>13, <1>20, ThreadFacts DEF TimerStep
<1>21. CASE \E r \in Requests : \/ \E k \in {"query", "sync", "async"} : SeqLoad(r, k)
                                \/ CallStep(r) \/ Expire(r) \/ Release(r)
  BY <1>4, <1>5, <1>6, <1>7, <1>8, <1>17, <1>21, ThreadFacts DEF CallStep
<1>22. CASE \/ \E m \in replies : Receive(m)
            \/ \E m \in wire, error \in {"ok", "failed"}, empty \in BOOLEAN : Process(m, error, empty)
  BY <1>14, <1>18, <1>22
<1>. QED  BY <1>15, <1>16, <1>19, <1>20, <1>21, <1>22 DEF Next

--------------------------------------------------------------------------------
(* Who can touch a freed request.                                           *)

Owners == SyncDropped /\ QueryHeld /\ AsyncSent

\* Thread t may touch request r when it is freed.
Exposed(t, r) ==
  \/ r \in met /\ r \in Sync
  \/ r \in Queries /\ t = Receiver
  \/ r \in Async /\ t = r /\ (result[r] = "timeout" \/ Twin(r))

LEMMA HandlerExposed ==
  ASSUME IInv, Owners, NEW h \in Handlers, NEW r \in Requests, Handles(h, r), memory[r] = "freed"
  PROVE  Exposed(h, r)
<1> USE DEF IInv
<1>1. pc[r] \notin {"idle", "new"}
  BY DEF ListSound, Unseen
<1>2. CASE r \in Queries
  <2>1. h # Timer
    BY <1>2, KindsOfRequests, ThreadFacts DEF Hands, Handles
  <2>. QED  BY <1>2, <2>1 DEF Exposed, Handlers
<1>3. CASE r \in Async
  BY <1>3 DEF AsyncCounts, AsyncCount
<1>4. CASE r \in Sync
  <2>1. SyncCount(r)
    BY <1>1, <1>4 DEF SyncCounts
  <2>2. HandlerStored(r) /\ CallerStored(r)
    BY <2>1 DEF SyncCount
  <2>3. HandlerAt(r, "test")
    BY <2>2 DEF HandlerStored, HandlerAt
  <2>. QED  BY <1>4, <2>2, <2>3 DEF Owners, SyncDropped, SyncDrops, Exposed
<1>. QED  BY <1>1, <1>2, <1>3, <1>4, KindCases

LEMMA CallerExposed ==
  ASSUME IInv, Honest, Owners, NEW r \in Requests, pc[r] \in {"send", "drop", "store", "test"},
         memory[r] = "freed"
  PROVE  Exposed(r, r)
<1> USE DEF IInv
<1>1. CASE r \in Queries
  BY <1>1 DEF Owners, QueryHeld
<1>2. CASE r \in Async
  <2>1. pc[r] = "send" /\ ~ Linked(r) /\ \A h \in Handlers : ~ Handles(h, r)
    BY <1>2 DEF Positions, AsyncCounts, AsyncCount
  <2>2. result[r] # "none"
    BY <1>2, <2>1, ThreadFacts DEF Owners, AsyncSent
  <2>3. CASE result[r] = "timeout"
    BY <1>2, <2>3 DEF Exposed
  <2>4. CASE result[r] \in {"ok", "failed"}
    <3>1. Explained(r, result[r])
      BY <2>4, HonestExplained DEF Honest
    <3>2. ~ RanAs(r, r, result[r])
      <4> SUFFICES ASSUME NEW m \in executed, m = [no |-> req_no[r], error |-> result[r], from |-> r]
                   PROVE  FALSE
        BY DEF RanAs
      <4>. QED  BY <2>1 DEF Honest, Answers, Sent
    <3>. QED  BY <1>2, <3>1, <3>2 DEF Explained, Exposed
  <2>. QED  BY <2>2, <2>3, <2>4 DEF TypeOK
<1>3. CASE r \in Sync
  <2>1. SyncCount(r)
    BY <1>3 DEF SyncCounts
  <2>2. HandlerStored(r) /\ CallerStored(r) /\ pc[r] = "test"
    BY <2>1 DEF SyncCount, CallerStored
  <2>. QED  BY <1>3, <2>2 DEF Owners, SyncDropped, SyncDrops, Exposed
<1>. QED  BY <1>1, <1>2, <1>3, KindCases

LEMMA DroppedExposed ==
  ASSUME IInv, Honest, Owners, NEW t \in Threads, pc[t] \in {"drop", "store", "test"},
         memory[Dropped(t)] = "freed"
  PROVE  Exposed(t, Dropped(t))
BY DroppedBy, HandlerExposed, CallerExposed, KindsOfRequests

LEMMA ExposedOnly == MisusedOnly <=> \A use \in misused : Exposed(use[1], use[2])
BY DEF MisusedOnly, Exposed

\* Once a freed request was touched, the client takes no step.
LEMMA UndefinedStays ==
  ASSUME [Next]_vars, ~ Defined
  PROVE  UNCHANGED <<kind, req_no, pc, result, met, misused>>
<1>1. ASSUME NEW t \in Threads PROVE ~ DropStep(t)
  BY DEF DropStep, DropLoad, DropStore, DropTest, Goto
<1>2. ASSUME NEW r \in Requests
      PROVE  ~ CallStep(r) /\ ~ Expire(r) /\ ~ Release(r)
             /\ \A k \in {"query", "sync", "async"} : ~ SeqLoad(r, k)
  BY <1>1, ThreadFacts DEF CallStep, New, Add, Send, Wake, Expire, Release, SeqLoad, Goto
<1>3. ~ ReceiverStep /\ \A m \in replies : ~ Receive(m)
  BY <1>1, ThreadFacts DEF ReceiverStep, Callback, QueryCalled, Signal, ReceiverExit, Receive, Goto
<1>4. ~ TimerStep
  BY <1>1, ThreadFacts DEF TimerStep, TimerLock, TimeOut, NotYet, TimerUnlock, Signal, Goto
<1>5. ~ Stop /\ ~ Delete
  BY DEF Stop, Delete
<1>6. ASSUME NEW m \in wire, NEW error \in {"ok", "failed"}, NEW empty \in BOOLEAN,
             Process(m, error, empty)
      PROVE  UNCHANGED <<kind, req_no, pc, result, met, misused>>
  BY <1>6 DEF Process, requestVars, doneVars, historyVars
<1>7. ASSUME Deleted \/ Undefined \/ UNCHANGED vars
      PROVE  UNCHANGED <<kind, req_no, pc, result, met, misused>>
  BY <1>7 DEF Deleted, Undefined, vars, requestVars, doneVars, historyVars
<1>. QED  BY <1>2, <1>3, <1>4, <1>5, <1>6, <1>7 DEF Next

\* The first touch of a freed request is by a thread that is exposed to that.
LEMMA TouchExposed ==
  ASSUME HistoryOK, Defined, NEW t \in Threads, NEW r \in Requests, Touch(t, r),
         memory[r] = "freed" => Exposed(t, r),
         kind' = kind, met \subseteq met', met' \subseteq Requests,
         r \in Async /\ t = r => UNCHANGED result, \A x \in Requests : Keeps(x),
         pc[r] \notin {"idle", "new"}
  PROVE  HistoryOK' /\ MisusedOnly'
<1>1. misused' \subseteq {<<t, r>>} /\ (misused' # {} => Exposed(t, r))
  BY DEF Touch, Defined
<1>2. Exposed(t, r) => Exposed(t, r)'
  <2>1. Sync' = Sync /\ Async' = Async /\ Queries' = Queries
    BY SameKinds
  <2>2. r \in Async /\ Twin(r) => Twin(r)'
    BY DEF Twin, Keeps
  <2>3. CASE r \in met /\ r \in Sync
    BY <2>1, <2>3 DEF Exposed
  <2>4. CASE r \in Queries /\ t = Receiver
    BY <2>1, <2>4 DEF Exposed
  <2>5. CASE r \in Async /\ t = r /\ (result[r] = "timeout" \/ Twin(r))
    BY <2>1, <2>2, <2>5 DEF Exposed
  <2>. QED  BY <2>3, <2>4, <2>5 DEF Exposed
<1>3. \A use \in misused' : use[1] = t /\ use[2] = r
  BY <1>1
<1>4. MisusedOnly'
  BY <1>1, <1>2, <1>3 DEF MisusedOnly, Exposed
<1>. QED  BY <1>1, <1>4 DEF HistoryOK

LEMMA NextMisused ==
  ASSUME IInv, Honest, Owners, HistoryOK, MisusedOnly, [Next]_vars
  PROVE  HistoryOK' /\ MisusedOnly'
<1> USE DEF IInv
<1>1. CASE ~ Defined
  <2>1. UNCHANGED <<kind, req_no, pc, result, met, misused>>
    BY <1>1, UndefinedStays
  <2>2. Sync' = Sync /\ Async' = Async /\ Queries' = Queries
    BY <2>1, SameKinds
  <2>. QED  BY <2>1, <2>2 DEF HistoryOK, MisusedOnly, Twin
<1>2. ASSUME Defined, UNCHANGED <<met, misused>> PROVE HistoryOK' /\ MisusedOnly'
  BY <1>2 DEF HistoryOK, MisusedOnly, Defined
<1>3. \A x \in Requests : Keeps(x)
  BY StepKeeps
<1>4. ASSUME Defined, NEW t \in Threads, DropStep(t) PROVE HistoryOK' /\ MisusedOnly'
  <2>1. PICK d : d = Dropped(t)
    OBVIOUS
  <2>2. /\ pc[t] \in {"drop", "store", "test"} /\ Touch(t, d) /\ UNCHANGED <<kind, result>>
        /\ met' = met \/ met' = met \cup {d}
    BY <1>4, <2>1 DEF DropStep, DropLoad, DropStore, DropTest, Goto, requestVars, doneVars
  <2>3. d \in Requests /\ pc[d] \notin {"idle", "new"}
    BY <2>1, <2>2, DroppedBy DEF ListSound, Unseen
  <2>4. memory[d] = "freed" => Exposed(t, d)
    BY <2>1, <2>2, DroppedExposed
  <2>. QED  BY <1>3, <1>4, <2>2, <2>3, <2>4, TouchExposed DEF HistoryOK
<1>5. ASSUME Defined, NEW r \in Requests, Send(r) PROVE HistoryOK' /\ MisusedOnly'
  <2>1. pc[r] = "send" /\ Touch(r, r) /\ UNCHANGED <<kind, result, met>>
    BY <1>5 DEF Send, Goto, requestVars, doneVars
  <2>2. memory[r] = "freed" => Exposed(r, r)
    BY <2>1, CallerExposed
  <2>3. r \in Threads
    BY ThreadFacts
  <2>. QED  BY <1>3, <1>5, <2>1, <2>2, <2>3, TouchExposed DEF HistoryOK
<1>6. ASSUME Defined, NEW h \in Handlers, Signal(h) \/ (h = Receiver /\ (Callback \/ QueryCalled))
      PROVE  HistoryOK' /\ MisusedOnly'
  <2>1. PICK d : d = hand[h]
    OBVIOUS
  <2>2. pc[h] \in {"callback", "called"} /\ Touch(h, d) /\ UNCHANGED <<kind, met>>
    BY <1>6, <2>1 DEF Callback, QueryCalled, Signal, Goto, requestVars
  <2>3. d \in Requests /\ Handles(h, d)
    BY <2>1, <2>2, ThreadFacts DEF Hands, TypeOK, Handles
  <2>4. pc[d] \notin {"idle", "new"} /\ h \in Threads /\ h # d
    BY <2>3, ThreadFacts DEF ListSound, Unseen
  <2>5. memory[d] = "freed" => Exposed(h, d)
    BY <2>3, HandlerExposed
  <2>. QED  BY <1>3, <1>6, <2>2, <2>3, <2>4, <2>5, TouchExposed DEF HistoryOK
<1>7. ASSUME Defined, NEW r \in Requests, CallStep(r) PROVE HistoryOK' /\ MisusedOnly'
  <2>1. New(r) \/ Add(r) \/ Wake(r) => UNCHANGED <<met, misused>>
    BY DEF New, Add, Wake, historyVars
  <2>. QED  BY <1>2, <1>4, <1>5, <1>7, <2>1, ThreadFacts DEF CallStep
<1>8. ASSUME Defined, ReceiverStep PROVE HistoryOK' /\ MisusedOnly'
  <2>1. ReceiverExit => UNCHANGED <<met, misused>>
    BY DEF ReceiverExit, historyVars
  <2>. QED  BY <1>2, <1>4, <1>6, <1>8, <2>1, ThreadFacts DEF ReceiverStep
<1>9. ASSUME Defined, TimerStep PROVE HistoryOK' /\ MisusedOnly'
  <2>1. TimerLock \/ TimeOut \/ NotYet \/ TimerUnlock => UNCHANGED <<met, misused>>
    BY DEF TimerLock, TimeOut, NotYet, TimerUnlock, historyVars
  <2>. QED  BY <1>2, <1>4, <1>6, <1>9, <2>1, ThreadFacts DEF TimerStep
<1>10. ASSUME NEW r \in Requests,
              (\E k \in {"query", "sync", "async"} : SeqLoad(r, k)) \/ Expire(r) \/ Release(r)
       PROVE  UNCHANGED <<met, misused>>
  BY <1>10 DEF SeqLoad, Expire, Release, historyVars
<1>11. ASSUME \/ \E m \in replies : Receive(m)
              \/ \E m \in wire, error \in {"ok", "failed"}, empty \in BOOLEAN : Process(m, error, empty)
       PROVE  UNCHANGED <<met, misused>>
  BY <1>11 DEF Receive, Process, historyVars
<1>12. ASSUME Stop \/ Delete \/ Deleted \/ Undefined \/ UNCHANGED vars PROVE UNCHANGED <<met, misused>>
  BY <1>12 DEF Stop, Delete, Deleted, Undefined, vars, historyVars
<1>. QED  BY <1>1, <1>2, <1>7, <1>8, <1>9, <1>10, <1>11, <1>12 DEF Next

--------------------------------------------------------------------------------

\* What the theorem below says holds of every state in which these do.
LEMMA OwnersRequestsOwned == IInv /\ Owners /\ HistoryOK /\ MisusedOnly => RequestsOwned
<1> SUFFICES ASSUME IInv, Owners, HistoryOK, MisusedOnly PROVE RequestsOwned
  OBVIOUS
<1> USE DEF IInv
<1>1. SyncOwned
  <2> SUFFICES ASSUME NEW r \in Sync, r \notin met, pc[r] # "new"
               PROVE  memory[r] = "live" <=> pc[r] # "done" \/ Linked(r) \/ InHand(r)
    BY DEF SyncOwned
  <2>1. SyncCount(r) /\ SyncDrops(r) /\ r \in Requests
    BY KindsOfRequests DEF SyncCounts, Owners, SyncDropped
  <2>2. CASE HandlerStored(r) /\ CallerStored(r)
    <3>1. memory[r] = "live" <=> pc[r] = "test" \/ HandlerAt(r, "test")
      BY <2>1, <2>2 DEF SyncDrops
    <3>2. ~ Linked(r) /\ (InHand(r) <=> HandlerAt(r, "test"))
      BY <2>1, <2>2, KindsOfRequests DEF HandlerStored, HandlerAt, InHand, Handles, Woken
    <3>. QED  BY <2>2, <3>1, <3>2 DEF CallerStored
  <2>3. CASE ~ CallerStored(r)
    BY <2>1, <2>3 DEF CallerStored, SyncCount
  <2>4. CASE ~ HandlerStored(r)
    <3>1. memory[r] = "live"
      BY <2>1, <2>4 DEF SyncCount
    <3>2. pc[r] = "done" => InHand(r)
      BY <2>4 DEF Woken, HandlerStored, InHand, Handles
    <3>. QED  BY <3>1, <3>2
  <2>. QED  BY <2>2, <2>3, <2>4
<1>2. AsyncOwned
  <2> SUFFICES ASSUME NEW r \in Async, pc[r] # "new"
               PROVE  memory[r] = "live" <=> pc[r] = "add" \/ Linked(r) \/ InHand(r)
    BY DEF AsyncOwned
  <2>1. AsyncCount(r) /\ pc[r] \in {"add", "send", "done"}
    BY DEF AsyncCounts, Positions
  <2>. QED  BY <2>1 DEF AsyncCount, InHand, Handles
<1>3. CountedBeforeDrop
  <2> SUFFICES ASSUME NEW t \in Threads, pc[t] = "drop" PROVE ref_count[Dropped(t)] > 0
    BY DEF CountedBeforeDrop
  <2>1. PICK d : d = Dropped(t)
    OBVIOUS
  <2>2. /\ d \in Requests
        /\ \/ t = d /\ t \notin Handlers /\ (t \in Sync \/ t \in Queries)
           \/ t \in Handlers /\ Handles(t, d) /\ d \in Normal
    BY <2>1, DroppedBy
  <2>3. CASE d \in Sync
    <3>1. SyncCount(d)
      BY <2>2, <2>3 DEF SyncCounts, ListSound, Unseen
    <3>2. ~ CallerStored(d) \/ ~ HandlerStored(d)
      BY <2>2 DEF CallerStored, HandlerStored
    <3>. QED  BY <2>1, <3>1, <3>2 DEF SyncCount
  <2>4. CASE d \in Async
    BY <2>1, <2>2, <2>4, KindsOfRequests DEF AsyncCounts, AsyncCount
  <2>5. CASE d \in Queries
    BY <2>1, <2>2, <2>5, KindsOfRequests DEF QueryCounts
  <2>. QED  BY <2>2, <2>3, <2>4, <2>5, KindsOfRequests
<1>. QED  BY <1>1, <1>2, <1>3 DEF RequestsOwned

\* A request whose two owners never meet in mb_req_unref is allocated exactly until the
\* last of caller, list and handler is done with it, and a freed one is touched only in the
\* three windows that MisusedOnly names, although the count is changed without a lock.
THEOREM RequestsAreOwned == Spec => []RequestsOwned
<1> DEFINE Inv == IInv /\ Honest /\ Owners /\ HistoryOK /\ MisusedOnly
<1>1. Init => Inv
  <2> SUFFICES ASSUME Init PROVE Inv
    OBVIOUS
  <2>1. Sync = {} /\ Async = {} /\ Queries = {}
    BY DEF Init, Sync, Async, Queries
  <2>2. Owners /\ HistoryOK /\ MisusedOnly
    BY <2>1 DEF Init, Owners, SyncDropped, QueryHeld, AsyncSent, HistoryOK, MisusedOnly
  <2>. QED  BY <2>2, InitIInv, InitHonest
<1>2. Inv /\ [Next]_vars => Inv'
  <2> SUFFICES ASSUME Inv, [Next]_vars PROVE Inv'
    OBVIOUS
  <2>1. IInv' /\ Honest'
    BY NextIInv, NextHonest
  <2>2. Owners'
    BY NextDrops, NextQueryHeld, NextAsyncSent DEF Owners
  <2>. QED  BY <2>1, <2>2, NextMisused
<1>3. Inv => RequestsOwned
  BY OwnersRequestsOwned
<1>. QED  BY <1>1, <1>2, <1>3, PTL DEF Spec
================================================================================
