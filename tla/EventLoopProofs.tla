---------------------------- MODULE EventLoopProofs -----------------------------
(***************************************************************************)
(* Proofs about EventLoop for every set of events and every number of      *)
(* calls of other threads.                                                 *)
(*                                                                         *)
(* The reference counts are sums over the queue of operations, so most of  *)
(* the work is counting what an operation that is queued or taken adds and *)
(* removes.  That the watchers belong to linked events needs to know that  *)
(* an event is linked or asked to be linked at most once, and that a       *)
(* callback runs only for an event that is linked.                         *)
(***************************************************************************)
EXTENDS EventLoop, FiniteSetTheorems, SequenceTheorems, FunctionTheorems, TLAPS

Funcs == {"add", "remove", "modify"}
Op == [func : Funcs, event : Events]

\* The positions of a sequence that hold a member of P.
Places(s, P) == {i \in 1 .. Len(s) : s[i] \in P}

LEMMA PlacesFinite ==
  ASSUME NEW T, NEW s \in Seq(T), NEW P
  PROVE  IsFiniteSet(Places(s, P)) /\ Cardinality(Places(s, P)) \in Nat
<1>1. Len(s) \in Nat
  BY LenProperties
<1>2. IsFiniteSet(1 .. Len(s))
  BY <1>1, FS_Interval
<1>. QED  BY <1>2, FS_Subset, FS_CardinalityType DEF Places

LEMMA PlacesAppend ==
  ASSUME NEW T, NEW s \in Seq(T), NEW x \in T, NEW P
  PROVE  Cardinality(Places(Append(s, x), P))
           = Cardinality(Places(s, P)) + (IF x \in P THEN 1 ELSE 0)
<1>1. /\ Len(s) \in Nat /\ Len(Append(s, x)) = Len(s) + 1
      /\ Append(s, x)[Len(s) + 1] = x
      /\ \A i \in 1 .. Len(s) : Append(s, x)[i] = s[i]
  BY LenProperties, AppendProperties
<1>2. Places(Append(s, x), P)
        = IF x \in P THEN Places(s, P) \cup {Len(s) + 1} ELSE Places(s, P)
  BY <1>1 DEF Places
<1>3. Len(s) + 1 \notin Places(s, P)
  BY <1>1 DEF Places
<1>4. IsFiniteSet(Places(s, P)) /\ Cardinality(Places(s, P)) \in Nat
  BY PlacesFinite
<1>5. Cardinality(Places(s, P) \cup {Len(s) + 1}) = Cardinality(Places(s, P)) + 1
  BY <1>3, <1>4, FS_AddElement
<1>. QED  BY <1>2, <1>4, <1>5

\* The rest of a sequence holds its members one place earlier.
LEMMA PlacesTail ==
  ASSUME NEW T, NEW s \in Seq(T), s # <<>>, NEW P
  PROVE  Cardinality(Places(s, P))
           = Cardinality(Places(Tail(s), P)) + (IF Head(s) \in P THEN 1 ELSE 0)
<1>1. /\ Len(s) \in Nat \ {0} /\ Tail(s) \in Seq(T) /\ Len(Tail(s)) = Len(s) - 1
      /\ \A i \in 1 .. Len(s) - 1 : Tail(s)[i] = s[i + 1]
      /\ Head(s) = s[1]
  BY EmptySeq, HeadTailProperties
<1> DEFINE S == Places(s, P)
           R == Places(Tail(s), P)
           up == [i \in R |-> i + 1]
<1>2. up \in Bijection(R, S \ {1})
  <2>1. \A i \in R : i \in Nat /\ i >= 1 /\ i + 1 \in S \ {1}
    BY <1>1 DEF Places
  <2>2. \A j \in S \ {1} : j - 1 \in R /\ up[j - 1] = j
    BY <1>1 DEF Places
  <2>3. up \in [R -> S \ {1}]
    BY <2>1
  <2>4. \A i, j \in R : up[i] = up[j] => i = j
    BY <2>1
  <2>. QED  BY <2>2, <2>3, <2>4, Fun_IsBij
<1>3. Cardinality(S \ {1}) = Cardinality(R)
  <2>1. ExistsBijection(R, S \ {1})
    BY <1>2 DEF ExistsBijection
  <2>. QED  BY <1>1, <2>1, PlacesFinite, FS_Bijection
<1>4. 1 \in S <=> Head(s) \in P
  BY <1>1 DEF Places
<1>5. /\ IsFiniteSet(S) /\ Cardinality(S) \in Nat /\ Cardinality(R) \in Nat
      /\ Cardinality(S \ {1}) = IF 1 \in S THEN Cardinality(S) - 1 ELSE Cardinality(S)
  BY <1>1, PlacesFinite, FS_RemoveElement
<1>. QED  BY <1>3, <1>4, <1>5

OnEvent(e) == {op \in Op : op.event = e}
OfKind(func, e) == {op \in Op : op.func = func /\ op.event = e}

LEMMA OpsArePlaces ==
  ASSUME NEW s \in Seq(Op), NEW e
  PROVE  /\ {i \in 1 .. Len(s) : s[i].event = e} = Places(s, OnEvent(e))
         /\ \A func : {i \in {j \in 1 .. Len(s) : s[j].event = e} : s[i].func = func}
                        = Places(s, OfKind(func, e))
<1>1. \A i \in 1 .. Len(s) : s[i] \in Op
  BY ElementOfSeq
<1>. QED  BY <1>1 DEF Places, OnEvent, OfKind

--------------------------------------------------------------------------------

\* An event is linked, or asked to be, at most once and only after it was attached; the
\* loop flags and watches just the events that are linked.
Links ==
  \A e \in Events :
    /\ events_list[e] + Cardinality(OpsOf("add", e)) <= 1
    /\ e \notin attached => events_list[e] = 0 /\ OpsOf("add", e) = {}
    /\ e \in in_loop <=> events_list[e] = 1
    /\ watching[e] # {} => e \in in_loop

\* What the loop is busy with; a writer that has finished names no event.
Hands ==
  /\ pc \in {"callback", "storing"} => hand \in in_loop
  /\ pc = "polling" => hand = NoEvent
  /\ writer.at = "none" <=> writer.event = NoEvent

\* A byte is in the pipe just when a request is pending.
Requests == pipe <= 1 /\ (request_pending <=> pipe = 1)

IInv ==
  /\ TypeOK
  /\ RefsExact
  /\ Links
  /\ Hands
  /\ Requests
  /\ WakeupNotLost
  /\ EventsApplied

LEMMA OpsFinite ==
  ASSUME TypeOK, NEW e
  PROVE  /\ IsFiniteSet(OpsOn(e)) /\ Cardinality(OpsOn(e)) \in Nat
         /\ \A func : IsFiniteSet(OpsOf(func, e)) /\ Cardinality(OpsOf(func, e)) \in Nat
<1>1. operations \in Seq(Op)
  BY DEF TypeOK, Op, Funcs
<1>2. OpsOn(e) = Places(operations, OnEvent(e))
      /\ \A func : OpsOf(func, e) = Places(operations, OfKind(func, e))
  BY <1>1, OpsArePlaces DEF OpsOn, OpsOf
<1>. QED  BY <1>1, <1>2, PlacesFinite

\* An operation that is queued counts for its event, and for its kind.
LEMMA PushCounts ==
  ASSUME TypeOK, NEW op \in Op, operations' = Append(operations, op), NEW e
  PROVE  /\ operations' \in Seq(Op) /\ operations' # <<>>
         /\ Cardinality(OpsOn(e))' = Cardinality(OpsOn(e)) + (IF op.event = e THEN 1 ELSE 0)
         /\ Cardinality(OpsOf("add", e))' = Cardinality(OpsOf("add", e))
              + (IF op.func = "add" /\ op.event = e THEN 1 ELSE 0)
         /\ OpsOn(e)' = {} => OpsOn(e) = {} /\ op.event # e
         /\ OpsOf("add", e)' = {} <=> OpsOf("add", e) = {} /\ ~ (op.func = "add" /\ op.event = e)
<1>1. operations \in Seq(Op)
  BY DEF TypeOK, Op, Funcs
<1>2. operations' \in Seq(Op) /\ operations' # <<>>
  BY <1>1, AppendProperties
<1>3. /\ OpsOn(e) = Places(operations, OnEvent(e))
      /\ OpsOf("add", e) = Places(operations, OfKind("add", e))
  BY <1>1, OpsArePlaces DEF OpsOn, OpsOf
<1>4. /\ OpsOn(e)' = Places(operations', OnEvent(e))
      /\ OpsOf("add", e)' = Places(operations', OfKind("add", e))
  BY <1>2, OpsArePlaces DEF OpsOn, OpsOf
<1>5. /\ Cardinality(OpsOn(e))' = Cardinality(OpsOn(e)) + (IF op.event = e THEN 1 ELSE 0)
      /\ Cardinality(OpsOf("add", e))' = Cardinality(OpsOf("add", e))
           + (IF op.func = "add" /\ op.event = e THEN 1 ELSE 0)
  BY <1>1, <1>3, <1>4, PlacesAppend DEF OnEvent, OfKind
<1>6. /\ IsFiniteSet(OpsOn(e)') /\ IsFiniteSet(OpsOf("add", e)')
      /\ IsFiniteSet(OpsOn(e)) /\ IsFiniteSet(OpsOf("add", e))
      /\ Cardinality(OpsOn(e)) \in Nat /\ Cardinality(OpsOf("add", e)) \in Nat
  BY <1>1, <1>2, <1>3, <1>4, PlacesFinite
<1>. QED  BY <1>2, <1>5, <1>6, FS_EmptySet

\* An operation that is taken counts no more.
LEMMA PopCounts ==
  ASSUME TypeOK, operations # <<>>, operations' = Tail(operations), NEW e
  PROVE  LET op == Head(operations) IN
         /\ operations' \in Seq(Op) /\ op \in Op /\ Len(operations') < Len(operations)
         /\ Cardinality(OpsOn(e))' = Cardinality(OpsOn(e)) - (IF op.event = e THEN 1 ELSE 0)
         /\ Cardinality(OpsOf("add", e))' = Cardinality(OpsOf("add", e))
              - (IF op.func = "add" /\ op.event = e THEN 1 ELSE 0)
         /\ op.event # e => (OpsOn(e)' = {} <=> OpsOn(e) = {})
         /\ OpsOf("add", e) = {} => OpsOf("add", e)' = {} /\ ~ (op.func = "add" /\ op.event = e)
<1>0. PICK op : op = Head(operations)
  OBVIOUS
<1>1. operations \in Seq(Op)
  BY DEF TypeOK, Op, Funcs
<1>2. /\ operations' \in Seq(Op) /\ op \in Op /\ Len(operations') < Len(operations)
  BY <1>0, <1>1, HeadTailProperties, EmptySeq
<1>3. /\ OpsOn(e) = Places(operations, OnEvent(e))
      /\ OpsOf("add", e) = Places(operations, OfKind("add", e))
  BY <1>1, OpsArePlaces DEF OpsOn, OpsOf
<1>4. /\ OpsOn(e)' = Places(operations', OnEvent(e))
      /\ OpsOf("add", e)' = Places(operations', OfKind("add", e))
  BY <1>2, OpsArePlaces DEF OpsOn, OpsOf
<1>6. /\ IsFiniteSet(OpsOn(e)') /\ IsFiniteSet(OpsOf("add", e)')
      /\ IsFiniteSet(OpsOn(e)) /\ IsFiniteSet(OpsOf("add", e))
      /\ Cardinality(OpsOn(e)) \in Nat /\ Cardinality(OpsOf("add", e)) \in Nat
      /\ Cardinality(OpsOn(e))' \in Nat /\ Cardinality(OpsOf("add", e))' \in Nat
  BY <1>1, <1>2, <1>3, <1>4, PlacesFinite
<1>7. /\ op \in OnEvent(e) <=> op.event = e
      /\ op \in OfKind("add", e) <=> op.func = "add" /\ op.event = e
  BY <1>2 DEF OnEvent, OfKind
<1>8. /\ Cardinality(OpsOn(e)) = Cardinality(OpsOn(e))' + (IF op \in OnEvent(e) THEN 1 ELSE 0)
      /\ Cardinality(OpsOf("add", e)) = Cardinality(OpsOf("add", e))'
           + (IF op \in OfKind("add", e) THEN 1 ELSE 0)
  BY <1>0, <1>1, <1>3, <1>4, PlacesTail
<1>9. /\ Cardinality(OpsOn(e))' = Cardinality(OpsOn(e)) - (IF op.event = e THEN 1 ELSE 0)
      /\ Cardinality(OpsOf("add", e))' = Cardinality(OpsOf("add", e))
              - (IF op.func = "add" /\ op.event = e THEN 1 ELSE 0)
  BY <1>6, <1>7, <1>8
<1>10. /\ op.event # e => (OpsOn(e)' = {} <=> OpsOn(e) = {})
       /\ OpsOf("add", e) = {} => OpsOf("add", e)' = {} /\ ~ (op.func = "add" /\ op.event = e)
  BY <1>6, <1>9, FS_EmptySet
<1>. QED  BY <1>0, <1>2, <1>9, <1>10

--------------------------------------------------------------------------------
(* The calls of other threads.                                              *)

LEMMA InitIInv == Init => IInv
<1> SUFFICES ASSUME Init PROVE IInv
  OBVIOUS
<1>1. TypeOK
  <2>1. operations \in Seq([func : {"add", "remove", "modify"}, event : Events])
    BY DEF Init
  <2>2. /\ events_list \in [Events -> Nat] /\ ref_count \in [Events -> Nat]
        /\ events \in [Events -> SUBSET Conditions]
        /\ watching \in [Events -> SUBSET (Conditions \cup {"timer"})]
    BY DEF Init, Conditions
  <2>3. /\ writer \in [at : {"none", "store", "push"}, event : Events \cup {NoEvent},
                       value : SUBSET Conditions]
        /\ pipe \in Nat /\ calls \in 0 .. MaxCalls
    BY EventsAssumption DEF Init, NoWriter
  <2>. QED  BY <2>1, <2>2, <2>3 DEF Init, TypeOK
<1>2. \A e : OpsOn(e) = {} /\ \A func : OpsOf(func, e) = {}
  BY DEF Init, OpsOn, OpsOf
<1>3. \A e : Cardinality(OpsOn(e)) = 0 /\ Cardinality(OpsOf("add", e)) = 0
  BY <1>2, FS_EmptySet
<1>4. RefsExact
  <2>1. pc = "polling" /\ \A e \in Events : ref_count[e] = 1 /\ e \in held /\ events_list[e] = 0
    BY DEF Init
  <2>. QED  BY <1>3, <2>1 DEF RefsExact
<1>5. Links
  <2>1. /\ in_loop = {}
        /\ \A e \in Events : events_list[e] = 0 /\ watching[e] = {}
    BY DEF Init
  <2>. QED  BY <1>2, <1>3, <2>1 DEF Links
<1>6. Hands /\ Requests /\ WakeupNotLost /\ EventsApplied
  BY DEF Init, Hands, Requests, WakeupNotLost, EventsApplied, NoWriter
<1>. QED  BY <1>1, <1>4, <1>5, <1>6 DEF IInv

\* What every call does that queues an operation: an operation that adds an event is the
\* first one and marks it, and the thread inside g_event_add_events finishes with its own.
LEMMA PushIInv ==
  ASSUME IInv, NEW func \in Funcs, NEW e \in Events, Push(func, e),
         UNCHANGED <<loop_quited, events_list, in_loop, events, watching, held, loopVars>>,
         attached' \subseteq Events, attached \subseteq attached',
         func = "add" => e \notin attached /\ e \in attached',
         writer' = writer \/ (writer' = NoWriter /\ writer.event = e),
         calls' \in 0 .. MaxCalls
  PROVE  IInv'
<1> USE DEF IInv
<1> DEFINE op == [func |-> func, event |-> e]
<1>1. op \in Op /\ operations' = Append(operations, op)
  BY DEF Push, Op
<1>2. /\ operations' \in Seq(Op) /\ operations' # <<>>
      /\ \A f : Cardinality(OpsOn(f))' = Cardinality(OpsOn(f)) + (IF e = f THEN 1 ELSE 0)
      /\ \A f : Cardinality(OpsOf("add", f))' = Cardinality(OpsOf("add", f))
              + (IF func = "add" /\ e = f THEN 1 ELSE 0)
      /\ \A f : OpsOn(f)' = {} => OpsOn(f) = {} /\ e # f
      /\ \A f : OpsOf("add", f)' = {} <=> OpsOf("add", f) = {} /\ ~ (func = "add" /\ e = f)
  BY <1>1, PushCounts
<1>3. \A f : Cardinality(OpsOn(f)) \in Nat /\ Cardinality(OpsOf("add", f)) \in Nat
  BY OpsFinite
<1>4. ref_count' = [ref_count EXCEPT ![e] = ref_count[e] + 1] /\ Wakeup
  BY DEF Push
<1>5. Requests' /\ pipe' = 1 /\ request_pending' = TRUE
  BY <1>4 DEF Wakeup, Requests, TypeOK
<1>6. TypeOK'
  <2>1. writer' \in [at : {"none", "store", "push"}, event : Events \cup {NoEvent},
                      value : SUBSET Conditions]
    BY DEF TypeOK, NoWriter
  <2>2. operations' \in Seq([func : {"add", "remove", "modify"}, event : Events])
    BY <1>2 DEF Op, Funcs
  <2>3. ref_count' \in [Events -> Nat]
    BY <1>4 DEF TypeOK
  <2>. QED  BY <1>5, <2>1, <2>2, <2>3 DEF TypeOK, loopVars
<1>7. RefsExact'
  <2>1. \A f \in Events : ref_count'[f] = ref_count[f] + (IF e = f THEN 1 ELSE 0)
    BY <1>4 DEF TypeOK
  <2>2. pc' = pc /\ hand' = hand /\ held' = held /\ events_list' = events_list
    BY DEF loopVars
  <2> SUFFICES ASSUME NEW f \in Events
               PROVE  ref_count'[f] = (IF f \in held THEN 1 ELSE 0) + events_list[f]
                        + Cardinality(OpsOn(f))' + (IF pc = "unref" /\ hand = f THEN 1 ELSE 0)
    BY <2>2 DEF RefsExact
  <2>3. /\ ref_count[f] = (IF f \in held THEN 1 ELSE 0) + events_list[f]
             + Cardinality(OpsOn(f)) + (IF pc = "unref" /\ hand = f THEN 1 ELSE 0)
        /\ events_list[f] \in Nat /\ Cardinality(OpsOn(f)) \in Nat
    BY <1>3 DEF RefsExact, TypeOK
  <2>. QED  BY <1>2, <2>1, <2>3
<1>8. Links'
  <2> SUFFICES ASSUME NEW f \in Events
               PROVE  /\ events_list[f] + Cardinality(OpsOf("add", f))' <= 1
                      /\ f \notin attached' => events_list[f] = 0 /\ OpsOf("add", f)' = {}
    BY DEF Links
  <2>1. CASE func = "add" /\ e = f
    <3>1. events_list[f] = 0 /\ Cardinality(OpsOf("add", f)) = 0
      BY <2>1, FS_EmptySet DEF Links
    <3>. QED  BY <1>2, <2>1, <3>1
  <2>2. CASE ~ (func = "add" /\ e = f)
    BY <1>2, <1>3, <2>2 DEF Links
  <2>. QED  BY <2>1, <2>2
<1>9. Hands'
  BY DEF Hands, loopVars, NoWriter
<1>10. WakeupNotLost'
  BY <1>5 DEF WakeupNotLost
<1>11. EventsApplied'
  <2> SUFFICES ASSUME ~ loop_quited, NEW f \in in_loop, OpsOn(f)' = {}, writer'.event # f
               PROVE  watching[f] \cap Conditions = events[f]
    BY DEF EventsApplied
  <2>1. OpsOn(f) = {} /\ e # f
    BY <1>2
  <2>. QED  BY <2>1 DEF EventsApplied
<1>. QED  BY <1>5, <1>6, <1>7, <1>8, <1>9, <1>10, <1>11

LEMMA CallType == TypeOK /\ Call => calls' \in 0 .. MaxCalls
BY EventsAssumption DEF TypeOK, Call

LEMMA AttachIInv == ASSUME IInv, NEW e \in Events, Attach(e) PROVE IInv'
<1> USE DEF IInv
<1>1. /\ calls' \in 0 .. MaxCalls /\ e \notin attached /\ attached' = attached \cup {e}
      /\ UNCHANGED <<loop_quited, events_list, in_loop, events, watching, held, loopVars, writer>>
  BY CallType DEF Attach
<1>2. CASE loop_quited
  <2>1. UNCHANGED <<queueVars, ref_count>>
    BY <1>2 DEF Attach
  <2>2. \A f : OpsOn(f)' = OpsOn(f) /\ OpsOf("add", f)' = OpsOf("add", f)
    BY <2>1 DEF OpsOn, OpsOf, queueVars
  <2>3. TypeOK'
    BY <1>1, <2>1 DEF TypeOK, queueVars, loopVars
  <2>4. RefsExact'
    BY <1>1, <2>1, <2>2 DEF RefsExact, loopVars
  <2>5. Links'
    BY <1>1, <2>2 DEF Links
  <2>6. Hands' /\ Requests' /\ WakeupNotLost' /\ EventsApplied'
    BY <1>1, <1>2, <2>1 DEF Hands, Requests, WakeupNotLost, EventsApplied, queueVars, loopVars
  <2>. QED  BY <2>3, <2>4, <2>5, <2>6
<1>3. CASE ~ loop_quited
  <2>1. Push("add", e)
    BY <1>3 DEF Attach
  <2>2. attached' \subseteq Events
    BY <1>1 DEF TypeOK
  <2>. QED  BY <1>1, <2>1, <2>2, PushIInv DEF Funcs
<1>. QED  BY <1>2, <1>3

LEMMA RemoveIInv == ASSUME IInv, NEW e \in Events, Remove(e) PROVE IInv'
<1>1. /\ calls' \in 0 .. MaxCalls /\ Push("remove", e) /\ attached' = attached
      /\ UNCHANGED <<loop_quited, events_list, in_loop, events, watching, held, loopVars, writer>>
  BY CallType DEF Remove, IInv
<1>2. attached' \subseteq Events
  BY <1>1 DEF IInv, TypeOK
<1>. QED  BY <1>1, <1>2, PushIInv DEF Funcs

\* The steps that leave the queue alone and neither link, unlink nor reference an event.
LEMMA SameOwners ==
  ASSUME IInv, UNCHANGED <<operations, events_list, ref_count, in_loop, attached, held>>,
         (pc' = pc /\ hand' = hand) \/ (pc # "unref" /\ pc' # "unref"),
         \A e \in Events : watching'[e] # {} => watching[e] # {} \/ e \in in_loop
  PROVE  /\ RefsExact' /\ Links'
         /\ \A e : OpsOn(e)' = OpsOn(e)
<1>1. \A e : OpsOn(e)' = OpsOn(e) /\ OpsOf("add", e)' = OpsOf("add", e)
  BY DEF OpsOn, OpsOf
<1>2. RefsExact'
  BY <1>1 DEF IInv, RefsExact
<1>3. Links'
  BY <1>1 DEF IInv, Links
<1>. QED  BY <1>1, <1>2, <1>3

LEMMA PushModifyIInv == ASSUME IInv, PushModify PROVE IInv'
<1> USE DEF IInv
<1>1. /\ writer.at = "push" /\ writer' = NoWriter
      /\ UNCHANGED <<loop_quited, events_list, in_loop, attached, events, watching, held,
                     loopVars, calls>>
  BY DEF PushModify
<1>2. writer.event \in Events
  BY <1>1 DEF TypeOK, Hands
<1>3. CASE loop_quited
  <2>1. UNCHANGED <<queueVars, ref_count>>
    BY <1>3 DEF PushModify
  <2>2. RefsExact' /\ Links'
    BY <1>1, <2>1, SameOwners DEF queueVars, loopVars
  <2>3. TypeOK'
    BY <1>1, <2>1 DEF TypeOK, queueVars, loopVars, NoWriter
  <2>4. Hands' /\ Requests' /\ WakeupNotLost' /\ EventsApplied'
    BY <1>1, <1>3, <2>1
    DEF Hands, Requests, WakeupNotLost, EventsApplied, queueVars, loopVars, NoWriter
  <2>. QED  BY <2>2, <2>3, <2>4
<1>4. CASE ~ loop_quited
  <2>1. Push("modify", writer.event)
    BY <1>4 DEF PushModify
  <2>2. attached' \subseteq Events /\ calls' \in 0 .. MaxCalls
    BY <1>1 DEF TypeOK
  <2>. QED  BY <1>1, <1>2, <2>1, <2>2, PushIInv DEF Funcs
<1>. QED  BY <1>3, <1>4

LEMMA LoadEventsIInv ==
  ASSUME IInv, NEW e \in Events, NEW add \in SUBSET Conditions, NEW drop \in SUBSET Conditions,
         LoadEvents(e, add, drop)
  PROVE  IInv'
<1> USE DEF IInv
<1>1. /\ writer.at = "none"
      /\ writer' = [at |-> "store", event |-> e, value |-> (events[e] \cup add) \ drop]
      /\ calls' \in 0 .. MaxCalls
      /\ UNCHANGED <<queueVars, loop_quited, events_list, in_loop, attached, events, watching,
                     ref_count, held, loopVars>>
  BY CallType DEF LoadEvents
<1>2. RefsExact' /\ Links' /\ \A f : OpsOn(f)' = OpsOn(f)
  BY <1>1, SameOwners DEF queueVars, loopVars
<1>3. TypeOK'
  BY <1>1 DEF TypeOK, queueVars, loopVars
<1>4. Hands' /\ Requests' /\ WakeupNotLost'
  BY <1>1, EventsAssumption DEF Hands, Requests, WakeupNotLost, queueVars, loopVars
<1>5. EventsApplied'
  <2> SUFFICES ASSUME ~ loop_quited, NEW f \in in_loop, OpsOn(f) = {}, e # f
               PROVE  watching[f] \cap Conditions = events[f]
    BY <1>1, <1>2 DEF EventsApplied
  <2>1. writer.event # f
    BY <1>1, EventsAssumption DEF Hands, TypeOK
  <2>. QED  BY <2>1 DEF EventsApplied
<1>. QED  BY <1>2, <1>3, <1>4, <1>5

LEMMA StoreEventsIInv == ASSUME IInv, StoreEvents PROVE IInv'
<1> USE DEF IInv
<1> DEFINE e == writer.event
<1>1. /\ writer.at = "store" /\ e \in Events /\ writer.value \subseteq Conditions
      /\ events' = [events EXCEPT ![e] = writer.value]
      /\ writer' = IF e \in attached THEN [writer EXCEPT !.at = "push"] ELSE NoWriter
      /\ UNCHANGED <<queueVars, loop_quited, events_list, in_loop, attached, watching,
                     ref_count, held, loopVars, calls>>
  BY DEF StoreEvents, Hands, TypeOK
<1>2. RefsExact' /\ Links' /\ \A f : OpsOn(f)' = OpsOn(f)
  BY <1>1, SameOwners DEF queueVars, loopVars
<1>3. TypeOK'
  BY <1>1 DEF TypeOK, queueVars, loopVars, NoWriter
<1>4. Hands' /\ Requests' /\ WakeupNotLost'
  BY <1>1, EventsAssumption
  DEF Hands, Requests, WakeupNotLost, queueVars, loopVars, NoWriter, TypeOK
<1>5. EventsApplied'
  <2> SUFFICES ASSUME ~ loop_quited, NEW f \in in_loop, OpsOn(f) = {}, writer'.event # f
               PROVE  watching[f] \cap Conditions = events'[f]
    BY <1>1, <1>2 DEF EventsApplied
  <2>1. f \in attached
    BY DEF Links, TypeOK
  <2>2. e # f
    BY <1>1, <2>1 DEF TypeOK
  <2>. QED  BY <1>1, <2>2 DEF EventsApplied, TypeOK
<1>. QED  BY <1>2, <1>3, <1>4, <1>5

LEMMA UnrefIInv == ASSUME IInv, NEW e \in Events, Unref(e) PROVE IInv'
<1> USE DEF IInv
<1>1. /\ e \in held /\ held' = held \ {e}
      /\ ref_count' = [ref_count EXCEPT ![e] = ref_count[e] - 1]
      /\ UNCHANGED <<queueVars, loop_quited, events_list, in_loop, attached, events, watching,
                     loopVars, writer, calls>>
  BY DEF Unref
<1>2. \A f : OpsOn(f)' = OpsOn(f) /\ OpsOf("add", f)' = OpsOf("add", f)
  BY <1>1 DEF OpsOn, OpsOf, queueVars
<1>3. \A f : Cardinality(OpsOn(f)) \in Nat
  BY OpsFinite
<1>4. ref_count[e] \in Nat /\ ref_count[e] >= 1
  BY <1>1, <1>3 DEF RefsExact, TypeOK
<1>5. TypeOK'
  <2>1. ref_count' \in [Events -> Nat]
    BY <1>1, <1>4 DEF TypeOK
  <2>. QED  BY <1>1, <2>1 DEF TypeOK, queueVars, loopVars
<1>6. RefsExact'
  BY <1>1, <1>2, <1>3, <1>4 DEF RefsExact, TypeOK, loopVars
<1>7. Links'
  BY <1>1, <1>2 DEF Links
<1>8. Hands' /\ Requests' /\ WakeupNotLost' /\ EventsApplied'
  BY <1>1, <1>2 DEF Hands, Requests, WakeupNotLost, EventsApplied, queueVars, loopVars
<1>. QED  BY <1>5, <1>6, <1>7, <1>8

LEMMA QuitIInv == ASSUME IInv, Quit PROVE IInv'
<1> USE DEF IInv
<1>1. /\ loop_quited' = TRUE /\ Wakeup /\ calls' \in 0 .. MaxCalls
      /\ UNCHANGED <<operations, events_list, in_loop, attached, events, watching, ref_count,
                     held, loopVars, writer>>
  BY CallType DEF Quit
<1>2. Requests' /\ pipe' = 1 /\ request_pending' = TRUE
  BY <1>1 DEF Wakeup, Requests, TypeOK
<1>3. RefsExact' /\ Links'
  BY <1>1, SameOwners DEF loopVars
<1>4. TypeOK' /\ Hands' /\ WakeupNotLost' /\ EventsApplied'
  BY <1>1, <1>2 DEF TypeOK, Hands, WakeupNotLost, EventsApplied, loopVars
<1>. QED  BY <1>2, <1>3, <1>4

--------------------------------------------------------------------------------
(* The thread of the loop.                                                  *)

\* Running an operation: what it does to the counts, by its kind.
LEMMA ExecIInv ==
  ASSUME IInv, ExecNext, hand = NoEvent, pc \in {"polling", "unref"},
         Requests', pipe' \in Nat, request_pending' \in BOOLEAN
  PROVE  IInv'
<1> USE DEF IInv
<1>1. UNCHANGED <<loop_quited, attached, events, held, loaded, writer, calls>>
  BY DEF ExecNext
<1>2. CASE operations = <<>>
  <2>1. /\ pc' = "polling"
        /\ UNCHANGED <<operations, hand, events_list, ref_count, watching, in_loop>>
    BY <1>2 DEF ExecNext
  <2>2. \A f : OpsOn(f)' = OpsOn(f) /\ OpsOf("add", f)' = OpsOf("add", f)
    BY <2>1 DEF OpsOn, OpsOf
  <2>3. TypeOK'
    BY <1>1, <2>1 DEF TypeOK
  <2>4. RefsExact'
    BY <1>1, <2>1, <2>2, EventsAssumption DEF RefsExact
  <2>5. Links' /\ Hands'
    BY <1>1, <2>1, <2>2 DEF Links, Hands
  <2>6. WakeupNotLost' /\ EventsApplied'
    BY <1>1, <1>2, <2>1, <2>2 DEF WakeupNotLost, EventsApplied, Requests
  <2>. QED  BY <2>3, <2>4, <2>5, <2>6
<1>3. CASE operations # <<>>
  <2>0. PICK op, e : op = Head(operations) /\ e = op.event
    OBVIOUS
  <2>1. operations' = Tail(operations) /\ pc' = "unref" /\ hand' = e
    BY <1>3, <2>0 DEF ExecNext
  <2>2. /\ operations' \in Seq(Op) /\ op \in Op
        /\ \A f : Cardinality(OpsOn(f))' = Cardinality(OpsOn(f)) - (IF e = f THEN 1 ELSE 0)
        /\ \A f : Cardinality(OpsOf("add", f))' = Cardinality(OpsOf("add", f))
                - (IF op.func = "add" /\ e = f THEN 1 ELSE 0)
        /\ \A f : e # f => (OpsOn(f)' = {} <=> OpsOn(f) = {})
        /\ \A f : OpsOf("add", f) = {} => OpsOf("add", f)' = {} /\ ~ (op.func = "add" /\ e = f)
    BY <1>3, <2>0, <2>1, PopCounts
  <2>3. e \in Events /\ op.func \in Funcs
    BY <2>0, <2>2 DEF Op
  <2>4. PICK n \in [Events -> Nat], adds \in [Events -> Nat] :
          \A f \in Events : n[f] = Cardinality(OpsOn(f)) /\ adds[f] = Cardinality(OpsOf("add", f))
    <3> DEFINE on == [f \in Events |-> Cardinality(OpsOn(f))]
               ad == [f \in Events |-> Cardinality(OpsOf("add", f))]
    <3>1. on \in [Events -> Nat] /\ ad \in [Events -> Nat]
      BY OpsFinite
    <3>. QED  BY <3>1
  <2>4a. PICK m \in [Events -> Int], left \in [Events -> Int] :
          \A f \in Events : m[f] = Cardinality(OpsOn(f))' /\ left[f] = Cardinality(OpsOf("add", f))'
    <3> DEFINE on == [f \in Events |-> Cardinality(OpsOn(f))']
               ad == [f \in Events |-> Cardinality(OpsOf("add", f))']
    <3>1. \A f \in Events : on[f] = n[f] - (IF e = f THEN 1 ELSE 0)
                       /\ ad[f] = adds[f] - (IF op.func = "add" /\ e = f THEN 1 ELSE 0)
      BY <2>2, <2>4
    <3>2. \A f \in Events : on[f] \in Int /\ ad[f] \in Int
      BY <3>1
    <3>3. on \in [Events -> Int] /\ ad \in [Events -> Int]
      BY <3>2
    <3>. QED  BY <3>3
  <2>4b. \A f \in Events : /\ m[f] = n[f] - (IF e = f THEN 1 ELSE 0)
                           /\ left[f] = adds[f] - (IF op.func = "add" /\ e = f THEN 1 ELSE 0)
    BY <2>2, <2>4, <2>4a
  <2>4c. \A f \in Events :
           /\ events_list[f] + adds[f] <= 1
           /\ ref_count[f] = (IF f \in held THEN 1 ELSE 0) + events_list[f] + n[f]
    <3> SUFFICES ASSUME NEW f \in Events
                 PROVE  /\ events_list[f] + adds[f] <= 1
                        /\ ref_count[f] = (IF f \in held THEN 1 ELSE 0) + events_list[f] + n[f]
      OBVIOUS
    <3>1. hand # f /\ n[f] = Cardinality(OpsOn(f)) /\ adds[f] = Cardinality(OpsOf("add", f))
      BY <2>4, EventsAssumption
    <3>2. events_list[f] \in Nat /\ n[f] \in Nat
      BY DEF TypeOK
    <3>3. events_list[f] + adds[f] <= 1
      BY <3>1 DEF Links
    <3>4. ref_count[f] = (IF f \in held THEN 1 ELSE 0) + events_list[f] + n[f] + 0
      BY <3>1 DEF RefsExact
    <3>. QED  BY <3>2, <3>3, <3>4
  <2>5. /\ op.func = "add" => OpsAdd(e)
        /\ op.func = "remove" => Detach(e)
        /\ op.func = "modify" =>
             ApplyEvents(e, events[e]) /\ UNCHANGED <<events_list, ref_count, in_loop>>
    BY <1>3, <2>0 DEF ExecNext
  <2>6. /\ operations' \in Seq([func : {"add", "remove", "modify"}, event : Events])
        /\ pc' \in {"polling", "callback", "storing", "unref"}
        /\ hand' \in Events \cup {NoEvent}
    BY <2>1, <2>2, <2>3 DEF Op, Funcs
  <2>7. ASSUME events_list' \in [Events -> Nat], ref_count' \in [Events -> Nat],
               in_loop' \subseteq Events,
               watching' \in [Events -> SUBSET (Conditions \cup {"timer"})],
               \A f \in Events \ {e} : events_list'[f] = events_list[f],
               \A f \in Events \ {e} : ref_count'[f] = ref_count[f],
               \A f \in Events \ {e} : watching'[f] = watching[f],
               \A f \in Events \ {e} : f \in in_loop' <=> f \in in_loop,
               ref_count'[e] - events_list'[e] = ref_count[e] - events_list[e],
               events_list'[e] + left[e] <= 1,
               e \notin attached => events_list'[e] = 0,
               e \in in_loop' <=> events_list'[e] = 1,
               watching'[e] # {} => e \in in_loop',
               e \in in_loop' => watching'[e] \cap Conditions = events[e]
        PROVE  IInv'
    <3>0. \A f \in Events : f # e => /\ events_list'[f] = events_list[f]
                                     /\ ref_count'[f] = ref_count[f]
                                     /\ watching'[f] = watching[f]
                                     /\ f \in in_loop' <=> f \in in_loop
                                     /\ m[f] = n[f] /\ left[f] = adds[f]
      <4> SUFFICES ASSUME NEW f \in Events, f # e
                   PROVE  /\ events_list'[f] = events_list[f]
                          /\ ref_count'[f] = ref_count[f]
                          /\ watching'[f] = watching[f]
                          /\ f \in in_loop' <=> f \in in_loop
                          /\ m[f] = n[f] /\ left[f] = adds[f]
        OBVIOUS
      <4>1. f \in Events \ {e} /\ n[f] \in Nat /\ adds[f] \in Nat
        OBVIOUS
      <4>2. m[f] = n[f] /\ left[f] = adds[f]
        BY <2>4b, <4>1
      <4>. QED  BY <2>7, <4>1, <4>2
    <3>1. TypeOK'
      BY <1>1, <2>6, <2>7 DEF TypeOK
    <3>2. RefsExact'
      <4> SUFFICES ASSUME NEW f \in Events
                   PROVE  ref_count'[f] = (IF f \in held THEN 1 ELSE 0) + events_list'[f]
                            + m[f] + (IF e = f THEN 1 ELSE 0)
        BY <1>1, <2>1, <2>4a DEF RefsExact
      <4>1. /\ events_list[f] \in Nat /\ n[f] \in Nat /\ ref_count[f] \in Nat
            /\ events_list'[f] \in Nat /\ ref_count'[f] \in Nat
        BY <2>7 DEF TypeOK
      <4>2. CASE f = e
        <5>1. ref_count'[f] - events_list'[f] = ref_count[f] - events_list[f] /\ m[f] = n[f] - 1
          BY <2>4b, <2>7, <4>2
        <5>. QED  BY <2>4c, <4>1, <4>2, <5>1
      <4>3. CASE f # e
        <5>1. events_list'[f] = events_list[f] /\ ref_count'[f] = ref_count[f] /\ m[f] = n[f]
          BY <3>0, <4>3
        <5>. QED  BY <2>4c, <4>1, <4>3, <5>1
      <4>. QED  BY <4>2, <4>3
    <3>3. Links'
      <4> SUFFICES ASSUME NEW f \in Events
                   PROVE  /\ events_list'[f] + left[f] <= 1
                          /\ f \notin attached => events_list'[f] = 0 /\ OpsOf("add", f)' = {}
                          /\ f \in in_loop' <=> events_list'[f] = 1
                          /\ watching'[f] # {} => f \in in_loop'
        BY <1>1, <2>4a DEF Links
      <4>1. f \notin attached => OpsOf("add", f)' = {}
        BY <2>2 DEF Links
      <4>2. CASE f = e
        BY <2>7, <4>1, <4>2
      <4>3. CASE f # e
        <5>1. /\ events_list'[f] = events_list[f] /\ watching'[f] = watching[f] /\ left[f] = adds[f]
              /\ f \in in_loop' <=> f \in in_loop
          BY <3>0, <4>3
        <5>2. events_list[f] + adds[f] <= 1
          BY <2>4c
        <5>. QED  BY <4>1, <5>1, <5>2 DEF Links
      <4>. QED  BY <4>2, <4>3
    <3>4. Hands' /\ WakeupNotLost'
      BY <1>1, <2>1 DEF Hands, WakeupNotLost, Requests
    <3>5. EventsApplied'
      <4> SUFFICES ASSUME ~ loop_quited, NEW f \in in_loop', OpsOn(f)' = {}, writer.event # f
                   PROVE  watching'[f] \cap Conditions = events[f]
        BY <1>1 DEF EventsApplied
      <4>1. CASE f = e
        BY <2>7, <4>1
      <4>2. CASE f # e
        <5>1. OpsOn(f) = {} /\ f \in in_loop /\ watching'[f] = watching[f]
          <6>1. f \in Events
            BY <2>7
          <6>2. f \in in_loop /\ watching'[f] = watching[f]
            BY <3>0, <4>2, <6>1
          <6>. QED  BY <2>2, <4>2, <6>2
        <5>. QED  BY <5>1 DEF EventsApplied
      <4>. QED  BY <4>1, <4>2
    <3>. QED  BY <3>1, <3>2, <3>3, <3>4, <3>5
  <2>8. /\ ref_count[e] \in Nat /\ events_list[e] \in Nat /\ ref_count[e] >= events_list[e]
        /\ events_list[e] + adds[e] <= 1 /\ adds[e] \in Nat
    <3>1. /\ ref_count[e] \in Nat /\ events_list[e] \in Nat /\ n[e] \in Nat /\ adds[e] \in Nat
      BY <2>3 DEF TypeOK
    <3>. QED  BY <2>3, <2>4c, <3>1
  <2>9. events[e] \subseteq Conditions /\ watching[e] \subseteq Conditions \cup {"timer"}
    BY <2>3 DEF TypeOK
  <2>10. CASE op.func = "add"
    <3>1. /\ events_list' = [events_list EXCEPT ![e] = events_list[e] + 1]
          /\ ref_count' = [ref_count EXCEPT ![e] = ref_count[e] + 1]
          /\ watching' = [watching EXCEPT ![e] = events[e] \cup (IF e \in Timed THEN {"timer"} ELSE {})]
          /\ in_loop' = in_loop \cup {e}
      BY <2>5, <2>10 DEF OpsAdd
    <3>2. OpsOf("add", e) # {} /\ e \in attached
      BY <2>2, <2>3, <2>10 DEF Links
    <3>3. adds[e] # 0
      <4>1. IsFiniteSet(OpsOf("add", e))
        BY OpsFinite
      <4>. QED  BY <2>3, <2>4, <3>2, <4>1, FS_EmptySet
    <3>4. events_list[e] = 0 /\ left[e] = 0
      BY <2>3, <2>4b, <2>8, <2>10, <3>3
    <3>5. /\ events_list'[e] = 1 /\ ref_count'[e] = ref_count[e] + 1
          /\ watching'[e] \cap Conditions = events[e]
      BY <2>3, <2>9, <3>1, <3>4 DEF TypeOK, Conditions
    <3>6. /\ events_list' \in [Events -> Nat] /\ ref_count' \in [Events -> Nat]
          /\ in_loop' \subseteq Events
          /\ watching' \in [Events -> SUBSET (Conditions \cup {"timer"})]
      BY <2>3, <2>8, <2>9, <3>1 DEF TypeOK
    <3>7. \A f \in Events \ {e} : /\ events_list'[f] = events_list[f]
                                  /\ ref_count'[f] = ref_count[f]
                                  /\ watching'[f] = watching[f]
                                  /\ f \in in_loop' <=> f \in in_loop
      BY <3>1 DEF TypeOK
    <3>. QED  BY <2>7, <2>8, <3>1, <3>2, <3>4, <3>5, <3>6, <3>7
  <2>11. CASE op.func = "remove"
    <3>1. left[e] = adds[e]
      BY <2>3, <2>4b, <2>8, <2>11
    <3>2. CASE events_list[e] = 0
      <4>1. UNCHANGED <<events_list, ref_count, watching, in_loop>>
        BY <2>5, <2>11, <3>2 DEF Detach
      <4>2. e \notin in_loop /\ watching[e] = {}
        BY <2>3, <3>2 DEF Links
      <4>3. /\ events_list' \in [Events -> Nat] /\ ref_count' \in [Events -> Nat]
            /\ in_loop' \subseteq Events
            /\ watching' \in [Events -> SUBSET (Conditions \cup {"timer"})]
        BY <4>1 DEF TypeOK
      <4>. QED  BY <2>7, <2>8, <3>1, <3>2, <4>1, <4>2, <4>3
    <3>3. CASE events_list[e] # 0
      <4>1. /\ events_list' = [events_list EXCEPT ![e] = events_list[e] - 1]
            /\ ref_count' = [ref_count EXCEPT ![e] = ref_count[e] - 1]
            /\ watching' = [watching EXCEPT ![e] = {}]
            /\ in_loop' = in_loop \ {e}
        BY <2>5, <2>11, <3>3 DEF Detach
      <4>2. events_list[e] = 1 /\ left[e] = 0 /\ ref_count[e] - 1 \in Nat
        BY <2>8, <3>1, <3>3
      <4>3. /\ events_list' \in [Events -> Nat] /\ ref_count' \in [Events -> Nat]
            /\ in_loop' \subseteq Events
            /\ watching' \in [Events -> SUBSET (Conditions \cup {"timer"})]
        <5>1. events_list[e] - 1 \in Nat /\ {} \in SUBSET (Conditions \cup {"timer"})
          BY <4>2
        <5>. QED  BY <4>1, <4>2, <5>1 DEF TypeOK
      <4>4. /\ events_list'[e] = 0 /\ ref_count'[e] = ref_count[e] - 1 /\ watching'[e] = {}
            /\ e \notin in_loop'
        BY <2>3, <4>1, <4>2 DEF TypeOK
      <4>5. \A f \in Events \ {e} : /\ events_list'[f] = events_list[f]
                                    /\ ref_count'[f] = ref_count[f]
                                    /\ watching'[f] = watching[f]
                                    /\ f \in in_loop' <=> f \in in_loop
        BY <4>1 DEF TypeOK
      <4>. QED  BY <2>7, <2>8, <4>2, <4>3, <4>4, <4>5
    <3>. QED  BY <3>2, <3>3
  <2>12. CASE op.func = "modify"
    <3>1. /\ ApplyEvents(e, events[e]) /\ UNCHANGED <<events_list, ref_count, in_loop>>
          /\ left[e] = adds[e]
      BY <2>3, <2>4b, <2>5, <2>8, <2>12
    <3>2. /\ events_list[e] = 1 <=> e \in in_loop
          /\ watching[e] # {} => e \in in_loop
          /\ e \notin attached => events_list[e] = 0
      BY <2>3 DEF Links
    <3>3. /\ watching' \in [Events -> SUBSET (Conditions \cup {"timer"})]
          /\ \A f \in Events \ {e} : watching'[f] = watching[f]
          /\ e \in in_loop => watching'[e] \cap Conditions = events[e]
          /\ e \notin in_loop => watching' = watching
      <4>1. CASE e \in in_loop
        <5>1. watching' = [watching EXCEPT ![e] = (watching[e] \cap {"timer"}) \cup events[e]]
          BY <3>1, <4>1 DEF ApplyEvents
        <5>. QED  BY <2>3, <2>9, <4>1, <5>1 DEF TypeOK, Conditions
      <4>2. CASE e \notin in_loop
        BY <3>1, <4>2 DEF ApplyEvents, TypeOK
      <4>. QED  BY <4>1, <4>2
    <3>4. /\ events_list' \in [Events -> Nat] /\ ref_count' \in [Events -> Nat]
          /\ in_loop' \subseteq Events
      BY <3>1 DEF TypeOK
    <3>. QED  BY <2>7, <2>8, <3>1, <3>2, <3>3, <3>4
  <2>. QED  BY <2>3, <2>10, <2>11, <2>12 DEF Funcs
<1>. QED  BY <1>2, <1>3

LEMMA WokenIInv == ASSUME IInv, Woken PROVE IInv'
<1>1. /\ pc = "polling" /\ pipe' = pipe - 1 /\ request_pending' = FALSE /\ ExecNext
      /\ pipe > 0 /\ pipe <= 1 /\ pipe \in Nat /\ hand = NoEvent
  BY DEF IInv, Woken, Hands, Requests, TypeOK
<1>2. pipe' = 0
  BY <1>1
<1>3. pipe' <= 1 /\ pipe' # 1 /\ ~ request_pending'
  BY <1>1, <1>2
<1>4. Requests'
  BY <1>3, Zenon DEF Requests
<1>5. pipe' \in Nat
  BY <1>2
<1>6. request_pending' \in BOOLEAN
  BY <1>1, Zenon
<1>. QED  BY <1>1, <1>4, <1>5, <1>6, ExecIInv

LEMMA NextOpIInv == ASSUME IInv, NextOp PROVE IInv'
<1>1. /\ pc = "unref" /\ hand = NoEvent /\ ExecNext /\ UNCHANGED <<request_pending, pipe>>
  BY DEF NextOp
<1>2. Requests' /\ pipe' \in Nat /\ request_pending' \in BOOLEAN
  BY <1>1 DEF IInv, Requests, TypeOK
<1>. QED  BY <1>1, <1>2, ExecIInv

LEMMA DropOpRefIInv == ASSUME IInv, DropOpRef PROVE IInv'
<1> USE DEF IInv
<1>1. /\ pc = "unref" /\ hand \in Events /\ hand' = NoEvent
      /\ ref_count' = [ref_count EXCEPT ![hand] = ref_count[hand] - 1]
      /\ UNCHANGED <<queueVars, loop_quited, events_list, in_loop, attached, events, watching,
                     held, pc, loaded, writer, calls>>
  BY DEF DropOpRef, TypeOK
<1>2. \A f : OpsOn(f)' = OpsOn(f) /\ OpsOf("add", f)' = OpsOf("add", f)
  BY <1>1 DEF OpsOn, OpsOf, queueVars
<1>3. \A f : Cardinality(OpsOn(f)) \in Nat
  BY OpsFinite
<1>4. ref_count[hand] \in Nat /\ ref_count[hand] >= 1
  <2>1. ref_count[hand] = (IF hand \in held THEN 1 ELSE 0) + events_list[hand]
                            + Cardinality(OpsOn(hand)) + 1
    BY <1>1 DEF RefsExact
  <2>2. events_list[hand] \in Nat /\ Cardinality(OpsOn(hand)) \in Nat
    BY <1>1, <1>3 DEF TypeOK
  <2>. QED  BY <2>1, <2>2
<1>5. TypeOK'
  <2>1. ref_count' \in [Events -> Nat]
    BY <1>1, <1>4 DEF TypeOK
  <2>. QED  BY <1>1, <2>1 DEF TypeOK, queueVars
<1>6. RefsExact'
  <2> SUFFICES ASSUME NEW f \in Events
               PROVE  ref_count'[f] = (IF f \in held THEN 1 ELSE 0) + events_list[f]
                        + Cardinality(OpsOn(f))
    BY <1>1, <1>2, <1>3, EventsAssumption DEF RefsExact, TypeOK
  <2>1. /\ ref_count[f] = (IF f \in held THEN 1 ELSE 0) + events_list[f]
             + Cardinality(OpsOn(f)) + (IF hand = f THEN 1 ELSE 0)
        /\ events_list[f] \in Nat /\ Cardinality(OpsOn(f)) \in Nat
    BY <1>1, <1>3 DEF RefsExact, TypeOK
  <2>2. ref_count'[f] = ref_count[f] - (IF hand = f THEN 1 ELSE 0)
    BY <1>1, <1>4, <2>1 DEF TypeOK
  <2>. QED  BY <2>1, <2>2
<1>7. Links'
  BY <1>1, <1>2 DEF Links
<1>8. Hands' /\ Requests' /\ WakeupNotLost' /\ EventsApplied'
  BY <1>1, <1>2 DEF Hands, Requests, WakeupNotLost, EventsApplied, queueVars
<1>. QED  BY <1>5, <1>6, <1>7, <1>8

LEMMA DispatchIInv == ASSUME IInv, NEW e \in Events, Dispatch(e) PROVE IInv'
<1> USE DEF IInv
<1>1. /\ pc = "polling" /\ watching[e] # {} /\ pc' = "callback" /\ hand' = e
      /\ UNCHANGED <<queueVars, loop_quited, events_list, in_loop, attached, events, watching,
                     ref_count, held, loaded, writer, calls>>
  BY DEF Dispatch
<1>2. e \in in_loop
  BY <1>1 DEF Links
<1>3. RefsExact' /\ Links' /\ \A f : OpsOn(f)' = OpsOn(f)
  BY <1>1, SameOwners DEF queueVars
<1>4. TypeOK'
  BY <1>1 DEF TypeOK, queueVars
<1>5. Hands' /\ Requests' /\ WakeupNotLost' /\ EventsApplied'
  BY <1>1, <1>2, <1>3 DEF Hands, Requests, WakeupNotLost, EventsApplied, queueVars
<1>. QED  BY <1>3, <1>4, <1>5

LEMMA SyncLoadIInv ==
  ASSUME IInv, NEW add \in SUBSET Conditions, NEW drop \in SUBSET Conditions,
         SyncLoad(add, drop)
  PROVE  IInv'
<1> USE DEF IInv
<1>1. /\ pc = "callback" /\ pc' = "storing" /\ loaded' = (events[hand] \cup add) \ drop
      /\ UNCHANGED <<queueVars, loop_quited, events_list, in_loop, attached, events, watching,
                     ref_count, held, hand, writer, calls>>
  BY DEF SyncLoad
<1>2. hand \in in_loop /\ hand \in Events
  BY <1>1 DEF Hands, TypeOK
<1>3. RefsExact' /\ Links' /\ \A f : OpsOn(f)' = OpsOn(f)
  BY <1>1, SameOwners DEF queueVars
<1>4. TypeOK'
  <2>1. loaded' \subseteq Conditions
    BY <1>1, <1>2 DEF TypeOK
  <2>. QED  BY <1>1, <2>1 DEF TypeOK, queueVars
<1>5. Hands' /\ Requests' /\ WakeupNotLost' /\ EventsApplied'
  BY <1>1, <1>2, <1>3 DEF Hands, Requests, WakeupNotLost, EventsApplied, queueVars
<1>. QED  BY <1>3, <1>4, <1>5

LEMMA SyncStoreIInv == ASSUME IInv, SyncStore PROVE IInv'
<1> USE DEF IInv
<1>1. /\ pc = "storing" /\ pc' = "callback" /\ events' = [events EXCEPT ![hand] = loaded]
      /\ ApplyEvents(hand, loaded)
      /\ UNCHANGED <<queueVars, loop_quited, events_list, in_loop, attached, ref_count, held,
                     hand, loaded, writer, calls>>
  BY DEF SyncStore
<1>2. hand \in in_loop /\ hand \in Events /\ loaded \subseteq Conditions
  BY <1>1 DEF Hands, TypeOK
<1>3. watching' = [watching EXCEPT ![hand] = (watching[hand] \cap {"timer"}) \cup loaded]
  BY <1>1, <1>2 DEF ApplyEvents
<1>4. RefsExact' /\ Links' /\ \A f : OpsOn(f)' = OpsOn(f)
  <2>1. \A f \in Events : watching'[f] # {} => watching[f] # {} \/ f \in in_loop
    BY <1>2, <1>3 DEF TypeOK
  <2>. QED  BY <1>1, <2>1, SameOwners DEF queueVars
<1>5. TypeOK'
  BY <1>1, <1>2, <1>3 DEF TypeOK, queueVars
<1>6. Hands' /\ Requests' /\ WakeupNotLost'
  BY <1>1, <1>2 DEF Hands, Requests, WakeupNotLost, queueVars
<1>7. EventsApplied'
  <2> SUFFICES ASSUME ~ loop_quited, NEW f \in in_loop, OpsOn(f) = {}, writer.event # f
               PROVE  watching'[f] \cap Conditions = events'[f]
    BY <1>1, <1>4 DEF EventsApplied
  <2>1. CASE f = hand
    BY <1>1, <1>2, <1>3, <2>1 DEF TypeOK, Conditions
  <2>2. CASE f # hand
    <3>1. watching'[f] = watching[f] /\ events'[f] = events[f]
      BY <1>1, <1>3, <2>2 DEF TypeOK
    <3>. QED  BY <3>1 DEF EventsApplied
  <2>. QED  BY <2>1, <2>2
<1>. QED  BY <1>4, <1>5, <1>6, <1>7

LEMMA KeepEventIInv == ASSUME IInv, KeepEvent PROVE IInv'
<1> USE DEF IInv
<1>1. /\ pc = "callback" /\ pc' = "polling" /\ hand' = NoEvent
      /\ UNCHANGED <<queueVars, loop_quited, events_list, in_loop, attached, events, ref_count,
                     held, loaded, writer, calls>>
  BY DEF KeepEvent
<1>2. hand \in in_loop /\ hand \in Events
  BY <1>1 DEF Hands, TypeOK
<1>3. PICK timer \in SUBSET {"timer"} :
        watching' = [watching EXCEPT ![hand] = watching[hand] \cup timer]
  BY DEF KeepEvent
<1>4. RefsExact' /\ Links' /\ \A f : OpsOn(f)' = OpsOn(f)
  <2>1. \A f \in Events : watching'[f] # {} => watching[f] # {} \/ f \in in_loop
    BY <1>2, <1>3 DEF TypeOK
  <2>. QED  BY <1>1, <2>1, SameOwners DEF queueVars
<1>5. TypeOK'
  <2>1. watching[hand] \cup timer \in SUBSET (Conditions \cup {"timer"})
    BY <1>2 DEF TypeOK
  <2>. QED  BY <1>1, <1>2, <1>3, <2>1 DEF TypeOK, queueVars
<1>6. Hands' /\ Requests' /\ WakeupNotLost'
  BY <1>1, <1>2 DEF Hands, Requests, WakeupNotLost, queueVars
<1>7. EventsApplied'
  <2>1. \A f \in Events : watching'[f] \cap Conditions = watching[f] \cap Conditions
    BY <1>3 DEF TypeOK, Conditions
  <2>. QED  BY <1>1, <1>4, <2>1 DEF EventsApplied, TypeOK
<1>. QED  BY <1>4, <1>5, <1>6, <1>7

LEMMA DropEventIInv == ASSUME IInv, DropEvent PROVE IInv'
<1> USE DEF IInv
<1>0. PICK e : e = hand
  OBVIOUS
<1>1. /\ pc = "callback" /\ pc' = "polling" /\ hand' = NoEvent /\ Detach(e)
      /\ UNCHANGED <<queueVars, loop_quited, attached, events, held, loaded, writer, calls>>
  BY <1>0 DEF DropEvent
<1>2. e \in in_loop /\ e \in Events
  BY <1>0, <1>1 DEF Hands, TypeOK
<1>3. events_list[e] = 1
  BY <1>2 DEF Links
<1>4. /\ events_list' = [events_list EXCEPT ![e] = events_list[e] - 1]
      /\ ref_count' = [ref_count EXCEPT ![e] = ref_count[e] - 1]
      /\ watching' = [watching EXCEPT ![e] = {}]
      /\ in_loop' = in_loop \ {e}
  BY <1>1, <1>3 DEF Detach
<1>5. \A f : OpsOn(f)' = OpsOn(f) /\ OpsOf("add", f)' = OpsOf("add", f)
  BY <1>1 DEF OpsOn, OpsOf, queueVars
<1>6. /\ \A f : Cardinality(OpsOn(f)) \in Nat /\ Cardinality(OpsOf("add", f)) \in Nat
      /\ \A f \in Events : ref_count[f] = (IF f \in held THEN 1 ELSE 0) + events_list[f]
                                           + Cardinality(OpsOn(f)) + 0
  BY <1>1, OpsFinite DEF RefsExact
<1>7. ref_count[e] - 1 \in Nat
  <2>1. ref_count[e] \in Nat /\ Cardinality(OpsOn(e)) \in Nat
    BY <1>2, <1>6 DEF TypeOK
  <2>2. ref_count[e] = (IF e \in held THEN 1 ELSE 0) + 1 + Cardinality(OpsOn(e)) + 0
    BY <1>2, <1>3, <1>6
  <2>. QED  BY <2>1, <2>2
<1>8. TypeOK'
  <2>1. events_list' \in [Events -> Nat] /\ ref_count' \in [Events -> Nat]
    BY <1>2, <1>3, <1>4, <1>7 DEF TypeOK
  <2>2. watching' \in [Events -> SUBSET (Conditions \cup {"timer"})] /\ in_loop' \subseteq Events
    BY <1>4 DEF TypeOK
  <2>. QED  BY <1>1, <2>1, <2>2 DEF TypeOK, queueVars
<1>9. \A f \in Events :
        /\ ref_count'[f] = ref_count[f] - (IF f = e THEN 1 ELSE 0)
        /\ events_list'[f] = events_list[f] - (IF f = e THEN 1 ELSE 0)
        /\ f \in in_loop' <=> f \in in_loop /\ f # e
        /\ watching'[f] = IF f = e THEN {} ELSE watching[f]
  BY <1>4 DEF TypeOK
<1>10. RefsExact'
  <2> SUFFICES ASSUME NEW f \in Events
               PROVE  ref_count'[f] = (IF f \in held THEN 1 ELSE 0) + events_list'[f]
                        + Cardinality(OpsOn(f)) + 0
    BY <1>1, <1>5 DEF RefsExact
  <2>1. events_list[f] \in Nat /\ Cardinality(OpsOn(f)) \in Nat
    BY <1>6 DEF TypeOK
  <2>. QED  BY <1>6, <1>9, <2>1
<1>11. Links'
  <2> SUFFICES ASSUME NEW f \in Events
               PROVE  /\ events_list'[f] + Cardinality(OpsOf("add", f)) <= 1
                      /\ f \notin attached => events_list'[f] = 0 /\ OpsOf("add", f) = {}
                      /\ f \in in_loop' <=> events_list'[f] = 1
                      /\ watching'[f] # {} => f \in in_loop'
    BY <1>1, <1>5 DEF Links
  <2>1. CASE f = e
    BY <1>3, <1>6, <1>9, <2>1 DEF Links
  <2>2. CASE f # e
    <3>1. events_list'[f] = events_list[f]
      BY <1>9, <2>2 DEF TypeOK
    <3>. QED  BY <1>9, <2>2, <3>1 DEF Links
  <2>. QED  BY <2>1, <2>2
<1>12. Hands' /\ Requests' /\ WakeupNotLost'
  BY <1>1 DEF Hands, Requests, WakeupNotLost, queueVars
<1>13. EventsApplied'
  <2> SUFFICES ASSUME ~ loop_quited, NEW f \in in_loop', OpsOn(f) = {}, writer.event # f
               PROVE  watching'[f] \cap Conditions = events[f]
    BY <1>1, <1>5 DEF EventsApplied
  <2>1. f \in Events /\ f \in in_loop /\ watching'[f] = watching[f]
    BY <1>4, <1>9 DEF TypeOK
  <2>. QED  BY <2>1 DEF EventsApplied
<1>. QED  BY <1>8, <1>10, <1>11, <1>12, <1>13

LEMMA NextIInv == ASSUME IInv, [Next]_vars PROVE IInv'
<1>1. CASE UNCHANGED vars
  <2>1. UNCHANGED <<operations, request_pending, pipe, loop_quited, events_list, in_loop, attached,
                    events, watching, ref_count, held, pc, hand, loaded, writer, calls>>
    BY <1>1 DEF vars
  <2>2. RefsExact' /\ Links' /\ \A f : OpsOn(f)' = OpsOn(f)
    BY <2>1, SameOwners
  <2>3. TypeOK' /\ Hands' /\ Requests' /\ WakeupNotLost' /\ EventsApplied'
    BY <2>1, <2>2 DEF IInv, TypeOK, Hands, Requests, WakeupNotLost, EventsApplied
  <2>. QED  BY <2>2, <2>3 DEF IInv
<1>2. CASE LoopStep
  BY <1>2, WokenIInv, DropOpRefIInv, NextOpIInv, SyncStoreIInv, KeepEventIInv DEF LoopStep
<1>3. CASE DropEvent
  BY <1>3, DropEventIInv
<1>4. CASE StoreEvents
  BY <1>4, StoreEventsIInv
<1>5. CASE PushModify
  BY <1>5, PushModifyIInv
<1>6. CASE Quit
  BY <1>6, QuitIInv
<1>7. ASSUME NEW e \in Events, Attach(e) \/ Remove(e) \/ Unref(e) \/ Dispatch(e)
      PROVE  IInv'
  BY <1>7, AttachIInv, RemoveIInv, UnrefIInv, DispatchIInv
<1>8. ASSUME NEW c \in Conditions, SyncLoad({c}, {}) \/ SyncLoad({}, {c})
      PROVE  IInv'
  <2>1. {c} \in SUBSET Conditions /\ {} \in SUBSET Conditions
    OBVIOUS
  <2>2. CASE SyncLoad({c}, {})
    BY <2>1, <2>2, SyncLoadIInv
  <2>3. CASE SyncLoad({}, {c})
    BY <2>1, <2>3, SyncLoadIInv
  <2>. QED  BY <1>8, <2>2, <2>3
<1>9. ASSUME NEW c \in Conditions, NEW e \in Events,
             LoadEvents(e, {c}, {}) \/ LoadEvents(e, {}, {c})
      PROVE  IInv'
  <2>1. {c} \in SUBSET Conditions /\ {} \in SUBSET Conditions
    OBVIOUS
  <2>2. CASE LoadEvents(e, {c}, {})
    BY <2>1, <2>2, LoadEventsIInv
  <2>3. CASE LoadEvents(e, {}, {c})
    BY <2>1, <2>3, LoadEventsIInv
  <2>. QED  BY <1>9, <2>2, <2>3
<1>. QED  BY <1>1, <1>2, <1>3, <1>4, <1>5, <1>6, <1>7, <1>8, <1>9 DEF Next

--------------------------------------------------------------------------------
(* The theorems.                                                            *)

\* The inductive invariant holds of every state the loop and its callers reach.
THEOREM Invariance == Spec => []IInv
<1>1. Init => IInv
  BY InitIInv
<1>2. IInv /\ [Next]_vars => IInv'
  BY NextIInv
<1>. QED  BY <1>1, <1>2, PTL DEF Spec

LEMMA IInvEventsOwned == IInv => EventsOwned
<1> SUFFICES ASSUME IInv, NEW e \in Events, watching[e] # {} \/ e \in in_loop
             PROVE  events_list[e] = 1 /\ ref_count[e] > 0
  BY DEF IInv, EventsOwned, WatchersOwned
<1>1. events_list[e] = 1
  BY DEF IInv, Links
<1>2. Cardinality(OpsOn(e)) \in Nat
  BY OpsFinite DEF IInv
<1>3. ref_count[e] = (IF e \in held THEN 1 ELSE 0) + events_list[e] + Cardinality(OpsOn(e))
                     + (IF pc = "unref" /\ hand = e THEN 1 ELSE 0)
  BY DEF IInv, RefsExact
<1>. QED  BY <1>1, <1>2, <1>3

\* Whatever the order of calls, callbacks and queued operations, an event's reference
\* count is the number of its owners, and libev watches only events that are linked into
\* the loop, which are not freed.
THEOREM EventsAreOwned == Spec => []EventsOwned
BY Invariance, IInvEventsOwned, PTL

\* A request made to a sleeping loop leaves one byte in its pipe, and never a second one.
THEOREM RequestsWakeTheLoop == Spec => []WakeupNotLost
<1>1. IInv => WakeupNotLost
  BY DEF IInv
<1>. QED  BY <1>1, Invariance, PTL

\* With no operation queued for it, an event is watched for just the conditions it asks
\* for, although other threads and the callback change them without a lock.
THEOREM ConditionsAreApplied == Spec => []EventsApplied
<1>1. IInv => EventsApplied
  BY DEF IInv
<1>. QED  BY <1>1, Invariance, PTL

\* What the steps do to the queue and to the list of the loop: an operation is queued, the
\* first one is run, or the queue is left alone and at most one event is unlinked.
LEMMA QueueSteps ==
  ASSUME IInv, [Next]_vars
  PROVE  \/ /\ operations' = operations
            /\ \A e \in Events : events_list'[e] = events_list[e] \/ events_list[e] # 0
         \/ \E func \in Funcs, e \in Events :
              /\ operations' = Append(operations, [func |-> func, event |-> e])
              /\ events_list' = events_list
              /\ func = "add" => e \notin attached
         \/ operations # <<>> /\ ExecNext
<1> USE DEF IInv
<1>1. CASE UNCHANGED vars
  BY <1>1 DEF vars
<1>2. CASE (Woken \/ NextOp) /\ operations = <<>>
  BY <1>2 DEF Woken, NextOp, ExecNext
<1>3. CASE (Woken \/ NextOp) /\ operations # <<>>
  BY <1>3 DEF Woken, NextOp
<1>4. CASE DropOpRef \/ SyncStore \/ KeepEvent \/ StoreEvents \/ Quit
  BY <1>4 DEF DropOpRef, SyncStore, KeepEvent, StoreEvents, Quit, queueVars
<1>5. CASE DropEvent
  <2>1. operations' = operations /\ hand \in Events /\ Detach(hand)
    BY <1>5 DEF DropEvent, queueVars, Hands, TypeOK
  <2>2. \A e \in Events : events_list'[e] = events_list[e] \/ events_list[e] # 0
    BY <2>1 DEF Detach, TypeOK
  <2>. QED  BY <2>1, <2>2
<1>6. CASE PushModify
  <2>1. writer.event \in Events
    BY <1>6 DEF PushModify, TypeOK, Hands
  <2>. QED  BY <1>6, <2>1 DEF PushModify, Push, Funcs, queueVars
<1>7. ASSUME NEW e \in Events, Attach(e) \/ Remove(e)
      PROVE  \/ operations' = operations /\ events_list' = events_list
             \/ \E func \in Funcs :
                  /\ operations' = Append(operations, [func |-> func, event |-> e])
                  /\ events_list' = events_list
                  /\ func = "add" => e \notin attached
  BY <1>7 DEF Attach, Remove, Push, Funcs, queueVars
<1>8. ASSUME NEW e \in Events, Unref(e) \/ Dispatch(e)
      PROVE  operations' = operations /\ events_list' = events_list
  BY <1>8 DEF Unref, Dispatch, queueVars
<1>9. ASSUME NEW c \in Conditions, SyncLoad({c}, {}) \/ SyncLoad({}, {c})
      PROVE  operations' = operations /\ events_list' = events_list
  BY <1>9 DEF SyncLoad, queueVars
<1>10. ASSUME NEW c \in Conditions, NEW e \in Events,
              LoadEvents(e, {c}, {}) \/ LoadEvents(e, {}, {c})
       PROVE  operations' = operations /\ events_list' = events_list
  BY <1>10 DEF LoadEvents, queueVars
<1>. QED
  BY <1>1, <1>2, <1>3, <1>4, <1>5, <1>6, <1>7, <1>8, <1>9, <1>10 DEF Next, LoopStep

\* Running an operation links its event only when that was asked for, and touches the
\* count of no other event.
LEMMA ExecTouches ==
  ASSUME TypeOK, ExecNext, operations # <<>>, NEW op, op = Head(operations)
  PROVE  /\ operations' = Tail(operations) /\ pc' = "unref" /\ hand' = op.event
         /\ \A e \in Events \ {op.event} : ref_count'[e] = ref_count[e]
         /\ \A e \in Events : events_list'[e] = events_list[e] \/ events_list[e] # 0
                              \/ (op.func = "add" /\ op.event = e)
<1>0. PICK f : f = op.event
  OBVIOUS
<1>1. op \in Op
  <2>1. operations \in Seq(Op)
    BY DEF TypeOK, Op, Funcs
  <2>. QED  BY <2>1, HeadTailProperties, EmptySeq
<1>2. op.func \in Funcs /\ f \in Events
  BY <1>0, <1>1 DEF Op
<1>3. /\ operations' = Tail(operations) /\ pc' = "unref" /\ hand' = f
      /\ op.func = "add" => OpsAdd(f)
      /\ op.func = "remove" => Detach(f)
      /\ op.func = "modify" => UNCHANGED <<events_list, ref_count, in_loop>>
  BY <1>0 DEF ExecNext
<1>4. \A e \in Events \ {f} : ref_count'[e] = ref_count[e] /\ events_list'[e] = events_list[e]
  BY <1>2, <1>3 DEF OpsAdd, Detach, TypeOK, Funcs
<1>5. op.func # "add" => events_list'[f] = events_list[f] \/ events_list[f] # 0
  BY <1>2, <1>3 DEF Detach, TypeOK, Funcs
<1>6. \A e \in Events : events_list'[e] = events_list[e] \/ events_list[e] # 0
                        \/ (op.func = "add" /\ f = e)
  BY <1>4, <1>5
<1>. QED  BY <1>0, <1>3, <1>4, <1>6

LEMMA StepLinksOnce == ASSUME IInv, [Next]_vars PROVE LinksOnce
<1> USE DEF IInv
<1>1. \A e \in Events : events_list[e] + Cardinality(OpsOf("add", e)) <= 1
  BY DEF Links
<1> SUFFICES ASSUME NEW e \in Events, e \in attached, events_list[e] = 0, OpsOf("add", e) = {}
             PROVE  events_list'[e] = 0 /\ OpsOf("add", e)' = {}
  BY <1>1 DEF LinksOnce
<1>2. CASE operations' = operations /\ (events_list'[e] = events_list[e] \/ events_list[e] # 0)
  BY <1>2 DEF OpsOf, OpsOn
<1>3. ASSUME NEW func \in Funcs, NEW f \in Events,
             operations' = Append(operations, [func |-> func, event |-> f]),
             events_list' = events_list, func = "add" => f \notin attached
      PROVE  events_list'[e] = 0 /\ OpsOf("add", e)' = {}
  <2>1. PICK op \in Op : op = [func |-> func, event |-> f]
    BY DEF Op
  <2>2. ~ (op.func = "add" /\ op.event = e)
    BY <1>3, <2>1
  <2>. QED  BY <1>3, <2>1, <2>2, PushCounts
<1>4. CASE operations # <<>> /\ ExecNext
  <2>1. PICK op : op = Head(operations)
    OBVIOUS
  <2>2. operations' = Tail(operations)
    BY <1>4, ExecTouches
  <2>3. OpsOf("add", e)' = {} /\ ~ (op.func = "add" /\ op.event = e)
    BY <1>4, <2>1, <2>2, PopCounts
  <2>4. events_list'[e] = events_list[e] \/ events_list[e] # 0 \/ (op.func = "add" /\ op.event = e)
    BY <1>4, <2>1, ExecTouches
  <2>. QED  BY <2>3, <2>4
<1>. QED  BY <1>2, <1>3, <1>4, QueueSteps

LEMMA StepFreesUnlocked == ASSUME IInv, IInv', [Next]_vars PROVE FreesUnlocked
<1> USE DEF IInv
<1> SUFFICES ASSUME NEW e \in Events, Len(operations') < Len(operations), ref_count[e] > 0
             PROVE  ref_count'[e] > 0
  BY DEF FreesUnlocked
<1>0. operations \in Seq(Op) /\ Len(operations) \in Nat
  BY LenProperties DEF TypeOK, Op, Funcs
<1>1. operations # <<>> /\ ExecNext
  <2>1. operations' # operations
    BY <1>0
  <2>2. ASSUME NEW func \in Funcs, NEW f \in Events,
               operations' = Append(operations, [func |-> func, event |-> f])
        PROVE  FALSE
    <3>1. [func |-> func, event |-> f] \in Op
      BY DEF Op
    <3>2. Len(operations') = Len(operations) + 1
      BY <1>0, <2>2, <3>1, AppendProperties
    <3>. QED  BY <1>0, <3>2
  <2>. QED  BY <2>1, <2>2, QueueSteps
<1>2. PICK op, f : op = Head(operations) /\ f = op.event
  OBVIOUS
<1>3. pc' = "unref" /\ hand' = f /\ \A g \in Events \ {f} : ref_count'[g] = ref_count[g]
  BY <1>1, <1>2, ExecTouches
<1>4. CASE e = f
  <2>1. /\ ref_count'[e] = (IF e \in held' THEN 1 ELSE 0) + events_list'[e]
              + Cardinality(OpsOn(e))' + 1
        /\ events_list'[e] \in Nat
    BY <1>3, <1>4 DEF RefsExact, TypeOK
  <2>2. Cardinality(OpsOn(e))' \in Nat
    <3>1. operations' \in Seq(Op)
      BY DEF TypeOK, Op, Funcs
    <3>2. OpsOn(e)' = Places(operations', OnEvent(e))
      BY <3>1, OpsArePlaces DEF OpsOn
    <3>. QED  BY <3>1, <3>2, PlacesFinite
  <2>. QED  BY <2>1, <2>2
<1>5. CASE e # f
  BY <1>3, <1>5
<1>. QED  BY <1>4, <1>5

\* Every step keeps to the two rules of the event API: an event that was added is never
\* linked again, also after it was removed, and none is freed while the lock of the loop is
\* held to run an operation.
THEOREM EventsLinkAndFreeOnce == Spec => LinkedAndFreedOnce
<1>1. IInv /\ IInv' /\ [Next]_vars => [LinksOnce /\ FreesUnlocked]_vars
  BY StepLinksOnce, StepFreesUnlocked
<1>. QED  BY <1>1, Invariance, PTL DEF Spec, LinkedAndFreedOnce
================================================================================
