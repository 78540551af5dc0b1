--------------------------- MODULE BufferQueueProofs ---------------------------
(***************************************************************************)
(* Proofs about BufferQueue for every set of consumers, any number of      *)
(* loops and all bounds.                                                   *)
(*                                                                         *)
(* Type correctness is not inductive by itself: a reverse reference count  *)
(* is decremented by bq_consumer_kill and stays a natural number only      *)
(* because it is never below the number of live consumers that have passed *)
(* the element.  What a killed writer's late move may break, that the      *)
(* counts are exact and the cursors linked, is stated for the states       *)
(* without such a move, and holds again after a reset, or when the last    *)
(* consumer leaves, since both empty the queue.  IInv states all of it     *)
(* together.                                                               *)
(*                                                                         *)
(* The last part is about the registry of the same source file, module     *)
(* ProducerRegistry, for every set of tracks and producers.                *)
(***************************************************************************)
EXTENDS BufferQueue, ProducerRegistry, FiniteSetTheorems, WellFoundedInduction, TLAPS

\* The queue holds every packet from its oldest one to the newest.
Contiguous ==
  ~ overcount => \A e \in Linked : e > Base /\ e .. total_packets \subseteq Linked

\* The serial of an element is its distance from the start of its queue.
SerialsConsecutive ==
  /\ next_serial <= total_packets
  /\ \A e \in Linked : queue[e].serial = e - Base - 1

\* No cursor is ahead of the producer.
GenBounded ==
  /\ \A c \in Consumers : gen[c] <= queue_serial /\ current[c] <= total_packets
  /\ producer = "full" => queue_serial <= MaxResets

\* A consumer is freed when its writer is out.
FreedOut == \A c \in Consumers : life[c] = "none" => at[c] = "out"

IInv ==
  /\ TypeOK
  /\ SeenCountsPassed
  /\ NoSpentElement
  /\ CursorLinked
  /\ Contiguous
  /\ SerialsConsecutive
  /\ GenBounded
  /\ FreedOut

--------------------------------------------------------------------------------

\* Every nonempty set of natural numbers has a least member.
LEMMA NatLeast ==
  ASSUME NEW S \in SUBSET Nat, S # {}
  PROVE  \E m \in S : \A n \in S : m <= n
<1>1. \E x \in S : \A y \in S : ~ (<<y, x>> \in OpToRel(<, Nat))
  BY NatLessThanWellFounded, WFMin
<1>2. \A x, y \in Nat : y < x => <<y, x>> \in OpToRel(<, Nat)
  BY DEF OpToRel
<1>3. \A x, y \in S : x \in Nat /\ y \in Nat
  OBVIOUS
<1>4. \A x, y \in Nat : ~ (y < x) => x <= y
  OBVIOUS
<1>. QED  BY <1>1, <1>2, <1>3, <1>4

LEMMA LiveFinite ==
  /\ IsFiniteSet(Live)
  /\ Cardinality(Live) \in Nat
  /\ \A S \in SUBSET Live : IsFiniteSet(S) /\ Cardinality(S) \in Nat
<1>1. IsFiniteSet(Live)
  BY ConsumersAssumption, FS_Subset DEF Live
<1>2. \A S \in SUBSET Live : IsFiniteSet(S)
  BY <1>1, FS_Subset
<1>. QED  BY <1>1, <1>2, FS_CardinalityType

\* Of two sets of live consumers the smaller has fewer members; one that has as many
\* members as there are live consumers holds all of them.
LEMMA LiveSubsets ==
  ASSUME NEW S \in SUBSET Live, NEW T \in SUBSET S
  PROVE  /\ Cardinality(T) <= Cardinality(S)
         /\ Cardinality(T) = Cardinality(S) => T = S
BY LiveFinite, FS_Subset

LEMMA LiveAdd ==
  ASSUME NEW S \in SUBSET Live, NEW c, c \notin S
  PROVE  Cardinality(S \cup {c}) = Cardinality(S) + 1
BY LiveFinite, FS_AddElement

LEMMA LiveRemove ==
  ASSUME NEW S \in SUBSET Live, NEW c \in S
  PROVE  Cardinality(S \ {c}) = Cardinality(S) - 1
BY LiveFinite, FS_RemoveElement

\* Going past a later element means going past the earlier ones.
LEMMA PassedAntitone ==
  ASSUME TypeOK, NEW e \in Nat, NEW f \in Nat, e <= f
  PROVE  Passed(f) \subseteq Passed(e)
BY DEF TypeOK, Passed, Live

LEMMA InitIInv == Init => IInv
<1> SUFFICES ASSUME Init PROVE IInv
  OBVIOUS
<1>1. Linked = {} /\ Live = {}
  BY DEF Init, Linked, EmptyQueue, Live
<1>2. queue \in [Linked -> Element]
  BY <1>1 DEF Init, Linked, EmptyQueue
<1>3. TypeOK
  <2>1. overcount \in BOOLEAN
    BY DEF Init
  <2>2. /\ total_packets \in 0 .. MaxPackets /\ queue_serial \in 1 .. MaxResets + 1
        /\ next_serial \in Nat /\ min_serial \in Nat /\ consumers \in Nat
        /\ Linked \subseteq 1 .. total_packets
    BY <1>1, BoundsAssumption DEF Init
  <2>3. /\ producer \in {"idle", "full"} /\ process \in {"runs", "undefined", "aborted"}
        /\ life \in [Consumers -> {"none", "live", "killing", "killed"}]
        /\ at \in [Consumers -> {"out", "get", "sending", "move"}]
        /\ gen \in [Consumers -> Nat] /\ current \in [Consumers -> Nat]
        /\ peeked \in [Consumers -> Nat]
    BY DEF Init, NULL
  <2>. QED  BY <1>2, <2>1, <2>2, <2>3 DEF TypeOK
<1>4. SeenCountsPassed
  BY <1>1, FS_EmptySet DEF SeenCountsPassed, Init
<1>5. NoSpentElement /\ CursorLinked /\ Contiguous /\ FreedOut
  BY <1>1 DEF NoSpentElement, CursorLinked, Contiguous, FreedOut, Init
<1>6. SerialsConsecutive /\ GenBounded
  BY <1>1, BoundsAssumption DEF SerialsConsecutive, GenBounded, Init, NULL
<1>. QED  BY <1>3, <1>4, <1>5, <1>6 DEF IInv

--------------------------------------------------------------------------------
(* The producer's steps.                                                    *)

LEMMA AppendIInv ==
  ASSUME IInv, NEW eof \in BOOLEAN, Append(eof)
  PROVE  IInv'
<1> USE DEF IInv
<1>0. PICK e : e = total_packets + 1
  OBVIOUS
<1>1. /\ total_packets \in Nat /\ MaxPackets \in Nat /\ next_serial \in Nat
      /\ next_serial <= total_packets
      /\ total_packets < MaxPackets
  BY BoundsAssumption DEF TypeOK, Append, SerialsConsecutive
<1>2. /\ Linked' = Linked \cup {e} /\ e \notin Linked
      /\ \A f \in Linked : queue'[f] = queue[f]
      /\ queue'[e] = [seen |-> 0, serial |-> next_serial, eof |-> eof]
      /\ total_packets' = e
      /\ next_serial' = next_serial + 1
      /\ Base' = Base
      /\ queue' = [f \in Linked' |-> queue'[f]]
  BY <1>0, <1>1 DEF Append, Linked, TypeOK, Base
<1>3. /\ Live' = Live
      /\ UNCHANGED <<min_serial, queue_serial, consumers, producer, overcount, life, at,
                     gen, current, peeked, process>>
  BY DEF Append, Live, consumerVars
<1>4. \A f : Passed(f)' = Passed(f)
  BY <1>3 DEF Passed, InStep
<1>5. TypeOK'
  <2>1. \A f \in Linked' : queue'[f] \in Element
    BY <1>0, <1>1, <1>2 DEF TypeOK, Element
  <2>2. Linked' \subseteq 1 .. total_packets'
    BY <1>0, <1>1, <1>2 DEF TypeOK
  <2>3. queue' \in [Linked' -> Element]
    BY <2>1, <1>2
  <2>. QED  BY <1>0, <1>1, <1>2, <1>3, <2>2, <2>3 DEF TypeOK
<1>6. Passed(e) = {}
  BY <1>0, <1>1 DEF Passed, GenBounded, TypeOK, Live
<1>7. SeenCountsPassed'
  <2>1. consumers' = Cardinality(Live')
    BY <1>3 DEF SeenCountsPassed
  <2>2. /\ queue'[e].seen >= Cardinality(Passed(e)')
        /\ ~ overcount => queue'[e].seen = Cardinality(Passed(e)')
    BY <1>2, <1>4, <1>6, FS_EmptySet
  <2>3. \A f \in Linked :
           /\ queue'[f].seen >= Cardinality(Passed(f)')
           /\ ~ overcount => queue'[f].seen = Cardinality(Passed(f)')
    BY <1>2, <1>4 DEF SeenCountsPassed
  <2>. QED  BY <1>2, <1>3, <2>1, <2>2, <2>3 DEF SeenCountsPassed
<1>8. NoSpentElement'
  BY <1>2, <1>3, <1>4, <1>6 DEF NoSpentElement
<1>9. CursorLinked'
  BY <1>2, <1>3 DEF CursorLinked, InStep
<1>10. Contiguous'
  <2>1. e > Base
    BY <1>0, <1>1 DEF Base
  <2>2. ~ overcount => \A f \in Linked : f .. e \subseteq Linked \cup {e}
    BY <1>0, <1>1 DEF Contiguous, TypeOK
  <2>3. e .. e \subseteq {e}
    BY <1>0, <1>1
  <2>. QED  BY <1>2, <1>3, <2>1, <2>2, <2>3 DEF Contiguous
<1>11. SerialsConsecutive'
  BY <1>0, <1>1, <1>2 DEF SerialsConsecutive, Base
<1>12. GenBounded' /\ FreedOut'
  BY <1>0, <1>1, <1>2, <1>3 DEF GenBounded, FreedOut, TypeOK
<1>. QED  BY <1>5, <1>7, <1>8, <1>9, <1>10, <1>11, <1>12

\* A step that touches neither the queue nor the cursor of a live consumer.
LEMMA QuietIInv ==
  ASSUME IInv, TypeOK', GenBounded', FreedOut', overcount => overcount', Live' = Live,
         UNCHANGED <<queue, next_serial, total_packets, queue_serial, consumers>>,
         \A d \in Live : /\ InStep(d)' <=> InStep(d)
                         /\ InStep(d) => current'[d] = current[d]
  PROVE  IInv' /\ Base' = Base /\ \A f : Passed(f)' = Passed(f)
<1>1. Linked' = Linked /\ Base' = Base
  BY DEF Linked, Base
<1>2. \A f : Passed(f)' = Passed(f)
  BY DEF Passed
<1>3. SeenCountsPassed'
  BY <1>1, <1>2 DEF IInv, SeenCountsPassed
<1>4. NoSpentElement' /\ Contiguous'
  BY <1>1, <1>2 DEF IInv, NoSpentElement, Contiguous
<1>5. CursorLinked'
  BY <1>1 DEF IInv, CursorLinked
<1>6. SerialsConsecutive'
  BY <1>1 DEF IInv, SerialsConsecutive
<1>. QED  BY <1>1, <1>2, <1>3, <1>4, <1>5, <1>6 DEF IInv

LEMMA PutFullIInv == ASSUME IInv, PutFull PROVE IInv'
<1>1. TypeOK' /\ FreedOut' /\ Live' = Live
  BY DEF IInv, PutFull, TypeOK, FreedOut, Live, Linked, queueVars, consumerVars
<1>2. GenBounded'
  BY BoundsAssumption DEF IInv, PutFull, GenBounded, TypeOK, consumerVars
<1>. QED
  BY <1>1, <1>2, QuietIInv DEF PutFull, queueVars, consumerVars, InStep

LEMMA ResetIInv ==
  ASSUME IInv, Reset, producer' \in {"idle", "full"},
         queue_serial' \in 1 .. MaxResets + 1,
         producer' = "full" => queue_serial' <= MaxResets
  PROVE  IInv'
<1> USE DEF IInv
<1>1. Linked' = {} /\ Live' = Live
  BY DEF Reset, Linked, EmptyQueue, Live, consumerVars
<1>2. \A c \in Consumers : ~ InStep(c)' /\ gen'[c] <= queue_serial'
  BY DEF Reset, GenBounded, InStep, TypeOK, consumerVars
<1>3. TypeOK'
  <2>1. queue' \in [Linked' -> Element]
    BY <1>1 DEF Reset, EmptyQueue
  <2>. QED  BY <1>1, <2>1 DEF TypeOK, Reset, consumerVars
<1>4. SeenCountsPassed' /\ NoSpentElement' /\ CursorLinked' /\ Contiguous'
  BY <1>1, <1>2 DEF SeenCountsPassed, NoSpentElement, CursorLinked, Contiguous,
     Reset, Live
<1>5. SerialsConsecutive' /\ GenBounded' /\ FreedOut'
  BY <1>1, <1>2 DEF SerialsConsecutive, GenBounded, FreedOut, Reset, TypeOK, consumerVars
<1>. QED  BY <1>3, <1>4, <1>5

LEMMA PutFullResetIInv == ASSUME IInv, PutFullReset PROVE IInv'
<1>1. producer' = "idle" /\ queue_serial' \in 1 .. MaxResets + 1
  BY BoundsAssumption DEF IInv, PutFullReset, Reset, TypeOK, GenBounded
<1>. QED  BY <1>1, ResetIInv DEF PutFullReset

LEMMA SeekIInv == ASSUME IInv, Seek PROVE IInv'
<1>1. /\ producer' \in {"idle", "full"}
      /\ queue_serial' \in 1 .. MaxResets + 1 /\ queue_serial' <= MaxResets
  BY BoundsAssumption DEF IInv, Seek, Reset, TypeOK
<1>. QED  BY <1>1, ResetIInv DEF Seek

--------------------------------------------------------------------------------
(* The consumers' steps.                                                    *)

LEMMA ConsumerNewIInv ==
  ASSUME IInv, NEW c \in Consumers, ConsumerNew(c)
  PROVE  IInv'
<1> USE DEF IInv
<1>1. /\ Live' = Live \cup {c} /\ c \notin Live
      /\ Linked' = Linked /\ queue' = queue /\ Base' = Base
      /\ ~ InStep(c)' /\ overcount' = overcount
      /\ UNCHANGED <<next_serial, total_packets, queue_serial, producer>>
  BY DEF ConsumerNew, Live, Linked, Base, producerVars, InStep, TypeOK
<1>2. \A d \in Live : InStep(d)' = InStep(d) /\ current'[d] = current[d]
  BY <1>1 DEF ConsumerNew, InStep, producerVars, TypeOK, Live
<1>3. \A e : Passed(e)' = Passed(e)
  BY <1>1, <1>2 DEF Passed
<1>4. TypeOK'
  BY <1>1 DEF ConsumerNew, TypeOK, producerVars, NULL
<1>5. SeenCountsPassed'
  <2>1. Cardinality(Live') = Cardinality(Live) + 1
    BY <1>1, LiveAdd
  <2>. QED  BY <1>1, <1>3, <2>1 DEF SeenCountsPassed, ConsumerNew
<1>6. NoSpentElement'
  <2>1. \A e : c \notin Passed(e)
    BY <1>1 DEF Passed
  <2>. QED  BY <1>1, <1>3, <2>1 DEF NoSpentElement
<1>7. CursorLinked'
  BY <1>1, <1>2 DEF CursorLinked
<1>8. Contiguous' /\ SerialsConsecutive'
  BY <1>1 DEF Contiguous, SerialsConsecutive
<1>9. GenBounded' /\ FreedOut'
  BY <1>1 DEF GenBounded, FreedOut, ConsumerNew, producerVars, TypeOK, NULL
<1>. QED  BY <1>4, <1>5, <1>6, <1>7, <1>8, <1>9

\* A step that cannot go on changes nothing but the outcome.
LEMMA FaultIInv ==
  ASSUME IInv, NEW o \in {"undefined", "aborted"}, Fault(o),
         overcount' \in BOOLEAN, overcount => overcount'
  PROVE  IInv' /\ Base' = Base /\ \A f : Passed(f)' = Passed(f)
<1>1. TypeOK' /\ GenBounded' /\ FreedOut' /\ Live' = Live
  BY DEF IInv, Fault, TypeOK, GenBounded, FreedOut, Live, Linked, producerVars, consumerVars
<1>. QED  BY <1>1, QuietIInv DEF Fault, producerVars, consumerVars, InStep

\* The element a consumer turns to is linked.
LEMMA SuccessorLinked ==
  ASSUME TypeOK, NEW c \in Consumers
  PROVE  /\ Successor(c) \subseteq Linked
         /\ \A e \in Linked : e \in Nat \ {0} /\ e <= total_packets
         /\ HasElement(c) => \A e \in Successor(c) : e > current[c]
         /\ \A e \in Successor(c), f \in Linked : (HasElement(c) => f > current[c]) => e <= f
BY DEF TypeOK, Successor, Least

LEMMA GetIInv ==
  ASSUME IInv, NEW c \in Consumers, Get(c)
  PROVE  IInv' /\ Base' = Base /\ \A f : Passed(f)' = Passed(f)
<1>1. CASE Fault("undefined")
  BY <1>1, FaultIInv DEF Get, IInv, TypeOK
<1>2. CASE /\ current' = [current EXCEPT ![c] = Cursor(c)]
           /\ \/ \E e \in Successor(c) : /\ peeked' = [peeked EXCEPT ![c] = e]
                                         /\ at' = [at EXCEPT ![c] = "sending"]
              \/ at' = [at EXCEPT ![c] = "out"] /\ UNCHANGED peeked
           /\ UNCHANGED <<queue, min_serial, consumers, life, gen, producerVars, process>>
  <2>1. current' \in [Consumers -> Nat] /\ \A d \in Consumers : current'[d] <= total_packets
    BY <1>2 DEF IInv, TypeOK, GenBounded, Cursor, NULL
  <2>2. peeked' \in [Consumers -> Nat] /\ at' \in [Consumers -> {"out", "get", "sending", "move"}]
    <3>1. Successor(c) \subseteq Nat
      BY SuccessorLinked DEF IInv
    <3>. QED  BY <1>2, <3>1 DEF IInv, TypeOK
  <2>3. /\ Live' = Live /\ UNCHANGED <<next_serial, queue_serial, total_packets, producer>>
        /\ overcount' = overcount
    BY <1>2 DEF Get, Live, producerVars
  <2>4. TypeOK'
    BY <1>2, <2>1, <2>2, <2>3 DEF IInv, TypeOK, Linked
  <2>5. GenBounded'
    BY <1>2, <2>1, <2>3 DEF IInv, GenBounded
  <2>6. FreedOut'
    BY <1>2 DEF IInv, FreedOut, TypeOK, Get
  <2>7. \A d \in Live : /\ InStep(d)' <=> InStep(d)
                        /\ InStep(d) => current'[d] = current[d]
    BY <1>2, <2>3 DEF Cursor, InStep, IInv, TypeOK, Live
  <2>. QED  BY <1>2, <2>3, <2>4, <2>5, <2>6, <2>7, QuietIInv
<1>. QED  BY <1>1, <1>2 DEF Get

\* The steps of a writer or of a kill that move no cursor.
LEMMA StillIInv ==
  ASSUME IInv, NEW c \in Consumers,
         StartGet(c) \/ Sent(c) \/ StartKill(c) \/ ConsumerFree(c)
  PROVE  IInv' /\ Base' = Base /\ \A f : Passed(f)' = Passed(f)
<1>1. /\ UNCHANGED <<queue, min_serial, consumers, overcount, producerVars, process>>
      /\ \A d \in Live : gen'[d] = gen[d] /\ current'[d] = current[d]
  BY DEF StartGet, Sent, StartKill, ConsumerFree, queueVars, IInv, TypeOK, Live
<1>2. TypeOK'
  BY <1>1 DEF StartGet, Sent, StartKill, ConsumerFree, IInv, TypeOK, NULL, Linked, producerVars
<1>3. Live' = Live
  BY DEF StartGet, Sent, StartKill, ConsumerFree, IInv, TypeOK, Live
<1>4. GenBounded' /\ FreedOut'
  BY <1>1 DEF StartGet, Sent, StartKill, ConsumerFree, IInv, TypeOK, GenBounded, FreedOut,
     NULL, producerVars
<1>. QED  BY <1>1, <1>2, <1>3, <1>4, QuietIInv DEF InStep, producerVars

\* A live consumer that is in step has a current element; the packet after it is the
\* only one it can turn to.
LEMMA NextIsConsecutive ==
  ASSUME IInv, ~ overcount, NEW c \in Live
  PROVE  /\ InStep(c) <=> HasElement(c)
         /\ InStep(c) => \A e \in Successor(c) : e = current[c] + 1
<1> USE DEF IInv
<1>1. c \in Consumers /\ current[c] \in Nat /\ total_packets \in Nat
  BY DEF Live, TypeOK
<1>2. InStep(c) => current[c] \in Linked /\ current[c] # NULL
  BY DEF CursorLinked, TypeOK, NULL
<1>3. ASSUME InStep(c), NEW e \in Successor(c)
      PROVE  e = current[c] + 1
  <2>1. e \in Linked /\ e > current[c] /\ e <= total_packets /\ e \in Nat
    BY <1>1, <1>2, <1>3 DEF Successor, HasElement, Least, TypeOK
  <2>2. current[c] + 1 \in Linked
    BY <1>1, <1>2, <1>3, <2>1 DEF Contiguous
  <2>3. e <= current[c] + 1
    BY <1>1, <1>2, <1>3, <2>2 DEF Successor, HasElement, Least
  <2>. QED  BY <1>1, <2>1, <2>3
<1>. QED  BY <1>2, <1>3 DEF HasElement

\* The last consumer to see an element stands at the head of the queue, and nobody
\* else stands on it.
LEMMA LastToSeeIsHead ==
  ASSUME IInv, ~ overcount, NEW c \in Live, HasElement(c), LastToSee(c)
  PROVE  /\ Passed(current[c]) \cup {c} = Live
         /\ Least(Linked) = {current[c]}
<1> USE DEF IInv
<1>1. /\ current[c] \in Linked /\ current[c] \in Nat
      /\ c \notin Passed(current[c]) /\ Passed(current[c]) \in SUBSET Live
      /\ Linked \subseteq Nat
  BY DEF CursorLinked, HasElement, TypeOK, Passed, Live
<1>2. Passed(current[c]) \cup {c} = Live
  <2>1. Cardinality(Passed(current[c]) \cup {c}) >= Cardinality(Live)
    BY <1>1, LiveAdd DEF LastToSee, SeenCountsPassed
  <2>. QED  BY <1>1, <2>1, LiveFinite, LiveSubsets
<1>3. \A f \in Linked : current[c] <= f
  <2> SUFFICES ASSUME NEW f \in Linked, f < current[c] PROVE FALSE
    BY <1>1
  <2>1. Passed(current[c]) \subseteq Passed(f)
    BY <1>1, PassedAntitone
  <2>2. c \in Passed(f)
    BY DEF Passed, HasElement
  <2>3. Live \subseteq Passed(f)
    BY <1>2, <2>1, <2>2
  <2>. QED  BY <2>3 DEF NoSpentElement
<1>4. \A f \in Least(Linked) : f = current[c]
  BY <1>1, <1>3 DEF Least
<1>5. current[c] \in Least(Linked)
  BY <1>1, <1>3 DEF Least
<1>. QED  BY <1>2, <1>4, <1>5

\* What bq_consumer_elem_unref does to the queue when its assertion holds: nothing, or it
\* pops the head, or it counts once more.
LEMMA UnrefShape ==
  ASSUME TypeOK, NEW c \in Consumers, ~ Dangling(c), ~ PopsOther(c)
  PROVE  \/ ~ HasElement(c) /\ ElemUnref(c) = queue
         \/ /\ HasElement(c) /\ LastToSee(c) /\ current[c] \in Linked
            /\ Least(Linked) = {current[c]} /\ \A f \in Linked : current[c] <= f
            /\ ElemUnref(c) = [f \in Linked \ {current[c]} |-> queue[f]]
         \/ /\ HasElement(c) /\ ~ LastToSee(c) /\ current[c] \in Linked
            /\ ElemUnref(c) = [queue EXCEPT ![current[c]].seen = queue[current[c]].seen + 1]
<1>1. Linked \subseteq Nat
  BY DEF TypeOK
<1>2. CASE ~ HasElement(c)
  BY <1>2 DEF ElemUnref
<1>3. CASE HasElement(c) /\ LastToSee(c)
  <2>1. current[c] \in Linked /\ current[c] \in Least(Linked)
    BY <1>3 DEF Dangling, PopsOther
  <2>2. \A f \in Linked : current[c] <= f
    BY <2>1 DEF Least
  <2>3. \A f \in Least(Linked) : f = current[c]
    <3> SUFFICES ASSUME NEW f \in Least(Linked) PROVE f = current[c]
      OBVIOUS
    <3>1. f \in Linked /\ f <= current[c] /\ current[c] <= f
      BY <2>1, <2>2 DEF Least
    <3>2. f \in Nat /\ current[c] \in Nat
      BY <1>1, <2>1, <3>1
    <3>. QED  BY <3>1, <3>2
  <2>4. Least(Linked) = {current[c]}
    BY <2>1, <2>3
  <2>. QED  BY <1>3, <2>1, <2>2, <2>4 DEF ElemUnref
<1>4. CASE HasElement(c) /\ ~ LastToSee(c)
  BY <1>4 DEF ElemUnref, Dangling
<1>. QED  BY <1>2, <1>3, <1>4

\* Whatever it does, the elements that stay keep their serials and lose no count.
LEMMA UnrefElements ==
  ASSUME TypeOK, NEW c \in Consumers, ~ Dangling(c), ~ PopsOther(c)
  PROVE  /\ DOMAIN ElemUnref(c) \subseteq Linked
         /\ ElemUnref(c) \in [DOMAIN ElemUnref(c) -> Element]
         /\ \A f \in DOMAIN ElemUnref(c) :
              /\ ElemUnref(c)[f].seen >= queue[f].seen
              /\ ElemUnref(c)[f].serial = queue[f].serial
              /\ ElemUnref(c)[f].eof = queue[f].eof
         /\ \A f \in Linked \ DOMAIN ElemUnref(c) :
              HasElement(c) /\ LastToSee(c) /\ f = current[c]
<1>1. queue \in [Linked -> Element]
  BY DEF TypeOK
<1>2. CASE ElemUnref(c) = queue
  BY <1>1, <1>2 DEF Element, Linked
<1>3. CASE HasElement(c) /\ LastToSee(c) /\ ElemUnref(c) = [f \in Linked \ {current[c]} |-> queue[f]]
  BY <1>1, <1>3 DEF Element
<1>4. CASE /\ current[c] \in Linked
           /\ ElemUnref(c) = [queue EXCEPT ![current[c]].seen = queue[current[c]].seen + 1]
  <2> DEFINE q == ElemUnref(c)
  <2>0. PICK k : k = current[c]
    OBVIOUS
  <2>1. DOMAIN q = Linked /\ k \in Linked
    BY <1>1, <1>4, <2>0
  <2>2. q[k] = [queue[k] EXCEPT !.seen = queue[k].seen + 1] /\ queue[k] \in Element
    BY <1>1, <1>4, <2>0
  <2>3. \A f \in Linked : f # k => q[f] = queue[f] /\ queue[f] \in Element
    BY <1>1, <1>4, <2>0
  <2>4. /\ q[k] \in Element /\ q[k].seen >= queue[k].seen
        /\ q[k].serial = queue[k].serial /\ q[k].eof = queue[k].eof
    BY <2>2 DEF Element
  <2>5. \A f \in Linked : /\ q[f] \in Element /\ q[f].seen >= queue[f].seen
                          /\ q[f].serial = queue[f].serial /\ q[f].eof = queue[f].eof
    BY <2>3, <2>4 DEF Element
  <2>6. q = [f \in Linked |-> q[f]]
    BY <1>1, <1>4, <2>1
  <2>. QED  BY <2>1, <2>5, <2>6
<1>. QED  BY <1>2, <1>3, <1>4, UnrefShape

\* Moves by which a cursor reaches another element.
MovesTo(c, e) ==
  /\ ~ Dangling(c) /\ ~ PopsOther(c)
  /\ e \in Successor(c) /\ at[c] = "move"
  /\ overcount' = (overcount \/ Overcounts(c))
  /\ queue' = ElemUnref(c)
  /\ min_serial' = MinSerialAfterUnref(c)
  /\ gen' = [gen EXCEPT ![c] = queue_serial]
  /\ current' = [current EXCEPT ![c] = e]
  /\ at' = [at EXCEPT ![c] = "out"]
  /\ UNCHANGED <<consumers, life, peeked, producerVars, process>>

\* What such a move leaves alone, and what it does to the sets that the counts count.
LEMMA MovesToEffect ==
  ASSUME IInv, NEW c \in Consumers, NEW e, MovesTo(c, e), NEW k, k = current[c]
  PROVE  /\ Live' = Live /\ Base' = Base
         /\ UNCHANGED <<next_serial, queue_serial, total_packets, producer, consumers>>
         /\ \A d \in Consumers \ {c} : InStep(d)' = InStep(d) /\ current'[d] = current[d]
         /\ e \in Linked /\ InStep(c)' /\ current'[c] = e
         /\ c \in Live => overcount' = overcount
         /\ c \notin Live /\ ~ overcount' => ~ HasElement(c)
         /\ ~ overcount' => ~ overcount
         /\ c \notin Live => \A f \in Linked : Passed(f)' = Passed(f)
         /\ ~ HasElement(c) => \A f \in Linked : Passed(f)' = Passed(f)
         /\ c \in Live /\ HasElement(c) =>
              /\ Passed(k)' = Passed(k) \cup {c}
              /\ c \notin Passed(k)
              /\ \A f \in Linked : f # k => Passed(f)' = Passed(f)
<1> USE DEF IInv
<1>1. /\ Live' = Live /\ Base' = Base
      /\ UNCHANGED <<next_serial, queue_serial, total_packets, producer, consumers>>
      /\ \A d \in Consumers \ {c} : InStep(d)' = InStep(d) /\ current'[d] = current[d]
      /\ Live \subseteq Consumers /\ Linked \subseteq Nat
      /\ current \in [Consumers -> Nat]
  BY DEF MovesTo, Live, Base, producerVars, InStep, TypeOK
<1>2. /\ e \in Linked /\ InStep(c)' /\ current'[c] = e /\ e \in Nat
      /\ \A f \in Linked : f \in Nat \ {0}
      /\ HasElement(c) => e > current[c]
      /\ \A f \in Linked : (HasElement(c) => f > current[c]) => e <= f
  BY <1>1, SuccessorLinked DEF MovesTo, InStep, TypeOK
<1>3. /\ c \in Live => overcount' = overcount
      /\ c \notin Live /\ ~ overcount' => ~ HasElement(c)
      /\ ~ overcount' => ~ overcount
  <2>1. overcount \in BOOLEAN /\ life[c] \in {"none", "live", "killing", "killed"}
    BY DEF TypeOK
  <2>2. life[c] # "none"
    BY DEF MovesTo, FreedOut
  <2>3. overcount' = (overcount \/ Overcounts(c))
    BY DEF MovesTo
  <2>4. c \in Live => ~ Overcounts(c)
    BY DEF Live, Overcounts
  <2>5. c \notin Live => (Overcounts(c) <=> HasElement(c))
    BY <2>1, <2>2 DEF Live, Overcounts
  <2>. QED  BY <2>1, <2>3, <2>4, <2>5, ZenonT(30)
<1>4. \A f : Passed(f) \subseteq Live /\ Passed(f)' \subseteq Live
  BY <1>1 DEF Passed
<1>5. \A f : \A d \in Live : d # c => (d \in Passed(f)' <=> d \in Passed(f))
  BY <1>1 DEF Passed
<1>6. c \notin Live => \A f : Passed(f)' = Passed(f)
  BY <1>4, <1>5
<1>7. ASSUME c \in Live, ~ HasElement(c), NEW f \in Linked
      PROVE  Passed(f)' = Passed(f)
  <2>1. c \notin Passed(f)
    BY <1>2, <1>7 DEF Passed, HasElement, NULL
  <2>2. c \notin Passed(f)'
    BY <1>1, <1>2, <1>7 DEF Passed
  <2>. QED  BY <1>4, <1>5, <2>1, <2>2
<1>8. ASSUME c \in Live, HasElement(c)
      PROVE  /\ Passed(k)' = Passed(k) \cup {c}
             /\ c \notin Passed(k)
             /\ \A f \in Linked : f # k => Passed(f)' = Passed(f)
  <2>1. k \in Nat /\ k < e /\ e \in Nat
    BY <1>1, <1>2, <1>8
  <2>2. c \notin Passed(k)
    BY <2>1 DEF Passed
  <2>3. c \in Passed(k)'
    BY <1>1, <1>2, <1>8, <2>1 DEF Passed
  <2>4. ASSUME NEW f \in Linked, f # k PROVE c \in Passed(f)' <=> c \in Passed(f)
    <3>0. f \in Nat /\ k \in Nat
      BY <1>2, <2>1
    <3>1. f \in Nat /\ (f < k \/ f > k)
      BY <2>4, <3>0
    <3>2. c \in Passed(f) <=> k > f
      BY <1>8 DEF Passed, HasElement
    <3>3. c \in Passed(f)' <=> e > f
      BY <1>1, <1>2, <1>8 DEF Passed
    <3>4. f > k => e <= f
      BY <1>2, <1>8
    <3>. QED  BY <1>2, <2>1, <3>1, <3>2, <3>3, <3>4
  <2>5. Passed(k)' = Passed(k) \cup {c}
    BY <1>4, <1>5, <1>8, <2>3
  <2>6. \A f \in Linked : f # k => Passed(f)' = Passed(f)
    BY <1>4, <1>5, <1>8, <2>4
  <2>. QED  BY <2>2, <2>5, <2>6
<1>. QED  BY <1>1, <1>2, <1>3, <1>6, <1>7, <1>8

\* The types after such a move, and what does not depend on whose move it is.
LEMMA MovesToTypes ==
  ASSUME IInv, NEW c \in Consumers, NEW e, MovesTo(c, e)
  PROVE  TypeOK' /\ SerialsConsecutive' /\ GenBounded' /\ FreedOut'
<1> USE DEF IInv
<1>1. /\ Base' = Base /\ e \in Linked
      /\ UNCHANGED <<next_serial, queue_serial, total_packets, producer, consumers>>
  BY MovesToEffect
<1>2. /\ Linked' \subseteq Linked /\ queue' \in [Linked' -> Element]
      /\ \A f \in Linked' : queue'[f].serial = queue[f].serial
  BY UnrefElements DEF MovesTo, Linked
<1>3. min_serial' \in Nat
  <2>1. HasElement(c) => current[c] \in Linked
    BY DEF MovesTo, Dangling
  <2>. QED  BY <2>1 DEF MovesTo, MinSerialAfterUnref, TypeOK, Element
<1>4. overcount' \in BOOLEAN
  BY DEF MovesTo, TypeOK, Overcounts
<1>5. /\ e \in Nat /\ e <= total_packets
      /\ gen' \in [Consumers -> Nat] /\ current' \in [Consumers -> Nat]
      /\ at' \in [Consumers -> {"out", "get", "sending", "move"}]
  BY <1>1, SuccessorLinked DEF MovesTo, TypeOK
<1>6. TypeOK'
  <2>1. Linked' \subseteq 1 .. total_packets'
    BY <1>1, <1>2 DEF TypeOK
  <2>2. /\ peeked' \in [Consumers -> Nat] /\ process' \in {"runs", "undefined", "aborted"}
        /\ life' \in [Consumers -> {"none", "live", "killing", "killed"}]
    BY DEF MovesTo, TypeOK
  <2>3. /\ next_serial' \in Nat /\ queue_serial' \in 1 .. MaxResets + 1
        /\ total_packets' \in 0 .. MaxPackets /\ consumers' \in Nat
        /\ producer' \in {"idle", "full"}
    BY <1>1 DEF TypeOK
  <2>. QED  BY <1>2, <1>3, <1>4, <1>5, <2>1, <2>2, <2>3, Zenon DEF TypeOK
<1>7. SerialsConsecutive'
  BY <1>1, <1>2 DEF SerialsConsecutive
<1>8. GenBounded' /\ FreedOut'
  BY <1>1, <1>5 DEF GenBounded, FreedOut, MovesTo, TypeOK
<1>. QED  BY <1>6, <1>7, <1>8

\* A killed consumer's move: it upsets the counts, or its cursor was not in the queue.
LEMMA LateMoveIInv ==
  ASSUME IInv, NEW c \in Consumers, NEW e, MovesTo(c, e), c \notin Live
  PROVE  IInv'
<1>1. /\ Live' = Live /\ Base' = Base
      /\ UNCHANGED <<next_serial, queue_serial, total_packets, producer, consumers>>
      /\ \A d \in Consumers \ {c} : InStep(d)' = InStep(d) /\ current'[d] = current[d]
      /\ ~ overcount' => ~ HasElement(c)
      /\ ~ overcount' => ~ overcount
      /\ \A f \in Linked : Passed(f)' = Passed(f)
  BY MovesToEffect
<1>2. TypeOK' /\ SerialsConsecutive' /\ GenBounded' /\ FreedOut'
  BY MovesToTypes
<1>3. CASE ~ HasElement(c)
  <2>1. queue' = queue
    BY <1>3 DEF MovesTo, ElemUnref
  <2>2. Live \subseteq Consumers \ {c}
    BY DEF Live
  <2>. QED  BY <1>1, <1>2, <2>1, <2>2, QuietIInv
<1>4. CASE overcount'
  <2>1. /\ Linked' \subseteq Linked
        /\ \A f \in Linked' : queue'[f].seen >= queue[f].seen /\ queue[f].seen \in Nat
                              /\ queue'[f].seen \in Nat
    BY UnrefElements DEF MovesTo, Linked, IInv, TypeOK, Element
  <2>2. \A f : Passed(f) \in SUBSET Live
    BY DEF Passed
  <2>3. ASSUME NEW f \in Linked' PROVE queue'[f].seen >= Cardinality(Passed(f)')
    <3>1. queue[f].seen >= Cardinality(Passed(f)) /\ Cardinality(Passed(f)) \in Nat
      BY <2>1, <2>2, LiveFinite DEF IInv, SeenCountsPassed
    <3>. QED  BY <1>1, <2>1, <3>1
  <2>4. SeenCountsPassed'
    BY <1>1, <1>4, <2>3 DEF IInv, SeenCountsPassed
  <2>5. NoSpentElement' /\ CursorLinked' /\ Contiguous'
    BY <1>4 DEF NoSpentElement, CursorLinked, Contiguous
  <2>. QED  BY <1>2, <2>4, <2>5 DEF IInv
<1>. QED  BY <1>1, <1>3, <1>4

\* A live consumer's move.
LEMMA LiveMoveIInv ==
  ASSUME IInv, NEW c \in Live, NEW e, MovesTo(c, e)
  PROVE  IInv'
<1> USE DEF IInv
<1>0. PICK k : k = current[c]
  OBVIOUS
<1>1. /\ c \in Consumers /\ Live' = Live /\ Base' = Base /\ overcount' = overcount
      /\ UNCHANGED <<next_serial, queue_serial, total_packets, producer, consumers>>
      /\ \A d \in Consumers \ {c} : InStep(d)' = InStep(d) /\ current'[d] = current[d]
      /\ e \in Linked /\ InStep(c)' /\ current'[c] = e
      /\ ~ HasElement(c) => \A f \in Linked : Passed(f)' = Passed(f)
      /\ HasElement(c) => /\ Passed(k)' = Passed(k) \cup {c}
                          /\ c \notin Passed(k)
                          /\ \A f \in Linked : f # k => Passed(f)' = Passed(f)
  <2>1. c \in Consumers
    BY DEF Live
  <2>. QED  BY <1>0, <2>1, MovesToEffect
<1>2. TypeOK' /\ SerialsConsecutive' /\ GenBounded' /\ FreedOut'
  BY <1>1, MovesToTypes
<1>3. /\ Live \subseteq Consumers /\ Linked \subseteq Nat /\ k \in Nat
      /\ queue \in [Linked -> Element] /\ total_packets \in Nat
      /\ \A f : Passed(f) \in SUBSET Live
  BY <1>0, <1>1 DEF TypeOK, Live, Passed
<1>4. CASE ~ HasElement(c)
  <2>1. queue' = queue /\ Linked' = Linked
    BY <1>4 DEF MovesTo, ElemUnref, Linked
  <2>2. SeenCountsPassed' /\ NoSpentElement'
    BY <1>1, <1>4, <2>1 DEF SeenCountsPassed, NoSpentElement
  <2>3. CursorLinked'
    BY <1>1, <1>3, <2>1 DEF CursorLinked
  <2>4. Contiguous'
    BY <1>1, <2>1 DEF Contiguous
  <2>. QED  BY <1>2, <2>2, <2>3, <2>4
<1>5. CASE HasElement(c) /\ LastToSee(c)
  <2>1. /\ Linked' = Linked \ {k} /\ k \in Linked
        /\ queue' = [f \in Linked' |-> queue[f]]
        /\ \A f \in Linked : k <= f
    BY <1>0, <1>1, <1>5, UnrefShape DEF MovesTo, Linked
  <2>2. SeenCountsPassed'
    BY <1>1, <1>5, <2>1 DEF SeenCountsPassed
  <2>3. NoSpentElement'
    BY <1>1, <1>5, <2>1 DEF NoSpentElement
  <2>4. CursorLinked'
    <3>1. e > k
      BY <1>0, <1>1, <1>5, SuccessorLinked DEF MovesTo
    <3>2. ASSUME ~ overcount, NEW d \in Live \ {c}, InStep(d)
          PROVE  current[d] \in Linked \ {k}
      <4>1. current[d] \in Linked
        BY <3>2 DEF CursorLinked
      <4>2. d \in Passed(k)
        BY <1>0, <1>5, <3>2, LastToSeeIsHead
      <4>. QED  BY <4>1, <4>2, <1>3 DEF Passed
    <3>. QED  BY <1>1, <1>3, <2>1, <3>1, <3>2 DEF CursorLinked
  <2>5. Contiguous'
    BY <1>1, <1>3, <2>1 DEF Contiguous
  <2>. QED  BY <1>2, <2>2, <2>3, <2>4, <2>5
<1>6. CASE HasElement(c) /\ ~ LastToSee(c)
  <2>1. /\ k \in Linked /\ Linked' = Linked
        /\ queue' = [queue EXCEPT ![k].seen = queue[k].seen + 1]
    BY <1>0, <1>1, <1>3, <1>6, UnrefShape DEF MovesTo, Linked
  <2>2. /\ \A f \in Linked : f # k => queue'[f] = queue[f]
        /\ queue'[k].seen = queue[k].seen + 1 /\ queue[k].seen \in Nat
    BY <1>3, <2>1 DEF Element
  <2>3. Cardinality(Passed(k)') = Cardinality(Passed(k)) + 1 /\ Cardinality(Passed(k)) \in Nat
    BY <1>1, <1>3, <1>6, LiveAdd, LiveFinite
  <2>4. SeenCountsPassed'
    <3>1. ASSUME NEW f \in Linked'
          PROVE  /\ queue'[f].seen >= Cardinality(Passed(f)')
                 /\ ~ overcount => queue'[f].seen = Cardinality(Passed(f)')
      <4>1. CASE f = k
        BY <2>1, <2>2, <2>3, <4>1 DEF SeenCountsPassed
      <4>2. CASE f # k
        BY <1>1, <1>6, <2>1, <2>2, <4>2 DEF SeenCountsPassed
      <4>. QED  BY <4>1, <4>2
    <3>. QED  BY <1>1, <3>1 DEF SeenCountsPassed
  <2>5. NoSpentElement'
    <3>1. ASSUME ~ overcount PROVE \E d \in Live : d \notin Passed(k) \cup {c}
      <4>1. Cardinality(Passed(k) \cup {c}) < Cardinality(Live)
        <5>1. consumers \in Nat /\ consumers = Cardinality(Live)
          BY DEF TypeOK, SeenCountsPassed
        <5>2. queue[k].seen = Cardinality(Passed(k)) /\ ~ (queue[k].seen + 1 >= consumers)
          BY <1>0, <1>6, <2>1, <3>1 DEF SeenCountsPassed, LastToSee
        <5>. QED  BY <1>1, <1>6, <2>2, <2>3, <5>1, <5>2
      <4>2. Passed(k) \cup {c} \subseteq Live
        BY <1>3
      <4>. QED  BY <4>1, <4>2, LiveFinite
    <3>. QED  BY <1>1, <1>6, <2>1, <3>1 DEF NoSpentElement
  <2>6. CursorLinked'
    BY <1>1, <1>3, <2>1 DEF CursorLinked
  <2>7. Contiguous'
    BY <1>1, <2>1 DEF Contiguous
  <2>. QED  BY <1>2, <2>4, <2>5, <2>6, <2>7
<1>. QED  BY <1>4, <1>5, <1>6

LEMMA MoveIInv ==
  ASSUME IInv, NEW c \in Consumers, Move(c)
  PROVE  IInv'
<1>1. CASE Fault("undefined") /\ UNCHANGED overcount
  BY <1>1, FaultIInv DEF IInv, TypeOK
<1>2. CASE Fault("aborted") /\ overcount' = (overcount \/ Overcounts(c))
  <2>1. overcount' \in BOOLEAN /\ (overcount => overcount')
    BY <1>2 DEF Overcounts, IInv, TypeOK
  <2>. QED  BY <1>2, <2>1, FaultIInv
<1>3. ASSUME NEW e \in Successor(c), MovesTo(c, e) PROVE IInv'
  BY <1>3, LateMoveIInv, LiveMoveIInv
<1>4. CASE /\ current' = [current EXCEPT ![c] = Cursor(c)]
           /\ at' = [at EXCEPT ![c] = "out"]
           /\ UNCHANGED <<queueVars, life, gen, peeked, producerVars, process>>
  <2>1. /\ UNCHANGED <<queue, next_serial, total_packets, queue_serial, consumers, overcount>>
        /\ Live' = Live
    BY <1>4 DEF queueVars, producerVars, Live
  <2>2. current' \in [Consumers -> Nat] /\ \A d \in Consumers : current'[d] <= total_packets
    BY <1>4 DEF IInv, TypeOK, GenBounded, Cursor, NULL
  <2>3. TypeOK'
    BY <1>4, <2>2 DEF IInv, TypeOK, Linked, queueVars, producerVars
  <2>4. GenBounded' /\ FreedOut'
    BY <1>4, <2>1, <2>2 DEF IInv, TypeOK, GenBounded, FreedOut, producerVars
  <2>5. \A d \in Live : /\ InStep(d)' <=> InStep(d)
                        /\ InStep(d) => current'[d] = current[d]
    BY <1>4, <2>1 DEF InStep, Cursor, IInv, TypeOK, Live
  <2>. QED  BY <2>1, <2>3, <2>4, <2>5, QuietIInv
<1>5. \/ Fault("undefined") /\ UNCHANGED overcount
      \/ Fault("aborted") /\ overcount' = (overcount \/ Overcounts(c))
      \/ \E e \in Successor(c) : MovesTo(c, e)
      \/ /\ current' = [current EXCEPT ![c] = Cursor(c)]
         /\ at' = [at EXCEPT ![c] = "out"]
         /\ UNCHANGED <<queueVars, life, gen, peeked, producerVars, process>>
  BY DEF Move, MoveOn, MovesTo
<1>. QED  BY <1>1, <1>2, <1>3, <1>4, <1>5

\* What the unref and the uncounting of a kill leave: no element counts fewer than the
\* other consumers that have passed it.  Without late moves each counts exactly these, and
\* only an element that all consumers have passed is gone.
LEMMA UncountedCountsOthers ==
  ASSUME IInv, NEW c \in Live, ~ Dangling(c), ~ PopsOther(c)
  PROVE  /\ DOMAIN Uncounted(c) \subseteq Linked
         /\ \A e \in DOMAIN Uncounted(c) :
              /\ Uncounted(c)[e].seen >= Cardinality(Passed(e) \ {c})
              /\ ~ overcount => Uncounted(c)[e].seen = Cardinality(Passed(e) \ {c})
              /\ Uncounted(c)[e].serial = queue[e].serial
              /\ Uncounted(c)[e].eof = queue[e].eof
              /\ Uncounted(c)[e] \in Element
         /\ ~ overcount =>
              \A e \in Linked : e \in DOMAIN Uncounted(c) \/ Passed(e) \cup {c} = Live
<1> USE DEF IInv
<1>1. /\ Live \subseteq Consumers /\ Linked \subseteq Nat /\ c \in Consumers
      /\ current \in [Consumers -> Nat] /\ queue \in [Linked -> Element]
      /\ \A e \in Linked : /\ queue[e].seen >= Cardinality(Passed(e))
                           /\ ~ overcount => queue[e].seen = Cardinality(Passed(e))
      /\ \A e : Passed(e) \subseteq Live
  BY DEF TypeOK, Live, SeenCountsPassed, Passed
<1>0. PICK k : k = current[c]
  OBVIOUS
<1> DEFINE q == ElemUnref(c)
           u == Uncounted(c)
<1>3. DOMAIN u = DOMAIN q
  BY DEF Uncounted
<1>4. CASE ~ HasElement(c)
  <2>1. q = queue /\ DOMAIN u = Linked /\ \A e \in Linked : u[e] = queue[e]
    BY <1>4 DEF ElemUnref, Uncounted, Linked
  <2>2. \A e \in Linked : Passed(e) \ {c} = Passed(e)
    BY <1>1, <1>4 DEF Passed, HasElement, NULL
  <2>. QED  BY <1>1, <2>1, <2>2
<1>5. CASE HasElement(c) /\ LastToSee(c)
  <2>1. /\ k \in Linked /\ \A e \in Linked : k <= e
        /\ q = [f \in Linked \ {k} |-> queue[f]]
    BY <1>0, <1>1, <1>5, UnrefShape
  <2>2. /\ DOMAIN u = Linked \ {k}
        /\ \A e \in DOMAIN u : u[e] = queue[e]
    BY <1>5, <2>1 DEF Uncounted
  <2>3. ~ overcount => Passed(k) \cup {c} = Live
    BY <1>0, <1>5, LastToSeeIsHead
  <2>4. \A e \in Linked : Passed(e) \ {c} = Passed(e)
    BY <1>0, <1>1, <2>1 DEF Passed
  <2>. QED  BY <1>1, <2>2, <2>3, <2>4
<1>6. CASE HasElement(c) /\ ~ LastToSee(c)
  <2>1. /\ k \in Linked /\ k \in Nat
        /\ q = [queue EXCEPT ![k].seen = queue[k].seen + 1]
        /\ DOMAIN q = Linked
    BY <1>0, <1>1, <1>6, UnrefShape
  <2>2. ASSUME NEW e \in Linked
        PROVE  /\ u[e].seen >= Cardinality(Passed(e) \ {c})
               /\ ~ overcount => u[e].seen = Cardinality(Passed(e) \ {c})
               /\ u[e].serial = queue[e].serial
               /\ u[e].eof = queue[e].eof
               /\ u[e] \in Element
    <3>1. queue[e] \in Element /\ queue[e].seen \in Nat /\ e \in Nat
      BY <1>1 DEF Element
    <3>2. u[e] = IF e <= k THEN [q[e] EXCEPT !.seen = q[e].seen - 1] ELSE q[e]
      BY <1>0, <1>6, <2>1 DEF Uncounted
    <3>3. CASE e = k
      <4>1. /\ q[e] \in Element
            /\ q[e].seen = queue[e].seen + 1 /\ q[e].serial = queue[e].serial
            /\ q[e].eof = queue[e].eof
        <5>1. q[e] = [queue[e] EXCEPT !.seen = queue[e].seen + 1]
          BY <1>1, <2>1, <3>3
        <5>. QED  BY <3>1, <5>1 DEF Element
      <4>2. u[e] = [q[e] EXCEPT !.seen = q[e].seen - 1]
        BY <2>1, <3>2, <3>3
      <4>3. /\ u[e] \in Element /\ u[e].seen = queue[e].seen
            /\ u[e].serial = queue[e].serial /\ u[e].eof = queue[e].eof
        BY <3>1, <4>1, <4>2 DEF Element
      <4>4. Passed(e) \ {c} = Passed(e)
        BY <1>0, <2>1, <3>3 DEF Passed
      <4>. QED  BY <1>1, <4>3, <4>4
    <3>4. CASE e > k
      <4>1. u[e] = queue[e]
        BY <1>1, <2>1, <3>1, <3>2, <3>4
      <4>2. Passed(e) \ {c} = Passed(e)
        BY <1>0, <2>1, <3>1, <3>4 DEF Passed
      <4>. QED  BY <1>1, <3>1, <4>1, <4>2
    <3>5. CASE e < k
      <4>1. u[e] = [queue[e] EXCEPT !.seen = queue[e].seen - 1]
        BY <1>1, <2>1, <3>1, <3>2, <3>5
      <4>2. c \in Passed(e)
        BY <1>0, <1>6, <2>1, <3>1, <3>5 DEF Passed, HasElement
      <4>3. /\ Cardinality(Passed(e) \ {c}) = Cardinality(Passed(e)) - 1
            /\ Cardinality(Passed(e) \ {c}) \in Nat
        BY <1>1, <4>2, LiveRemove, LiveFinite
      <4>4. Cardinality(Passed(e)) \in Nat
        BY <1>1, LiveFinite
      <4>6. /\ queue[e].seen - 1 \in Nat
            /\ queue[e].seen - 1 >= Cardinality(Passed(e) \ {c})
            /\ ~ overcount => queue[e].seen - 1 = Cardinality(Passed(e) \ {c})
        <5>1. queue[e].seen >= Cardinality(Passed(e))
          BY <1>1
        <5>2. ~ overcount => queue[e].seen = Cardinality(Passed(e))
          BY <1>1
        <5>. QED  BY <3>1, <4>3, <4>4, <5>1, <5>2
      <4>5. /\ u[e] \in Element /\ u[e].seen = queue[e].seen - 1
            /\ u[e].serial = queue[e].serial /\ u[e].eof = queue[e].eof
        BY <3>1, <4>1, <4>6 DEF Element
      <4>. QED  BY <4>5, <4>6
    <3>. QED  BY <2>1, <3>1, <3>3, <3>4, <3>5
  <2>. QED  BY <1>3, <2>1, <2>2
<1>. QED  BY <1>4, <1>5, <1>6

\* The locked region of bq_consumer_kill when no assertion of its fails.
Leaves(c) ==
  life[c] = "killing" /\ ~ Dangling(c) /\ ~ KillAborts(c) /\ Leave(c)

\* What every kill changes and what it leaves alone.
LEMMA KillEffect ==
  ASSUME IInv, NEW c \in Consumers, Leaves(c)
  PROVE  /\ c \in Live /\ Live' = Live \ {c} /\ Base' = Base
         /\ ~ Dangling(c) /\ ~ PopsOther(c)
         /\ UNCHANGED <<next_serial, queue_serial, total_packets, producer, gen, peeked, at>>
         /\ \A d \in Consumers : InStep(d)' = InStep(d)
         /\ \A d \in Consumers \ {c} : current'[d] = current[d]
         /\ consumers' = consumers - 1 /\ consumers \in Nat \ {0}
         /\ Cardinality(Live) = consumers /\ Cardinality(Live') = consumers'
         /\ min_serial' = MinSerialAfterUnref(c)
         /\ overcount' = (overcount /\ consumers # 1)
         /\ \A e : Passed(e)' = Passed(e) \ {c}
         /\ consumers = 1 => Live' = {} /\ Linked' = {} /\ queue' = EmptyQueue
         /\ consumers # 1 =>
              /\ Linked' = {e \in DOMAIN Uncounted(c) : Uncounted(c)[e].seen < consumers - 1}
              /\ queue' = [e \in Linked' |-> Uncounted(c)[e]]
<1> USE DEF IInv
<1>1. /\ c \in Live /\ Live' = Live \ {c} /\ Base' = Base
      /\ UNCHANGED <<next_serial, queue_serial, total_packets, producer, gen, peeked, at>>
      /\ \A d \in Consumers : InStep(d)' = InStep(d)
      /\ \A d \in Consumers \ {c} : current'[d] = current[d]
      /\ consumers' = consumers - 1
      /\ min_serial' = MinSerialAfterUnref(c)
      /\ overcount' = (overcount /\ consumers # 1)
      /\ ~ Dangling(c) /\ ~ PopsOther(c)
  BY DEF Leaves, Leave, KillAborts, Live, Base, producerVars, InStep, TypeOK
<1>2. consumers \in Nat /\ Cardinality(Live) = consumers
  BY DEF TypeOK, SeenCountsPassed
<1>3. Cardinality(Live') = consumers - 1 /\ consumers # 0
  BY <1>1, <1>2, LiveFinite, LiveRemove, FS_EmptySet
<1>4. \A e : Passed(e)' = Passed(e) \ {c}
  BY <1>1 DEF Passed, TypeOK, Live
<1>5. ASSUME consumers = 1 PROVE Live' = {} /\ Linked' = {} /\ queue' = EmptyQueue
  <2>1. IsFiniteSet(Live')
    BY <1>1, LiveFinite, FS_Subset
  <2>2. Live' = {}
    BY <1>3, <1>5, <2>1, FS_EmptySet
  <2>. QED  BY <1>5, <2>2 DEF Leaves, Leave, EmptyQueue, Linked
<1>6. ASSUME consumers # 1
      PROVE  /\ Linked' = {e \in DOMAIN Uncounted(c) : Uncounted(c)[e].seen < consumers - 1}
             /\ queue' = [e \in Linked' |-> Uncounted(c)[e]]
  BY <1>6 DEF Leaves, Leave, QueueWithout, Linked
<1>. QED  BY <1>1, <1>2, <1>3, <1>4, <1>5, <1>6

\* A kill keeps every element that some other live consumer has not passed.
LEMMA KillKeeps ==
  ASSUME IInv, ~ overcount, NEW c \in Consumers, Leaves(c),
         NEW e \in Linked, NEW d \in Live \ {c}, d \notin Passed(e)
  PROVE  e \in Linked' /\ queue'[e].serial = queue[e].serial /\ queue'[e].eof = queue[e].eof
<1>1. /\ c \in Live /\ Live' = Live \ {c}
      /\ ~ Dangling(c) /\ ~ PopsOther(c)
      /\ consumers \in Nat \ {0} /\ Cardinality(Live) = consumers
      /\ Cardinality(Live') = consumers - 1
  BY KillEffect
<1>2. consumers # 1
  BY <1>1, KillEffect
<1>3. e \in DOMAIN Uncounted(c) /\ Uncounted(c)[e].seen = Cardinality(Passed(e) \ {c})
  BY <1>1, UncountedCountsOthers
<1>4. Passed(e) \ {c} \in SUBSET (Live' \ {d}) /\ Live' \ {d} \in SUBSET Live
  BY <1>1 DEF Passed
<1>5. Cardinality(Live' \ {d}) = consumers - 2
  <2>1. Live' \in SUBSET Live /\ d \in Live'
    BY <1>1
  <2>. QED  BY <1>1, <2>1, LiveRemove
<1>6. Cardinality(Passed(e) \ {c}) <= consumers - 2
  BY <1>4, <1>5, LiveSubsets
<1>7. Cardinality(Passed(e) \ {c}) < consumers - 1
  BY <1>1, <1>4, <1>6, LiveFinite
<1>8. /\ e \in Linked' /\ queue'[e] = Uncounted(c)[e]
  BY <1>2, <1>3, <1>7, KillEffect
<1>. QED  BY <1>1, <1>3, <1>8, UncountedCountsOthers

\* A kill unlinks elements and changes no serial and no end-of-stream mark.
LEMMA KillShrinks ==
  ASSUME IInv, NEW c \in Consumers, Leaves(c)
  PROVE  /\ Linked' \subseteq Linked
         /\ queue' \in [Linked' -> Element]
         /\ \A e \in Linked' : /\ queue'[e].serial = queue[e].serial
                               /\ queue'[e].eof = queue[e].eof
<1>1. c \in Live /\ ~ Dangling(c) /\ ~ PopsOther(c)
  BY KillEffect
<1>2. CASE consumers = 1
  <2>1. Linked' = {} /\ queue' = EmptyQueue
    BY <1>2, KillEffect
  <2>. QED  BY <2>1 DEF EmptyQueue
<1>3. CASE consumers # 1
  <2>1. /\ Linked' \subseteq DOMAIN Uncounted(c)
        /\ queue' = [e \in Linked' |-> Uncounted(c)[e]]
    <3>1. /\ Linked' = {e \in DOMAIN Uncounted(c) : Uncounted(c)[e].seen < consumers - 1}
          /\ queue' = [e \in Linked' |-> Uncounted(c)[e]]
      BY <1>3, KillEffect
    <3>. QED  BY <3>1
  <2>2. /\ DOMAIN Uncounted(c) \subseteq Linked
        /\ \A e \in DOMAIN Uncounted(c) :
             /\ Uncounted(c)[e].serial = queue[e].serial
             /\ Uncounted(c)[e].eof = queue[e].eof
             /\ Uncounted(c)[e] \in Element
    BY <1>1, UncountedCountsOthers
  <2>. QED  BY <2>1, <2>2
<1>. QED  BY <1>2, <1>3

\* Killing a consumer, at any point of its writer's cycle.
LEMMA LeaveIInv ==
  ASSUME IInv, NEW c \in Consumers, Leaves(c)
  PROVE  IInv'
<1> USE DEF IInv
<1>1. /\ c \in Live /\ Live' = Live \ {c} /\ Base' = Base
      /\ ~ Dangling(c) /\ ~ PopsOther(c)
      /\ UNCHANGED <<next_serial, queue_serial, total_packets, producer, gen, peeked, at>>
      /\ \A d \in Consumers : InStep(d)' = InStep(d)
      /\ \A d \in Consumers \ {c} : current'[d] = current[d]
      /\ consumers' = consumers - 1 /\ consumers \in Nat \ {0}
      /\ Cardinality(Live) = consumers /\ Cardinality(Live') = consumers'
      /\ min_serial' = MinSerialAfterUnref(c)
      /\ \A e : Passed(e)' = Passed(e) \ {c}
  BY KillEffect
<1>2. /\ Live \subseteq Consumers /\ Linked \subseteq Nat
      /\ current \in [Consumers -> Nat] /\ queue \in [Linked -> Element]
      /\ \A e : Passed(e) \subseteq Live
  BY DEF TypeOK, Live, Passed
<1>3. overcount' = (overcount /\ consumers # 1)
  BY KillEffect
<1>4. /\ Linked' \subseteq Linked /\ queue' \in [Linked' -> Element]
      /\ \A e \in Linked' : queue'[e].serial = queue[e].serial
  BY KillShrinks
<1>5. /\ current' \in [Consumers -> Nat]
      /\ \A d \in Consumers : current'[d] = current[d] \/ current'[d] = NULL
  BY <1>2 DEF Leaves, Leave, NULL
<1>6. TypeOK'
  <2>1. life' \in [Consumers -> {"none", "live", "killing", "killed"}]
    BY DEF Leaves, Leave, TypeOK
  <2>2. HasElement(c) => current[c] \in Linked
    BY <1>1 DEF Dangling
  <2>3. min_serial' \in Nat
    BY <1>1, <1>2, <2>2 DEF MinSerialAfterUnref, Element, TypeOK
  <2>4. overcount' \in BOOLEAN /\ process' \in {"runs", "undefined", "aborted"}
    BY <1>3 DEF Leaves, Leave, TypeOK
  <2>5. consumers' \in Nat /\ Linked' \subseteq 1 .. total_packets'
    BY <1>1, <1>4 DEF TypeOK
  <2>. QED  BY <1>1, <1>4, <1>5, <2>1, <2>3, <2>4, <2>5 DEF TypeOK
<1>7. GenBounded'
  BY <1>1, <1>5 DEF GenBounded, TypeOK, NULL
<1>8. FreedOut'
  BY <1>1 DEF FreedOut, Leaves, Leave, TypeOK
<1>9. SerialsConsecutive'
  BY <1>1, <1>4 DEF SerialsConsecutive
<1>10. CASE consumers = 1
  <2>1. Linked' = {} /\ Live' = {}
    BY <1>10, KillEffect
  <2>2. SeenCountsPassed' /\ NoSpentElement' /\ CursorLinked' /\ Contiguous'
    BY <1>1, <2>1 DEF SeenCountsPassed, NoSpentElement, CursorLinked, Contiguous
  <2>. QED  BY <1>6, <1>7, <1>8, <1>9, <2>2
<1>11. CASE consumers # 1
  <2>1. /\ Linked' = {e \in DOMAIN Uncounted(c) : Uncounted(c)[e].seen < consumers - 1}
        /\ queue' = [e \in Linked' |-> Uncounted(c)[e]]
    BY <1>11, KillEffect
  <2>2. ASSUME NEW e \in Linked'
        PROVE  /\ e \in Linked /\ queue'[e].seen < consumers - 1
               /\ queue'[e].seen >= Cardinality(Passed(e)')
               /\ ~ overcount => queue'[e].seen = Cardinality(Passed(e)')
    <3>1. e \in DOMAIN Uncounted(c) /\ queue'[e] = Uncounted(c)[e]
          /\ Uncounted(c)[e].seen < consumers - 1
      BY <2>1
    <3>. QED  BY <1>1, <3>1, UncountedCountsOthers
  <2>3. ~ overcount' => ~ overcount
    BY <1>3, <1>11
  <2>6. SeenCountsPassed'
    BY <1>1, <2>2, <2>3 DEF SeenCountsPassed
  <2>8. ~ overcount => \A e \in Linked' : \E d \in Live' : d \notin Passed(e)'
    <3> SUFFICES ASSUME ~ overcount, NEW e \in Linked', \A d \in Live' : d \in Passed(e)'
                 PROVE  FALSE
      OBVIOUS
    <3>1. Passed(e)' = Live'
      BY <1>1, <1>2
    <3>2. Cardinality(Passed(e)') = consumers - 1
      BY <1>1, <3>1
    <3>3. queue'[e].seen < consumers - 1 /\ queue'[e].seen = Cardinality(Passed(e)')
      BY <2>2
    <3>. QED  BY <1>1, <3>2, <3>3
  <2>9. NoSpentElement'
    BY <2>3, <2>8 DEF NoSpentElement
  <2>10. CursorLinked'
    <3>1. ASSUME ~ overcount, NEW d \in Live', InStep(d)' PROVE current'[d] \in Linked'
      <4>1. /\ d \in Live \ {c} /\ current'[d] = current[d]
            /\ current[d] \in Linked /\ d \notin Passed(current[d])
        BY <1>1, <1>2, <3>1 DEF CursorLinked, Passed
      <4>. QED  BY <3>1, <4>1, KillKeeps
    <3>. QED  BY <2>3, <3>1 DEF CursorLinked
  <2>11. Contiguous'
    <3>1. ASSUME ~ overcount, NEW e \in Linked', NEW f \in e .. total_packets
          PROVE  f \in Linked'
      <4>0. total_packets \in Nat /\ e \in Linked /\ e \in Nat
        <5>1. e \in Linked
          BY <2>2, <3>1
        <5>2. total_packets \in Nat /\ Linked \subseteq Nat
          BY DEF TypeOK
        <5>. QED  BY <5>1, <5>2
      <4>1. f \in Linked /\ e \in Linked /\ e \in Nat /\ f \in Nat /\ e <= f
        BY <4>0, <3>1 DEF Contiguous
      <4>2. PICK d \in Live' : d \notin Passed(e) \ {c}
        BY <1>1, <2>8, <3>1
      <4>3. d \in Live \ {c} /\ d \notin Passed(f)
        BY <1>1, <4>1, <4>2, PassedAntitone
      <4>. QED  BY <3>1, <4>1, <4>3, KillKeeps
    <3>. QED  BY <1>1, <1>4, <2>3, <3>1 DEF Contiguous
  <2>. QED  BY <1>6, <1>7, <1>8, <1>9, <2>6, <2>9, <2>10, <2>11
<1>. QED  BY <1>10, <1>11

LEMMA ConsumerKillIInv ==
  ASSUME IInv, NEW c \in Consumers, ConsumerKill(c)
  PROVE  IInv'
<1>1. \/ \E o \in {"undefined", "aborted"} : Fault(o) /\ UNCHANGED overcount
      \/ Leaves(c)
  BY DEF ConsumerKill, Leaves
<1>2. ASSUME NEW o \in {"undefined", "aborted"}, Fault(o), UNCHANGED overcount PROVE IInv'
  BY <1>2, FaultIInv DEF IInv, TypeOK
<1>. QED  BY <1>1, <1>2, LeaveIInv

LEMMA UnseenIInv ==
  ASSUME IInv, NEW c \in Consumers, Unseen(c)
  PROVE  IInv' /\ Base' = Base /\ \A f : Passed(f)' = Passed(f)
<1>1. \E o \in {"undefined", "aborted"} : Fault(o)
  BY DEF Unseen
<1>. QED  BY <1>1, FaultIInv DEF Unseen, IInv, TypeOK

--------------------------------------------------------------------------------

LEMMA NextIInv == IInv /\ [Next]_vars => IInv'
<1> SUFFICES ASSUME IInv, [Next]_vars PROVE IInv'
  OBVIOUS
<1>1. CASE UNCHANGED vars
  <2>1. TypeOK' /\ GenBounded' /\ FreedOut' /\ Live' = Live
    BY <1>1 DEF vars, queueVars, producerVars, consumerVars, IInv, TypeOK, GenBounded,
       FreedOut, Live, Linked
  <2>. QED
    BY <1>1, <2>1, QuietIInv DEF vars, queueVars, producerVars, consumerVars, InStep
<1>2. CASE Put
  BY <1>2, AppendIInv DEF Put
<1>3. CASE PutEof
  BY <1>3, AppendIInv DEF PutEof
<1>4. CASE PutFull
  BY <1>4, PutFullIInv
<1>5. CASE PutFullReset
  BY <1>5, PutFullResetIInv
<1>6. CASE Seek
  BY <1>6, SeekIInv
<1>7. ASSUME NEW c \in Consumers, ConsumerNew(c) PROVE IInv'
  BY <1>7, ConsumerNewIInv
<1>8. ASSUME NEW c \in Consumers, Get(c) PROVE IInv'
  BY <1>8, GetIInv
<1>9. ASSUME NEW c \in Consumers, Move(c) PROVE IInv'
  BY <1>9, MoveIInv
<1>10. ASSUME NEW c \in Consumers, ConsumerKill(c) PROVE IInv'
  BY <1>10, ConsumerKillIInv
<1>11. ASSUME NEW c \in Consumers,
              StartGet(c) \/ Sent(c) \/ StartKill(c) \/ ConsumerFree(c) PROVE IInv'
  BY <1>11, StillIInv
<1>12. ASSUME NEW c \in Consumers, Unseen(c) PROVE IInv'
  BY <1>12, UnseenIInv
<1>13. CASE Crashed
  <2>1. UNCHANGED vars
    BY <1>13, Zenon DEF Crashed
  <2>. QED  BY <1>1, <2>1, Zenon
<1>14. CASE \E c \in Consumers :
              \/ ConsumerNew(c) \/ StartGet(c) \/ Get(c) \/ Sent(c) \/ Move(c) \/ Unseen(c)
              \/ StartKill(c) \/ ConsumerKill(c) \/ ConsumerFree(c)
  BY <1>7, <1>8, <1>9, <1>10, <1>11, <1>12, <1>14, Zenon
<1>. QED
  BY <1>1, <1>2, <1>3, <1>4, <1>5, <1>6, <1>13, <1>14, Zenon DEF Next

--------------------------------------------------------------------------------
(* Payloads in use, the backlog and the faults of the code, relative to the  *)
(* invariant above.                                                          *)

\* A payload is in use only while its reader sends it.
InUse ==
  \A c \in Consumers :
    /\ peeked[c] <= total_packets
    /\ at[c] # "sending" => peeked[c] = NULL

\* Unless its queue was reset, the element in use is still owed to its reader, which
\* therefore keeps it linked.
PeekedOwed ==
  ~ overcount =>
    \A c \in Live : peeked[c] > Base => peeked[c] \in Linked /\ c \notin Passed(peeked[c])

\* min_serial is behind the serial of every linked element, also after a kill, which
\* frees elements without recording their serials.
MinSerialBehind ==
  /\ min_serial <= next_serial
  /\ \A e \in Linked : min_serial <= queue[e].serial

UseInv == InUse /\ PeekedOwed /\ MinSerialBehind /\ BacklogBounded /\ OnlyLateCallsFail

LEMMA InitUseInv == Init => UseInv
<1> SUFFICES ASSUME Init PROVE UseInv
  OBVIOUS
<1>1. Linked = {} /\ Live = {} /\ MaxBacklog \in Nat
  BY BoundsAssumption DEF Init, Linked, EmptyQueue, Live
<1>2. InUse /\ PeekedOwed /\ MinSerialBehind /\ OnlyLateCallsFail
  BY <1>1 DEF Init, InUse, PeekedOwed, MinSerialBehind, OnlyLateCallsFail, NULL
<1>3. {e \in Linked : ~ queue[e].eof} = {}
  BY <1>1
<1>. QED  BY <1>1, <1>2, <1>3, FS_EmptySet DEF UseInv, BacklogBounded

\* A step that leaves the queue alone and hands nothing out.
LEMMA QuietUseInv ==
  ASSUME IInv, UseInv, InUse', OnlyLateCallsFail', overcount => overcount',
         Live' = Live, Base' = Base, \A f : Passed(f)' = Passed(f),
         UNCHANGED <<queue, next_serial, min_serial, total_packets>>,
         \A d \in Live : peeked'[d] \in {peeked[d], NULL}
  PROVE  UseInv'
<1>1. Linked' = Linked
  BY DEF Linked
<1>2. PeekedOwed'
  <2>1. ~ (NULL > Base)
    BY DEF IInv, TypeOK, SerialsConsecutive, Base, NULL
  <2>2. ASSUME ~ overcount, NEW d \in Live, peeked'[d] > Base
        PROVE  peeked'[d] \in Linked /\ d \notin Passed(peeked'[d])
    BY <2>1, <2>2 DEF UseInv, PeekedOwed
  <2>3. ASSUME ~ overcount', NEW d \in Live', peeked'[d] > Base'
        PROVE  peeked'[d] \in Linked' /\ d \notin Passed(peeked[d])'
    <3>1. PICK f : f = peeked'[d]
      OBVIOUS
    <3>2. Passed(peeked[d])' = Passed(f)'
      BY <3>1 DEF Passed
    <3>. QED  BY <1>1, <2>2, <2>3, <3>1, <3>2
  <2>. QED  BY <2>3 DEF PeekedOwed
<1>3. MinSerialBehind' /\ BacklogBounded'
  BY <1>1 DEF UseInv, MinSerialBehind, BacklogBounded
<1>. QED  BY <1>2, <1>3 DEF UseInv

\* A step that only unlinks elements keeps the backlog within its bound.
LEMMA BacklogShrinks ==
  ASSUME TypeOK, BacklogBounded, Linked' \subseteq Linked,
         \A e \in Linked' : queue'[e].eof = queue[e].eof
  PROVE  BacklogBounded'
<1>1. IsFiniteSet(1 .. total_packets) /\ Linked \subseteq 1 .. total_packets
  BY FS_Interval DEF TypeOK
<1>2. IsFiniteSet({e \in Linked : ~ queue[e].eof})
  BY <1>1, FS_Subset
<1>3. {e \in Linked' : ~ queue'[e].eof} \subseteq {e \in Linked : ~ queue[e].eof}
  OBVIOUS
<1>4. /\ Cardinality({e \in Linked : ~ queue[e].eof})' \in Nat
      /\ Cardinality({e \in Linked : ~ queue[e].eof}) \in Nat
      /\ Cardinality({e \in Linked : ~ queue[e].eof})'
           <= Cardinality({e \in Linked : ~ queue[e].eof})
  <2> DEFINE S == {e \in Linked : ~ queue[e].eof}
             T == {e \in Linked' : ~ queue'[e].eof}
  <2>1. IsFiniteSet(S) /\ T \in SUBSET S
    BY <1>2, <1>3
  <2>2. IsFiniteSet(T) /\ Cardinality(T) <= Cardinality(S)
    BY <2>1, FS_Subset
  <2>. QED  BY <2>1, <2>2, FS_CardinalityType
<1>. QED  BY <1>4, BoundsAssumption DEF BacklogBounded

\* The serials leave room for no more than the packets that bq_producer_put counts.
LEMMA LinkedWithinSerials ==
  ASSUME IInv, MinSerialBehind
  PROVE  /\ IsFiniteSet(Linked)
         /\ Cardinality(Linked) \in Nat
         /\ Cardinality(Linked) <= next_serial - min_serial
<1>1. /\ total_packets \in Nat /\ next_serial \in Nat /\ min_serial \in Nat
      /\ Linked \subseteq 1 .. total_packets /\ next_serial <= total_packets
  BY DEF IInv, TypeOK, SerialsConsecutive
<1> DEFINE a == Base + 1 + min_serial
<1>2. a \in Nat /\ a <= total_packets + 1
  BY <1>1 DEF Base, MinSerialBehind
<1>3. \A e \in Linked : e \in a .. total_packets
  BY <1>1 DEF IInv, MinSerialBehind, SerialsConsecutive, Base
<1>4. IsFiniteSet(a .. total_packets)
      /\ Cardinality(a .. total_packets) = total_packets - a + 1
  <2> HIDE DEF a
  <2>1. /\ IsFiniteSet(a .. total_packets)
        /\ Cardinality(a .. total_packets)
             = IF a > total_packets THEN 0 ELSE total_packets - a + 1
    BY <1>1, <1>2, FS_Interval
  <2>. QED  BY <1>1, <1>2, <2>1
<1>5. total_packets - a + 1 = next_serial - min_serial
  BY <1>1 DEF Base
<1>6. Linked \subseteq a .. total_packets
  BY <1>3
<1> HIDE DEF a
<1>7. IsFiniteSet(Linked) /\ Cardinality(Linked) <= Cardinality(a .. total_packets)
  BY <1>4, <1>6, FS_Subset
<1>. QED  BY <1>4, <1>5, <1>7, FS_CardinalityType

\* Nothing but a fault changes the outcome.
LEMMA GoesOn == ASSUME process' = "runs" PROVE OnlyLateCallsFail'
BY DEF OnlyLateCallsFail

LEMMA AppendUseInv ==
  ASSUME IInv, UseInv, NEW eof \in BOOLEAN, Append(eof),
         eof \/ next_serial - min_serial < MaxBacklog
  PROVE  UseInv'
<1>0. PICK e : e = total_packets + 1
  OBVIOUS
<1>1. /\ total_packets \in Nat /\ next_serial \in Nat /\ min_serial \in Nat
      /\ MaxBacklog \in Nat /\ Linked \subseteq 1 .. total_packets
      /\ next_serial <= total_packets /\ peeked \in [Consumers -> Nat]
  BY BoundsAssumption DEF IInv, TypeOK, SerialsConsecutive
<1>2. /\ Linked' = Linked \cup {e} /\ e \notin Linked
      /\ \A f \in Linked : queue'[f] = queue[f]
      /\ queue'[e] = [seen |-> 0, serial |-> next_serial, eof |-> eof]
      /\ total_packets' = e /\ next_serial' = next_serial + 1
      /\ UNCHANGED <<min_serial, queue_serial, overcount, life, at, gen, current, peeked>>
      /\ Base' = Base /\ Live' = Live /\ \A f : Passed(f)' = Passed(f)
  BY <1>0, <1>1 DEF Append, Linked, Base, Live, Passed, InStep, consumerVars
<1>3. InUse' /\ PeekedOwed'
  BY <1>0, <1>1, <1>2 DEF UseInv, InUse, PeekedOwed
<1>4. MinSerialBehind'
  BY <1>1, <1>2 DEF UseInv, MinSerialBehind
<1>5. BacklogBounded'
  <2> DEFINE S == {f \in Linked : ~ queue[f].eof}
             T == {f \in Linked' : ~ queue'[f].eof}
  <2>1. CASE eof
    <3>1. T = S
      BY <1>2, <2>1
    <3>. QED  BY <3>1, <1>1 DEF UseInv, BacklogBounded
  <2>2. CASE ~ eof
    <3>1. T = S \cup {e} /\ e \notin S /\ S \subseteq Linked
      BY <1>2, <2>2
    <3>2. /\ IsFiniteSet(S) /\ Cardinality(S) \in Nat
          /\ Cardinality(S) <= next_serial - min_serial
      BY <1>1, <3>1, LinkedWithinSerials, FS_Subset, FS_CardinalityType DEF UseInv
    <3>3. Cardinality(T) = Cardinality(S) + 1
      BY <3>1, <3>2, FS_AddElement
    <3>. QED  BY <1>1, <2>2, <3>2, <3>3 DEF BacklogBounded
  <2>. QED  BY <2>1, <2>2
<1>6. OnlyLateCallsFail'
  BY GoesOn DEF Append, Runs
<1>. QED  BY <1>3, <1>4, <1>5, <1>6 DEF UseInv

LEMMA ResetUseInv == ASSUME IInv, UseInv, Reset PROVE UseInv'
<1>1. Linked' = {} /\ Base' = total_packets /\ total_packets \in Nat /\ MaxBacklog \in Nat
  BY BoundsAssumption DEF Reset, Linked, EmptyQueue, Base, IInv, TypeOK
<1>2. InUse' /\ PeekedOwed'
  BY <1>1 DEF UseInv, InUse, PeekedOwed, Reset, IInv, TypeOK, consumerVars, Live
<1>3. MinSerialBehind'
  BY <1>1 DEF MinSerialBehind, Reset
<1>4. {e \in Linked : ~ queue[e].eof}' = {}
  BY <1>1
<1>5. OnlyLateCallsFail'
  BY GoesOn DEF Reset, Runs
<1>. QED  BY <1>1, <1>2, <1>3, <1>4, <1>5, FS_EmptySet DEF UseInv, BacklogBounded, Reset

\* A step that cannot go on.
LEMMA FaultUseInv ==
  ASSUME IInv, UseInv, NEW o \in {"undefined", "aborted"}, Fault(o),
         overcount' \in BOOLEAN, overcount => overcount', OnlyLateCallsFail'
  PROVE  UseInv'
<1>1. Base' = Base /\ \A f : Passed(f)' = Passed(f)
  BY FaultIInv
<1>2. InUse' /\ Live' = Live
  BY DEF UseInv, InUse, Fault, Live, producerVars, consumerVars
<1>3. peeked' = peeked /\ UNCHANGED <<queue, next_serial, min_serial, total_packets>>
  BY DEF Fault, producerVars, consumerVars
<1>. QED  BY <1>1, <1>2, <1>3, QuietUseInv

\* A consumer that is not counted and whose writer is at a get or a move was killed.
LEMMA LateWriter ==
  ASSUME IInv, NEW c \in Consumers, c \notin Live, at[c] # "out"
  PROVE  life[c] = "killed"
BY DEF IInv, TypeOK, FreedOut, Live

\* Without late moves a live consumer's cursor does not dangle, and no assertion of the
\* consumers' half of bufferqueue.c can fail for it: only the head of the queue is popped,
\* and no reverse reference count exceeds the number of consumers.
LEMMA LiveGoesOn ==
  ASSUME IInv, ~ overcount, NEW c \in Live
  PROVE  /\ ~ Dangling(c) /\ ~ PopsOther(c) /\ ~ KillAborts(c)
         /\ HasElement(c) => next_serial > queue[current[c]].serial
<1>1. /\ consumers \in Nat /\ Cardinality(Live) = consumers
      /\ queue \in [Linked -> Element] /\ Linked \subseteq Nat
      /\ current[c] \in Nat /\ c \in Consumers
      /\ \A e : Passed(e) \in SUBSET Live
      /\ \A e \in Linked : queue[e].seen = Cardinality(Passed(e)) /\ queue[e].seen \in Nat
  BY DEF IInv, TypeOK, SeenCountsPassed, Live, Passed, Element
<1>2. consumers > 0
  BY <1>1, LiveFinite, FS_EmptySet
<1>3. HasElement(c) => current[c] \in Linked
  BY DEF IInv, CursorLinked, HasElement
<1>4. ~ Dangling(c)
  BY <1>3 DEF Dangling
<1>5. ~ PopsOther(c)
  BY <1>3, LastToSeeIsHead DEF PopsOther
<1>6. HasElement(c) => next_serial > queue[current[c]].serial
  <2>1. /\ next_serial \in Nat /\ total_packets \in Nat
        /\ \A e \in Linked : e <= total_packets /\ queue[e].serial = e - Base - 1
    BY DEF IInv, TypeOK, SerialsConsecutive
  <2>. QED  BY <1>1, <1>3, <2>1 DEF Base
<1>7. \A e \in Linked : queue[e].seen <= consumers - 1
  <2> SUFFICES ASSUME NEW e \in Linked PROVE Cardinality(Passed(e)) <= consumers - 1
    BY <1>1
  <2>1. PICK d \in Live : d \notin Passed(e)
    BY DEF IInv, NoSpentElement
  <2>2. Passed(e) \in SUBSET (Live \ {d}) /\ Live \ {d} \in SUBSET Live
    BY <1>1, <2>1
  <2>3. Cardinality(Live \ {d}) = consumers - 1
    BY <1>1, LiveRemove
  <2>. QED  BY <2>2, <2>3, LiveSubsets
<1>8. ASSUME HasElement(c), ~ LastToSee(c), NEW e \in Linked
      PROVE  ElemUnref(c)[e].seen <= consumers - 1 /\ ElemUnref(c)[e].seen \in Nat
  <2>1. ElemUnref(c) = [queue EXCEPT ![current[c]].seen = queue[current[c]].seen + 1]
    BY <1>1, <1>3, <1>8 DEF ElemUnref
  <2>2. queue[current[c]].seen + 1 <= consumers - 1
    BY <1>1, <1>3, <1>8 DEF LastToSee
  <2>. QED  BY <1>1, <1>3, <1>7, <1>8, <2>1, <2>2 DEF Element
<1>9. ASSUME NEW e \in DOMAIN Uncounted(c)
      PROVE  Uncounted(c)[e].seen <= consumers - 1 /\ Uncounted(c)[e].seen \in Nat
  <2>1. Passed(e) \ {c} \in SUBSET (Live \ {c}) /\ Live \ {c} \in SUBSET Live
    BY <1>1
  <2>2. Cardinality(Live \ {c}) = consumers - 1
    BY <1>1, LiveRemove
  <2>3. Cardinality(Passed(e) \ {c}) <= consumers - 1
    BY <2>1, <2>2, LiveSubsets
  <2>. QED  BY <1>4, <1>5, <2>3, UncountedCountsOthers DEF Element
<1>10. ~ OverSeen(c, consumers - 1)
  <2>1. ~ \E e \in DOMAIN Uncounted(c) : Uncounted(c)[e].seen > consumers - 1
    BY <1>1, <1>9
  <2>2. ~ (/\ HasElement(c) /\ ~ LastToSee(c)
           /\ \E e \in Linked : e <= current[c] /\ ElemUnref(c)[e].seen > consumers - 1)
    BY <1>1, <1>8
  <2>. QED  BY <2>1, <2>2 DEF OverSeen
<1>11. ~ KillAborts(c)
  BY <1>2, <1>5, <1>10 DEF KillAborts
<1>. QED  BY <1>4, <1>5, <1>6, <1>11

LEMMA GetUseInv ==
  ASSUME IInv, UseInv, NEW c \in Consumers, Get(c)
  PROVE  UseInv'
<1>1. /\ IInv' /\ Base' = Base /\ \A e : Passed(e)' = Passed(e)
  BY GetIInv
<1>2. CASE Dangling(c) /\ Fault("undefined")
  <2>1. overcount' = overcount /\ overcount \in BOOLEAN
    BY DEF Get, IInv, TypeOK
  <2>2. overcount \/ (life[c] = "killed" /\ at[c] = "get")
    BY <1>2, LiveGoesOn, LateWriter DEF Get
  <2>3. OnlyLateCallsFail'
    BY <1>2, <2>1, <2>2 DEF OnlyLateCallsFail, Fault, consumerVars
  <2>. QED  BY <1>2, <2>1, <2>3, FaultUseInv
<1>3. CASE /\ ~ Dangling(c)
           /\ \/ \E e \in Successor(c) : /\ peeked' = [peeked EXCEPT ![c] = e]
                                         /\ at' = [at EXCEPT ![c] = "sending"]
              \/ at' = [at EXCEPT ![c] = "out"] /\ UNCHANGED peeked
           /\ UNCHANGED <<queue, min_serial, consumers, life, gen, producerVars, process>>
  <2>1. /\ Live' = Live /\ Linked' = Linked /\ overcount' = overcount
        /\ UNCHANGED <<queue, min_serial, next_serial, total_packets>>
        /\ process' = "runs" /\ at[c] = "get"
    BY <1>3 DEF Get, Live, Linked, producerVars, Runs
  <2>2. OnlyLateCallsFail'
    BY <2>1, GoesOn
  <2>3. /\ Successor(c) \subseteq Linked
        /\ \A e \in Linked : e \in Nat \ {0} /\ e <= total_packets
    BY SuccessorLinked DEF IInv
  <2>4. InUse'
    BY <1>3, <2>1, <2>3 DEF UseInv, InUse, IInv, TypeOK
  <2>5. CASE \E e \in Successor(c) : peeked' = [peeked EXCEPT ![c] = e]
    <3>1. PICK e \in Successor(c) : peeked' = [peeked EXCEPT ![c] = e]
      BY <2>5
    <3>2. ASSUME ~ overcount, c \in Live PROVE c \notin Passed(e)
      <4>1. CASE InStep(c)
        <5>1. e = current[c] + 1 /\ current[c] \in Nat
          BY <3>2, <4>1, NextIsConsecutive DEF IInv, TypeOK
        <5>. QED  BY <5>1 DEF Passed
      <4>2. CASE ~ InStep(c)
        BY <4>2 DEF Passed
      <4>. QED  BY <4>1, <4>2
    <3>3. ASSUME ~ overcount', NEW d \in Live', peeked'[d] > Base', NEW f, f = peeked'[d]
          PROVE  f \in Linked' /\ d \notin Passed(f)'
      <4>1. CASE d = c
        BY <1>1, <2>1, <2>3, <3>1, <3>2, <3>3, <4>1 DEF IInv, TypeOK
      <4>2. CASE d # c
        <5>1. f = peeked[d] /\ f > Base /\ d \in Live /\ ~ overcount
          BY <1>1, <2>1, <3>1, <3>3, <4>2 DEF IInv, TypeOK
        <5>. QED  BY <1>1, <2>1, <5>1 DEF UseInv, PeekedOwed
      <4>. QED  BY <4>1, <4>2
    <3>4. PeekedOwed'
      BY <3>3 DEF PeekedOwed
    <3>5. MinSerialBehind' /\ BacklogBounded'
      BY <2>1 DEF UseInv, MinSerialBehind, BacklogBounded
    <3>. QED  BY <2>2, <2>4, <3>4, <3>5 DEF UseInv
  <2>6. CASE peeked' = peeked
    <3>1. overcount => overcount'
      BY <2>1
    <3>. QED  BY <1>1, <2>1, <2>2, <2>4, <2>6, <3>1, QuietUseInv
  <2>. QED  BY <1>3, <2>5, <2>6
<1>. QED  BY <1>2, <1>3 DEF Get

LEMMA StillUseInv ==
  ASSUME IInv, UseInv, NEW c \in Consumers,
         StartGet(c) \/ Sent(c) \/ StartKill(c) \/ ConsumerFree(c)
  PROVE  UseInv'
<1>1. /\ Base' = Base /\ \A f : Passed(f)' = Passed(f)
  BY StillIInv
<1>2. /\ UNCHANGED <<queue, next_serial, min_serial, total_packets, overcount>>
      /\ process' = "runs" /\ Live' = Live
  BY DEF StartGet, Sent, StartKill, ConsumerFree, queueVars, producerVars, Runs, IInv, TypeOK,
     Live
<1>3. InUse' /\ \A d \in Live : peeked'[d] \in {peeked[d], NULL}
  BY <1>2 DEF StartGet, Sent, StartKill, ConsumerFree, UseInv, InUse, IInv, TypeOK, NULL, Live
<1>4. OnlyLateCallsFail'
  BY <1>2, GoesOn
<1>. QED  BY <1>1, <1>2, <1>3, <1>4, QuietUseInv

LEMMA ConsumerNewUseInv ==
  ASSUME IInv, UseInv, NEW c \in Consumers, ConsumerNew(c)
  PROVE  UseInv'
<1>1. /\ Live' = Live \cup {c} /\ c \notin Live /\ Linked' = Linked /\ Base' = Base
      /\ UNCHANGED <<queue, next_serial, min_serial, total_packets, queue_serial, peeked,
                     at, overcount>>
      /\ process' = "runs" /\ at[c] = "out" /\ Base \in Nat
  BY DEF ConsumerNew, Live, Linked, Base, producerVars, Runs, IInv, TypeOK, FreedOut,
     SerialsConsecutive
<1>2. \A d \in Live : \A f : d \in Passed(f)' <=> d \in Passed(f)
  BY <1>1 DEF ConsumerNew, Passed, InStep, IInv, TypeOK, Live
<1>3. InUse' /\ peeked[c] = NULL
  BY <1>1 DEF UseInv, InUse
<1>4. PeekedOwed'
  <2>1. ASSUME ~ overcount, NEW d \in Live', peeked[d] > Base, NEW f, f = peeked[d]
        PROVE  f \in Linked' /\ d \notin Passed(f)'
    <3>1. d \in Live
      BY <1>1, <1>3, <2>1 DEF NULL
    <3>. QED  BY <1>1, <1>2, <2>1, <3>1 DEF UseInv, PeekedOwed
  <2>. QED  BY <1>1, <2>1 DEF PeekedOwed
<1>5. MinSerialBehind' /\ BacklogBounded'
  BY <1>1 DEF UseInv, MinSerialBehind, BacklogBounded
<1>. QED  BY <1>1, <1>3, <1>4, <1>5, GoesOn DEF UseInv


\* An unref keeps min_serial behind the elements that stay: it pops the head only.
LEMMA UnrefMinSerial ==
  ASSUME IInv, MinSerialBehind, NEW c \in Consumers, ~ Dangling(c), ~ PopsOther(c),
         min_serial' = MinSerialAfterUnref(c), next_serial' = next_serial,
         Linked' \subseteq Linked,
         \A e \in Linked' : queue'[e].serial = queue[e].serial
  PROVE  MinSerialBehind'
<1>1. CASE min_serial' = min_serial
  BY <1>1 DEF MinSerialBehind
<1>2. CASE HasElement(c) /\ LastToSee(c) /\ min_serial' = queue[current[c]].serial
  <2>1. current[c] \in Linked /\ \A e \in Linked : current[c] <= e
    BY <1>2 DEF PopsOther, Least
  <2>2. \A e \in Linked : e \in Nat /\ e <= total_packets /\ queue[e].serial = e - Base - 1
    <3>1. Linked \subseteq 1 .. total_packets /\ total_packets \in Nat
      BY DEF IInv, TypeOK
    <3>2. \A e \in Linked : queue[e].serial = e - Base - 1
      BY DEF IInv, SerialsConsecutive
    <3>. QED  BY <3>1, <3>2
  <2>3. total_packets \in Nat /\ next_serial \in Nat
    BY DEF IInv, TypeOK
  <2>. QED  BY <1>2, <2>1, <2>2, <2>3 DEF MinSerialBehind, Base
<1>. QED  BY <1>1, <1>2 DEF MinSerialAfterUnref

LEMMA MovesToUseInv ==
  ASSUME IInv, UseInv, NEW c \in Consumers, NEW e, MovesTo(c, e), process = "runs"
  PROVE  UseInv'
<1>0. PICK k : k = current[c]
  OBVIOUS
<1>1. /\ Live' = Live /\ Base' = Base
      /\ UNCHANGED <<next_serial, queue_serial, total_packets, producer, consumers>>
      /\ \A d \in Consumers \ {c} : InStep(d)' = InStep(d) /\ current'[d] = current[d]
      /\ c \notin Live /\ ~ overcount' => ~ HasElement(c)
      /\ ~ overcount' => ~ overcount
  BY <1>0, MovesToEffect
<1>2. /\ Linked' \subseteq Linked
      /\ \A f \in Linked' : /\ queue'[f].serial = queue[f].serial
                            /\ queue'[f].eof = queue[f].eof
      /\ \A f \in Linked \ Linked' : HasElement(c) /\ LastToSee(c) /\ f = k
  BY <1>0, UnrefElements DEF MovesTo, Linked, IInv
<1>3. InUse'
  BY <1>1 DEF MovesTo, UseInv, InUse, IInv, TypeOK
<1>4. PeekedOwed'
  <2>1. peeked[c] = NULL /\ peeked' = peeked /\ ~ (NULL > Base)
    BY DEF MovesTo, UseInv, InUse, IInv, TypeOK, SerialsConsecutive, Base, NULL
  <2>2. ASSUME ~ overcount', NEW d \in Live', peeked'[d] > Base', NEW f, f = peeked'[d]
        PROVE  f \in Linked' /\ d \notin Passed(f)'
    <3>1. d \in Live /\ d # c /\ ~ overcount /\ d \in Consumers
      BY <1>1, <2>1, <2>2 DEF Live
    <3>2. f \in Linked /\ d \notin Passed(f)
      BY <1>1, <2>1, <2>2, <3>1 DEF UseInv, PeekedOwed
    <3>3. d \notin Passed(f)'
      BY <1>1, <3>1, <3>2 DEF Passed
    <3>4. f \in Linked'
      <4> SUFFICES ASSUME f \notin Linked' PROVE FALSE
        OBVIOUS
      <4>1. HasElement(c) /\ LastToSee(c) /\ f = current[c]
        BY <1>0, <1>2, <3>2
      <4>2. c \in Live
        BY <1>1, <2>2, <4>1
      <4>3. Passed(current[c]) \cup {c} = Live
        BY <3>1, <4>1, <4>2, LastToSeeIsHead
      <4>. QED  BY <3>1, <3>2, <4>1, <4>3
    <3>. QED  BY <3>3, <3>4
  <2>. QED  BY <2>2 DEF PeekedOwed
<1>5. MinSerialBehind'
  BY <1>1, <1>2, UnrefMinSerial DEF MovesTo, UseInv
<1>6. BacklogBounded'
  BY <1>2, BacklogShrinks DEF UseInv, IInv
<1>7. OnlyLateCallsFail'
  BY GoesOn DEF MovesTo
<1>. QED  BY <1>3, <1>4, <1>5, <1>6, <1>7 DEF UseInv

LEMMA MoveUseInv ==
  ASSUME IInv, UseInv, NEW c \in Consumers, Move(c)
  PROVE  UseInv'
<1>1. at[c] = "move" /\ process = "runs" /\ overcount \in BOOLEAN
  BY DEF Move, Runs, IInv, TypeOK
<1>2. c \in Live \/ life[c] = "killed"
  BY <1>1, LateWriter
<1>3. CASE Dangling(c) /\ Fault("undefined") /\ UNCHANGED overcount
  <2>1. overcount \/ life[c] = "killed"
    BY <1>2, <1>3, LiveGoesOn
  <2>2. OnlyLateCallsFail'
    BY <1>1, <1>3, <2>1 DEF OnlyLateCallsFail, Fault, consumerVars
  <2>3. overcount' \in BOOLEAN /\ (overcount => overcount')
    BY <1>1, <1>3
  <2>. QED  BY <1>3, <2>2, <2>3, FaultUseInv
<1>4. CASE PopsOther(c) /\ Fault("aborted") /\ overcount' = (overcount \/ Overcounts(c))
  <2>1. overcount \/ Overcounts(c)
    BY <1>2, <1>4, LiveGoesOn DEF PopsOther, Overcounts
  <2>2. overcount' = TRUE
    BY <1>4, <2>1, Zenon
  <2>3. OnlyLateCallsFail'
    BY <1>4, <2>2 DEF OnlyLateCallsFail, Fault
  <2>. QED  BY <1>4, <2>2, <2>3, FaultUseInv
<1>5. ASSUME NEW e \in Successor(c), MovesTo(c, e) PROVE UseInv'
  BY <1>1, <1>5, MovesToUseInv
<1>6. CASE /\ current' = [current EXCEPT ![c] = Cursor(c)]
           /\ at' = [at EXCEPT ![c] = "out"]
           /\ UNCHANGED <<queueVars, life, gen, peeked, producerVars, process>>
  <2>1. /\ UNCHANGED <<queue, next_serial, min_serial, total_packets, queue_serial,
                       overcount, peeked>>
        /\ Live' = Live /\ Base' = Base /\ process' = "runs"
    BY <1>1, <1>6 DEF queueVars, producerVars, Live, Base
  <2>2. \A d \in Live : /\ InStep(d)' <=> InStep(d)
                        /\ InStep(d) => current'[d] = current[d]
    BY <1>6, <2>1 DEF InStep, Cursor, IInv, TypeOK, Live
  <2>3. \A f : Passed(f)' = Passed(f)
    BY <2>1, <2>2 DEF Passed
  <2>4. InUse'
    BY <1>1, <1>6, <2>1 DEF UseInv, InUse, IInv, TypeOK
  <2>5. OnlyLateCallsFail'
    BY <2>1, GoesOn
  <2>. QED  BY <2>1, <2>3, <2>4, <2>5, QuietUseInv
<1>7. \/ Dangling(c) /\ Fault("undefined") /\ UNCHANGED overcount
      \/ PopsOther(c) /\ Fault("aborted") /\ overcount' = (overcount \/ Overcounts(c))
      \/ \E e \in Successor(c) : MovesTo(c, e)
      \/ /\ current' = [current EXCEPT ![c] = Cursor(c)]
         /\ at' = [at EXCEPT ![c] = "out"]
         /\ UNCHANGED <<queueVars, life, gen, peeked, producerVars, process>>
  BY DEF Move, MoveOn, MovesTo
<1>. QED  BY <1>3, <1>4, <1>5, <1>6, <1>7

LEMMA LeaveUseInv ==
  ASSUME IInv, UseInv, NEW c \in Consumers, Leaves(c), process = "runs"
  PROVE  UseInv'
<1>1. /\ c \in Live /\ Live' = Live \ {c} /\ Base' = Base
      /\ ~ Dangling(c) /\ ~ PopsOther(c)
      /\ UNCHANGED <<next_serial, total_packets, peeked, at>>
      /\ min_serial' = MinSerialAfterUnref(c)
      /\ overcount' = (overcount /\ consumers # 1)
      /\ \A e : Passed(e)' = Passed(e) \ {c}
      /\ consumers = 1 => Live' = {}
  BY KillEffect
<1>2. /\ Linked' \subseteq Linked
      /\ \A e \in Linked' : /\ queue'[e].serial = queue[e].serial
                            /\ queue'[e].eof = queue[e].eof
  BY KillShrinks
<1>3. InUse'
  BY <1>1 DEF UseInv, InUse
<1>4. PeekedOwed'
  <2>1. ASSUME ~ overcount', NEW d \in Live', peeked'[d] > Base', NEW f, f = peeked'[d]
        PROVE  f \in Linked' /\ d \notin Passed(f)'
    <3>1. ~ overcount /\ d \in Live \ {c}
      BY <1>1, <2>1
    <3>2. f \in Linked /\ d \notin Passed(f)
      BY <1>1, <2>1, <3>1 DEF UseInv, PeekedOwed
    <3>. QED  BY <1>1, <3>1, <3>2, KillKeeps
  <2>. QED  BY <2>1 DEF PeekedOwed
<1>5. MinSerialBehind'
  BY <1>1, <1>2, UnrefMinSerial DEF UseInv
<1>6. BacklogBounded'
  BY <1>2, BacklogShrinks DEF UseInv, IInv
<1>7. OnlyLateCallsFail'
  BY GoesOn DEF Leaves, Leave
<1>. QED  BY <1>3, <1>4, <1>5, <1>6, <1>7 DEF UseInv

\* The faults of a counted consumer need a late move of another.
LEMMA LiveFaultUseInv ==
  ASSUME IInv, UseInv, NEW o \in {"undefined", "aborted"}, Fault(o), UNCHANGED overcount,
         overcount
  PROVE  UseInv'
<1>1. overcount' \in BOOLEAN /\ (overcount => overcount')
  BY DEF IInv, TypeOK
<1>2. OnlyLateCallsFail'
  BY DEF OnlyLateCallsFail
<1>. QED  BY <1>1, <1>2, FaultUseInv

LEMMA ConsumerKillUseInv ==
  ASSUME IInv, UseInv, NEW c \in Consumers, ConsumerKill(c)
  PROVE  UseInv'
<1>1. c \in Live /\ process = "runs"
  BY DEF ConsumerKill, Live, Runs
<1>2. CASE Leaves(c)
  BY <1>1, <1>2, LeaveUseInv
<1>3. ASSUME NEW o \in {"undefined", "aborted"}, Fault(o), UNCHANGED overcount,
             Dangling(c) \/ KillAborts(c)
      PROVE  UseInv'
  <2>1. overcount
    BY <1>1, <1>3, LiveGoesOn
  <2>. QED  BY <1>3, <2>1, LiveFaultUseInv
<1>4. \/ \E o \in {"undefined", "aborted"} :
           Fault(o) /\ UNCHANGED overcount /\ (Dangling(c) \/ KillAborts(c))
      \/ Leaves(c)
  BY DEF ConsumerKill, Leaves
<1>. QED  BY <1>2, <1>3, <1>4

LEMMA UnseenUseInv ==
  ASSUME IInv, UseInv, NEW c \in Consumers, Unseen(c)
  PROVE  UseInv'
<1>1. /\ c \in Live /\ HasElement(c) /\ UNCHANGED overcount
      /\ \E o \in {"undefined", "aborted"} : Fault(o)
      /\ Dangling(c) \/ next_serial <= queue[current[c]].serial
  BY DEF Unseen, Live
<1>2. overcount
  <2> SUFFICES ASSUME ~ overcount PROVE FALSE
    OBVIOUS
  <2>1. ~ Dangling(c) /\ next_serial > queue[current[c]].serial /\ current[c] \in Linked
    BY <1>1, LiveGoesOn DEF Dangling
  <2>2. next_serial \in Nat /\ queue[current[c]].serial \in Nat
    BY <2>1 DEF IInv, TypeOK, Element
  <2>. QED  BY <1>1, <2>1, <2>2
<1>. QED  BY <1>1, <1>2, LiveFaultUseInv

LEMMA NextUseInv == IInv /\ UseInv /\ [Next]_vars => UseInv'
<1> SUFFICES ASSUME IInv, UseInv, [Next]_vars PROVE UseInv'
  OBVIOUS
<1>1. ASSUME UNCHANGED <<queueVars, next_serial, queue_serial, total_packets, consumerVars,
                         process>>
      PROVE  UseInv'
  <2>1. /\ UNCHANGED <<queue, next_serial, min_serial, total_packets, overcount, peeked>>
        /\ Live' = Live /\ Base' = Base /\ \A f : Passed(f)' = Passed(f)
    BY <1>1 DEF queueVars, consumerVars, Live, Base, Passed, InStep
  <2>2. InUse' /\ OnlyLateCallsFail'
    BY <1>1 DEF queueVars, consumerVars, UseInv, InUse, OnlyLateCallsFail
  <2>3. \A d \in Live : peeked'[d] \in {peeked[d], NULL}
    BY <2>1
  <2>. QED  BY <2>1, <2>2, <2>3, QuietUseInv
<1>2. CASE UNCHANGED vars
  BY <1>1, <1>2 DEF vars, producerVars
<1>3. CASE Put
  BY <1>3, AppendUseInv DEF Put
<1>4. CASE PutEof
  BY <1>4, AppendUseInv DEF PutEof
<1>5. CASE PutFull
  BY <1>1, <1>5 DEF PutFull
<1>6. CASE PutFullReset \/ Seek
  BY <1>6, ResetUseInv DEF PutFullReset, Seek
<1>7. ASSUME NEW c \in Consumers, ConsumerNew(c) PROVE UseInv'
  BY <1>7, ConsumerNewUseInv
<1>8. ASSUME NEW c \in Consumers, Get(c) PROVE UseInv'
  BY <1>8, GetUseInv
<1>9. ASSUME NEW c \in Consumers, Move(c) PROVE UseInv'
  BY <1>9, MoveUseInv
<1>10. ASSUME NEW c \in Consumers, ConsumerKill(c) PROVE UseInv'
  BY <1>10, ConsumerKillUseInv
<1>11. ASSUME NEW c \in Consumers,
              StartGet(c) \/ Sent(c) \/ StartKill(c) \/ ConsumerFree(c) PROVE UseInv'
  BY <1>11, StillUseInv
<1>12. ASSUME NEW c \in Consumers, Unseen(c) PROVE UseInv'
  BY <1>12, UnseenUseInv
<1>13. CASE Crashed
  <2>1. UNCHANGED vars
    BY <1>13, Zenon DEF Crashed
  <2>. QED  BY <1>2, <2>1, Zenon
<1>14. CASE \E c \in Consumers :
              \/ ConsumerNew(c) \/ StartGet(c) \/ Get(c) \/ Sent(c) \/ Move(c) \/ Unseen(c)
              \/ StartKill(c) \/ ConsumerKill(c) \/ ConsumerFree(c)
  BY <1>7, <1>8, <1>9, <1>10, <1>11, <1>12, <1>14, Zenon
<1>. QED
  BY <1>2, <1>3, <1>4, <1>5, <1>6, <1>13, <1>14, Zenon DEF Next

\* The strengthening holds in every reachable state.
THEOREM Invariance == Spec => []IInv
BY InitIInv, NextIInv, PTL DEF Spec

THEOREM UseInvariance == Spec => []UseInv
BY InitIInv, NextIInv, InitUseInv, NextUseInv, PTL DEF Spec

\* Every variable keeps its type for any number of consumers and any backlog: no
\* sequence of kills and late moves drives a reverse reference count or the consumer count
\* below zero.
THEOREM TypeCorrect == Spec => []TypeOK
BY Invariance, PTL DEF IInv

\* The producer counts its consumers exactly, wherever in their cycle they are killed, and
\* the reverse reference count of every element is exactly the number of counted consumers
\* that have left it; the move of a killed writer may make it too large, never too small.
THEOREM CountsExact == Spec => []SeenCountsPassed
BY Invariance, PTL DEF IInv

\* No linked element has been left by all the counted consumers, unless a killed writer's
\* move was counted in the queue in use.
THEOREM NoneSpent == Spec => []NoSpentElement
BY Invariance, PTL DEF IInv

\* The cursor of a counted consumer that is in step is never a freed element, unless a
\* killed writer's move was counted in the queue in use; a kill in the middle of another
\* writer's cycle does not free it.
THEOREM CursorsLinked == Spec => []CursorLinked
BY Invariance, PTL DEF IInv

\* A payload that bq_consumer_get handed out stays allocated until its reader moves on,
\* whatever the other consumers do, kills as they send included, unless the whole queue is
\* reset in between, the reader itself is killed or a killed writer's move was counted.
THEOREM PayloadsKept == Spec => []PeekedLinked
<1>1. UseInv => PeekedLinked
  BY DEF UseInv, PeekedOwed, PeekedLinked
<1>. QED  BY UseInvariance, <1>1, PTL

\* The two serials that bq_producer_put compares keep the queue within max_backlog
\* packets for every number of consumers, also when kills free elements unrecorded.
THEOREM BacklogKept == Spec => []BacklogBounded
<1>1. UseInv => BacklogBounded
  BY DEF UseInv
<1>. QED  BY UseInvariance, <1>1, PTL

\* For every number of consumers and loops and every backlog, no assertion of the
\* consumers' half of bufferqueue.c fails and no freed element is read, but for what a
\* writer does after the kill of its own consumer.
THEOREM NoAssertionFails == Spec => []OnlyLateCallsFail
<1>1. UseInv => OnlyLateCallsFail
  BY DEF UseInv
<1>. QED  BY UseInvariance, <1>1, PTL

\* Within one queue a counted consumer reads consecutive packets, also past the kill of
\* another that is sending: elements are freed so exactly that none is lost to a slower
\* reader.
THEOREM NoPacketSkipped == Spec => ReadsEveryPacket
<1>1. IInv /\ [Next]_vars =>
        [\A c \in Live :
           (/\ ~ overcount'
            /\ InStep(c) /\ gen'[c] = gen[c]
            /\ current'[c] # current[c] /\ current[c] # NULL /\ c \in Live')
             => current'[c] = current[c] + 1]_vars
  <2> SUFFICES ASSUME IInv, Next, NEW c \in Live, ~ overcount', InStep(c),
                      current'[c] # current[c], c \in Live'
               PROVE  current'[c] = current[c] + 1
    OBVIOUS
  <2>1. /\ c \in Consumers /\ current \in [Consumers -> Nat]
        /\ life[c] \in {"live", "killing"} /\ life'[c] \in {"live", "killing"}
    BY DEF Live, IInv, TypeOK
  <2>2. PICK d \in Consumers :
          \/ Move(d) \/ Get(d) \/ ConsumerNew(d) \/ ConsumerKill(d) \/ ConsumerFree(d)
    <3>1. current' # current
      OBVIOUS
    <3>2. CASE Put \/ PutEof \/ PutFull \/ PutFullReset \/ Seek \/ Crashed
      BY <3>1, <3>2 DEF Put, PutEof, Append, PutFull, PutFullReset, Seek, Reset, Crashed,
         consumerVars, vars
    <3>3. CASE \E d \in Consumers :
                 \/ ConsumerNew(d) \/ StartGet(d) \/ Get(d) \/ Sent(d) \/ Move(d) \/ Unseen(d)
                 \/ StartKill(d) \/ ConsumerKill(d) \/ ConsumerFree(d)
      BY <3>1, <3>3 DEF StartGet, Sent, Unseen, StartKill, Fault, consumerVars
    <3>. QED  BY <3>2, <3>3, Zenon DEF Next
  <2>3. ~ ConsumerNew(d) \/ d # c
    BY <2>1 DEF ConsumerNew
  <2>4. ~ ConsumerFree(d) \/ d # c
    BY <2>1 DEF ConsumerFree
  <2>5. ~ ConsumerKill(d) \/ d # c
    BY <2>1, <2>2 DEF ConsumerKill, Fault, Leave, consumerVars, IInv, TypeOK
  <2>6. d # c => current'[c] = current[c]
    BY <2>1, <2>2 DEF Move, MoveOn, Get, ConsumerNew, ConsumerKill, ConsumerFree, Fault, Leave,
       consumerVars
  <2>7. d = c
    BY <2>6
  <2>8. ~ Get(c)
    BY <2>1 DEF Get, Cursor, Fault, consumerVars
  <2>9. PICK e \in Successor(c) : MovesTo(c, e)
    BY <2>1, <2>2, <2>3, <2>4, <2>5, <2>7, <2>8
       DEF Move, MoveOn, MovesTo, Cursor, Fault, consumerVars
  <2>10. current'[c] = e /\ ~ overcount
    BY <2>1, <2>9 DEF MovesTo
  <2>. QED  BY <2>9, <2>10, NextIsConsecutive
<1>. QED  BY <1>1, Invariance, PTL DEF Spec, ReadsEveryPacket

--------------------------------------------------------------------------------
(* The queue implements the broadcast log.                                   *)

\* The oldest packet kept is the head of the queue, or the next packet to come.
HeadIsOldest ==
  /\ Linked = {} => OldestLinked = total_packets + 1
  /\ Linked # {} => OldestLinked \in Linked /\ \A e \in Linked : OldestLinked <= e
  /\ \A e \in Least(Linked) : e = OldestLinked

\* Without a consumer that starts over, the head of the queue is the cursor that is
\* furthest behind.
HeadIsSlowest ==
  ~ overcount /\ Live # {} /\ (\A c \in Live : InStep(c)) =>
    /\ \A c \in Live : OldestLinked <= current[c]
    /\ \E c \in Live : OldestLinked = current[c]

LEMMA OldestIsHead == IInv => HeadIsOldest
<1> SUFFICES ASSUME IInv PROVE HeadIsOldest
  OBVIOUS
<1>1. Linked \in SUBSET Nat
  BY DEF IInv, TypeOK
<1>2. \A e \in Least(Linked) : e \in Linked /\ \A f \in Linked : e <= f
  BY DEF Least
<1>3. ASSUME Linked # {} PROVE OldestLinked \in Least(Linked)
  <2>1. \E e \in Linked : e \in Least(Linked)
    BY <1>1, <1>3, NatLeast DEF Least
  <2>. QED  BY <1>3, <2>1 DEF OldestLinked
<1>4. \A e \in Least(Linked) : e = OldestLinked
  <2> SUFFICES ASSUME NEW e \in Least(Linked) PROVE e = OldestLinked
    OBVIOUS
  <2>1. /\ e \in Linked /\ OldestLinked \in Linked
        /\ e <= OldestLinked /\ OldestLinked <= e
    BY <1>2, <1>3
  <2>2. e \in Nat /\ OldestLinked \in Nat
    BY <1>1, <2>1
  <2>. QED  BY <2>1, <2>2
<1>5. Linked = {} => OldestLinked = total_packets + 1
  BY DEF OldestLinked
<1>. QED  BY <1>2, <1>3, <1>4, <1>5 DEF HeadIsOldest

LEMMA OldestIsSlowest == IInv => HeadIsSlowest
<1> SUFFICES ASSUME IInv, ~ overcount, Live # {}, \A c \in Live : InStep(c)
             PROVE  /\ \A c \in Live : OldestLinked <= current[c]
                    /\ \E c \in Live : OldestLinked = current[c]
  BY DEF HeadIsSlowest
<1>1. \A c \in Live : current[c] \in Linked
  BY DEF IInv, CursorLinked
<1>2. OldestLinked \in Linked /\ \A e \in Linked : OldestLinked <= e
  BY <1>1, OldestIsHead DEF HeadIsOldest
<1>3. PICK c \in Live : c \notin Passed(OldestLinked)
  BY <1>2 DEF IInv, NoSpentElement
<1>4. Linked \subseteq Nat
  BY DEF IInv, TypeOK
<1>5. ~ (current[c] > OldestLinked)
  BY <1>3 DEF Passed
<1>6. OldestLinked = current[c]
  <2>1. current[c] \in Nat /\ OldestLinked \in Nat /\ OldestLinked <= current[c]
    BY <1>1, <1>2, <1>4
  <2>. QED  BY <1>5, <2>1
<1>. QED  BY <1>1, <1>2, <1>6

LEMMA OldestNext == IInv' => HeadIsOldest' /\ HeadIsSlowest'
BY OldestIsHead, OldestIsSlowest, PTL

\* What a step leaves is owed: with somebody who starts over nothing was freed, else the
\* slowest cursor decides.
LEMMA OldestIsOwed ==
  ASSUME IInv, IInv', ~ overcount', Live' # {}, total_packets' = total_packets,
         (\E c \in Live' : ~ InStep(c)') => OldestLinked' = OldestLinked
  PROVE  OldestLinked' = Log!OldestOwed(LogCursor')
<1>1. \A c \in Consumers :
        LogCursor'[c] = IF c \notin Live' THEN -1 ELSE IF InStep(c)' THEN current'[c] ELSE 0
  BY DEF LogCursor
<1>2. /\ Live' \subseteq Consumers
      /\ \A c \in Live' : InStep(c)' => current'[c] \in Nat \ {0}
  BY DEF Live, IInv, TypeOK, CursorLinked
<1>3. Log!Present(LogCursor') = Live'
  BY <1>1, <1>2 DEF Log!Present, Log!Absent
<1>4. CASE \E c \in Live' : ~ InStep(c)'
  <2>1. \E c \in Live' : LogCursor'[c] = Log!Fresh
    BY <1>1, <1>2, <1>4 DEF Log!Fresh
  <2>. QED  BY <1>3, <1>4, <2>1 DEF Log!OldestOwed
<1>5. CASE \A c \in Live' : InStep(c)'
  <2>1. /\ \A c \in Live' : OldestLinked' <= current'[c]
        /\ \E c \in Live' : OldestLinked' = current'[c]
    BY <1>5, OldestNext DEF HeadIsSlowest
  <2>2. \A c \in Live' : LogCursor'[c] = current'[c] /\ LogCursor'[c] # Log!Fresh
    BY <1>1, <1>2, <1>5 DEF Log!Fresh
  <2>3. ~ \E c \in Live' : LogCursor'[c] = Log!Fresh
    BY <2>2
  <2> DEFINE P == {LogCursor'[c] : c \in Live'}
  <2>4. OldestLinked' \in P /\ \A c \in Live' : OldestLinked' <= LogCursor'[c]
    BY <2>1, <2>2
  <2>5. \A p \in P : (\A c \in Live' : p <= LogCursor'[c]) => p = OldestLinked'
    <3>1. \A p \in P : p \in Nat
      BY <1>2, <1>5, <2>2
    <3>. QED  BY <2>4, <3>1
  <2>6. OldestLinked' = CHOOSE p \in P : \A c \in Live' : p <= LogCursor'[c]
    BY <2>4, <2>5
  <2>. QED  BY <1>3, <2>3, <2>6 DEF Log!OldestOwed
<1>. QED  BY <1>4, <1>5

\* The initial queue is the empty log.
LEMMA InitLog == Init => Log!Init
<1> SUFFICES ASSUME Init PROVE Log!Init
  OBVIOUS
<1>1. Linked = {} /\ Live = {}
  BY DEF Init, Linked, EmptyQueue, Live
<1>2. OldestLinked = 1
  BY <1>1 DEF OldestLinked, Init
<1>3. LogCursor = [c \in Consumers |-> -1]
  BY <1>1 DEF LogCursor
<1>. QED  BY <1>2, <1>3 DEF Init, Log!Init, Log!Absent

\* Each put publishes.
LEMMA AppendLog == ASSUME IInv, NEW eof \in BOOLEAN, Append(eof) PROVE Log!Publish
<1>0. PICK e : e = total_packets + 1
  OBVIOUS
<1>1. /\ total_packets \in Nat /\ Linked \subseteq 1 .. total_packets
      /\ Linked' = Linked \cup {e} /\ total_packets' = e
      /\ UNCHANGED <<queue_serial, life, gen, current>>
  BY <1>0 DEF Append, Linked, IInv, TypeOK, consumerVars
<1>2. LogCursor' = LogCursor
  BY <1>1 DEF LogCursor, Live, InStep
<1>3. OldestLinked' = OldestLinked
  <2>1. IInv'
    BY AppendIInv
  <2>2. OldestLinked' \in Linked' /\ \A f \in Linked' : OldestLinked' <= f
    BY <1>1, <2>1, OldestNext DEF HeadIsOldest
  <2>3. CASE Linked = {}
    <3>1. OldestLinked = e
      BY <1>0, <2>3 DEF OldestLinked
    <3>. QED  BY <1>1, <2>2, <2>3, <3>1
  <2>4. CASE Linked # {}
    <3>1. OldestLinked \in Linked /\ \A f \in Linked : OldestLinked <= f
      BY <2>4, OldestIsHead DEF HeadIsOldest
    <3>2. /\ OldestLinked \in Nat /\ OldestLinked' \in Nat
          /\ OldestLinked' <= OldestLinked /\ OldestLinked < e
      BY <1>0, <1>1, <2>2, <3>1
    <3>3. OldestLinked' \in Linked
      BY <1>1, <2>2, <3>2
    <3>. QED  BY <3>1, <3>2, <3>3
  <2>. QED  BY <2>3, <2>4
<1>. QED  BY <1>0, <1>1, <1>2, <1>3 DEF Log!Publish

\* Both resets discard what is kept.
LEMMA ResetLog == ASSUME IInv, Reset PROVE Log!Discard
<1>1. Linked' = {} /\ Live' = Live /\ total_packets' = total_packets
  BY DEF Reset, Linked, EmptyQueue, Live, consumerVars
<1>2. \A c \in Consumers : ~ InStep(c)'
  BY DEF Reset, IInv, GenBounded, InStep, TypeOK, consumerVars
<1>3. OldestLinked' = total_packets + 1
  BY <1>1 DEF OldestLinked
<1>4. LogCursor' = [c \in Consumers |-> IF LogCursor[c] = -1 THEN -1 ELSE 0]
  <2>1. LogCursor' = [c \in Consumers |-> IF c \notin Live THEN -1 ELSE 0]
    BY <1>1, <1>2 DEF LogCursor
  <2>2. \A c \in Consumers : LogCursor[c] = -1 <=> c \notin Live
    BY DEF LogCursor, IInv, TypeOK
  <2>. QED  BY <2>1, <2>2
<1>. QED  BY <1>1, <1>3, <1>4 DEF Log!Discard, Log!Absent, Log!Fresh

\* A new consumer joins at the oldest packet.
LEMMA ConsumerNewLog ==
  ASSUME IInv, NEW c \in Consumers, ConsumerNew(c)
  PROVE  Log!Join(c)
<1>1. /\ Live' = Live \cup {c} /\ c \notin Live /\ ~ InStep(c)'
      /\ queue' = queue /\ total_packets' = total_packets
      /\ \A d \in Consumers \ {c} : InStep(d)' = InStep(d) /\ current'[d] = current[d]
  BY DEF ConsumerNew, Live, producerVars, InStep, IInv, TypeOK
<1>2. OldestLinked' = OldestLinked
  BY <1>1 DEF OldestLinked, Linked
<1>3. LogCursor[c] = -1 /\ LogCursor' = [LogCursor EXCEPT ![c] = 0]
  BY <1>1 DEF LogCursor
<1>. QED  BY <1>1, <1>2, <1>3 DEF Log!Join, Log!Absent, Log!Fresh

\* A successful move of a counted consumer reads the next packet, or the oldest one after a
\* start.
LEMMA LiveMoveLog ==
  ASSUME IInv, ~ overcount', NEW c \in Live, NEW e, MovesTo(c, e)
  PROVE  Log!Read(c)
<1>0. PICK k : k = current[c]
  OBVIOUS
<1>1. /\ c \in Consumers /\ Live' = Live /\ ~ overcount
      /\ UNCHANGED <<total_packets, queue_serial>>
      /\ \A d \in Consumers \ {c} : InStep(d)' = InStep(d) /\ current'[d] = current[d]
      /\ e \in Linked /\ InStep(c)' /\ current'[c] = e
  <2>1. c \in Consumers
    BY DEF Live
  <2>. QED  BY <1>0, <2>1, MovesToEffect
<1>2. /\ Linked' \subseteq Linked
      /\ \A f \in Linked \ Linked' : HasElement(c) /\ LastToSee(c) /\ f = k
  BY <1>0, <1>1, UnrefElements DEF MovesTo, Linked, IInv
<1>3. /\ Live \subseteq Consumers /\ Linked \subseteq 1 .. total_packets
      /\ total_packets \in Nat /\ IInv' /\ current[c] \in Nat
  BY LiveMoveIInv DEF IInv, TypeOK, Live
<1>4. e \in Nat /\ e # 0 /\ e <= total_packets
  BY <1>1, <1>3
<1>5. LogCursor' = [LogCursor EXCEPT ![c] = e]
  <2>1. \A d \in Consumers : LogCursor'[d] = IF d = c THEN e ELSE LogCursor[d]
    BY <1>1 DEF LogCursor
  <2>. QED  BY <2>1 DEF LogCursor
<1>6. e = IF LogCursor[c] = 0 THEN OldestLinked ELSE LogCursor[c] + 1
  <2>1. CASE InStep(c)
    <3>1. current[c] # 0 /\ e = current[c] + 1
      BY <1>1, <2>1, NextIsConsecutive DEF HasElement, NULL, MovesTo
    <3>. QED  BY <1>1, <2>1, <3>1 DEF LogCursor
  <2>2. CASE ~ InStep(c)
    <3>1. e \in Least(Linked) /\ LogCursor[c] = 0
      BY <1>1, <2>2 DEF Successor, HasElement, LogCursor, MovesTo
    <3>. QED  BY <3>1, OldestIsHead DEF HeadIsOldest
  <2>. QED  BY <2>1, <2>2
<1>7. LogCursor[c] # -1
  BY <1>1, <1>3 DEF LogCursor
<1>8. ASSUME NEW d \in Live', ~ InStep(d)' PROVE OldestLinked' = OldestLinked
  <2>1. d \in Live \ {c} /\ ~ InStep(d)
    BY <1>1, <1>3, <1>8
  <2>2. \A f : d \notin Passed(f)
    BY <2>1 DEF Passed
  <2>3. Linked' = Linked
    <3>1. ASSUME NEW f \in Linked \ Linked' PROVE FALSE
      <4>1. HasElement(c) /\ LastToSee(c) /\ f = current[c]
        BY <1>0, <1>2, <3>1
      <4>2. Passed(current[c]) \cup {c} = Live
        BY <1>1, <4>1, LastToSeeIsHead
      <4>. QED  BY <2>1, <2>2, <4>2
    <3>. QED  BY <1>2, <3>1
  <2>. QED  BY <1>1, <2>3 DEF OldestLinked, Least
<1>9. OldestLinked' = Log!OldestOwed(LogCursor')
  <2>1. Live' # {}
    BY <1>1
  <2>. QED  BY <1>1, <1>3, <1>8, <2>1, OldestIsOwed
<1>. QED  BY <1>1, <1>4, <1>5, <1>6, <1>7, <1>9 DEF Log!Read, Log!Absent, Log!Fresh

\* Any other move is none of the log's.
LEMMA MoveLog ==
  ASSUME IInv, ~ overcount, ~ overcount', NEW c \in Consumers, Move(c)
  PROVE  Log!Read(c) \/ UNCHANGED <<total_packets, OldestLinked, LogCursor>>
<1>1. CASE Fault("undefined") \/ Fault("aborted")
  <2>1. UNCHANGED <<queue, queue_serial, total_packets, life, gen, current>>
    BY <1>1 DEF Fault, producerVars, consumerVars
  <2>2. OldestLinked' = OldestLinked
    BY <2>1 DEF OldestLinked, Linked
  <2>3. LogCursor' = LogCursor
    BY <2>1 DEF LogCursor, Live, InStep
  <2>. QED  BY <2>1, <2>2, <2>3
<1>2. ASSUME NEW e \in Successor(c), MovesTo(c, e), c \in Live
      PROVE  Log!Read(c)
  BY <1>2, LiveMoveLog
<1>3. ASSUME NEW e \in Successor(c), MovesTo(c, e), c \notin Live
      PROVE  UNCHANGED <<total_packets, OldestLinked, LogCursor>>
  <2>1. /\ Live' = Live /\ ~ HasElement(c) /\ UNCHANGED <<total_packets, queue_serial>>
        /\ \A d \in Consumers \ {c} : InStep(d)' = InStep(d) /\ current'[d] = current[d]
    <3>1. PICK k : k = current[c]
      OBVIOUS
    <3>. QED  BY <1>3, <3>1, MovesToEffect
  <2>2. queue' = queue
    BY <1>3, <2>1 DEF MovesTo, ElemUnref
  <2>3. OldestLinked' = OldestLinked
    BY <2>1, <2>2 DEF OldestLinked, Linked
  <2>4. \A d \in Consumers : LogCursor'[d] = LogCursor[d]
    BY <1>3, <2>1 DEF LogCursor
  <2>. QED  BY <2>1, <2>3, <2>4 DEF LogCursor
<1>4. CASE /\ current' = [current EXCEPT ![c] = Cursor(c)]
           /\ UNCHANGED <<queueVars, life, gen, peeked, producerVars, process>>
  <2>1. /\ Live' = Live /\ OldestLinked' = OldestLinked
        /\ UNCHANGED <<total_packets, queue_serial, gen>>
    BY <1>4 DEF Live, queueVars, producerVars, OldestLinked, Linked
  <2>2. \A d \in Consumers : InStep(d) => current'[d] = current[d]
    BY <1>4 DEF Cursor, IInv, TypeOK
  <2>3. LogCursor' = LogCursor
    BY <2>1, <2>2 DEF LogCursor, InStep
  <2>. QED  BY <2>1, <2>3
<1>5. \/ Fault("undefined") \/ Fault("aborted")
      \/ \E e \in Successor(c) : MovesTo(c, e)
      \/ /\ current' = [current EXCEPT ![c] = Cursor(c)]
         /\ UNCHANGED <<queueVars, life, gen, peeked, producerVars, process>>
  BY DEF Move, MoveOn, MovesTo
<1>. QED  BY <1>1, <1>2, <1>3, <1>4, <1>5

\* A kill leaves, also in the middle of the writer's cycle.
LEMMA LeaveLog ==
  ASSUME IInv, ~ overcount, NEW c \in Consumers, Leaves(c)
  PROVE  Log!Leave(c)
<1>1. /\ c \in Live /\ Live' = Live \ {c} /\ ~ Dangling(c) /\ ~ PopsOther(c)
      /\ UNCHANGED <<queue_serial, total_packets, gen>>
      /\ \A d \in Consumers : InStep(d)' = InStep(d)
      /\ \A d \in Consumers \ {c} : current'[d] = current[d]
      /\ consumers = 1 => Live' = {} /\ Linked' = {}
      /\ consumers \in Nat /\ Cardinality(Live') = consumers'
      /\ consumers' = consumers - 1
      /\ overcount' = (overcount /\ consumers # 1)
  BY KillEffect
<1>2. /\ IInv' /\ Live \subseteq Consumers /\ Linked \subseteq Nat
      /\ current \in [Consumers -> Nat]
  BY LeaveIInv DEF IInv, TypeOK, Live
<1>3. LogCursor[c] # -1 /\ LogCursor' = [LogCursor EXCEPT ![c] = -1]
  <2>1. LogCursor[c] # -1
    BY <1>1, <1>2 DEF LogCursor
  <2>2. \A d \in Consumers : InStep(d)' <=> InStep(d)
    BY <1>1
  <2>3. \A d \in Consumers : LogCursor'[d] = IF d = c THEN -1 ELSE LogCursor[d]
    BY <1>1, <2>2 DEF LogCursor
  <2>. QED  BY <2>1, <2>3 DEF LogCursor
<1>4. OldestLinked' = Log!OldestOwed(LogCursor')
  <2>1. CASE consumers = 1
    <3>1. Log!Present(LogCursor') = {}
      BY <1>1, <2>1 DEF Log!Present, Log!Absent, LogCursor
    <3>2. OldestLinked' = total_packets + 1
      BY <1>1, <2>1 DEF OldestLinked
    <3>. QED  BY <1>1, <3>1, <3>2 DEF Log!OldestOwed
  <2>2. CASE consumers # 1
    <3>1. Live' # {} /\ ~ overcount'
      <4>1. Live' # {}
        BY <1>1, <2>2, FS_EmptySet
      <4>. QED  BY <1>1, <4>1
    <3>2. Linked' \subseteq Linked
      BY KillShrinks
    <3>3. ASSUME NEW d \in Live', ~ InStep(d)' PROVE OldestLinked' = OldestLinked
      <4>1. d \in Live \ {c} /\ ~ InStep(d)
        BY <1>1, <1>2, <3>3
      <4>2. \A e \in Linked : e \in Linked'
        BY <4>1, KillKeeps DEF Passed
      <4>3. Linked' = Linked
        BY <3>2, <4>2
      <4>. QED  BY <1>1, <4>3 DEF OldestLinked, Least
    <3>. QED  BY <1>1, <1>2, <3>1, <3>3, OldestIsOwed
  <2>. QED  BY <2>1, <2>2
<1>. QED  BY <1>1, <1>3, <1>4 DEF Log!Leave, Log!Absent

LEMMA NextLog ==
  IInv /\ [Next]_vars => [overcount \/ overcount' \/ Log!Next]_(Log!logVars)
<1> SUFFICES ASSUME IInv, [Next]_vars, ~ overcount, ~ overcount'
             PROVE  Log!Next \/ UNCHANGED <<total_packets, OldestLinked, LogCursor>>
  BY DEF Log!logVars
<1>1. ASSUME UNCHANGED <<queue, queue_serial, total_packets, gen>>, Live' = Live,
             \A d \in Consumers : d \in Live /\ InStep(d) => current'[d] = current[d]
      PROVE  UNCHANGED <<total_packets, OldestLinked, LogCursor>>
  BY <1>1 DEF OldestLinked, Linked, LogCursor, InStep
<1>2. CASE UNCHANGED vars
  BY <1>1, <1>2 DEF vars, queueVars, producerVars, consumerVars, Live
<1>3. CASE Put \/ PutEof
  BY <1>3, AppendLog DEF Put, PutEof, Log!Next
<1>4. CASE PutFull
  BY <1>1, <1>4 DEF PutFull, queueVars, consumerVars, Live
<1>5. CASE PutFullReset \/ Seek
  BY <1>5, ResetLog DEF PutFullReset, Seek, Log!Next
<1>6. ASSUME NEW c \in Consumers, ConsumerNew(c) PROVE Log!Next
  BY <1>6, ConsumerNewLog DEF Log!Next
<1>7. ASSUME NEW o, Fault(o) PROVE UNCHANGED <<total_packets, OldestLinked, LogCursor>>
  BY <1>1, <1>7 DEF Fault, producerVars, consumerVars, Live
<1>8. ASSUME NEW c \in Consumers, Get(c)
      PROVE  UNCHANGED <<total_packets, OldestLinked, LogCursor>>
  <2>1. CASE Fault("undefined")
    BY <1>7, <2>1
  <2>2. CASE ~ Fault("undefined")
    <3>1. Live' = Live /\ \A d \in Consumers : InStep(d) => current'[d] = current[d]
      BY <1>8, <2>2 DEF Get, Live, Cursor, IInv, TypeOK
    <3>. QED  BY <1>1, <1>8, <2>2, <3>1 DEF Get, producerVars
  <2>. QED  BY <2>1, <2>2
<1>9. ASSUME NEW c \in Consumers, Move(c)
      PROVE  Log!Next \/ UNCHANGED <<total_packets, OldestLinked, LogCursor>>
  BY <1>9, MoveLog DEF Log!Next
<1>10. ASSUME NEW c \in Consumers, ConsumerKill(c)
       PROVE  Log!Next \/ UNCHANGED <<total_packets, OldestLinked, LogCursor>>
  <2>1. Leaves(c) \/ Fault("undefined") \/ Fault("aborted")
    BY <1>10 DEF ConsumerKill, Leaves
  <2>2. ASSUME Leaves(c) PROVE Log!Next
    BY <2>2, LeaveLog DEF Log!Next
  <2>. QED  BY <1>7, <2>1, <2>2
<1>11. ASSUME NEW c \in Consumers, StartGet(c) \/ Sent(c) \/ StartKill(c)
       PROVE  UNCHANGED <<total_packets, OldestLinked, LogCursor>>
  <2>1. Live' = Live
    BY <1>11 DEF StartGet, Sent, StartKill, Live, IInv, TypeOK
  <2>. QED  BY <1>1, <1>11, <2>1 DEF StartGet, Sent, StartKill, queueVars, producerVars
<1>12. ASSUME NEW c \in Consumers, ConsumerFree(c)
       PROVE  UNCHANGED <<total_packets, OldestLinked, LogCursor>>
  <2>1. Live' = Live /\ c \notin Live
    BY <1>12 DEF ConsumerFree, Live, IInv, TypeOK
  <2>2. LogCursor' = LogCursor
    BY <1>12, <2>1 DEF ConsumerFree, LogCursor, InStep, producerVars, IInv, TypeOK
  <2>. QED  BY <1>12, <2>2 DEF ConsumerFree, queueVars, producerVars, OldestLinked, Linked
<1>13. ASSUME NEW c \in Consumers, Unseen(c)
       PROVE  UNCHANGED <<total_packets, OldestLinked, LogCursor>>
  BY <1>7, <1>13 DEF Unseen
<1>14. CASE Crashed
  BY <1>2, <1>14, Zenon DEF Crashed
<1>15. CASE \E c \in Consumers :
              \/ ConsumerNew(c) \/ StartGet(c) \/ Get(c) \/ Sent(c) \/ Move(c) \/ Unseen(c)
              \/ StartKill(c) \/ ConsumerKill(c) \/ ConsumerFree(c)
  BY <1>6, <1>8, <1>9, <1>10, <1>11, <1>12, <1>13, <1>15, Zenon
<1>. QED
  BY <1>2, <1>3, <1>4, <1>5, <1>14, <1>15, Zenon DEF Next

\* The queue implements the broadcast log while no killed writer's move has upset the
\* queue in use: a packet stays linked exactly until the last reader that was owed it has
\* left it or was killed, as it sent the packet or not, a reader that joins or starts over
\* begins at the oldest packet kept, and the others read on one by one.
THEOREM QueueIsBroadcastLog == Spec => ImplementsLog
<1>1. Spec => Log!Init /\ [][overcount \/ overcount' \/ Log!Next]_(Log!logVars)
  BY InitLog, InitIInv, NextIInv, NextLog, PTL DEF Spec
<1>. QED  BY <1>1 DEF ImplementsLog

--------------------------------------------------------------------------------
(* The registry of shared producers.                                        *)

\* A track that has looked up or made a producer knows one that was allocated.
MineAllocated ==
  \A t \in Tracks :
    /\ pc[t] \notin {"new", "done"} => mine[t] \in Producers
    /\ pc[t] = "new" => mine[t] = NoProducer
    /\ mine[t] \in Producers => memory[mine[t]] # "unused"

\* Nobody leaves a producer in the table that it is about to free.
FreedUnregistered ==
  \A t \in Tracks : pc[t] = "free" => table # mine[t]

\* The stream of an allocated producer is opened, or the track that made the producer is
\* about to open it; it is opened before anybody decides to close it.
OpenedFirst ==
  /\ \A p \in Producers : memory[p] # "unused" /\ source[p] = "none" =>
       \E s \in Tracks : pc[s] = "start" /\ mine[s] = p
  /\ \A t \in Tracks : pc[t] \in {"remove", "stop"} => source[mine[t]] # "none"

\* That a stream is closed only after it was opened is not inductive: the track that opens a
\* stream may be overtaken by tracks that found its producer.  It holds because that track has
\* its reference already, so the count that bq_producer_test_ref_and_remove reads is not yet 1.
RegistryInv ==
  /\ RegistryTypeOK
  /\ RefsCountHolders
  /\ TableNotFreed
  /\ MineAllocated
  /\ FreedUnregistered
  /\ OpenedFirst

--------------------------------------------------------------------------------

LEMMA HoldersFinite ==
  \A p : /\ IsFiniteSet(Holders(p)) /\ Cardinality(Holders(p)) \in Nat
         /\ Holders(p) \subseteq Tracks
<1>1. \A p : Holders(p) \subseteq Tracks
  BY DEF Holders
<1>. QED  BY <1>1, TracksAssumption, FS_Subset, FS_CardinalityType

\* The steps that change no reference keep the counts exact.
LEMMA SameHolders ==
  ASSUME RefsCountHolders, ref_count' = ref_count, \A p \in Producers : Holders(p)' = Holders(p)
  PROVE  RefsCountHolders'
BY DEF RefsCountHolders

LEMMA InitRegistry == RegistryInit => RegistryInv
<1> SUFFICES ASSUME RegistryInit PROVE RegistryInv
  OBVIOUS
<1>1. RegistryTypeOK
  BY DEF RegistryInit, RegistryTypeOK
<1>2. RefsCountHolders
  <2>1. \A p : Holders(p) = {}
    BY DEF RegistryInit, Holders
  <2>. QED  BY <2>1, FS_EmptySet DEF RegistryInit, RefsCountHolders
<1>. QED
  BY <1>1, <1>2, NobodyAssumption
  DEF RegistryInit, RegistryInv, TableNotFreed, MineAllocated, FreedUnregistered, OpenedFirst

LEMMA NewProducerIInv == ASSUME RegistryInv, NEW t \in Tracks, NewProducer(t) PROVE RegistryInv'
<1> USE DEF RegistryInv
<1>1. PICK p \in Producers :
        /\ memory[p] = "unused"
        /\ memory' = [memory EXCEPT ![p] = "live"]
        /\ ref_count' = [ref_count EXCEPT ![p] = 1]
        /\ table' = p /\ mine' = [mine EXCEPT ![t] = p]
  BY DEF NewProducer
<1>2. /\ pc[t] = "new" /\ pc' = [pc EXCEPT ![t] = "start"]
      /\ UNCHANGED <<lock, shared, source>>
  BY DEF NewProducer, Goto
<1>3. RegistryTypeOK'
  BY <1>1, <1>2 DEF RegistryTypeOK, AddSteps
<1>4. /\ pc'[t] = "start" /\ mine'[t] = p
      /\ \A s \in Tracks \ {t} : pc'[s] = pc[s] /\ mine'[s] = mine[s]
      /\ \A s \in Tracks : mine[s] # p
  BY <1>1, <1>2 DEF RegistryTypeOK, MineAllocated
<1>5. RefsCountHolders'
  <2>1. Holders(p)' = {t} /\ \A q \in Producers \ {p} : Holders(q)' = Holders(q)
    BY <1>2, <1>4, NobodyAssumption DEF Holders, MineAllocated
  <2>2. Cardinality({t}) = 1
    BY FS_Singleton
  <2>. QED  BY <1>1, <2>1, <2>2 DEF RefsCountHolders, RegistryTypeOK
<1>6. TableNotFreed' /\ MineAllocated' /\ FreedUnregistered'
  BY <1>1, <1>2, <1>4, NobodyAssumption
  DEF TableNotFreed, MineAllocated, FreedUnregistered, RegistryTypeOK
<1>7. OpenedFirst'
  <2>1. \A q \in Producers \ {p} : memory'[q] = memory[q]
    BY <1>1 DEF RegistryTypeOK
  <2>2. \A q \in Producers, s \in Tracks : pc[s] = "start" /\ mine[s] = q =>
                                           pc'[s] = "start" /\ mine'[s] = q
    BY <1>2, <1>4 
  <2>. QED  BY <1>2, <1>4, <2>1, <2>2 DEF OpenedFirst
<1>. QED  BY <1>3, <1>5, <1>6, <1>7

LEMMA FindProducerIInv == ASSUME RegistryInv, NEW t \in Tracks, FindProducer(t) PROVE RegistryInv'
<1> USE DEF RegistryInv
<1>1. /\ pc[t] = "new" /\ pc' = [pc EXCEPT ![t] = "found"]
      /\ table \in Producers /\ mine' = [mine EXCEPT ![t] = table] /\ shared' = t
      /\ UNCHANGED <<table, memory, ref_count, lock, source>>
  BY DEF FindProducer, Goto, RegistryTypeOK
<1>2. /\ pc'[t] = "found" /\ mine'[t] = table
      /\ \A s \in Tracks \ {t} : pc'[s] = pc[s] /\ mine'[s] = mine[s]
  BY <1>1 DEF RegistryTypeOK
<1>3. RegistryTypeOK'
  BY <1>1 DEF RegistryTypeOK, AddSteps
<1>4. RefsCountHolders'
  <2>1. \A q \in Producers : Holders(q)' = Holders(q)
    BY <1>1, <1>2 DEF Holders
  <2>. QED  BY <1>1, <2>1, SameHolders
<1>5. TableNotFreed' /\ MineAllocated' /\ FreedUnregistered'
  BY <1>1, <1>2, NobodyAssumption DEF TableNotFreed, MineAllocated, FreedUnregistered
<1>6. OpenedFirst'
  BY <1>1, <1>2 DEF OpenedFirst
<1>. QED  BY <1>3, <1>4, <1>5, <1>6

LEMMA AddRefIInv == ASSUME RegistryInv, NEW t \in Tracks, AddRef(t) PROVE RegistryInv'
<1> USE DEF RegistryInv
<1>1. PICK p : p = mine[t]
  OBVIOUS
<1>2. /\ pc[t] = "ref" /\ pc' = [pc EXCEPT ![t] = "using"]
      /\ p \in Producers
      /\ ref_count' = [ref_count EXCEPT ![p] = ref_count[p] + 1] /\ shared' = NoTrack
      /\ UNCHANGED <<table, memory, lock, source, mine>>
  BY <1>1 DEF AddRef, Goto, RegistryTypeOK, MineAllocated
<1>3. pc'[t] = "using" /\ \A s \in Tracks \ {t} : pc'[s] = pc[s]
  BY <1>2 DEF RegistryTypeOK
<1>4. RegistryTypeOK'
  BY <1>2 DEF RegistryTypeOK
<1>5. RefsCountHolders'
  <2>1. /\ Holders(p)' = Holders(p) \cup {t} /\ t \notin Holders(p)
        /\ \A q \in Producers \ {p} : Holders(q)' = Holders(q)
    BY <1>1, <1>2, <1>3 DEF Holders
  <2>2. Cardinality(Holders(p) \cup {t}) = Cardinality(Holders(p)) + 1
    BY <2>1, HoldersFinite, FS_AddElement
  <2>. QED  BY <1>2, <2>1, <2>2 DEF RefsCountHolders, RegistryTypeOK
<1>6. TableNotFreed' /\ MineAllocated' /\ FreedUnregistered'
  BY <1>2, <1>3 DEF TableNotFreed, MineAllocated, FreedUnregistered
<1>7. OpenedFirst'
  BY <1>2, <1>3 DEF OpenedFirst
<1>. QED  BY <1>4, <1>5, <1>6, <1>7

LEMMA StartTrackIInv == ASSUME RegistryInv, NEW t \in Tracks, StartTrack(t) PROVE RegistryInv'
<1> USE DEF RegistryInv
<1>1. PICK p : p = mine[t]
  OBVIOUS
<1>2. /\ pc[t] = "start" /\ pc' = [pc EXCEPT ![t] = "using"] /\ p \in Producers
      /\ source' = [source EXCEPT ![p] = "started"]
      /\ UNCHANGED <<table, memory, ref_count, lock, shared, mine>>
  BY <1>1 DEF StartTrack, Goto, MineAllocated
<1>3. pc'[t] = "using" /\ \A s \in Tracks \ {t} : pc'[s] = pc[s]
  BY <1>2 DEF RegistryTypeOK
<1>4. RegistryTypeOK'
  BY <1>2 DEF RegistryTypeOK
<1>5. RefsCountHolders'
  <2>1. \A q \in Producers : Holders(q)' = Holders(q)
    BY <1>2, <1>3 DEF Holders
  <2>. QED  BY <1>2, <2>1, SameHolders
<1>6. TableNotFreed' /\ MineAllocated' /\ FreedUnregistered'
  BY <1>2, <1>3 DEF TableNotFreed, MineAllocated, FreedUnregistered
<1>7. OpenedFirst'
  <2>1. source'[p] = "started" /\ \A q \in Producers \ {p} : source'[q] = source[q]
    BY <1>2 DEF RegistryTypeOK
  <2>2. \A s \in Tracks : pc[s] \in {"remove", "stop"} => mine[s] \in Producers
    BY DEF MineAllocated
  <2>3. \A q \in Producers \ {p}, s \in Tracks : mine[s] = q => s # t
    BY <1>1
  <2>. QED  BY <1>2, <1>3, <2>1, <2>2, <2>3 DEF OpenedFirst
<1>. QED  BY <1>4, <1>5, <1>6, <1>7

\* A track that is the only holder of a producer is not overtaking the one that opens it.
LEMMA TestRefIInv == ASSUME RegistryInv, NEW t \in Tracks, TestRef(t) PROVE RegistryInv'
<1> USE DEF RegistryInv
<1>1. PICK p : p = mine[t]
  OBVIOUS
<1>2. /\ pc[t] = "test" /\ p \in Producers
      /\ \/ ref_count[p] = 1 /\ pc' = [pc EXCEPT ![t] = "remove"]
         \/ ref_count[p] # 1 /\ pc' = [pc EXCEPT ![t] = "unref"]
      /\ lock' \in [Producers -> Tracks \cup {NoTrack}]
      /\ UNCHANGED <<table, memory, ref_count, shared, source, mine>>
  BY <1>1 DEF TestRef, Goto, MineAllocated, RegistryTypeOK
<1>3. /\ pc'[t] \in {"remove", "unref"} /\ (pc'[t] = "remove" => ref_count[p] = 1)
      /\ \A s \in Tracks \ {t} : pc'[s] = pc[s]
  BY <1>2 DEF RegistryTypeOK
<1>4. RegistryTypeOK'
  BY <1>2 DEF RegistryTypeOK, FreeSteps
<1>5. RefsCountHolders'
  <2>1. \A q \in Producers : Holders(q)' = Holders(q)
    BY <1>2, <1>3 DEF Holders
  <2>. QED  BY <1>2, <2>1, SameHolders
<1>6. TableNotFreed' /\ MineAllocated' /\ FreedUnregistered'
  BY <1>2, <1>3 DEF TableNotFreed, MineAllocated, FreedUnregistered
<1>7. ref_count[p] = 1 => source[p] # "none"
  <2> SUFFICES ASSUME ref_count[p] = 1, source[p] = "none" PROVE FALSE
    OBVIOUS
  <2>1. PICK s \in Tracks : pc[s] = "start" /\ mine[s] = p
    BY <1>1, <1>2 DEF OpenedFirst, MineAllocated
  <2>2. s \in Holders(p) /\ t \in Holders(p) /\ s # t
    BY <1>1, <1>2, <2>1 DEF Holders
  <2>3. Cardinality(Holders(p)) = 1
    BY <1>2 DEF RefsCountHolders
  <2>. QED  BY <2>2, <2>3, HoldersFinite, FS_Singleton
<1>8. OpenedFirst'
  BY <1>1, <1>2, <1>3, <1>7 DEF OpenedFirst
<1>. QED  BY <1>4, <1>5, <1>6, <1>8

LEMMA DropRefIInv == ASSUME RegistryInv, NEW t \in Tracks, DropRef(t) PROVE RegistryInv'
<1> USE DEF RegistryInv
<1>1. PICK p : p = mine[t]
  OBVIOUS
<1>2. /\ pc[t] = "unref" /\ p \in Producers
      /\ pc' \in {[pc EXCEPT ![t] = "unregister"], [pc EXCEPT ![t] = "done"]}
      /\ ref_count' = [ref_count EXCEPT ![p] = ref_count[p] - 1]
      /\ UNCHANGED <<table, memory, lock, shared, source, mine>>
  BY <1>1 DEF DropRef, Goto, MineAllocated, RegistryTypeOK
<1>3. pc'[t] \in {"unregister", "done"} /\ \A s \in Tracks \ {t} : pc'[s] = pc[s]
  BY <1>2 DEF RegistryTypeOK
<1>4. /\ Holders(p)' = Holders(p) \ {t} /\ t \in Holders(p)
      /\ \A q \in Producers \ {p} : Holders(q)' = Holders(q)
  BY <1>1, <1>2, <1>3 DEF Holders
<1>5. /\ Cardinality(Holders(p) \ {t}) = Cardinality(Holders(p)) - 1
      /\ Cardinality(Holders(p) \ {t}) \in Nat
  BY <1>4, HoldersFinite, FS_RemoveElement, FS_CardinalityType
<1>6. ref_count[p] - 1 \in Nat /\ ref_count[p] - 1 = Cardinality(Holders(p) \ {t})
  BY <1>2, <1>5 DEF RefsCountHolders
<1>7. RegistryTypeOK'
  BY <1>2, <1>6 DEF RegistryTypeOK, FreeSteps
<1>8. RefsCountHolders'
  BY <1>2, <1>4, <1>6 DEF RefsCountHolders, RegistryTypeOK
<1>9. TableNotFreed' /\ MineAllocated' /\ FreedUnregistered'
  BY <1>2, <1>3 DEF TableNotFreed, MineAllocated, FreedUnregistered
<1>10. OpenedFirst'
  BY <1>2, <1>3 DEF OpenedFirst
<1>. QED  BY <1>7, <1>8, <1>9, <1>10

\* The steps that count no reference: they may take the key out of the table, free the
\* producer or close its stream, each only from where the code does.
Closing == {<<"found", "ref">>, <<"using", "test">>, <<"remove", "stop">>,
            <<"stop", "unref">>, <<"unregister", "free">>, <<"free", "done">>}

CloseStep(t, from, to) ==
  /\ pc[t] = from /\ pc' = [pc EXCEPT ![t] = to]
  /\ table' \in {table, NoProducer} /\ (to = "free" => table' = NoProducer)
  /\ IF from = "free" THEN memory' = [memory EXCEPT ![mine[t]] = "freed"]
                      ELSE memory' = memory
  /\ lock' \in [Producers -> Tracks \cup {NoTrack}]
  /\ source' = [source EXCEPT ![mine[t]] = "stopped"] \/ source' = source
  /\ UNCHANGED ref_count
  /\ shared' \in Tracks \cup {NoTrack}
  /\ UNCHANGED mine

LEMMA CloseIInv ==
  ASSUME RegistryInv, NEW t \in Tracks, NEW from, NEW to, <<from, to>> \in Closing,
         CloseStep(t, from, to)
  PROVE  RegistryInv'
<1> USE DEF CloseStep, Closing
<1> USE DEF RegistryInv
<1>1. PICK p : p = mine[t]
  OBVIOUS
<1>2. p \in Producers
  BY <1>1 DEF MineAllocated
<1>3. pc'[t] = to /\ \A s \in Tracks \ {t} : pc'[s] = pc[s]
  BY DEF RegistryTypeOK
<1>4. RegistryTypeOK'
  BY DEF RegistryTypeOK, AddSteps, FreeSteps
<1>5. RefsCountHolders'
  <2>1. \A q \in Producers : Holders(q)' = Holders(q)
    BY <1>3 DEF Holders
  <2>. QED  BY <2>1, SameHolders
<1>6. /\ \A q \in Producers : memory'[q] = "unused" <=> memory[q] = "unused"
      /\ \A q \in Producers : memory'[q] # memory[q] => q = p /\ from = "free"
      /\ \A q \in Producers : source[q] # "none" => source'[q] # "none"
  BY <1>1, <1>2 DEF RegistryTypeOK, MineAllocated
<1>7. TableNotFreed'
  BY <1>1, <1>6 DEF TableNotFreed, FreedUnregistered, RegistryTypeOK
<1>8. MineAllocated'
  BY <1>3, <1>6 DEF MineAllocated
<1>9. FreedUnregistered'
  BY <1>1, <1>2, <1>3, NobodyAssumption DEF FreedUnregistered, MineAllocated
<1>10. OpenedFirst'
  <2>1. \A s \in Tracks : pc'[s] = "start" <=> pc[s] = "start"
    BY <1>3
  <2>2. \A s \in Tracks : pc'[s] \in {"remove", "stop"} =>
          pc[s] \in {"remove", "stop"} /\ mine[s] \in Producers
    BY <1>3 DEF MineAllocated
  <2>. QED  BY <1>6, <2>1, <2>2 DEF OpenedFirst
<1>. QED  BY <1>4, <1>5, <1>7, <1>8, <1>9, <1>10

LEMMA NextRegistry == RegistryInv /\ [RegistryNext]_registryVars => RegistryInv'
<1> SUFFICES ASSUME RegistryInv, [RegistryNext]_registryVars PROVE RegistryInv'
  OBVIOUS
<1>1. CASE UNCHANGED registryVars
  <2>1. \A p : Holders(p)' = Holders(p)
    BY <1>1 DEF registryVars, Holders
  <2>. QED
    BY <1>1, <2>1 DEF registryVars, RegistryInv, RegistryTypeOK, RefsCountHolders, TableNotFreed, MineAllocated,
       FreedUnregistered, OpenedFirst
<1>2. ASSUME NEW t \in Tracks, Step(t) \/ BeginFree(t) PROVE RegistryInv'
  <2> DEFINE Locks == [Producers -> Tracks \cup {NoTrack}]
  <2>1. lock \in Locks /\ shared \in Tracks \cup {NoTrack}
    BY DEF RegistryInv, RegistryTypeOK
  <2>2. CASE NewProducer(t)
    BY <2>2, NewProducerIInv
  <2>3. CASE FindProducer(t)
    BY <2>3, FindProducerIInv
  <2>4. CASE AddRef(t)
    BY <2>4, AddRefIInv
  <2>5. CASE StartTrack(t)
    BY <2>5, StartTrackIInv
  <2>6. CASE TestRef(t)
    BY <2>6, TestRefIInv
  <2>7. CASE DropRef(t)
    BY <2>7, DropRefIInv
  <2>8. CASE AssertRef(t)
    <3>1. CloseStep(t, "found", "ref")
      BY <2>1, <2>8 DEF AssertRef, Goto, CloseStep
    <3>2. <<"found", "ref">> \in Closing
      BY DEF Closing
    <3>. QED  BY <3>1, <3>2, CloseIInv
  <2>9. CASE BeginFree(t)
    <3>1. CloseStep(t, "using", "test")
      BY <2>1, <2>9 DEF BeginFree, Goto, CloseStep
    <3>2. <<"using", "test">> \in Closing
      BY DEF Closing
    <3>. QED  BY <3>1, <3>2, CloseIInv
  <2>10. CASE RemoveKey(t)
    <3>1. CloseStep(t, "remove", "stop")
      BY <2>1, <2>10 DEF RemoveKey, Goto, CloseStep
    <3>2. <<"remove", "stop">> \in Closing
      BY DEF Closing
    <3>. QED  BY <3>1, <3>2, CloseIInv
  <2>11. CASE StopTrack(t)
    <3>1. CloseStep(t, "stop", "unref")
      BY <2>1, <2>11 DEF StopTrack, Goto, CloseStep
    <3>2. <<"stop", "unref">> \in Closing
      BY DEF Closing
    <3>. QED  BY <3>1, <3>2, CloseIInv
  <2>12. CASE Unregister(t)
    <3>1. CloseStep(t, "unregister", "free")
      BY <2>1, <2>12 DEF Unregister, Goto, CloseStep
    <3>2. <<"unregister", "free">> \in Closing
      BY DEF Closing
    <3>. QED  BY <3>1, <3>2, CloseIInv
  <2>13. CASE FreeProducer(t)
    <3>1. CloseStep(t, "free", "done")
      BY <2>1, <2>13 DEF FreeProducer, Goto, CloseStep
    <3>2. <<"free", "done">> \in Closing
      BY DEF Closing
    <3>. QED  BY <3>1, <3>2, CloseIInv
  <2>. QED
    BY <1>2, <2>2, <2>3, <2>4, <2>5, <2>6, <2>7, <2>8, <2>9, <2>10, <2>11, <2>12, <2>13
    DEF Step
<1>. QED  BY <1>1, <1>2 DEF RegistryNext, Stopped

\* The strengthening holds in every reachable state.
THEOREM RegistryInvariance == RegistrySpec => []RegistryInv
BY InitRegistry, NextRegistry, PTL DEF RegistrySpec

\* The reference count of a shared producer is exactly the number of tracks that hold it,
\* the table never leads to a freed producer, and a stream is closed only after it was
\* opened, for any number of tracks that are added and freed at the same time.
THEOREM SharedProducersOwned == RegistrySpec => []ProducersOwned
<1>1. RegistryInv => ProducersOwned
  <2>1. RegistryInv => StoppedAfterStarted
    BY DEF RegistryInv, OpenedFirst, StoppedAfterStarted
  <2>. QED  BY <2>1 DEF RegistryInv, ProducersOwned
<1>. QED  BY <1>1, RegistryInvariance, PTL
================================================================================
