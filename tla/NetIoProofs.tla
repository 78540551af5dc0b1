------------------------------ MODULE NetIoProofs -------------------------------
(***************************************************************************)
(* Proofs about NetIo for all finite sets of connections and users, and    *)
(* every number of messages and calls.                                     *)
(*                                                                         *)
(* A count is exact because a step changes it by what one thread and one   *)
(* connection hold before and after.  That nothing ends twice rests on the *)
(* thread that took a connection off the list being the only one that      *)
(* drops the reference of the list, and that nothing is left behind on a   *)
(* connection that keeps its watch being dispatched or about to end.       *)
(***************************************************************************)
EXTENDS NetIo, FiniteSetTheorems, TLAPS

KillPath == {"kill", "kill_watch", "close_watch"}
ReportPath == {"report", "find", "on_fin"}

IoShape == [used : BOOLEAN, refs : Int, io_watch : BOOLEAN, net : BOOLEAN, wrefs : Int,
            killed : BOOLEAN, in_loop : {"no", "in", "leaving", "out"}, user : BOOLEAN,
            announced : BOOLEAN, fins : Nat, kills : Nat, reads : 0 .. MaxReads, late : BOOLEAN]
Pcs == {"idle", "add_child", "add_io", "on_init", "sched", "accepted", "refused", "unref_list",
        "unref_child", "fail", "unref_new", "read_message", "on_read", "read_on", "drop_event",
        "write", "write_watch", "written", "return", "kill_io", "killed", "unref_net"}
       \cup KillPath \cup ReportPath
ThShape == [pc : Pcs, io : Ios \cup {NoIo}, watch : BOOLEAN, net : BOOLEAN, then : Pcs]

Shapes ==
  /\ listening \in BOOLEAN /\ io_list \subseteq Ios /\ net_refs \in Int /\ calls \in 0 .. MaxCalls
  /\ io \in [Ios -> IoShape] /\ th \in [Threads -> ThShape]

\* Where a user, the accepting and the dispatching loop, as record x, can be, and where they go
\* on after the end of a connection.
UserPlace(x) ==
  /\ x.pc \in {"idle", "write", "write_watch", "written", "return", "kill_io", "killed", "unref_net"}
            \cup KillPath \cup ReportPath
  /\ x.pc \in KillPath => x.then = "killed"
  /\ x.pc \in ReportPath => x.then = "written"
  /\ x.pc = "unref_net" => x.then \in {"killed", "written"}

AcceptorPlace(x) ==
  /\ x.pc \in {"idle", "add_child", "add_io", "on_init", "sched", "accepted", "refused", "unref_list",
               "unref_child", "fail", "unref_new", "unref_net"} \cup KillPath
  /\ x.pc \in KillPath \cup {"unref_net"} => x.then \in {"unref_list", "unref_new"}
  /\ x.pc = "unref_list" => x.then = "unref_list"
  /\ x.then = "unref_list" => x.pc \in KillPath \cup {"unref_net", "unref_list"}

LoopPlace(x) ==
  /\ x.pc \in {"idle", "read_message", "on_read", "read_on", "drop_event", "unref_net"}
            \cup ReportPath
  /\ x.pc \in ReportPath \cup {"unref_net"} => x.then = "drop_event"

\* What a thread has taken out of its connection.
Carried(x) ==
  /\ x.pc = "idle" <=> x.io = NoIo
  /\ x.watch => x.pc \in {"kill_watch", "close_watch"}
  /\ x.pc = "close_watch" => x.watch
  /\ x.net => x.pc \in {"kill_watch", "close_watch", "unref_net", "find", "on_fin"}
  /\ x.pc \in {"find", "on_fin"} => x.net

ThreadOk(t, x) ==
  /\ t \in Users => UserPlace(x)
  /\ t = Acceptor => AcceptorPlace(x)
  /\ t = Loop => LoopPlace(x)
  /\ Carried(x)

\* What the counts count: a thread x that holds a reference of connection i or of its watch.
OnTheWay == KillPath \cup {"unref_net"}
UserOf(x, i) == x.io = i
TakenBy(x, i) == x.io = i /\ x.pc \in {"on_fin", "killed", "unref_list"}
OnTheWayWith(x, i) == x.io = i /\ x.then \in {"killed", "unref_list"} /\ x.pc \in OnTheWay
CarriedBy(x, i) == x.io = i /\ x.watch
WrittenBy(x, i) == x.io = i /\ x.pc \in {"write_watch", "written"}
FailedBy(x, i) ==
  x.io = i /\ x.then = "written" /\ x.pc \in {"report", "find", "on_fin", "unref_net"}
NetHeldBy(x) ==
  \/ x.pc \in {"add_io", "on_init", "sched", "accepted", "refused", "unref_list", "unref_child"}
  \/ x.then = "unref_list"

\* The thread that took connection i off the list, until it drops the reference of the list.
Takes(t, i) == TakenBy(th[t], i) \/ OnTheWayWith(th[t], i)

Someone(pc, i) == \E t \in Threads : th[t].pc = pc /\ th[t].io = i

\* Once the pointers are taken they stay away.
Taken == {"find", "on_fin", "kill_watch", "close_watch", "unref_net", "killed", "unref_list",
          "unref_child", "unref_new"}
PointersAt(i) ==
  /\ \A t \in Threads : th[t].io = i /\ th[t].pc \in Taken => ~ io[i].io_watch /\ ~ io[i].net
  /\ Ended(io[i]) => ~ io[i].io_watch /\ ~ io[i].net

UnusedAt(i) == ~ io[i].used => ~ io[i].announced /\ ~ io[i].killed /\ th[Acceptor].io # i

EndsAt(i) == io[i].fins + io[i].kills = One(Ended(io[i])) /\ ~ io[i].late

\* A connection the user was not told of is with the acceptor or nowhere.
UntoldAt(i) == ~ io[i].announced =>
  /\ ~ io[i].user /\ io[i].in_loop = "no" /\ io[i].fins = 0 /\ io[i].kills = 0
  /\ \A t \in Users \cup {Loop} : th[t].io # i
  /\ th[Acceptor].io # i => ~ io[i].io_watch /\ ~ io[i].net /\ i \notin io_list

AcceptorAt(i) == th[Acceptor].io = i =>
  /\ io[i].announced <=> th[Acceptor].pc \in {"sched", "accepted"}
  /\ th[Acceptor].pc = "sched" => io[i].in_loop = "no"
  /\ th[Acceptor].pc \in {"add_child", "add_io"} => io[i].io_watch /\ ~ io[i].killed
  /\ th[Acceptor].pc \in {"on_init", "refused"} => i \in io_list
  /\ th[Acceptor].pc \notin {"on_init", "refused", "sched", "accepted"} => i \notin io_list
  /\ th[Acceptor].pc \in {"add_child", "add_io", "fail"} => ~ io[i].net

LoopAt(i) == th[Loop].io = i =>
  /\ io[i].in_loop \in {"in", "leaving"}
  /\ th[Loop].pc \in ReportPath \cup {"unref_net", "drop_event"} => io[i].killed

\* Somebody has the reference of the list as long as the connection has not ended for its user.
OneTakesAt(i) ==
  /\ \A t \in Threads : Takes(t, i) => i \notin io_list
  /\ \A s, t \in Threads : Takes(s, i) /\ Takes(t, i) => s = t
  /\ io[i].announced => (io[i].user <=> (i \in io_list \/ \E t \in Threads : Takes(t, i)))

\* Whoever finds a connection on the list finds its net, or somebody who is about to look for
\* it; a net that was not taken is found by the one who took the connection off the list.
PairedAt(i) ==
  /\ i \in io_list => (io[i].io_watch /\ io[i].net) \/ Someone("find", i)
  /\ io[i].net => i \in io_list \/ \E t \in Threads : th[t].pc = "kill" /\ Takes(t, i)

\* A connection that still has its watch is dispatched, or somebody is about to end it.
Scheduled(i) ==
  \/ io[i].in_loop = "in"
  \/ io[i].in_loop = "no" /\ ~ io[i].announced
  \/ io[i].in_loop = "no" /\ th[Acceptor].pc = "sched" /\ th[Acceptor].io = i
WatchingAt(i) == io[i].io_watch => (~ io[i].killed /\ Scheduled(i)) \/ Someone("report", i)

ConnectionOk(i) ==
  /\ PointersAt(i) /\ UnusedAt(i) /\ EndsAt(i) /\ UntoldAt(i) /\ AcceptorAt(i) /\ LoopAt(i)
  /\ OneTakesAt(i) /\ PairedAt(i) /\ WatchingAt(i)

UsersOf(i) == {t \in Users : UserOf(th[t], i)}
Takers(i) == {t \in Threads : TakenBy(th[t], i)}
TakersOnTheWay(i) == {t \in Threads : OnTheWayWith(th[t], i)}
Carriers(i) == {t \in Threads : CarriedBy(th[t], i)}
Writers(i) == {t \in Users : WrittenBy(th[t], i)}
Failers(i) == {t \in Users : FailedBy(th[t], i)}
Netted == {i \in Ios : io[i].net}
NetCarriers == {t \in Threads : th[t].net}

Refs ==
  \A i \in Ios :
    io[i].refs = One(io[i].user) + One(io[i].wrefs > 0) + One(i \in io_list)
                 + Cardinality(UsersOf(i)) + Cardinality(Takers(i)) + Cardinality(TakersOnTheWay(i))
                 + One(th[Acceptor].io = i /\ ~ io[i].announced)

WatchRefs ==
  \A i \in Ios :
    io[i].wrefs = One(io[i].io_watch) + One(io[i].in_loop \in {"in", "leaving"})
                  + Cardinality(Carriers(i)) + Cardinality(Writers(i)) + Cardinality(Failers(i))

NetRefs ==
  net_refs = 1 + Cardinality(Netted) + Cardinality(NetCarriers) + One(NetHeldBy(th[Acceptor]))

IInv ==
  /\ Shapes
  /\ \A t \in Threads : ThreadOk(t, th[t])
  /\ \A i \in Ios : ConnectionOk(i)
  /\ Refs /\ WatchRefs /\ NetRefs

--------------------------------------------------------------------------------
(* Counting.                                                                *)

\* Two finite sets that differ in r at most.
LEMMA CountStep ==
  ASSUME NEW A, NEW B, IsFiniteSet(A), IsFiniteSet(B), NEW r, A \ {r} = B \ {r}
  PROVE  /\ Cardinality(A) \in Nat /\ Cardinality(B) \in Nat
         /\ Cardinality(B) - One(r \in B) = Cardinality(A) - One(r \in A)
<1>1. Cardinality(A) \in Nat /\ Cardinality(B) \in Nat
  BY FS_CardinalityType
<1>2. /\ Cardinality(A \ {r}) = IF r \in A THEN Cardinality(A) - 1 ELSE Cardinality(A)
      /\ Cardinality(B \ {r}) = IF r \in B THEN Cardinality(B) - 1 ELSE Cardinality(B)
  BY FS_RemoveElement
<1>. QED  BY <1>1, <1>2 DEF One

LEMMA CountOver ==
  ASSUME NEW T, IsFiniteSet(T), NEW A \in SUBSET T, NEW B \in SUBSET T, NEW r, A \ {r} = B \ {r}
  PROVE  /\ Cardinality(A) \in Nat /\ Cardinality(B) \in Nat
         /\ Cardinality(B) - One(r \in B) = Cardinality(A) - One(r \in A)
<1>1. IsFiniteSet(A) /\ IsFiniteSet(B)
  BY FS_Subset
<1>. QED  BY <1>1, CountStep

\* The threads are users and the two loops.
LEMMA Roles ==
  /\ Users \subseteq Threads /\ Acceptor \in Threads /\ Loop \in Threads
  /\ Acceptor \notin Users /\ Loop \notin Users /\ Acceptor # Loop /\ NoIo \notin Ios
  /\ \A t \in Threads : t \in Users \/ t = Acceptor \/ t = Loop
BY NetIoAssumption DEF Threads

LEMMA ThreadsFinite == IsFiniteSet(Threads) /\ IsFiniteSet(Users) /\ IsFiniteSet(Ios)
<1>1. IsFiniteSet({Acceptor, Loop})
  <2>1. IsFiniteSet({Acceptor})
    BY FS_Singleton
  <2>2. {Acceptor, Loop} = {Acceptor} \cup {Loop}
    OBVIOUS
  <2>. QED  BY <2>1, FS_AddElement
<1>. QED  BY <1>1, NetIoAssumption, FS_Union DEF Threads

\* A step of thread r, which becomes x, on connection j, which becomes y.
StepOf(r, j, x, y) ==
  /\ th' = [th EXCEPT ![r] = x] /\ io' = [io EXCEPT ![j] = y]
  /\ \A i \in Ios : i # j => (i \in io_list' <=> i \in io_list)
  /\ th[r].io \in {j, NoIo} /\ x.io \in {j, NoIo}

LEMMA StepIs ==
  ASSUME Shapes, NEW r \in Threads, NEW j \in Ios, NEW x \in ThShape, NEW y \in IoShape,
         StepOf(r, j, x, y)
  PROVE  /\ th' \in [Threads -> ThShape] /\ io' \in [Ios -> IoShape]
         /\ th'[r] = x /\ \A t \in Threads : t # r => th'[t] = th[t]
         /\ io'[j] = y /\ \A i \in Ios : i # j => io'[i] = io[i] /\ (i \in io_list' <=> i \in io_list)
         /\ th[r].io \in {j, NoIo} /\ x.io \in {j, NoIo}
         /\ th[r] \in ThShape /\ io[j] \in IoShape
BY DEF StepOf, Shapes

\* What thread r, as record x, and connection j, as record y, hold of the JNetIO, its watch
\* and the JNet.
RefsDue(r, x, y, listed, j) ==
  One(y.user) + One(y.wrefs > 0) + One(listed) + One(r \in Users /\ UserOf(x, j))
    + One(TakenBy(x, j)) + One(OnTheWayWith(x, j)) + One(r = Acceptor /\ x.io = j /\ ~ y.announced)
WatchDue(r, x, y, j) ==
  One(y.io_watch) + One(y.in_loop \in {"in", "leaving"}) + One(CarriedBy(x, j))
    + One(r \in Users /\ WrittenBy(x, j)) + One(r \in Users /\ FailedBy(x, j))
NetDue(r, x, y) == One(y.net) + One(x.net) + One(r = Acceptor /\ NetHeldBy(x))

\* A step that changes the count of its connection by what is due keeps every count exact.
LEMMA RefsStep ==
  ASSUME Shapes, Refs, NEW r \in Threads, NEW j \in Ios,
         NEW x \in ThShape, NEW y \in IoShape, StepOf(r, j, x, y),
         r # Acceptor => (y.announced <=> io[j].announced),
         y.refs - RefsDue(r, x, y, j \in io_list', j)
           = io[j].refs - RefsDue(r, th[r], io[j], j \in io_list, j)
  PROVE  Refs'
<1> SUFFICES ASSUME NEW i \in Ios
    PROVE  (io[i].refs = One(io[i].user) + One(io[i].wrefs > 0) + One(i \in io_list)
                 + Cardinality(UsersOf(i)) + Cardinality(Takers(i)) + Cardinality(TakersOnTheWay(i))
                 + One(th[Acceptor].io = i /\ ~ io[i].announced))'
  BY DEF Refs
<1>1. /\ \A t \in Threads : t # r => th'[t] = th[t]
      /\ th'[r] = x /\ io'[j] = y /\ io[i] \in IoShape /\ io'[i] \in IoShape
  BY StepIs DEF Shapes
<1>2. /\ Cardinality(UsersOf(i)) \in Nat /\ Cardinality(UsersOf(i)') \in Nat
      /\ Cardinality(UsersOf(i)') - One(r \in UsersOf(i)') = Cardinality(UsersOf(i)) - One(r \in UsersOf(i))
  <2>1. UsersOf(i) \subseteq Users /\ UsersOf(i)' \subseteq Users /\ UsersOf(i)' \ {r} = UsersOf(i) \ {r}
    BY <1>1, Roles DEF UsersOf
  <2>. QED  BY <2>1, ThreadsFinite, CountOver
<1>3. /\ Cardinality(Takers(i)) \in Nat /\ Cardinality(Takers(i)') \in Nat
      /\ Cardinality(Takers(i)') - One(r \in Takers(i)') = Cardinality(Takers(i)) - One(r \in Takers(i))
  <2>1. Takers(i) \subseteq Threads /\ Takers(i)' \subseteq Threads /\ Takers(i)' \ {r} = Takers(i) \ {r}
    BY <1>1 DEF Takers
  <2>. QED  BY <2>1, ThreadsFinite, CountOver
<1>4. /\ Cardinality(TakersOnTheWay(i)) \in Nat /\ Cardinality(TakersOnTheWay(i)') \in Nat
      /\ Cardinality(TakersOnTheWay(i)') - One(r \in TakersOnTheWay(i)')
           = Cardinality(TakersOnTheWay(i)) - One(r \in TakersOnTheWay(i))
  <2>1. /\ TakersOnTheWay(i) \subseteq Threads /\ TakersOnTheWay(i)' \subseteq Threads
        /\ TakersOnTheWay(i)' \ {r} = TakersOnTheWay(i) \ {r}
    BY <1>1 DEF TakersOnTheWay
  <2>. QED  BY <2>1, ThreadsFinite, CountOver
<1>5. /\ r \in UsersOf(i) <=> r \in Users /\ UserOf(th[r], i)
      /\ r \in UsersOf(i)' <=> r \in Users /\ UserOf(x, i)
      /\ r \in Takers(i) <=> TakenBy(th[r], i)
      /\ r \in Takers(i)' <=> TakenBy(x, i)
      /\ r \in TakersOnTheWay(i) <=> OnTheWayWith(th[r], i)
      /\ r \in TakersOnTheWay(i)' <=> OnTheWayWith(x, i)
  BY <1>1 DEF UsersOf, Takers, TakersOnTheWay
<1>6. CASE i = j
  <2>1. r = Acceptor \/ One(th'[Acceptor].io = j /\ ~ y.announced)
                          = One(th[Acceptor].io = j /\ ~ io[j].announced)
    BY <1>1, Roles
  <2>. QED  BY <1>1, <1>2, <1>3, <1>4, <1>5, <1>6, <2>1 DEF Refs, RefsDue, One, IoShape
<1>7. CASE i # j
  <2>1. th[r].io # i /\ x.io # i /\ io'[i] = io[i] /\ (i \in io_list' <=> i \in io_list)
    BY <1>7, StepIs, Roles
  <2>2. th'[Acceptor].io = i <=> th[Acceptor].io = i
    BY <1>1, <2>1, Roles
  <2>3. /\ ~ UserOf(th[r], i) /\ ~ UserOf(x, i) /\ ~ TakenBy(th[r], i) /\ ~ TakenBy(x, i)
        /\ ~ OnTheWayWith(th[r], i) /\ ~ OnTheWayWith(x, i)
    BY <2>1 DEF UserOf, TakenBy, OnTheWayWith
  <2>. QED  BY <1>1, <1>2, <1>3, <1>4, <1>5, <2>1, <2>2, <2>3 DEF Refs, One, IoShape
<1>. QED  BY <1>6, <1>7

LEMMA WatchRefsStep ==
  ASSUME Shapes, WatchRefs, NEW r \in Threads, NEW j \in Ios,
         NEW x \in ThShape, NEW y \in IoShape, StepOf(r, j, x, y),
         y.wrefs - WatchDue(r, x, y, j) = io[j].wrefs - WatchDue(r, th[r], io[j], j)
  PROVE  WatchRefs'
<1> SUFFICES ASSUME NEW i \in Ios
    PROVE  (io[i].wrefs = One(io[i].io_watch) + One(io[i].in_loop \in {"in", "leaving"})
                 + Cardinality(Carriers(i)) + Cardinality(Writers(i)) + Cardinality(Failers(i)))'
  BY DEF WatchRefs
<1>1. /\ \A t \in Threads : t # r => th'[t] = th[t]
      /\ th'[r] = x /\ io'[j] = y /\ io[i] \in IoShape /\ io'[i] \in IoShape
  BY StepIs DEF Shapes
<1>2. /\ Cardinality(Carriers(i)) \in Nat /\ Cardinality(Carriers(i)') \in Nat
      /\ Cardinality(Carriers(i)') - One(r \in Carriers(i)') = Cardinality(Carriers(i)) - One(r \in Carriers(i))
  <2>1. Carriers(i) \subseteq Threads /\ Carriers(i)' \subseteq Threads /\ Carriers(i)' \ {r} = Carriers(i) \ {r}
    BY <1>1 DEF Carriers
  <2>. QED  BY <2>1, ThreadsFinite, CountOver
<1>3. /\ Cardinality(Writers(i)) \in Nat /\ Cardinality(Writers(i)') \in Nat
      /\ Cardinality(Writers(i)') - One(r \in Writers(i)') = Cardinality(Writers(i)) - One(r \in Writers(i))
  <2>1. Writers(i) \subseteq Users /\ Writers(i)' \subseteq Users /\ Writers(i)' \ {r} = Writers(i) \ {r}
    BY <1>1, Roles DEF Writers
  <2>. QED  BY <2>1, ThreadsFinite, CountOver
<1>4. /\ Cardinality(Failers(i)) \in Nat /\ Cardinality(Failers(i)') \in Nat
      /\ Cardinality(Failers(i)') - One(r \in Failers(i)') = Cardinality(Failers(i)) - One(r \in Failers(i))
  <2>1. Failers(i) \subseteq Users /\ Failers(i)' \subseteq Users /\ Failers(i)' \ {r} = Failers(i) \ {r}
    BY <1>1, Roles DEF Failers
  <2>. QED  BY <2>1, ThreadsFinite, CountOver
<1>5. /\ r \in Carriers(i) <=> CarriedBy(th[r], i)
      /\ r \in Carriers(i)' <=> CarriedBy(x, i)
      /\ r \in Writers(i) <=> r \in Users /\ WrittenBy(th[r], i)
      /\ r \in Writers(i)' <=> r \in Users /\ WrittenBy(x, i)
      /\ r \in Failers(i) <=> r \in Users /\ FailedBy(th[r], i)
      /\ r \in Failers(i)' <=> r \in Users /\ FailedBy(x, i)
  BY <1>1 DEF Carriers, Writers, Failers
<1>6. CASE i = j
  BY <1>1, <1>2, <1>3, <1>4, <1>5, <1>6 DEF WatchRefs, WatchDue, One, IoShape
<1>7. CASE i # j
  <2>1. th[r].io # i /\ x.io # i /\ io'[i] = io[i]
    BY <1>7, StepIs, Roles
  <2>2. /\ ~ CarriedBy(th[r], i) /\ ~ CarriedBy(x, i) /\ ~ WrittenBy(th[r], i)
        /\ ~ WrittenBy(x, i) /\ ~ FailedBy(th[r], i) /\ ~ FailedBy(x, i)
    BY <2>1 DEF CarriedBy, WrittenBy, FailedBy
  <2>. QED  BY <1>1, <1>2, <1>3, <1>4, <1>5, <2>1, <2>2 DEF WatchRefs, One, IoShape
<1>. QED  BY <1>6, <1>7

LEMMA NetRefsStep ==
  ASSUME Shapes, NetRefs, NEW r \in Threads, NEW j \in Ios,
         NEW x \in ThShape, NEW y \in IoShape, StepOf(r, j, x, y), net_refs' \in Int,
         net_refs' - NetDue(r, x, y) = net_refs - NetDue(r, th[r], io[j])
  PROVE  NetRefs'
<1>1. /\ \A t \in Threads : t # r => th'[t] = th[t]
      /\ \A i \in Ios : i # j => io'[i] = io[i]
      /\ th'[r] = x /\ io'[j] = y /\ th' \in [Threads -> ThShape] /\ io' \in [Ios -> IoShape]
  BY StepIs
<1>2. /\ Cardinality(Netted) \in Nat /\ Cardinality(Netted') \in Nat
      /\ Cardinality(Netted') - One(j \in Netted') = Cardinality(Netted) - One(j \in Netted)
  <2>1. Netted \subseteq Ios /\ Netted' \subseteq Ios /\ Netted' \ {j} = Netted \ {j}
    BY <1>1 DEF Netted
  <2>. QED  BY <2>1, ThreadsFinite, CountOver
<1>3. /\ Cardinality(NetCarriers) \in Nat /\ Cardinality(NetCarriers') \in Nat
      /\ Cardinality(NetCarriers') - One(r \in NetCarriers') = Cardinality(NetCarriers) - One(r \in NetCarriers)
  <2>1. NetCarriers \subseteq Threads /\ NetCarriers' \subseteq Threads /\ NetCarriers' \ {r} = NetCarriers \ {r}
    BY <1>1 DEF NetCarriers
  <2>. QED  BY <2>1, ThreadsFinite, CountOver
<1>4. /\ j \in Netted <=> io[j].net
      /\ j \in Netted' <=> y.net
      /\ r \in NetCarriers <=> th[r].net
      /\ r \in NetCarriers' <=> x.net
  BY <1>1 DEF Netted, NetCarriers
<1>5. CASE r # Acceptor
  <2>1. th'[Acceptor] = th[Acceptor]
    BY <1>1, <1>5, Roles
  <2>. QED  BY <1>1, <1>2, <1>3, <1>4, <1>5, <2>1 DEF NetRefs, NetDue, One, Shapes
<1>6. CASE r = Acceptor
  BY <1>1, <1>2, <1>3, <1>4, <1>6 DEF NetRefs, NetDue, One, Shapes
<1>. QED  BY <1>5, <1>6

\* What the end of a reference of the watch does to a connection.
LEMMA UnrefWatchSound ==
  ASSUME NEW x \in IoShape
  PROVE  /\ UnrefWatch(x) \in IoShape
         /\ UnrefWatch(x).wrefs = x.wrefs - 1
         /\ UnrefWatch(x).refs = x.refs - One(x.wrefs = 1)
         /\ UnrefWatch(x).used = x.used /\ UnrefWatch(x).io_watch = x.io_watch
         /\ UnrefWatch(x).net = x.net /\ UnrefWatch(x).killed = x.killed
         /\ UnrefWatch(x).in_loop = x.in_loop /\ UnrefWatch(x).user = x.user
         /\ UnrefWatch(x).announced = x.announced /\ UnrefWatch(x).fins = x.fins
         /\ UnrefWatch(x).kills = x.kills /\ UnrefWatch(x).reads = x.reads
         /\ UnrefWatch(x).late = x.late
<1>1. CASE x.wrefs = 1
  <2>0. [x EXCEPT !.wrefs = 0] \in IoShape
    BY DEF IoShape
  <2>1. PICK y \in IoShape : y = [x EXCEPT !.wrefs = 0]
    BY <2>0
  <2>2. UnrefWatch(x) = [y EXCEPT !.refs = y.refs - 1]
    BY <1>1, <2>1 DEF UnrefWatch, UnrefIo
  <2>3. /\ y.used = x.used /\ y.refs = x.refs /\ y.io_watch = x.io_watch /\ y.net = x.net
        /\ y.wrefs = 0 /\ y.killed = x.killed /\ y.in_loop = x.in_loop /\ y.user = x.user
        /\ y.announced = x.announced /\ y.fins = x.fins /\ y.kills = x.kills
        /\ y.reads = x.reads /\ y.late = x.late
    BY <2>1 DEF IoShape
  <2>4. UnrefWatch(x) \in IoShape
    BY <2>2 DEF IoShape
  <2>. QED  BY <1>1, <2>2, <2>3, <2>4 DEF One, IoShape
<1>2. CASE x.wrefs # 1
  BY <1>2 DEF UnrefWatch, UnrefIo, One, IoShape
<1>. QED  BY <1>1, <1>2

\* Nobody works on the connection, its watch and its place on the list are gone.
LEMMA Unheld ==
  ASSUME Shapes, Refs, WatchRefs, NEW i \in Ios, \A t \in Threads : th[t].io # i,
         ~ io[i].user, ~ io[i].io_watch, io[i].in_loop \notin {"in", "leaving"}, i \notin io_list
  PROVE  io[i].refs = 0 /\ io[i].wrefs = 0
<1>1. /\ UsersOf(i) = {} /\ Takers(i) = {} /\ TakersOnTheWay(i) = {} /\ Carriers(i) = {}
      /\ Writers(i) = {} /\ Failers(i) = {} /\ th[Acceptor].io # i
  BY Roles
  DEF UsersOf, Takers, TakersOnTheWay, Carriers, Writers, Failers, UserOf, TakenBy, OnTheWayWith,
      CarriedBy, WrittenBy, FailedBy
<1>2. Cardinality({}) = 0
  BY FS_EmptySet
<1>3. io[i].wrefs = 0
  <2>1. io[i].wrefs = One(FALSE) + One(FALSE) + 0 + 0 + 0
    <3>1. One(io[i].io_watch) = One(FALSE) /\ One(io[i].in_loop \in {"in", "leaving"}) = One(FALSE)
      BY DEF One
    <3>. QED  BY <1>1, <1>2, <3>1 DEF WatchRefs
  <2>. QED  BY <2>1 DEF One
<1>4. /\ One(io[i].user) = 0 /\ One(i \in io_list) = 0
      /\ One(th[Acceptor].io = i /\ ~ io[i].announced) = 0
  BY <1>1 DEF One
<1>5. One(io[i].wrefs > 0) = 0
  BY <1>3 DEF One
<1>. QED  BY <1>1, <1>2, <1>3, <1>4, <1>5 DEF Refs

\* The counts are sums of natural numbers.
LEMMA PartsFinite ==
  ASSUME NEW i
  PROVE  /\ Cardinality(UsersOf(i)) \in Nat /\ Cardinality(Takers(i)) \in Nat
         /\ Cardinality(TakersOnTheWay(i)) \in Nat /\ Cardinality(Carriers(i)) \in Nat
         /\ Cardinality(Writers(i)) \in Nat /\ Cardinality(Failers(i)) \in Nat
<1>1. /\ UsersOf(i) \subseteq Users /\ Takers(i) \subseteq Threads
      /\ TakersOnTheWay(i) \subseteq Threads /\ Carriers(i) \subseteq Threads
      /\ Writers(i) \subseteq Users /\ Failers(i) \subseteq Users
  BY DEF UsersOf, Takers, TakersOnTheWay, Carriers, Writers, Failers
<1>2. /\ IsFiniteSet(UsersOf(i)) /\ IsFiniteSet(Takers(i)) /\ IsFiniteSet(TakersOnTheWay(i))
      /\ IsFiniteSet(Carriers(i)) /\ IsFiniteSet(Writers(i)) /\ IsFiniteSet(Failers(i))
  BY <1>1, ThreadsFinite, FS_Subset
<1>. QED  BY <1>2, FS_CardinalityType

LEMMA WatchHeld ==
  ASSUME Shapes, WatchRefs, NEW i \in Ios
  PROVE  io[i].wrefs \in Nat /\ (io[i].io_watch => io[i].wrefs > 0)
BY PartsFinite DEF WatchRefs, One

\* The two references that are given up when a connection ends for its user.
LEMMA OnFinSound ==
  ASSUME NEW x \in IoShape, NEW n \in Int, NEW m \in Nat, n = x.refs - 2, m = x.fins + 1
  PROVE  UnrefIo([UnrefIo(x) EXCEPT !.user = FALSE, !.fins = @ + 1])
           = [x EXCEPT !.user = FALSE, !.fins = m, !.refs = n]
<1>1. PICK k \in Int : k = x.refs - 1
  BY DEF IoShape
<1>2. UnrefIo(x) = [x EXCEPT !.refs = k]
  BY <1>1 DEF UnrefIo
<1>3. PICK z : z = [x EXCEPT !.refs = k, !.user = FALSE, !.fins = m]
  OBVIOUS
<1>4. [UnrefIo(x) EXCEPT !.user = FALSE, !.fins = @ + 1] = z
  BY <1>2, <1>3
<1>5. z.refs - 1 = n
  <2>1. z.refs = k
    BY <1>3 DEF IoShape
  <2>. QED  BY <1>1, <2>1 DEF IoShape
<1>6. UnrefIo(z) = [z EXCEPT !.refs = n]
  BY <1>5 DEF UnrefIo
<1>7. [z EXCEPT !.refs = n] = [x EXCEPT !.user = FALSE, !.fins = m, !.refs = n]
  BY <1>3 DEF IoShape
<1>. QED  BY <1>4, <1>6, <1>7

\* The same for a connection that its user has killed.
LEMMA KilledSound ==
  ASSUME NEW x \in IoShape, NEW n \in Int, NEW m \in Nat, n = x.refs - 2, m = x.kills + 1
  PROVE  UnrefIo([UnrefIo(x) EXCEPT !.user = FALSE, !.kills = @ + 1])
           = [x EXCEPT !.user = FALSE, !.kills = m, !.refs = n]
<1>1. PICK k \in Int : k = x.refs - 1
  BY DEF IoShape
<1>2. UnrefIo(x) = [x EXCEPT !.refs = k]
  BY <1>1 DEF UnrefIo
<1>3. PICK z : z = [x EXCEPT !.refs = k, !.user = FALSE, !.kills = m]
  OBVIOUS
<1>4. [UnrefIo(x) EXCEPT !.user = FALSE, !.kills = @ + 1] = z
  BY <1>2, <1>3
<1>5. z.refs - 1 = n
  <2>1. z.refs = k
    BY <1>3 DEF IoShape
  <2>. QED  BY <1>1, <2>1 DEF IoShape
<1>6. UnrefIo(z) = [z EXCEPT !.refs = n]
  BY <1>5 DEF UnrefIo
<1>7. [z EXCEPT !.refs = n] = [x EXCEPT !.user = FALSE, !.kills = m, !.refs = n]
  BY <1>3 DEF IoShape
<1>. QED  BY <1>4, <1>6, <1>7

--------------------------------------------------------------------------------
(* What a step leaves alone.                                                *)

\* A step on one connection keeps what is known of the other ones.
LEMMA OthersKept ==
  ASSUME Shapes, NEW r \in Threads, NEW j \in Ios, NEW x \in ThShape, NEW y \in IoShape,
         StepOf(r, j, x, y), NEW i \in Ios, i # j, ConnectionOk(i)
  PROVE  ConnectionOk(i)'
<1>1. /\ \A t \in Threads : th'[t].io = i <=> th[t].io = i
      /\ \A t \in Threads : th[t].io = i => th'[t] = th[t]
      /\ io'[i] = io[i] /\ (i \in io_list' <=> i \in io_list)
  BY StepIs, Roles
<1>2. /\ PointersAt(i) /\ UnusedAt(i) /\ EndsAt(i) /\ UntoldAt(i) /\ AcceptorAt(i) /\ LoopAt(i)
      /\ OneTakesAt(i) /\ PairedAt(i) /\ WatchingAt(i)
  BY DEF ConnectionOk
<1>3. PointersAt(i)'
  BY <1>1, <1>2 DEF PointersAt, Ended
<1>4. UnusedAt(i)'
  BY <1>1, <1>2, Roles DEF UnusedAt
<1>5. EndsAt(i)'
  BY <1>1, <1>2 DEF EndsAt, Ended
<1>6. UntoldAt(i)'
  BY <1>1, <1>2, Roles DEF UntoldAt
<1>7. AcceptorAt(i)'
  BY <1>1, <1>2, Roles DEF AcceptorAt
<1>8. LoopAt(i)'
  BY <1>1, <1>2, Roles DEF LoopAt
<1>9. \A t \in Threads : Takes(t, i)' <=> Takes(t, i)
  BY <1>1 DEF Takes, TakenBy, OnTheWayWith
<1>10. OneTakesAt(i)'
  BY <1>1, <1>2, <1>9 DEF OneTakesAt
<1>11. Someone("find", i)' <=> Someone("find", i)
  BY <1>1 DEF Someone
<1>12. Someone("report", i)' <=> Someone("report", i)
  BY <1>1 DEF Someone
<1>13. PairedAt(i)'
  <2>1. \A t \in Threads : Takes(t, i) => th'[t] = th[t]
    BY <1>1 DEF Takes, TakenBy, OnTheWayWith
  <2>. QED  BY <1>1, <1>2, <1>9, <1>11, <2>1 DEF PairedAt
<1>14. WatchingAt(i)'
  BY <1>1, <1>2, <1>12, Roles DEF WatchingAt, Scheduled
<1>. QED  BY <1>3, <1>4, <1>5, <1>6, <1>7, <1>8, <1>10, <1>13, <1>14 DEF ConnectionOk

\* A step keeps the invariant when it leaves its own thread and connection in order and pays
\* what is due.
LEMMA StepKeeps ==
  ASSUME IInv, NEW r \in Threads, NEW j \in Ios, NEW x \in ThShape, NEW y \in IoShape,
         StepOf(r, j, x, y),
         listening' \in BOOLEAN, io_list' \subseteq Ios, net_refs' \in Int, calls' \in 0 .. MaxCalls,
         ThreadOk(r, x), ConnectionOk(j)',
         r # Acceptor => (y.announced <=> io[j].announced),
         y.refs - RefsDue(r, x, y, j \in io_list', j)
           = io[j].refs - RefsDue(r, th[r], io[j], j \in io_list, j),
         y.wrefs - WatchDue(r, x, y, j) = io[j].wrefs - WatchDue(r, th[r], io[j], j),
         net_refs' - NetDue(r, x, y) = net_refs - NetDue(r, th[r], io[j])
  PROVE  IInv'
<1>1. Shapes /\ Refs /\ WatchRefs /\ NetRefs
  BY DEF IInv
<1>2. Shapes'
  BY <1>1, StepIs DEF Shapes
<1>3. (\A t \in Threads : ThreadOk(t, th[t]))'
  BY StepIs DEF IInv
<1>4. (\A i \in Ios : ConnectionOk(i))'
  BY OthersKept DEF IInv
<1>5. Refs'
  BY <1>1, RefsStep
<1>6. WatchRefs'
  BY <1>1, WatchRefsStep
<1>7. NetRefs'
  BY <1>1, NetRefsStep
<1>. QED  BY <1>2, <1>3, <1>4, <1>5, <1>6, <1>7 DEF IInv

\* What is known of the thread and the connection of a step.
LEMMA Known ==
  ASSUME IInv, NEW t \in Threads
  PROVE  /\ th[t] \in ThShape /\ ThreadOk(t, th[t])
         /\ th[t].pc # "idle" => th[t].io \in Ios
BY DEF IInv, Shapes, ThreadOk, Carried, ThShape

LEMMA KnownOf ==
  ASSUME IInv, NEW i \in Ios
  PROVE  /\ io[i] \in IoShape
         /\ PointersAt(i) /\ UnusedAt(i) /\ EndsAt(i) /\ UntoldAt(i) /\ AcceptorAt(i) /\ LoopAt(i)
         /\ OneTakesAt(i) /\ PairedAt(i) /\ WatchingAt(i)
BY DEF IInv, Shapes, ConnectionOk

--------------------------------------------------------------------------------
(* Every step keeps the invariant.                                          *)

LEMMA SwapToKillKeeps ==
  ASSUME IInv, NEW t \in Threads, SwapToKill(t) PROVE IInv'
<1>1. PICK j \in Ios : j = th[t].io
  BY Known DEF SwapToKill, At
<1>2. t \in Threads /\ th[t] \in ThShape /\ ThreadOk(t, th[t])
  BY Known, Roles
<1>3. /\ io[j] \in IoShape /\ PointersAt(j) /\ UnusedAt(j) /\ EndsAt(j) /\ UntoldAt(j)
      /\ AcceptorAt(j) /\ LoopAt(j) /\ OneTakesAt(j) /\ PairedAt(j) /\ WatchingAt(j)
  BY KnownOf
<1>4. th[t].pc = "kill" /\ ~ th[t].watch /\ ~ th[t].net
  BY <1>1, <1>2 DEF SwapToKill, At, ThreadOk, Carried
<1>5. Takes(t, j) \/ t = Acceptor
  BY <1>1, <1>2, Roles
  DEF SwapToKill, At, Takes, OnTheWayWith, OnTheWay, ThreadOk, UserPlace, LoopPlace, ReportPath,
      KillPath
<1>6. j \notin io_list
  BY <1>1, <1>2, <1>3, <1>4, <1>5, Roles DEF OneTakesAt, AcceptorAt
<1>7. t # Loop
  BY <1>1, <1>2, <1>3, <1>4 DEF ThreadOk, LoopPlace, ReportPath
<1>8. t # Acceptor => io[j].announced
  BY <1>1, <1>2, <1>3, <1>4, <1>7, Roles DEF UntoldAt
<1>9. PICK x \in ThShape : x = [th[t] EXCEPT !.watch = io[j].io_watch, !.net = io[j].net, !.pc = "kill_watch"]
  BY <1>1, <1>2, <1>3, <1>4, <1>5, <1>6, <1>7, <1>8
  DEF ThShape, Pcs, KillPath, ReportPath, Idle, Of, IoShape
<1>10. /\ x.pc = "kill_watch" /\ x.io = th[t].io /\ x.watch = io[j].io_watch
       /\ x.net = io[j].net /\ x.then = th[t].then
  BY <1>3, <1>9, <1>8 DEF ThShape, Idle, Of
<1>11. PICK y \in IoShape : y = Swapped(io[j])
  BY <1>1, <1>2, <1>3, <1>4, <1>5, <1>6, <1>7, <1>8 DEF IoShape, UnrefIo, Swapped, Begun
<1>12. /\ y.used = io[j].used /\ ~ y.io_watch /\ ~ y.net /\ y.killed = io[j].killed
       /\ y.in_loop = io[j].in_loop /\ y.user = io[j].user /\ y.announced = io[j].announced
       /\ y.late = io[j].late
  BY <1>11 DEF IoShape, UnrefIo, Swapped, Begun
<1>13. /\ y.refs = io[j].refs /\ y.wrefs = io[j].wrefs /\ y.fins = io[j].fins
       /\ y.kills = io[j].kills /\ y.reads = io[j].reads
  BY <1>11 DEF IoShape, UnrefIo, Swapped, Begun
<1>14. /\ listening' = listening /\ io_list' = io_list /\ net_refs' = net_refs
       /\ calls' = calls
  BY DEF SwapToKill, At, Of
<1>15. StepOf(t, j, x, y)
  BY <1>1, <1>2, <1>3, <1>9, <1>10, <1>11, <1>4, <1>5, <1>6, <1>7, <1>8, <1>14, Roles
  DEF SwapToKill, At, StepOf, Goto, LoopDone, Becomes, Of, IInv, Shapes
<1>16. /\ th'[t] = x /\ io'[j] = y
       /\ \A s \in Threads : s # t => th'[s] = th[s]
  BY <1>3, <1>15, StepIs DEF IInv
<1>17. ThreadOk(t, x)
  BY <1>1, <1>2, <1>3, <1>10, <1>4, <1>5, <1>8, Roles
  DEF ThreadOk, UserPlace, AcceptorPlace, LoopPlace, Carried, KillPath, ReportPath
<1>18. ConnectionOk(j)'
  <2>1. PointersAt(j)'
    BY <1>12, <1>14, <1>16, <1>4, <1>5, <1>6, <1>7, <1>8, Roles DEF PointersAt, Taken, Ended
  <2>2. UnusedAt(j)'
    BY <1>3, <1>10, <1>12, <1>14, <1>16, <1>4, <1>5, <1>6, <1>7, <1>8, Roles DEF UnusedAt
  <2>3. EndsAt(j)'
    BY <1>3, <1>10, <1>12, <1>13, <1>14, <1>16, <1>4, <1>5, <1>6, <1>7, <1>8, Roles
    DEF EndsAt, Ended
  <2>4. UntoldAt(j)'
    BY <1>3, <1>10, <1>12, <1>13, <1>14, <1>16, <1>4, <1>5, <1>6, <1>7, <1>8, Roles DEF UntoldAt
  <2>5. AcceptorAt(j)'
    BY <1>3, <1>10, <1>12, <1>14, <1>16, <1>4, <1>5, <1>6, <1>7, <1>8, Roles DEF AcceptorAt
  <2>6. LoopAt(j)'
    BY <1>3, <1>10, <1>12, <1>14, <1>16, <1>4, <1>5, <1>6, <1>7, <1>8, Roles
    DEF LoopAt, ReportPath
  <2>7. OneTakesAt(j)'
    BY <1>3, <1>10, <1>12, <1>14, <1>16, <1>4, <1>5, <1>6, <1>7, <1>8, Roles
    DEF OneTakesAt, Takes, TakenBy, OnTheWayWith, OnTheWay, KillPath
  <2>8. PairedAt(j)'
    BY <1>12, <1>14, <1>16, <1>4, <1>5, <1>6, <1>7, <1>8, Roles
    DEF PairedAt, Someone, Takes, TakenBy, OnTheWayWith, OnTheWay, KillPath
  <2>9. WatchingAt(j)'
    BY <1>12, <1>14, <1>16, <1>4, <1>5, <1>6, <1>7, <1>8, Roles DEF WatchingAt, Scheduled, Someone
  <2>. QED  BY <2>1, <2>2, <2>3, <2>4, <2>5, <2>6, <2>7, <2>8, <2>9 DEF ConnectionOk
<1>19. y.refs - RefsDue(t, x, y, j \in io_list', j)
         = io[j].refs - RefsDue(t, th[t], io[j], j \in io_list, j)
  BY <1>3, <1>10, <1>12, <1>13, <1>14, <1>4, <1>5, <1>6, <1>7, <1>8, Roles
  DEF RefsDue, UserOf, TakenBy, OnTheWayWith, OnTheWay, KillPath, One, IoShape
<1>20. y.wrefs - WatchDue(t, x, y, j) = io[j].wrefs - WatchDue(t, th[t], io[j], j)
  BY <1>1, <1>2, <1>3, <1>10, <1>12, <1>13, <1>14, <1>4, <1>5, <1>6, <1>7, <1>8, Roles
  DEF WatchDue, CarriedBy, WrittenBy, FailedBy, One, IoShape
<1>21. net_refs' \in Int /\ net_refs' - NetDue(t, x, y) = net_refs - NetDue(t, th[t], io[j])
  BY <1>3, <1>10, <1>12, <1>14, <1>4, <1>5, <1>6, <1>7, <1>8, Roles
  DEF NetDue, NetHeldBy, One, IInv, Shapes
<1>22. /\ t # Acceptor => (y.announced <=> io[j].announced)
       /\ listening' \in BOOLEAN /\ io_list' \subseteq Ios /\ calls' \in 0 .. MaxCalls
  BY <1>3, <1>12, <1>14, <1>4, <1>7, <1>8, Roles, NetIoAssumption DEF IInv, Shapes
<1>. QED  BY <1>11, <1>15, <1>17, <1>18, <1>19, <1>20, <1>21, <1>22, StepKeeps

LEMMA KillWatchKeeps ==
  ASSUME IInv, NEW t \in Threads, KillWatch(t) PROVE IInv'
<1>1. PICK j \in Ios : j = th[t].io
  BY Known DEF KillWatch, At
<1>2. t \in Threads /\ th[t] \in ThShape /\ ThreadOk(t, th[t])
  BY Known, Roles
<1>3. /\ io[j] \in IoShape /\ PointersAt(j) /\ UnusedAt(j) /\ EndsAt(j) /\ UntoldAt(j)
      /\ AcceptorAt(j) /\ LoopAt(j) /\ OneTakesAt(j) /\ PairedAt(j) /\ WatchingAt(j)
  BY KnownOf
<1>4. /\ th[t].pc = "kill_watch" /\ ~ io[j].io_watch
      /\ t # Loop
      /\ t \in Users => th[t].then = "killed"
  BY <1>1, <1>2, <1>3
  DEF KillWatch, At, PointersAt, Taken, ThreadOk, UserPlace, KillPath, LoopPlace, ReportPath
<1>5. PICK x \in ThShape : x = [th[t] EXCEPT !.pc = IF th[t].watch THEN "close_watch" ELSE "unref_net"]
  BY <1>1, <1>2, <1>3, <1>4 DEF ThShape, Pcs, KillPath, ReportPath, Idle, Of, IoShape
<1>6. /\ x.pc = IF th[t].watch THEN "close_watch" ELSE "unref_net"
      /\ x.io = th[t].io /\ x.watch = th[t].watch /\ x.net = th[t].net
      /\ x.then = th[t].then
  BY <1>3, <1>5 DEF Of
<1>7. PICK y \in IoShape : y = IF th[t].watch THEN [io[j] EXCEPT !.in_loop = IF @ = "in" THEN "leaving" ELSE @] ELSE io[j]
  BY <1>1, <1>2, <1>3, <1>4 DEF IoShape, UnrefIo, Swapped, Begun
<1>8. /\ y.used = io[j].used /\ y.io_watch = io[j].io_watch /\ y.net = io[j].net
      /\ y.killed = io[j].killed
      /\ y.in_loop = IF th[t].watch /\ io[j].in_loop = "in" THEN "leaving" ELSE io[j].in_loop
      /\ y.user = io[j].user /\ y.announced = io[j].announced /\ y.late = io[j].late
  BY <1>7 DEF Swapped, Begun
<1>9. /\ y.refs = io[j].refs /\ y.wrefs = io[j].wrefs /\ y.fins = io[j].fins
      /\ y.kills = io[j].kills /\ y.reads = io[j].reads
  BY <1>7 DEF Swapped, Begun
<1>10. /\ listening' = listening /\ io_list' = io_list /\ net_refs' = net_refs
       /\ calls' = calls
  BY DEF KillWatch, At
<1>11. StepOf(t, j, x, y)
  BY <1>1, <1>2, <1>3, <1>5, <1>6, <1>7, Roles
  DEF KillWatch, At, StepOf, Goto, LoopDone, Becomes, Of, IInv, Shapes
<1>12. /\ th'[t] = x /\ io'[j] = y
       /\ \A s \in Threads : s # t => th'[s] = th[s]
  BY <1>3, <1>11, StepIs DEF IInv
<1>13. ThreadOk(t, x)
  BY <1>1, <1>2, <1>3, <1>6, <1>4, Roles
  DEF ThreadOk, UserPlace, AcceptorPlace, LoopPlace, Carried, KillPath, ReportPath
<1>14. ConnectionOk(j)'
  <2>1. PointersAt(j)'
    BY <1>3, <1>6, <1>8, <1>10, <1>12, <1>4, Roles DEF PointersAt, Taken, Ended
  <2>2. UnusedAt(j)'
    BY <1>3, <1>6, <1>8, <1>10, <1>12, <1>4, Roles DEF UnusedAt
  <2>3. EndsAt(j)'
    BY <1>3, <1>6, <1>8, <1>9, <1>10, <1>12, <1>4, Roles DEF EndsAt, Ended
  <2>4. UntoldAt(j)'
    BY <1>3, <1>6, <1>8, <1>9, <1>10, <1>12, <1>4, Roles DEF UntoldAt
  <2>5. AcceptorAt(j)'
    BY <1>3, <1>6, <1>8, <1>10, <1>12, <1>4, Roles DEF AcceptorAt
  <2>6. LoopAt(j)'
    BY <1>3, <1>6, <1>8, <1>10, <1>12, <1>4, Roles DEF LoopAt, ReportPath
  <2>7. OneTakesAt(j)'
    BY <1>3, <1>6, <1>8, <1>10, <1>12, <1>4, Roles
    DEF OneTakesAt, Takes, TakenBy, OnTheWayWith, OnTheWay, KillPath
  <2>8. PairedAt(j)'
    BY <1>3, <1>6, <1>8, <1>10, <1>12, <1>4, Roles
    DEF PairedAt, Someone, Takes, TakenBy, OnTheWayWith, OnTheWay, KillPath
  <2>9. WatchingAt(j)'
    BY <1>8, <1>10, <1>12, <1>4, Roles DEF WatchingAt, Scheduled, Someone
  <2>. QED  BY <2>1, <2>2, <2>3, <2>4, <2>5, <2>6, <2>7, <2>8, <2>9 DEF ConnectionOk
<1>15. y.refs - RefsDue(t, x, y, j \in io_list', j)
         = io[j].refs - RefsDue(t, th[t], io[j], j \in io_list, j)
  BY <1>3, <1>6, <1>8, <1>9, <1>10, <1>4, Roles
  DEF RefsDue, UserOf, TakenBy, OnTheWayWith, OnTheWay, KillPath, One, IoShape
<1>16. y.wrefs - WatchDue(t, x, y, j) = io[j].wrefs - WatchDue(t, th[t], io[j], j)
  BY <1>3, <1>6, <1>8, <1>9, <1>10, <1>4, Roles
  DEF WatchDue, CarriedBy, WrittenBy, FailedBy, One, IoShape
<1>17. net_refs' \in Int /\ net_refs' - NetDue(t, x, y) = net_refs - NetDue(t, th[t], io[j])
  BY <1>3, <1>6, <1>8, <1>10, <1>4, Roles DEF NetDue, NetHeldBy, One, IInv, Shapes
<1>18. /\ t # Acceptor => (y.announced <=> io[j].announced)
       /\ listening' \in BOOLEAN /\ io_list' \subseteq Ios /\ calls' \in 0 .. MaxCalls
  BY <1>3, <1>8, <1>10, <1>4 DEF IInv, Shapes
<1>. QED  BY <1>1, <1>2, <1>3, <1>5, <1>7, <1>11, <1>13, <1>14, <1>15, <1>16, <1>17, <1>18,
   StepKeeps

LEMMA CloseWatchKeeps ==
  ASSUME IInv, NEW t \in Threads, CloseWatch(t) PROVE IInv'
<1>1. PICK j \in Ios : j = th[t].io
  BY Known DEF CloseWatch, At
<1>2. t \in Threads /\ th[t] \in ThShape /\ ThreadOk(t, th[t])
  BY Known, Roles
<1>3. /\ io[j] \in IoShape /\ PointersAt(j) /\ UnusedAt(j) /\ EndsAt(j) /\ UntoldAt(j)
      /\ AcceptorAt(j) /\ LoopAt(j) /\ OneTakesAt(j) /\ PairedAt(j) /\ WatchingAt(j)
  BY KnownOf
<1>4. /\ th[t].pc = "close_watch" /\ th[t].watch /\ ~ io[j].io_watch
      /\ t \in Users => th[t].then = "killed"
  BY <1>1, <1>2, <1>3
  DEF CloseWatch, At, ThreadOk, Carried, PointersAt, Taken, UserPlace, KillPath
<1>5. t # Loop
  BY <1>1, <1>2, <1>3, <1>4 DEF ThreadOk, LoopPlace, ReportPath
<1>6. io[j].used
  BY <1>1, <1>2, <1>3, <1>4, <1>5, Roles DEF UnusedAt, UntoldAt
<1>7. PICK x \in ThShape : x = [th[t] EXCEPT !.watch = FALSE, !.pc = "unref_net"]
  BY <1>1, <1>2, <1>3, <1>4, <1>5, <1>6 DEF ThShape, Pcs, KillPath, ReportPath, Idle, Of, IoShape
<1>8. /\ x.pc = "unref_net" /\ x.io = th[t].io /\ ~ x.watch /\ x.net = th[t].net
      /\ x.then = th[t].then
  BY <1>3, <1>7 DEF ThShape, Idle, Of
<1>9. PICK z \in IoShape : z = [io[j] EXCEPT !.killed = TRUE]
  BY <1>3 DEF IoShape
<1>10. /\ z.used = io[j].used /\ z.io_watch = io[j].io_watch /\ z.net = io[j].net /\ z.killed
       /\ z.in_loop = io[j].in_loop /\ z.user = io[j].user /\ z.announced = io[j].announced
       /\ z.fins = io[j].fins /\ z.kills = io[j].kills /\ z.reads = io[j].reads /\ z.late = io[j].late
       /\ z.refs = io[j].refs /\ z.wrefs = io[j].wrefs
  BY <1>9
<1>11. PICK y \in IoShape : y = UnrefWatch(z)
  BY UnrefWatchSound DEF IoShape, UnrefIo, Swapped, Begun
<1>12. /\ y.used = io[j].used /\ y.io_watch = io[j].io_watch /\ y.net = io[j].net /\ y.killed
       /\ y.in_loop = io[j].in_loop /\ y.user = io[j].user /\ y.announced = io[j].announced
       /\ y.late = io[j].late
  BY ZenonT(20), <1>1, <1>2, <1>3, <1>9, <1>10, <1>4, <1>5, <1>6, UnrefWatchSound, <1>11
  DEF IoShape, UnrefIo, Swapped, Begun
<1>13. /\ y.refs = io[j].refs - One(io[j].wrefs = 1)
       /\ y.wrefs = io[j].wrefs - 1 /\ y.fins = io[j].fins /\ y.kills = io[j].kills
       /\ y.reads = io[j].reads
  BY <1>10, <1>4, UnrefWatchSound, <1>11 DEF IoShape, UnrefIo, Swapped, Begun
<1>14. /\ listening' = listening /\ io_list' = io_list /\ net_refs' = net_refs
       /\ calls' = calls
  BY DEF CloseWatch, At, Of
<1>15. StepOf(t, j, x, y)
  BY <1>1, <1>2, <1>3, <1>7, <1>8, <1>11, <1>9, <1>10, <1>4, <1>5, <1>6, <1>14, Roles
  DEF CloseWatch, At, StepOf, Goto, LoopDone, Becomes, Of, IInv, Shapes
<1>16. /\ th'[t] = x /\ io'[j] = y
       /\ \A s \in Threads : s # t => th'[s] = th[s]
  BY <1>3, <1>15, StepIs DEF IInv
<1>17. ThreadOk(t, x)
  BY <1>1, <1>2, <1>3, <1>8, <1>4, <1>5
  DEF ThreadOk, UserPlace, AcceptorPlace, LoopPlace, Carried, KillPath, ReportPath
<1>18. ConnectionOk(j)'
  <2>1. PointersAt(j)'
    BY <1>3, <1>8, <1>12, <1>14, <1>16, <1>4, <1>5, <1>6, Roles DEF PointersAt, Taken, Ended
  <2>2. UnusedAt(j)'
    BY <1>1, <1>2, <1>3, <1>8, <1>12, <1>14, <1>16, <1>4, <1>5, <1>6, Roles DEF UnusedAt
  <2>3. EndsAt(j)'
    BY <1>3, <1>8, <1>12, <1>13, <1>14, <1>16, <1>4, <1>5, <1>6, Roles DEF EndsAt, Ended
  <2>4. UntoldAt(j)'
    BY <1>3, <1>8, <1>12, <1>13, <1>14, <1>16, <1>4, <1>5, <1>6, Roles DEF UntoldAt
  <2>5. AcceptorAt(j)'
    BY <1>3, <1>8, <1>12, <1>14, <1>16, <1>4, <1>5, <1>6, Roles DEF AcceptorAt
  <2>6. LoopAt(j)'
    BY <1>3, <1>8, <1>12, <1>14, <1>16, <1>4, <1>5, <1>6, Roles DEF LoopAt, ReportPath
  <2>7. OneTakesAt(j)'
    BY <1>3, <1>8, <1>12, <1>14, <1>16, <1>4, <1>5, <1>6, Roles
    DEF OneTakesAt, Takes, TakenBy, OnTheWayWith, OnTheWay, KillPath
  <2>8. PairedAt(j)'
    BY <1>3, <1>8, <1>12, <1>14, <1>16, <1>4, <1>5, <1>6, Roles
    DEF PairedAt, Someone, Takes, TakenBy, OnTheWayWith, OnTheWay, KillPath
  <2>9. WatchingAt(j)'
    BY <1>12, <1>14, <1>16, <1>4, <1>5, <1>6, Roles DEF WatchingAt, Scheduled, Someone
  <2>. QED  BY <2>1, <2>2, <2>3, <2>4, <2>5, <2>6, <2>7, <2>8, <2>9 DEF ConnectionOk
<1>19. y.refs - RefsDue(t, x, y, j \in io_list', j)
         = io[j].refs - RefsDue(t, th[t], io[j], j \in io_list, j)
  BY <1>3, <1>8, <1>12, <1>13, <1>14, <1>4, <1>5, <1>6, Roles
  DEF RefsDue, UserOf, TakenBy, OnTheWayWith, OnTheWay, KillPath, One, IoShape
<1>20. y.wrefs - WatchDue(t, x, y, j) = io[j].wrefs - WatchDue(t, th[t], io[j], j)
  BY <1>1, <1>2, <1>3, <1>8, <1>12, <1>13, <1>9, <1>10, <1>14, <1>4, <1>5, <1>6, Roles
  DEF WatchDue, CarriedBy, WrittenBy, FailedBy, One, IoShape
<1>21. net_refs' \in Int /\ net_refs' - NetDue(t, x, y) = net_refs - NetDue(t, th[t], io[j])
  BY <1>3, <1>8, <1>12, <1>14, <1>4, <1>5, <1>6, Roles DEF NetDue, NetHeldBy, One, IInv, Shapes
<1>22. /\ t # Acceptor => (y.announced <=> io[j].announced)
       /\ listening' \in BOOLEAN /\ io_list' \subseteq Ios /\ calls' \in 0 .. MaxCalls
  BY <1>3, <1>12, <1>14, <1>4, Roles, NetIoAssumption DEF IInv, Shapes
<1>. QED  BY <1>11, <1>15, <1>17, <1>18, <1>19, <1>20, <1>21, <1>22, StepKeeps

LEMMA UnrefNetKeeps ==
  ASSUME IInv, NEW t \in Threads, UnrefNet(t) PROVE IInv'
<1>1. PICK j \in Ios : j = th[t].io
  BY Known DEF UnrefNet, At
<1>2. t \in Threads /\ th[t] \in ThShape /\ ThreadOk(t, th[t])
  BY Known, Roles
<1>3. /\ io[j] \in IoShape /\ PointersAt(j) /\ UnusedAt(j) /\ EndsAt(j) /\ UntoldAt(j)
      /\ AcceptorAt(j) /\ LoopAt(j) /\ OneTakesAt(j) /\ PairedAt(j) /\ WatchingAt(j)
  BY KnownOf
<1>4. th[t].pc = "unref_net" /\ ~ th[t].watch /\ ~ io[j].io_watch /\ ~ io[j].net
  BY <1>1, <1>2, <1>3 DEF UnrefNet, At, ThreadOk, Carried, PointersAt, Taken
<1>5. /\ t \in Users => th[t].then \in {"killed", "written"}
      /\ t = Acceptor => th[t].then \in {"unref_list", "unref_new"}
      /\ t = Loop => th[t].then = "drop_event"
  BY <1>1, <1>2 DEF UnrefNet, At, ThreadOk, UserPlace, AcceptorPlace, LoopPlace
<1>6. PICK x \in ThShape : x = [th[t] EXCEPT !.pc = th[t].then, !.watch = FALSE, !.net = FALSE]
  BY <1>1, <1>2, <1>3, <1>4, <1>5 DEF ThShape, Pcs, KillPath, ReportPath, Idle, Of, IoShape
<1>7. x.pc = th[t].then /\ x.io = th[t].io /\ ~ x.watch /\ ~ x.net /\ x.then = th[t].then
  BY <1>3, <1>6 DEF Of
<1>8. /\ listening' = listening /\ io_list' = io_list
      /\ net_refs' = net_refs - IF th[t].net THEN 1 ELSE 0
      /\ calls' = calls
  BY DEF UnrefNet, At, Of
<1>9. StepOf(t, j, x, io[j])
  BY <1>1, <1>2, <1>3, <1>6, <1>7, <1>4, <1>5, <1>8, Roles
  DEF UnrefNet, At, StepOf, Goto, LoopDone, Becomes, Of, IInv, Shapes
<1>10. /\ th'[t] = x /\ io'[j] = io[j]
       /\ \A s \in Threads : s # t => th'[s] = th[s]
  BY <1>3, <1>9, StepIs DEF IInv
<1>11. ThreadOk(t, x)
  BY <1>1, <1>2, <1>3, <1>7, <1>4, <1>5, Roles
  DEF ThreadOk, UserPlace, AcceptorPlace, LoopPlace, Carried, KillPath, ReportPath
<1>12. ConnectionOk(j)'
  <2>1. PointersAt(j)'
    BY <1>8, <1>10, <1>4, <1>5, Roles DEF PointersAt, Taken, Ended
  <2>2. UnusedAt(j)'
    BY <1>3, <1>7, <1>8, <1>10, Roles DEF UnusedAt
  <2>3. EndsAt(j)'
    BY <1>3, <1>7, <1>8, <1>10, Roles DEF EndsAt, Ended
  <2>4. UntoldAt(j)'
    BY <1>3, <1>7, <1>8, <1>10, Roles DEF UntoldAt
  <2>5. AcceptorAt(j)'
    BY <1>3, <1>7, <1>8, <1>10, <1>4, <1>5, Roles DEF AcceptorAt
  <2>6. LoopAt(j)'
    BY <1>3, <1>7, <1>8, <1>10, <1>4, <1>5, Roles DEF LoopAt, ReportPath
  <2>7. OneTakesAt(j)'
    BY <1>3, <1>7, <1>8, <1>10, <1>4, <1>5, Roles
    DEF OneTakesAt, Takes, TakenBy, OnTheWayWith, OnTheWay, KillPath
  <2>8. PairedAt(j)'
    BY <1>3, <1>7, <1>8, <1>10, <1>4, <1>5, Roles
    DEF PairedAt, Someone, Takes, TakenBy, OnTheWayWith, OnTheWay, KillPath
  <2>9. WatchingAt(j)'
    BY <1>8, <1>10, <1>4, <1>5, Roles DEF WatchingAt, Scheduled, Someone
  <2>. QED  BY <2>1, <2>2, <2>3, <2>4, <2>5, <2>6, <2>7, <2>8, <2>9 DEF ConnectionOk
<1>13. io[j].refs - RefsDue(t, x, io[j], j \in io_list', j)
         = io[j].refs - RefsDue(t, th[t], io[j], j \in io_list, j)
  BY <1>3, <1>7, <1>8, <1>4, <1>5, Roles
  DEF RefsDue, UserOf, TakenBy, OnTheWayWith, OnTheWay, KillPath, One, IoShape
<1>14. io[j].wrefs - WatchDue(t, x, io[j], j) = io[j].wrefs - WatchDue(t, th[t], io[j], j)
  BY <1>3, <1>7, <1>8, <1>4, <1>5, Roles
  DEF WatchDue, CarriedBy, WrittenBy, FailedBy, One, IoShape
<1>15. net_refs' \in Int /\ net_refs' - NetDue(t, x, io[j]) = net_refs - NetDue(t, th[t], io[j])
  BY <1>3, <1>7, <1>8, <1>4, <1>5, Roles DEF NetDue, NetHeldBy, One, IInv, Shapes
<1>16. /\ t # Acceptor => (io[j].announced <=> io[j].announced)
       /\ listening' \in BOOLEAN /\ io_list' \subseteq Ios /\ calls' \in 0 .. MaxCalls
  BY <1>3, <1>8 DEF IInv, Shapes
<1>. QED  BY <1>3, <1>6, <1>9, <1>11, <1>12, <1>13, <1>14, <1>15, <1>16, StepKeeps

LEMMA SwapToReportKeeps ==
  ASSUME IInv, NEW t \in Threads, SwapToReport(t) PROVE IInv'
<1>1. PICK j \in Ios : j = th[t].io
  BY Known DEF SwapToReport, At
<1>2. t \in Threads /\ th[t] \in ThShape /\ ThreadOk(t, th[t])
  BY Known, Roles
<1>3. /\ io[j] \in IoShape /\ PointersAt(j) /\ UnusedAt(j) /\ EndsAt(j) /\ UntoldAt(j)
      /\ AcceptorAt(j) /\ LoopAt(j) /\ OneTakesAt(j) /\ PairedAt(j) /\ WatchingAt(j)
  BY KnownOf
<1>4. th[t].pc = "report" /\ ~ th[t].watch /\ ~ th[t].net
  BY <1>1, <1>2 DEF SwapToReport, At, ThreadOk, Carried
<1>5. /\ t \in Users => th[t].then = "written"
      /\ t = Acceptor => FALSE
      /\ t = Loop => th[t].then = "drop_event"
  BY <1>1, <1>2
  DEF SwapToReport, Find, OnFin, At, ThreadOk, UserPlace, AcceptorPlace, LoopPlace, ReportPath,
      KillPath
<1>6. t # Acceptor /\ io[j].announced
  BY <1>1, <1>2, <1>3, <1>4, <1>5, Roles
  DEF SwapToReport, At, UntoldAt, AcceptorPlace, KillPath, ReportPath
<1>7. PICK x \in ThShape : x = [th[t] EXCEPT !.net = io[j].net, !.pc = IF io[j].net THEN "find" ELSE "unref_net"]
  BY <1>1, <1>2, <1>3, <1>4, <1>5, <1>6 DEF ThShape, Pcs, KillPath, ReportPath, Idle, Of, IoShape
<1>8. /\ x.pc = IF io[j].net THEN "find" ELSE "unref_net"
      /\ x.io = th[t].io /\ x.watch = th[t].watch /\ x.net = io[j].net
      /\ x.then = th[t].then
  BY <1>3, <1>7 DEF ThShape, Idle, Of
<1>9. PICK z \in IoShape : z = Swapped(io[j])
  BY <1>3 DEF IoShape, Swapped
<1>10. /\ z.used = io[j].used /\ ~ z.io_watch /\ ~ z.net /\ z.killed = io[j].killed
       /\ z.in_loop = io[j].in_loop /\ z.user = io[j].user /\ z.announced = io[j].announced
       /\ z.fins = io[j].fins /\ z.kills = io[j].kills /\ z.reads = io[j].reads /\ z.late = io[j].late
       /\ z.refs = io[j].refs /\ z.wrefs = io[j].wrefs
  BY <1>9 DEF IoShape, Swapped
<1>11. PICK v \in IoShape : v = UnrefWatch(z) /\ v.wrefs = io[j].wrefs - 1
                                /\ v.refs = io[j].refs - One(io[j].wrefs = 1)
  BY <1>10, UnrefWatchSound
<1>12. PICK y \in IoShape : y = IF io[j].io_watch THEN UnrefWatch(z) ELSE z
  BY <1>1, <1>2, <1>6, UnrefWatchSound DEF IoShape, UnrefIo, Swapped, Begun
<1>13. /\ y.used = io[j].used /\ ~ y.io_watch /\ ~ y.net /\ y.killed = io[j].killed
       /\ y.in_loop = io[j].in_loop /\ y.user = io[j].user /\ y.announced = io[j].announced
       /\ y.late = io[j].late
  BY ZenonT(20), <1>1, <1>2, <1>3, <1>9, <1>10, <1>11, <1>4, <1>5, <1>6, UnrefWatchSound, <1>12
  DEF IoShape, UnrefIo, Swapped, Begun
<1>14. /\ y.refs = IF io[j].io_watch THEN v.refs ELSE io[j].refs
       /\ y.wrefs = IF io[j].io_watch THEN v.wrefs ELSE io[j].wrefs
       /\ y.fins = io[j].fins /\ y.kills = io[j].kills /\ y.reads = io[j].reads
  BY <1>1, <1>2, <1>10, <1>11, <1>6, UnrefWatchSound, <1>12 DEF IoShape, UnrefIo, Swapped, Begun
<1>15. /\ listening' = listening /\ io_list' = io_list /\ net_refs' = net_refs
       /\ calls' = calls
  BY DEF SwapToReport, At, Of
<1>16. StepOf(t, j, x, y)
  BY <1>1, <1>2, <1>3, <1>7, <1>8, <1>12, <1>9, <1>10, <1>11, <1>4, <1>5, <1>6, <1>15, Roles
  DEF SwapToReport, At, StepOf, Goto, LoopDone, Becomes, Of, IInv, Shapes
<1>17. /\ th'[t] = x /\ io'[j] = y
       /\ \A s \in Threads : s # t => th'[s] = th[s]
  BY <1>3, <1>16, StepIs DEF IInv
<1>18. ThreadOk(t, x)
  BY <1>1, <1>2, <1>3, <1>8, <1>4, <1>5
  DEF ThreadOk, UserPlace, AcceptorPlace, LoopPlace, Carried, KillPath, ReportPath
<1>19. ConnectionOk(j)'
  <2>1. PointersAt(j)'
    BY <1>13, <1>15, <1>17, <1>4, <1>5, <1>6, Roles DEF PointersAt, Taken, Ended
  <2>2. UnusedAt(j)'
    BY <1>3, <1>8, <1>13, <1>15, <1>17, <1>4, <1>5, <1>6, Roles DEF UnusedAt
  <2>3. EndsAt(j)'
    BY <1>1, <1>2, <1>3, <1>8, <1>13, <1>14, <1>9, <1>10, <1>11, <1>15, <1>17, <1>4, <1>5, <1>6,
       Roles
    DEF EndsAt, Ended
  <2>4. UntoldAt(j)'
    BY <1>1, <1>2, <1>3, <1>8, <1>13, <1>14, <1>9, <1>10, <1>11, <1>15, <1>17, <1>4, <1>5, <1>6,
       Roles
    DEF UntoldAt
  <2>5. AcceptorAt(j)'
    BY <1>1, <1>2, <1>3, <1>8, <1>13, <1>15, <1>17, <1>4, <1>5, <1>6, Roles DEF AcceptorAt
  <2>6. LoopAt(j)'
    BY <1>3, <1>8, <1>13, <1>15, <1>17, <1>4, <1>5, <1>6, Roles DEF LoopAt, ReportPath
  <2>7. OneTakesAt(j)'
    BY <1>3, <1>8, <1>13, <1>15, <1>17, <1>4, <1>5, <1>6, Roles
    DEF OneTakesAt, Takes, TakenBy, OnTheWayWith, OnTheWay, KillPath
  <2>8. PairedAt(j)'
    BY <1>1, <1>2, <1>3, <1>8, <1>13, <1>15, <1>17, <1>4, <1>5, <1>6, Roles
    DEF PairedAt, Someone, Takes, TakenBy, OnTheWayWith, OnTheWay, KillPath
  <2>9. WatchingAt(j)'
    BY <1>13, <1>15, <1>17, <1>4, <1>5, <1>6, Roles DEF WatchingAt, Scheduled, Someone
  <2>. QED  BY <2>1, <2>2, <2>3, <2>4, <2>5, <2>6, <2>7, <2>8, <2>9 DEF ConnectionOk
<1>20. y.refs - RefsDue(t, x, y, j \in io_list', j)
         = io[j].refs - RefsDue(t, th[t], io[j], j \in io_list, j)
  BY <1>3, <1>8, <1>13, <1>14, <1>11, <1>15, <1>4, <1>5, <1>6, Roles
  DEF RefsDue, UserOf, TakenBy, OnTheWayWith, OnTheWay, KillPath, One, IoShape
<1>21. y.wrefs - WatchDue(t, x, y, j) = io[j].wrefs - WatchDue(t, th[t], io[j], j)
  BY <1>3, <1>8, <1>13, <1>14, <1>11, <1>15, <1>4, <1>5, <1>6, Roles
  DEF WatchDue, CarriedBy, WrittenBy, FailedBy, One, IoShape
<1>22. net_refs' \in Int /\ net_refs' - NetDue(t, x, y) = net_refs - NetDue(t, th[t], io[j])
  BY <1>3, <1>8, <1>13, <1>15, <1>4, <1>5, <1>6, Roles DEF NetDue, NetHeldBy, One, IInv, Shapes
<1>23. /\ t # Acceptor => (y.announced <=> io[j].announced)
       /\ listening' \in BOOLEAN /\ io_list' \subseteq Ios /\ calls' \in 0 .. MaxCalls
  BY <1>3, <1>13, <1>15, <1>4, Roles, NetIoAssumption DEF IInv, Shapes
<1>. QED  BY <1>12, <1>16, <1>18, <1>19, <1>20, <1>21, <1>22, <1>23, StepKeeps

LEMMA FindKeeps ==
  ASSUME IInv, NEW t \in Threads, Find(t) PROVE IInv'
<1>1. PICK j \in Ios : j = th[t].io
  BY Known DEF Find, At
<1>2. t \in Threads /\ th[t] \in ThShape /\ ThreadOk(t, th[t])
  BY Known, Roles
<1>3. /\ io[j] \in IoShape /\ PointersAt(j) /\ UnusedAt(j) /\ EndsAt(j) /\ UntoldAt(j)
      /\ AcceptorAt(j) /\ LoopAt(j) /\ OneTakesAt(j) /\ PairedAt(j) /\ WatchingAt(j)
  BY KnownOf
<1>4. /\ th[t].pc = "find" /\ ~ th[t].watch /\ th[t].net
      /\ ~ io[j].io_watch /\ ~ io[j].net
  BY <1>1, <1>2, <1>3 DEF Find, At, ThreadOk, Carried, PointersAt, Taken
<1>5. /\ t \in Users => th[t].then = "written"
      /\ t = Acceptor => FALSE
      /\ t = Loop => th[t].then = "drop_event"
  BY <1>1, <1>2
  DEF SwapToReport, Find, OnFin, At, ThreadOk, UserPlace, AcceptorPlace, LoopPlace, ReportPath,
      KillPath
<1>6. t # Acceptor /\ io[j].announced
  BY <1>1, <1>2, <1>3, <1>4, <1>5, Roles DEF UntoldAt, AcceptorPlace, KillPath, ReportPath
<1>7. PICK x \in ThShape : x = [th[t] EXCEPT !.pc = IF j \in io_list THEN "on_fin" ELSE "unref_net"]
  BY <1>1, <1>2, <1>3, <1>4, <1>5, <1>6 DEF ThShape, Pcs, KillPath, ReportPath, Idle, Of, IoShape
<1>8. /\ x.pc = IF j \in io_list THEN "on_fin" ELSE "unref_net"
      /\ x.io = th[t].io /\ x.watch = th[t].watch /\ x.net = th[t].net
      /\ x.then = th[t].then
  BY <1>1, <1>2, <1>3, <1>7 DEF ThShape, Idle, Of
<1>9. /\ listening' = listening /\ io_list' = io_list \ {j} /\ net_refs' = net_refs
      /\ calls' = calls
  BY <1>1, <1>2 DEF Find, At, Of
<1>10. StepOf(t, j, x, io[j])
  BY <1>1, <1>2, <1>3, <1>7, <1>9, Roles
  DEF Find, At, StepOf, Goto, LoopDone, Becomes, Of, IInv, Shapes
<1>11. /\ th'[t] = x /\ io'[j] = io[j]
       /\ \A s \in Threads : s # t => th'[s] = th[s]
  BY <1>3, <1>10, StepIs DEF IInv
<1>12. ThreadOk(t, x)
  BY <1>1, <1>2, <1>3, <1>8, <1>4, <1>5
  DEF ThreadOk, UserPlace, AcceptorPlace, LoopPlace, Carried, KillPath, ReportPath
<1>13. ConnectionOk(j)'
  <2>1. PointersAt(j)'
    BY <1>9, <1>11, <1>4, <1>5, <1>6, Roles DEF PointersAt, Taken, Ended
  <2>2. UnusedAt(j)'
    BY <1>3, <1>8, <1>9, <1>11, <1>6, Roles DEF UnusedAt
  <2>3. EndsAt(j)'
    BY <1>3, <1>8, <1>9, <1>11, <1>6, Roles DEF EndsAt, Ended
  <2>4. UntoldAt(j)'
    BY <1>9, <1>11, <1>6, Roles DEF UntoldAt
  <2>5. AcceptorAt(j)'
    BY <1>3, <1>8, <1>9, <1>11, <1>6, Roles DEF AcceptorAt
  <2>6. LoopAt(j)'
    BY <1>3, <1>8, <1>9, <1>11, <1>4, <1>5, <1>6, Roles DEF LoopAt, ReportPath
  <2>7. OneTakesAt(j)'
    BY <1>1, <1>2, <1>3, <1>8, <1>9, <1>11, <1>4, <1>5, <1>6, Roles
    DEF OneTakesAt, Takes, TakenBy, OnTheWayWith, OnTheWay, KillPath
  <2>8. PairedAt(j)'
    BY <1>9, <1>11, <1>4, <1>5, <1>6, Roles
    DEF PairedAt, Someone, Takes, TakenBy, OnTheWayWith, OnTheWay, KillPath
  <2>9. WatchingAt(j)'
    BY <1>9, <1>11, <1>4, <1>5, <1>6, Roles DEF WatchingAt, Scheduled, Someone
  <2>. QED  BY <2>1, <2>2, <2>3, <2>4, <2>5, <2>6, <2>7, <2>8, <2>9 DEF ConnectionOk
<1>14. io[j].refs - RefsDue(t, x, io[j], j \in io_list', j)
         = io[j].refs - RefsDue(t, th[t], io[j], j \in io_list, j)
  BY <1>1, <1>2, <1>3, <1>8, <1>9, <1>4, <1>5, <1>6, Roles
  DEF RefsDue, UserOf, TakenBy, OnTheWayWith, OnTheWay, KillPath, One, IoShape
<1>15. io[j].wrefs - WatchDue(t, x, io[j], j) = io[j].wrefs - WatchDue(t, th[t], io[j], j)
  BY <1>3, <1>8, <1>9, <1>4, Roles DEF WatchDue, CarriedBy, WrittenBy, FailedBy, One, IoShape
<1>16. net_refs' \in Int /\ net_refs' - NetDue(t, x, io[j]) = net_refs - NetDue(t, th[t], io[j])
  BY <1>3, <1>8, <1>9, <1>4, Roles DEF NetDue, NetHeldBy, One, IInv, Shapes
<1>17. /\ t # Acceptor => (io[j].announced <=> io[j].announced)
       /\ listening' \in BOOLEAN /\ io_list' \subseteq Ios /\ calls' \in 0 .. MaxCalls
  BY <1>3, <1>9, NetIoAssumption DEF IInv, Shapes
<1>. QED  BY <1>3, <1>7, <1>10, <1>12, <1>13, <1>14, <1>15, <1>16, <1>17, StepKeeps

LEMMA OnFinKeeps ==
  ASSUME IInv, NEW t \in Threads, OnFin(t) PROVE IInv'
<1>1. PICK j \in Ios : j = th[t].io
  BY Known DEF OnFin, At
<1>2. t \in Threads /\ th[t] \in ThShape /\ ThreadOk(t, th[t])
  BY Known, Roles
<1>3. /\ io[j] \in IoShape /\ PointersAt(j) /\ UnusedAt(j) /\ EndsAt(j) /\ UntoldAt(j)
      /\ AcceptorAt(j) /\ LoopAt(j) /\ OneTakesAt(j) /\ PairedAt(j) /\ WatchingAt(j)
  BY KnownOf
<1>4. /\ th[t].pc = "on_fin" /\ ~ th[t].watch /\ th[t].net
      /\ ~ io[j].io_watch /\ ~ io[j].net
  BY <1>1, <1>2, <1>3 DEF OnFin, At, ThreadOk, Carried, PointersAt, Taken
<1>5. /\ t \in Users => th[t].then = "written"
      /\ t = Acceptor => FALSE
      /\ t = Loop => th[t].then = "drop_event"
  BY <1>1, <1>2 DEF OnFin, At, ThreadOk, UserPlace, AcceptorPlace, LoopPlace, ReportPath, KillPath
<1>6. j \notin io_list /\ io[j].announced /\ io[j].user
  BY <1>1, <1>2, <1>3, <1>4, <1>5, Roles
  DEF OneTakesAt, Takes, TakenBy, UntoldAt, ThreadOk, AcceptorPlace, KillPath
<1>7. PICK x \in ThShape : x = [th[t] EXCEPT !.pc = "unref_net"]
  BY <1>1, <1>2, <1>3, <1>4, <1>5, <1>6 DEF ThShape, Pcs, KillPath, ReportPath, Idle, Of, IoShape
<1>8. /\ x.pc = "unref_net" /\ x.io = th[t].io /\ x.watch = th[t].watch /\ x.net = th[t].net
      /\ x.then = th[t].then
  BY <1>1, <1>2, <1>3, <1>7 DEF ThShape, Idle, Of
<1>9. PICK n \in Int, m \in Nat : n = io[j].refs - 2 /\ m = io[j].fins + 1
  BY <1>3 DEF IoShape
<1>10. UnrefIo([UnrefIo(io[j]) EXCEPT !.user = FALSE, !.fins = @ + 1])
         = [io[j] EXCEPT !.user = FALSE, !.fins = m, !.refs = n]
  BY <1>3, <1>9, OnFinSound
<1>11. PICK y \in IoShape : y = [io[j] EXCEPT !.user = FALSE, !.fins = m, !.refs = n]
  BY <1>1, <1>2, <1>3, <1>9, <1>10, <1>4, <1>5, <1>6 DEF IoShape, UnrefIo, Swapped, Begun
<1>12. /\ y.used = io[j].used /\ y.io_watch = io[j].io_watch /\ y.net = io[j].net
       /\ y.killed = io[j].killed /\ y.in_loop = io[j].in_loop /\ ~ y.user
       /\ y.announced = io[j].announced /\ y.late = io[j].late
  BY ZenonT(20), <1>1, <1>2, <1>3, <1>9, <1>10, <1>4, <1>5, <1>6, <1>11
  DEF IoShape, UnrefIo, Swapped, Begun
<1>13. /\ y.refs = n /\ y.wrefs = io[j].wrefs /\ y.fins = m /\ y.kills = io[j].kills
       /\ y.reads = io[j].reads
  BY <1>11 DEF IoShape, UnrefIo, Swapped, Begun
<1>14. /\ listening' = listening /\ io_list' = io_list /\ net_refs' = net_refs
       /\ calls' = calls
  BY DEF OnFin, At, Of
<1>15. StepOf(t, j, x, y)
  BY <1>1, <1>2, <1>3, <1>7, <1>8, <1>11, <1>9, <1>10, <1>4, <1>5, <1>6, <1>14, Roles
  DEF OnFin, At, StepOf, Goto, LoopDone, Becomes, Of, IInv, Shapes
<1>16. /\ th'[t] = x /\ io'[j] = y
       /\ \A s \in Threads : s # t => th'[s] = th[s]
  BY <1>3, <1>15, StepIs DEF IInv
<1>17. ThreadOk(t, x)
  BY <1>1, <1>2, <1>3, <1>8, <1>4, <1>5
  DEF ThreadOk, UserPlace, AcceptorPlace, LoopPlace, Carried, KillPath, ReportPath
<1>18. ConnectionOk(j)'
  <2>1. PointersAt(j)'
    BY <1>12, <1>14, <1>16, <1>4, <1>5, <1>6, Roles DEF PointersAt, Taken, Ended
  <2>2. UnusedAt(j)'
    BY <1>3, <1>8, <1>12, <1>14, <1>16, <1>4, <1>5, <1>6, Roles DEF UnusedAt
  <2>3. EndsAt(j)'
    <3>1. io[j].fins + io[j].kills = 0 /\ ~ io[j].late
      BY <1>3, <1>4, <1>5, <1>6 DEF EndsAt, Ended, One
    <3>2. Ended(y)
      BY <1>12, <1>4, <1>5, <1>6 DEF Ended
    <3>3. y.fins + y.kills = 1
      BY <1>3, <3>1, <1>9, <1>10, <1>13 DEF IoShape
    <3>. QED  BY <3>1, <3>2, <3>3, <1>12, <1>16 DEF EndsAt, Ended, One
  <2>4. UntoldAt(j)'
    BY <1>1, <1>2, <1>3, <1>8, <1>12, <1>13, <1>9, <1>10, <1>14, <1>16, <1>4, <1>5, <1>6, Roles
    DEF UntoldAt
  <2>5. AcceptorAt(j)'
    BY <1>1, <1>2, <1>3, <1>8, <1>12, <1>14, <1>16, <1>4, <1>5, <1>6, Roles DEF AcceptorAt
  <2>6. LoopAt(j)'
    BY <1>3, <1>8, <1>12, <1>14, <1>16, <1>4, <1>5, <1>6, Roles DEF LoopAt, ReportPath
  <2>7. OneTakesAt(j)'
    BY <1>1, <1>2, <1>3, <1>8, <1>12, <1>14, <1>16, <1>4, <1>5, <1>6, Roles
    DEF OneTakesAt, Takes, TakenBy, OnTheWayWith, OnTheWay, KillPath
  <2>8. PairedAt(j)'
    BY <1>12, <1>14, <1>16, <1>4, <1>5, <1>6, Roles
    DEF PairedAt, Someone, Takes, TakenBy, OnTheWayWith, OnTheWay, KillPath
  <2>9. WatchingAt(j)'
    BY <1>12, <1>14, <1>16, <1>4, <1>5, <1>6, Roles DEF WatchingAt, Scheduled, Someone
  <2>. QED  BY <2>1, <2>2, <2>3, <2>4, <2>5, <2>6, <2>7, <2>8, <2>9 DEF ConnectionOk
<1>19. y.refs - RefsDue(t, x, y, j \in io_list', j)
         = io[j].refs - RefsDue(t, th[t], io[j], j \in io_list, j)
  BY <1>1, <1>2, <1>3, <1>8, <1>12, <1>13, <1>9, <1>10, <1>14, <1>4, <1>5, <1>6, Roles
  DEF RefsDue, UserOf, TakenBy, OnTheWayWith, OnTheWay, KillPath, One, IoShape
<1>20. y.wrefs - WatchDue(t, x, y, j) = io[j].wrefs - WatchDue(t, th[t], io[j], j)
  BY <1>3, <1>8, <1>12, <1>13, <1>14, <1>4, <1>5, <1>6, Roles
  DEF WatchDue, CarriedBy, WrittenBy, FailedBy, One, IoShape
<1>21. net_refs' \in Int /\ net_refs' - NetDue(t, x, y) = net_refs - NetDue(t, th[t], io[j])
  BY <1>3, <1>8, <1>12, <1>14, <1>4, <1>5, <1>6, Roles DEF NetDue, NetHeldBy, One, IInv, Shapes
<1>22. /\ t # Acceptor => (y.announced <=> io[j].announced)
       /\ listening' \in BOOLEAN /\ io_list' \subseteq Ios /\ calls' \in 0 .. MaxCalls
  BY <1>3, <1>12, <1>14, <1>4, Roles, NetIoAssumption DEF IInv, Shapes
<1>. QED  BY <1>1, <1>2, <1>3, <1>7, <1>11, <1>15, <1>17, <1>18, <1>19, <1>20, <1>21, <1>22,
   StepKeeps

LEMMA AcceptKeeps ==
  ASSUME IInv, NEW i \in Ios, Accept(i) PROVE IInv'
<1>1. Acceptor \in Threads /\ th[Acceptor] \in ThShape /\ ThreadOk(Acceptor, th[Acceptor])
  BY Known, Roles
<1>2. /\ io[i] \in IoShape /\ PointersAt(i) /\ UnusedAt(i) /\ EndsAt(i) /\ UntoldAt(i)
      /\ AcceptorAt(i) /\ LoopAt(i) /\ OneTakesAt(i) /\ PairedAt(i) /\ WatchingAt(i)
  BY KnownOf
<1>3. th[Acceptor].pc = "idle" /\ th[Acceptor].io = NoIo /\ ~ th[Acceptor].watch /\ ~ th[Acceptor].net
  BY <1>1, <1>2 DEF Accept, At, ThreadOk, Carried
<1>4. th[Acceptor].then # "unref_list"
  BY <1>1, <1>2 DEF Accept, At, ThreadOk, AcceptorPlace, KillPath
<1>5. /\ ~ io[i].announced /\ ~ io[i].user /\ io[i].in_loop = "no" /\ ~ io[i].io_watch
      /\ ~ io[i].net /\ ~ io[i].killed /\ i \notin io_list /\ \A s \in Threads : th[s].io # i
  BY <1>1, <1>2, Roles DEF Accept, UnusedAt, UntoldAt
<1>6. io[i].refs = 0 /\ io[i].wrefs = 0
  BY <1>5, Unheld DEF Accept, IInv
<1>7. PICK x \in ThShape : x = [th[Acceptor] EXCEPT !.pc = "add_child", !.io = i]
  BY <1>1, <1>2, <1>3, <1>4, <1>5, <1>6 DEF ThShape, Pcs, KillPath, ReportPath, Idle, Of, IoShape
<1>8. /\ x.pc = "add_child" /\ x.io = i /\ x.watch = th[Acceptor].watch
      /\ x.net = th[Acceptor].net /\ x.then = th[Acceptor].then
  BY <1>7, <1>3 DEF ThShape, Idle, Of
<1>9. PICK n \in Int, m \in Int : n = 2 /\ m = 1
  OBVIOUS
<1>10. PICK y \in IoShape : y = [io[i] EXCEPT !.used = TRUE, !.refs = n, !.io_watch = TRUE, !.wrefs = m]
  BY <1>1, <1>2, <1>9, <1>3, <1>4, <1>5, <1>6 DEF IoShape, UnrefIo, Swapped, Begun
<1>11. /\ y.used /\ y.io_watch /\ y.net = io[i].net /\ y.killed = io[i].killed
       /\ y.in_loop = io[i].in_loop /\ y.user = io[i].user /\ y.announced = io[i].announced
       /\ y.late = io[i].late
  BY <1>6, <1>10 DEF IoShape, UnrefIo, Swapped, Begun
<1>12. /\ y.refs = n /\ y.wrefs = m /\ y.fins = io[i].fins /\ y.kills = io[i].kills
       /\ y.reads = io[i].reads
  BY <1>6, <1>10 DEF IoShape, UnrefIo, Swapped, Begun
<1>13. /\ listening' = listening /\ io_list' = io_list /\ net_refs' = net_refs
       /\ calls' = calls
  BY DEF Accept, At, Of
<1>14. StepOf(Acceptor, i, x, y)
  BY <1>1, <1>2, <1>7, <1>8, <1>10, <1>9, <1>3, <1>4, <1>5, <1>6, <1>13, Roles
  DEF Accept, At, StepOf, Goto, LoopDone, Becomes, Of, IInv, Shapes
<1>15. /\ th'[Acceptor] = x /\ io'[i] = y
       /\ \A s \in Threads : s # Acceptor => th'[s] = th[s]
  BY <1>1, <1>2, <1>14, StepIs DEF IInv
<1>16. ThreadOk(Acceptor, x)
  BY <1>8, <1>3, <1>4, <1>5, <1>6, Roles
  DEF ThreadOk, UserPlace, AcceptorPlace, LoopPlace, Carried, KillPath, ReportPath
<1>17. ConnectionOk(i)'
  <2>1. PointersAt(i)'
    BY <1>8, <1>11, <1>13, <1>15, <1>3, <1>4, <1>5, <1>6, Roles DEF PointersAt, Taken, Ended
  <2>2. UnusedAt(i)'
    BY <1>8, <1>11, <1>13, <1>15, <1>5, <1>6, Roles DEF UnusedAt
  <2>3. EndsAt(i)'
    BY <1>1, <1>2, <1>8, <1>11, <1>12, <1>9, <1>13, <1>15, <1>3, <1>4, <1>5, <1>6, Roles
    DEF EndsAt, Ended
  <2>4. UntoldAt(i)'
    BY <1>1, <1>2, <1>8, <1>11, <1>12, <1>9, <1>13, <1>15, <1>3, <1>4, <1>5, <1>6, Roles
    DEF UntoldAt
  <2>5. AcceptorAt(i)'
    BY <1>8, <1>11, <1>13, <1>15, <1>5, <1>6, Roles DEF AcceptorAt
  <2>6. LoopAt(i)'
    BY <1>13, <1>15, <1>5, <1>6, Roles DEF LoopAt, ReportPath
  <2>7. OneTakesAt(i)'
    BY <1>8, <1>11, <1>13, <1>15, <1>5, <1>6, Roles
    DEF OneTakesAt, Takes, TakenBy, OnTheWayWith, OnTheWay, KillPath
  <2>8. PairedAt(i)'
    BY <1>8, <1>11, <1>13, <1>15, <1>5, <1>6, Roles
    DEF PairedAt, Someone, Takes, TakenBy, OnTheWayWith, OnTheWay, KillPath
  <2>9. WatchingAt(i)'
    BY <1>8, <1>11, <1>13, <1>15, <1>5, <1>6, Roles DEF WatchingAt, Scheduled, Someone
  <2>. QED  BY <2>1, <2>2, <2>3, <2>4, <2>5, <2>6, <2>7, <2>8, <2>9 DEF ConnectionOk
<1>18. y.refs - RefsDue(Acceptor, x, y, i \in io_list', i)
         = io[i].refs - RefsDue(Acceptor, th[Acceptor], io[i], i \in io_list, i)
  BY <1>8, <1>11, <1>12, <1>9, <1>13, <1>3, <1>4, <1>5, <1>6, Roles
  DEF RefsDue, UserOf, TakenBy, OnTheWayWith, OnTheWay, KillPath, One, IoShape
<1>19. y.wrefs - WatchDue(Acceptor, x, y, i) = io[i].wrefs - WatchDue(Acceptor, th[Acceptor], io[i], i)
  BY <1>8, <1>11, <1>12, <1>9, <1>13, <1>3, <1>4, <1>5, <1>6, Roles
  DEF WatchDue, CarriedBy, WrittenBy, FailedBy, One, IoShape
<1>20. net_refs' \in Int /\ net_refs' - NetDue(Acceptor, x, y) = net_refs - NetDue(Acceptor, th[Acceptor], io[i])
  BY <1>8, <1>11, <1>13, <1>3, <1>6, Roles DEF NetDue, NetHeldBy, One, IInv, Shapes
<1>21. /\ Acceptor # Acceptor => (y.announced <=> io[i].announced)
       /\ listening' \in BOOLEAN /\ io_list' \subseteq Ios /\ calls' \in 0 .. MaxCalls
  BY <1>11, <1>13, Roles, NetIoAssumption DEF IInv, Shapes
<1>. QED  BY <1>1, <1>2, <1>14, <1>16, <1>17, <1>18, <1>19, <1>20, <1>21, StepKeeps

LEMMA AddChildKeeps ==
  ASSUME IInv, AddChild PROVE IInv'
<1>1. PICK j \in Ios : j = th[Acceptor].io
  BY Known, Roles DEF AddChild, At
<1>2. Acceptor \in Threads /\ th[Acceptor] \in ThShape /\ ThreadOk(Acceptor, th[Acceptor])
  BY Known, Roles
<1>3. /\ io[j] \in IoShape /\ PointersAt(j) /\ UnusedAt(j) /\ EndsAt(j) /\ UntoldAt(j)
      /\ AcceptorAt(j) /\ LoopAt(j) /\ OneTakesAt(j) /\ PairedAt(j) /\ WatchingAt(j)
  BY KnownOf
<1>4. th[Acceptor].pc = "add_child" /\ ~ th[Acceptor].watch /\ ~ th[Acceptor].net
  BY <1>1, <1>2 DEF AddChild, At, ThreadOk, Carried
<1>5. th[Acceptor].then # "unref_list" /\ ~ io[j].announced
  BY <1>1, <1>2, <1>3, <1>4 DEF ThreadOk, AcceptorPlace, AcceptorAt, KillPath
<1>6. PICK x \in ThShape : x = [th[Acceptor] EXCEPT !.pc = IF listening THEN "add_io" ELSE "fail"]
  BY <1>1, <1>2, <1>3, <1>4, <1>5 DEF ThShape, Pcs, KillPath, ReportPath, Idle, Of, IoShape
<1>7. /\ x.pc = IF listening THEN "add_io" ELSE "fail"
      /\ x.io = th[Acceptor].io /\ x.watch = th[Acceptor].watch /\ x.net = th[Acceptor].net
      /\ x.then = th[Acceptor].then
  BY <1>3, <1>6 DEF Of
<1>8. /\ listening' = listening /\ io_list' = io_list
      /\ net_refs' = net_refs + IF listening THEN 1 ELSE 0
      /\ calls' = calls
  BY DEF AddChild, At, Of
<1>9. StepOf(Acceptor, j, x, io[j])
  BY <1>1, <1>2, <1>3, <1>6, Roles
  DEF AddChild, At, StepOf, Goto, LoopDone, Becomes, Of, IInv, Shapes
<1>10. /\ th'[Acceptor] = x /\ io'[j] = io[j]
       /\ \A s \in Threads : s # Acceptor => th'[s] = th[s]
  BY <1>1, <1>2, <1>3, <1>9, StepIs DEF IInv
<1>11. ThreadOk(Acceptor, x)
  BY <1>1, <1>2, <1>3, <1>7, <1>4, <1>5
  DEF ThreadOk, UserPlace, AcceptorPlace, LoopPlace, Carried, KillPath, ReportPath
<1>12. ConnectionOk(j)'
  <2>1. PointersAt(j)'
    BY <1>3, <1>7, <1>8, <1>10, Roles DEF PointersAt, Taken, Ended
  <2>2. UnusedAt(j)'
    BY <1>3, <1>7, <1>8, <1>10, Roles DEF UnusedAt
  <2>3. EndsAt(j)'
    BY <1>3, <1>7, <1>8, <1>10, Roles DEF EndsAt, Ended
  <2>4. UntoldAt(j)'
    BY <1>3, <1>7, <1>8, <1>10, Roles DEF UntoldAt
  <2>5. AcceptorAt(j)'
    BY <1>3, <1>7, <1>8, <1>10, <1>4, <1>5, Roles DEF AcceptorAt
  <2>6. LoopAt(j)'
    BY <1>3, <1>7, <1>8, <1>10, Roles DEF LoopAt, ReportPath
  <2>7. OneTakesAt(j)'
    BY <1>3, <1>7, <1>8, <1>10, <1>4, <1>5, Roles
    DEF OneTakesAt, Takes, TakenBy, OnTheWayWith, OnTheWay, KillPath
  <2>8. PairedAt(j)'
    BY <1>3, <1>7, <1>8, <1>10, <1>4, <1>5, Roles
    DEF PairedAt, Someone, Takes, TakenBy, OnTheWayWith, OnTheWay, KillPath
  <2>9. WatchingAt(j)'
    BY <1>3, <1>7, <1>8, <1>10, <1>4, <1>5, Roles DEF WatchingAt, Scheduled, Someone
  <2>. QED  BY <2>1, <2>2, <2>3, <2>4, <2>5, <2>6, <2>7, <2>8, <2>9 DEF ConnectionOk
<1>13. io[j].refs - RefsDue(Acceptor, x, io[j], j \in io_list', j)
         = io[j].refs - RefsDue(Acceptor, th[Acceptor], io[j], j \in io_list, j)
  BY <1>3, <1>7, <1>8, <1>4
  DEF RefsDue, UserOf, TakenBy, OnTheWayWith, OnTheWay, KillPath, One, IoShape
<1>14. io[j].wrefs - WatchDue(Acceptor, x, io[j], j) = io[j].wrefs - WatchDue(Acceptor, th[Acceptor], io[j], j)
  BY <1>3, <1>7, <1>5, Roles DEF WatchDue, CarriedBy, WrittenBy, FailedBy, One, IoShape
<1>15. net_refs' \in Int /\ net_refs' - NetDue(Acceptor, x, io[j]) = net_refs - NetDue(Acceptor, th[Acceptor], io[j])
  BY <1>3, <1>7, <1>8, <1>4, <1>5, Roles DEF NetDue, NetHeldBy, One, IInv, Shapes
<1>16. /\ Acceptor # Acceptor => (io[j].announced <=> io[j].announced)
       /\ listening' \in BOOLEAN /\ io_list' \subseteq Ios /\ calls' \in 0 .. MaxCalls
  BY <1>3, <1>8 DEF IInv, Shapes
<1>. QED  BY <1>1, <1>2, <1>3, <1>6, <1>9, <1>11, <1>12, <1>13, <1>14, <1>15, <1>16, StepKeeps

LEMMA AddIoKeeps ==
  ASSUME IInv, AddIo PROVE IInv'
<1>1. PICK j \in Ios : j = th[Acceptor].io
  BY Known, Roles DEF AddIo, At
<1>2. Acceptor \in Threads /\ th[Acceptor] \in ThShape /\ ThreadOk(Acceptor, th[Acceptor])
  BY Known, Roles
<1>3. /\ io[j] \in IoShape /\ PointersAt(j) /\ UnusedAt(j) /\ EndsAt(j) /\ UntoldAt(j)
      /\ AcceptorAt(j) /\ LoopAt(j) /\ OneTakesAt(j) /\ PairedAt(j) /\ WatchingAt(j)
  BY KnownOf
<1>4. th[Acceptor].pc = "add_io" /\ ~ th[Acceptor].watch /\ ~ th[Acceptor].net
  BY <1>1, <1>2 DEF AddIo, At, ThreadOk, Carried
<1>5. /\ th[Acceptor].then # "unref_list" /\ ~ io[j].announced /\ j \notin io_list
      /\ ~ io[j].net /\ io[j].io_watch
  BY <1>1, <1>2, <1>3, <1>4 DEF ThreadOk, AcceptorPlace, AcceptorAt, KillPath
<1>6. \A s \in Threads : ~ Takes(s, j)
  BY <1>3, <1>4, <1>5, Roles DEF UntoldAt, Takes, TakenBy, OnTheWayWith, OnTheWay, KillPath
<1>7. PICK x \in ThShape : x = [th[Acceptor] EXCEPT !.pc = "on_init"]
  BY <1>1, <1>2, <1>3, <1>4, <1>5, <1>6 DEF ThShape, Pcs, KillPath, ReportPath, Idle, Of, IoShape
<1>8. /\ x.pc = "on_init" /\ x.io = th[Acceptor].io /\ x.watch = th[Acceptor].watch
      /\ x.net = th[Acceptor].net /\ x.then = th[Acceptor].then
  BY <1>3, <1>7 DEF ThShape, Idle, Of
<1>9. PICK n \in Int : n = io[j].refs + 1
  BY <1>3 DEF IoShape
<1>10. PICK y \in IoShape : y = [io[j] EXCEPT !.net = TRUE, !.refs = n]
  BY <1>1, <1>2, <1>3, <1>9, <1>4, <1>5, <1>6 DEF IoShape, UnrefIo, Swapped, Begun
<1>11. /\ y.used = io[j].used /\ y.io_watch = io[j].io_watch /\ y.net
       /\ y.killed = io[j].killed /\ y.in_loop = io[j].in_loop /\ y.user = io[j].user
       /\ y.announced = io[j].announced /\ y.late = io[j].late
  BY <1>1, <1>2, <1>3, <1>9, <1>6, <1>10 DEF IoShape, UnrefIo, Swapped, Begun
<1>12. /\ y.refs = n /\ y.wrefs = io[j].wrefs /\ y.fins = io[j].fins /\ y.kills = io[j].kills
       /\ y.reads = io[j].reads
  BY <1>6, <1>10 DEF IoShape, UnrefIo, Swapped, Begun
<1>13. /\ listening' = listening /\ io_list' = io_list \cup {j} /\ net_refs' = net_refs + 1
       /\ calls' = calls
  BY <1>1, <1>2 DEF AddIo, At, Of
<1>14. StepOf(Acceptor, j, x, y)
  BY <1>1, <1>2, <1>3, <1>7, <1>8, <1>10, <1>9, <1>4, <1>5, <1>6, <1>13, Roles
  DEF AddIo, At, StepOf, Goto, LoopDone, Becomes, Of, IInv, Shapes
<1>15. /\ th'[Acceptor] = x /\ io'[j] = y
       /\ \A s \in Threads : s # Acceptor => th'[s] = th[s]
  BY <1>1, <1>2, <1>3, <1>14, StepIs DEF IInv
<1>16. ThreadOk(Acceptor, x)
  BY <1>1, <1>2, <1>3, <1>8, <1>4, <1>5
  DEF ThreadOk, UserPlace, AcceptorPlace, LoopPlace, Carried, KillPath, ReportPath
<1>17. ConnectionOk(j)'
  <2>1. PointersAt(j)'
    BY <1>3, <1>8, <1>11, <1>13, <1>15, <1>4, <1>5, <1>6, Roles DEF PointersAt, Taken, Ended
  <2>2. UnusedAt(j)'
    BY <1>3, <1>8, <1>11, <1>13, <1>15, <1>4, <1>5, <1>6, Roles DEF UnusedAt
  <2>3. EndsAt(j)'
    BY <1>3, <1>8, <1>11, <1>12, <1>15, <1>4, <1>5, <1>6, Roles DEF EndsAt, Ended
  <2>4. UntoldAt(j)'
    BY <1>3, <1>8, <1>11, <1>12, <1>15, <1>4, <1>5, <1>6, Roles DEF UntoldAt
  <2>5. AcceptorAt(j)'
    BY <1>3, <1>8, <1>11, <1>13, <1>15, <1>4, <1>5, <1>6, Roles DEF AcceptorAt
  <2>6. LoopAt(j)'
    BY <1>3, <1>8, <1>11, <1>13, <1>15, <1>4, <1>5, <1>6, Roles DEF LoopAt, ReportPath
  <2>7. OneTakesAt(j)'
    BY <1>3, <1>8, <1>11, <1>13, <1>15, <1>4, <1>5, <1>6, Roles
    DEF OneTakesAt, Takes, TakenBy, OnTheWayWith, OnTheWay, KillPath
  <2>8. PairedAt(j)'
    BY <1>1, <1>2, <1>3, <1>8, <1>11, <1>13, <1>15, <1>4, <1>5, <1>6, Roles
    DEF PairedAt, Someone, Takes, TakenBy, OnTheWayWith, OnTheWay, KillPath
  <2>9. WatchingAt(j)'
    BY <1>3, <1>8, <1>11, <1>13, <1>15, <1>4, <1>5, <1>6, Roles DEF WatchingAt, Scheduled, Someone
  <2>. QED  BY <2>1, <2>2, <2>3, <2>4, <2>5, <2>6, <2>7, <2>8, <2>9 DEF ConnectionOk
<1>18. y.refs - RefsDue(Acceptor, x, y, j \in io_list', j)
         = io[j].refs - RefsDue(Acceptor, th[Acceptor], io[j], j \in io_list, j)
  BY <1>3, <1>8, <1>11, <1>12, <1>9, <1>13, <1>4, <1>5, <1>6, Roles
  DEF RefsDue, UserOf, TakenBy, OnTheWayWith, OnTheWay, KillPath, One, IoShape
<1>19. y.wrefs - WatchDue(Acceptor, x, y, j) = io[j].wrefs - WatchDue(Acceptor, th[Acceptor], io[j], j)
  BY <1>3, <1>8, <1>11, <1>12, <1>4, <1>5, <1>6, Roles
  DEF WatchDue, CarriedBy, WrittenBy, FailedBy, One, IoShape
<1>20. net_refs' \in Int /\ net_refs' - NetDue(Acceptor, x, y) = net_refs - NetDue(Acceptor, th[Acceptor], io[j])
  BY <1>3, <1>8, <1>11, <1>13, <1>4, <1>5, <1>6, Roles DEF NetDue, NetHeldBy, One, IInv, Shapes
<1>21. /\ Acceptor # Acceptor => (y.announced <=> io[j].announced)
       /\ listening' \in BOOLEAN /\ io_list' \subseteq Ios /\ calls' \in 0 .. MaxCalls
  BY <1>13, <1>4, Roles, NetIoAssumption DEF IInv, Shapes
<1>. QED  BY <1>1, <1>2, <1>3, <1>7, <1>10, <1>14, <1>16, <1>17, <1>18, <1>19, <1>20, <1>21,
   StepKeeps

OnInitTells ==
  /\ At(Acceptor, "on_init")
  /\ io' = [io EXCEPT ![th[Acceptor].io].announced = TRUE, ![th[Acceptor].io].user = TRUE]
  /\ Goto(Acceptor, "sched")
  /\ UNCHANGED <<listening, io_list, net_refs, calls>>

LEMMA OnInitTellsKeeps ==
  ASSUME IInv, OnInitTells PROVE IInv'
<1>1. PICK j \in Ios : j = th[Acceptor].io
  BY Known, Roles DEF OnInitTells, At
<1>2. Acceptor \in Threads /\ th[Acceptor] \in ThShape /\ ThreadOk(Acceptor, th[Acceptor])
  BY Known, Roles
<1>3. /\ io[j] \in IoShape /\ PointersAt(j) /\ UnusedAt(j) /\ EndsAt(j) /\ UntoldAt(j)
      /\ AcceptorAt(j) /\ LoopAt(j) /\ OneTakesAt(j) /\ PairedAt(j) /\ WatchingAt(j)
  BY KnownOf
<1>4. th[Acceptor].pc = "on_init" /\ ~ th[Acceptor].watch /\ ~ th[Acceptor].net
  BY <1>1, <1>2 DEF OnInitTells, At, ThreadOk, Carried
<1>5. /\ th[Acceptor].then # "unref_list" /\ ~ io[j].announced /\ j \in io_list /\ ~ io[j].user
      /\ io[j].in_loop = "no" /\ io[j].fins = 0 /\ io[j].kills = 0
  BY <1>1, <1>2, <1>3, <1>4 DEF ThreadOk, AcceptorPlace, AcceptorAt, KillPath, UntoldAt
<1>6. PICK x \in ThShape : x = [th[Acceptor] EXCEPT !.pc = "sched"]
  BY <1>1, <1>2, <1>3, <1>4, <1>5 DEF ThShape, Pcs, KillPath, ReportPath, Idle, Of, IoShape
<1>7. /\ x.pc = "sched" /\ x.io = th[Acceptor].io /\ x.watch = th[Acceptor].watch
      /\ x.net = th[Acceptor].net /\ x.then = th[Acceptor].then
  BY <1>3, <1>6 DEF Of
<1>8. PICK y \in IoShape : y = [io[j] EXCEPT !.announced = TRUE, !.user = TRUE]
  BY <1>1, <1>2, <1>3, <1>4, <1>5 DEF IoShape, UnrefIo, Swapped, Begun
<1>9. /\ y.used = io[j].used /\ y.io_watch = io[j].io_watch /\ y.net = io[j].net
      /\ y.killed = io[j].killed /\ y.in_loop = io[j].in_loop /\ y.user /\ y.announced
      /\ y.late = io[j].late
  BY <1>5, <1>8 DEF Swapped, Begun
<1>10. /\ y.refs = io[j].refs /\ y.wrefs = io[j].wrefs /\ y.fins = io[j].fins
       /\ y.kills = io[j].kills /\ y.reads = io[j].reads
  BY <1>5, <1>8 DEF Swapped, Begun
<1>11. /\ listening' = listening /\ io_list' = io_list /\ net_refs' = net_refs
       /\ calls' = calls
  BY DEF OnInitTells, At, Of
<1>12. StepOf(Acceptor, j, x, y)
  BY <1>1, <1>2, <1>3, <1>6, <1>7, <1>8, <1>4, <1>5, <1>11, Roles
  DEF OnInitTells, At, StepOf, Goto, LoopDone, Becomes, Of, IInv, Shapes
<1>13. /\ th'[Acceptor] = x /\ io'[j] = y
       /\ \A s \in Threads : s # Acceptor => th'[s] = th[s]
  BY <1>1, <1>2, <1>3, <1>12, StepIs DEF IInv
<1>14. ThreadOk(Acceptor, x)
  BY <1>1, <1>2, <1>3, <1>7, <1>4, <1>5
  DEF ThreadOk, UserPlace, AcceptorPlace, LoopPlace, Carried, KillPath, ReportPath
<1>15. ConnectionOk(j)'
  <2>1. PointersAt(j)'
    BY <1>3, <1>7, <1>9, <1>11, <1>13, <1>4, <1>5, Roles DEF PointersAt, Taken, Ended
  <2>2. UnusedAt(j)'
    BY <1>1, <1>2, <1>3, <1>7, <1>9, <1>11, <1>13, <1>4, <1>5, Roles DEF UnusedAt
  <2>3. EndsAt(j)'
    BY <1>3, <1>7, <1>9, <1>10, <1>11, <1>13, <1>4, <1>5, Roles DEF EndsAt, Ended, One
  <2>4. UntoldAt(j)'
    BY <1>9, <1>10, <1>11, <1>13, <1>4, <1>5, Roles DEF UntoldAt
  <2>5. AcceptorAt(j)'
    BY <1>3, <1>7, <1>9, <1>11, <1>13, <1>4, <1>5, Roles DEF AcceptorAt
  <2>6. LoopAt(j)'
    BY <1>3, <1>7, <1>13, <1>4, <1>5, Roles DEF LoopAt, ReportPath
  <2>7. OneTakesAt(j)'
    BY <1>3, <1>7, <1>9, <1>11, <1>13, <1>4, <1>5, Roles
    DEF OneTakesAt, Takes, TakenBy, OnTheWayWith, OnTheWay, KillPath
  <2>8. PairedAt(j)'
    BY <1>3, <1>7, <1>9, <1>11, <1>13, <1>4, <1>5, Roles
    DEF PairedAt, Someone, Takes, TakenBy, OnTheWayWith, OnTheWay, KillPath
  <2>9. WatchingAt(j)'
    BY <1>1, <1>2, <1>3, <1>7, <1>9, <1>11, <1>13, <1>4, <1>5, Roles
    DEF WatchingAt, Scheduled, Someone
  <2>. QED  BY <2>1, <2>2, <2>3, <2>4, <2>5, <2>6, <2>7, <2>8, <2>9 DEF ConnectionOk
<1>16. y.refs - RefsDue(Acceptor, x, y, j \in io_list', j)
         = io[j].refs - RefsDue(Acceptor, th[Acceptor], io[j], j \in io_list, j)
  BY <1>1, <1>2, <1>3, <1>7, <1>9, <1>10, <1>11, <1>4, <1>5, Roles
  DEF RefsDue, UserOf, TakenBy, OnTheWayWith, OnTheWay, KillPath, One, IoShape
<1>17. y.wrefs - WatchDue(Acceptor, x, y, j) = io[j].wrefs - WatchDue(Acceptor, th[Acceptor], io[j], j)
  BY <1>3, <1>7, <1>9, <1>10, <1>5, Roles
  DEF WatchDue, CarriedBy, WrittenBy, FailedBy, One, IoShape
<1>18. net_refs' \in Int /\ net_refs' - NetDue(Acceptor, x, y) = net_refs - NetDue(Acceptor, th[Acceptor], io[j])
  BY <1>3, <1>7, <1>9, <1>11, <1>4, <1>5, Roles DEF NetDue, NetHeldBy, One, IInv, Shapes
<1>19. /\ Acceptor # Acceptor => (y.announced <=> io[j].announced)
       /\ listening' \in BOOLEAN /\ io_list' \subseteq Ios /\ calls' \in 0 .. MaxCalls
  BY <1>11, <1>4, NetIoAssumption DEF IInv, Shapes
<1>. QED  BY <1>1, <1>2, <1>3, <1>6, <1>8, <1>12, <1>14, <1>15, <1>16, <1>17, <1>18, <1>19,
   StepKeeps

OnInitRefuses ==
  /\ At(Acceptor, "on_init")
  /\ io' = io
  /\ th' = [th EXCEPT ![Acceptor].pc = "refused"]
  /\ UNCHANGED <<listening, io_list, net_refs, calls>>

LEMMA OnInitRefusesKeeps ==
  ASSUME IInv, OnInitRefuses PROVE IInv'
<1>1. PICK j \in Ios : j = th[Acceptor].io
  BY Known, Roles DEF OnInitRefuses, At
<1>2. Acceptor \in Threads /\ th[Acceptor] \in ThShape /\ ThreadOk(Acceptor, th[Acceptor])
  BY Known, Roles
<1>3. /\ io[j] \in IoShape /\ PointersAt(j) /\ UnusedAt(j) /\ EndsAt(j) /\ UntoldAt(j)
      /\ AcceptorAt(j) /\ LoopAt(j) /\ OneTakesAt(j) /\ PairedAt(j) /\ WatchingAt(j)
  BY KnownOf
<1>4. th[Acceptor].pc = "on_init" /\ ~ th[Acceptor].watch /\ ~ th[Acceptor].net
  BY <1>1, <1>2 DEF OnInitRefuses, At, ThreadOk, Carried
<1>5. ~ io[j].announced /\ j \in io_list
  BY <1>1, <1>2, <1>3, <1>4 DEF AcceptorAt
<1>6. PICK x \in ThShape : x = [th[Acceptor] EXCEPT !.pc = "refused"]
  BY <1>1, <1>2, <1>3, <1>4, <1>5 DEF ThShape, Pcs, KillPath, ReportPath, Idle, Of, IoShape
<1>7. /\ x.pc = "refused" /\ x.io = th[Acceptor].io /\ x.watch = th[Acceptor].watch
      /\ x.net = th[Acceptor].net /\ x.then = th[Acceptor].then
  BY <1>3, <1>6 DEF Of
<1>8. /\ listening' = listening /\ io_list' = io_list /\ net_refs' = net_refs
      /\ calls' = calls
  BY DEF OnInitRefuses, At, Of
<1>9. StepOf(Acceptor, j, x, io[j])
  BY <1>1, <1>2, <1>3, <1>6, Roles
  DEF OnInitRefuses, At, StepOf, Goto, LoopDone, Becomes, Of, IInv, Shapes
<1>10. /\ th'[Acceptor] = x /\ io'[j] = io[j]
       /\ \A s \in Threads : s # Acceptor => th'[s] = th[s]
  BY <1>1, <1>2, <1>3, <1>9, StepIs DEF IInv
<1>11. ThreadOk(Acceptor, x)
  BY <1>1, <1>2, <1>3, <1>7, <1>4, <1>5
  DEF ThreadOk, UserPlace, AcceptorPlace, LoopPlace, Carried, KillPath, ReportPath
<1>12. ConnectionOk(j)'
  <2>1. PointersAt(j)'
    BY <1>3, <1>7, <1>8, <1>10, Roles DEF PointersAt, Taken, Ended
  <2>2. UnusedAt(j)'
    BY <1>3, <1>7, <1>8, <1>10, Roles DEF UnusedAt
  <2>3. EndsAt(j)'
    BY <1>3, <1>7, <1>8, <1>10, Roles DEF EndsAt, Ended
  <2>4. UntoldAt(j)'
    BY <1>3, <1>7, <1>8, <1>10, Roles DEF UntoldAt
  <2>5. AcceptorAt(j)'
    BY <1>3, <1>7, <1>8, <1>10, <1>4, <1>5, Roles DEF AcceptorAt
  <2>6. LoopAt(j)'
    BY <1>3, <1>7, <1>8, <1>10, Roles DEF LoopAt, ReportPath
  <2>7. OneTakesAt(j)'
    BY <1>3, <1>7, <1>8, <1>10, <1>4, <1>5, Roles
    DEF OneTakesAt, Takes, TakenBy, OnTheWayWith, OnTheWay, KillPath
  <2>8. PairedAt(j)'
    BY <1>3, <1>7, <1>8, <1>10, <1>4, <1>5, Roles
    DEF PairedAt, Someone, Takes, TakenBy, OnTheWayWith, OnTheWay, KillPath
  <2>9. WatchingAt(j)'
    BY <1>3, <1>7, <1>8, <1>10, <1>4, <1>5, Roles DEF WatchingAt, Scheduled, Someone
  <2>. QED  BY <2>1, <2>2, <2>3, <2>4, <2>5, <2>6, <2>7, <2>8, <2>9 DEF ConnectionOk
<1>13. io[j].refs - RefsDue(Acceptor, x, io[j], j \in io_list', j)
         = io[j].refs - RefsDue(Acceptor, th[Acceptor], io[j], j \in io_list, j)
  BY <1>3, <1>7, <1>8, <1>4
  DEF RefsDue, UserOf, TakenBy, OnTheWayWith, OnTheWay, KillPath, One, IoShape
<1>14. io[j].wrefs - WatchDue(Acceptor, x, io[j], j) = io[j].wrefs - WatchDue(Acceptor, th[Acceptor], io[j], j)
  BY <1>3, <1>7, <1>5, Roles DEF WatchDue, CarriedBy, WrittenBy, FailedBy, One, IoShape
<1>15. net_refs' \in Int /\ net_refs' - NetDue(Acceptor, x, io[j]) = net_refs - NetDue(Acceptor, th[Acceptor], io[j])
  BY <1>3, <1>7, <1>8, <1>4 DEF NetDue, NetHeldBy, One, IInv, Shapes
<1>16. /\ Acceptor # Acceptor => (io[j].announced <=> io[j].announced)
       /\ listening' \in BOOLEAN /\ io_list' \subseteq Ios /\ calls' \in 0 .. MaxCalls
  BY <1>3, <1>8 DEF IInv, Shapes
<1>. QED  BY <1>1, <1>2, <1>3, <1>6, <1>9, <1>11, <1>12, <1>13, <1>14, <1>15, <1>16, StepKeeps

LEMMA RefusedKeeps ==
  ASSUME IInv, Refused PROVE IInv'
<1>1. PICK j \in Ios : j = th[Acceptor].io
  BY Known, Roles DEF Refused, At
<1>2. Acceptor \in Threads /\ th[Acceptor] \in ThShape /\ ThreadOk(Acceptor, th[Acceptor])
  BY Known, Roles
<1>3. /\ io[j] \in IoShape /\ PointersAt(j) /\ UnusedAt(j) /\ EndsAt(j) /\ UntoldAt(j)
      /\ AcceptorAt(j) /\ LoopAt(j) /\ OneTakesAt(j) /\ PairedAt(j) /\ WatchingAt(j)
  BY KnownOf
<1>4. ~ io[j].announced /\ j \in io_list
  BY <1>1, <1>2, <1>3, Roles DEF Refused, At, AcceptorAt
<1>5. th[Acceptor].pc = "refused" /\ ~ th[Acceptor].watch /\ ~ th[Acceptor].net
  BY <1>1, <1>2 DEF Refused, At, ThreadOk, Carried
<1>6. PICK x \in ThShape : x = [th[Acceptor] EXCEPT !.pc = "kill", !.then = "unref_list"]
  BY <1>1, <1>2, <1>3, <1>4, <1>5 DEF ThShape, Pcs, KillPath, ReportPath, Idle, Of, IoShape
<1>7. /\ x.pc = "kill" /\ x.io = th[Acceptor].io /\ x.watch = th[Acceptor].watch
      /\ x.net = th[Acceptor].net /\ x.then = "unref_list"
  BY <1>3, <1>6 DEF Of
<1>8. /\ listening' = listening /\ io_list' = io_list \ {j} /\ net_refs' = net_refs
      /\ calls' = calls
  BY <1>1, <1>2 DEF Refused, At, Of
<1>9. StepOf(Acceptor, j, x, io[j])
  BY <1>1, <1>2, <1>3, <1>6, <1>7, <1>4, <1>5, <1>8, Roles
  DEF Refused, At, StepOf, Goto, LoopDone, Becomes, Of, IInv, Shapes
<1>10. /\ th'[Acceptor] = x /\ io'[j] = io[j]
       /\ \A s \in Threads : s # Acceptor => th'[s] = th[s]
  BY <1>1, <1>2, <1>3, <1>9, StepIs DEF IInv
<1>11. ThreadOk(Acceptor, x)
  BY <1>1, <1>2, <1>3, <1>7, <1>4, <1>5
  DEF ThreadOk, UserPlace, AcceptorPlace, LoopPlace, Carried, KillPath, ReportPath
<1>12. ConnectionOk(j)'
  <2>1. PointersAt(j)'
    BY <1>3, <1>7, <1>8, <1>10, Roles DEF PointersAt, Taken, Ended
  <2>2. UnusedAt(j)'
    BY <1>3, <1>7, <1>8, <1>10, Roles DEF UnusedAt
  <2>3. EndsAt(j)'
    BY <1>3, <1>7, <1>8, <1>10, Roles DEF EndsAt, Ended
  <2>4. UntoldAt(j)'
    BY <1>3, <1>7, <1>8, <1>10, Roles DEF UntoldAt
  <2>5. AcceptorAt(j)'
    BY <1>3, <1>7, <1>8, <1>10, <1>4, <1>5, Roles DEF AcceptorAt
  <2>6. LoopAt(j)'
    BY <1>3, <1>7, <1>8, <1>10, Roles DEF LoopAt, ReportPath
  <2>7. OneTakesAt(j)'
    BY <1>3, <1>7, <1>8, <1>10, <1>4, <1>5, Roles
    DEF OneTakesAt, Takes, TakenBy, OnTheWayWith, OnTheWay, KillPath
  <2>8. PairedAt(j)'
    BY <1>1, <1>2, <1>3, <1>7, <1>8, <1>10, Roles
    DEF PairedAt, Someone, Takes, TakenBy, OnTheWayWith, OnTheWay, KillPath
  <2>9. WatchingAt(j)'
    BY <1>3, <1>7, <1>8, <1>10, <1>4, <1>5, Roles DEF WatchingAt, Scheduled, Someone
  <2>. QED  BY <2>1, <2>2, <2>3, <2>4, <2>5, <2>6, <2>7, <2>8, <2>9 DEF ConnectionOk
<1>13. io[j].refs - RefsDue(Acceptor, x, io[j], j \in io_list', j)
         = io[j].refs - RefsDue(Acceptor, th[Acceptor], io[j], j \in io_list, j)
  BY <1>1, <1>2, <1>3, <1>7, <1>8, <1>4, <1>5, Roles
  DEF RefsDue, UserOf, TakenBy, OnTheWayWith, OnTheWay, KillPath, One, IoShape
<1>14. io[j].wrefs - WatchDue(Acceptor, x, io[j], j) = io[j].wrefs - WatchDue(Acceptor, th[Acceptor], io[j], j)
  BY <1>3, <1>7, <1>5, Roles DEF WatchDue, CarriedBy, WrittenBy, FailedBy, One, IoShape
<1>15. net_refs' \in Int /\ net_refs' - NetDue(Acceptor, x, io[j]) = net_refs - NetDue(Acceptor, th[Acceptor], io[j])
  BY <1>3, <1>7, <1>8, <1>4, <1>5, Roles DEF NetDue, NetHeldBy, One, IInv, Shapes
<1>16. /\ Acceptor # Acceptor => (io[j].announced <=> io[j].announced)
       /\ listening' \in BOOLEAN /\ io_list' \subseteq Ios /\ calls' \in 0 .. MaxCalls
  BY <1>3, <1>8 DEF IInv, Shapes
<1>. QED  BY <1>1, <1>2, <1>3, <1>6, <1>9, <1>11, <1>12, <1>13, <1>14, <1>15, <1>16, StepKeeps

LEMMA UnrefListKeeps ==
  ASSUME IInv, UnrefList PROVE IInv'
<1>1. PICK j \in Ios : j = th[Acceptor].io
  BY Known, Roles DEF UnrefList, At
<1>2. Acceptor \in Threads /\ th[Acceptor] \in ThShape /\ ThreadOk(Acceptor, th[Acceptor])
  BY Known, Roles
<1>3. /\ io[j] \in IoShape /\ PointersAt(j) /\ UnusedAt(j) /\ EndsAt(j) /\ UntoldAt(j)
      /\ AcceptorAt(j) /\ LoopAt(j) /\ OneTakesAt(j) /\ PairedAt(j) /\ WatchingAt(j)
  BY KnownOf
<1>4. th[Acceptor].pc = "unref_list" /\ ~ th[Acceptor].watch /\ ~ th[Acceptor].net
  BY <1>1, <1>2 DEF UnrefList, At, ThreadOk, Carried
<1>5. /\ th[Acceptor].then = "unref_list" /\ ~ io[j].announced /\ j \notin io_list
      /\ ~ io[j].io_watch /\ ~ io[j].net
  BY <1>1, <1>2, <1>3, <1>4
  DEF UnrefList, At, AcceptorAt, ThreadOk, AcceptorPlace, PointersAt, Taken
<1>6. PICK x \in ThShape : x = [th[Acceptor] EXCEPT !.pc = "unref_child", !.then = "idle"]
  BY <1>1, <1>2, <1>3, <1>4, <1>5 DEF ThShape, Pcs, KillPath, ReportPath, Idle, Of, IoShape
<1>7. /\ x.pc = "unref_child" /\ x.io = th[Acceptor].io /\ x.watch = th[Acceptor].watch
      /\ x.net = th[Acceptor].net /\ x.then = "idle"
  BY <1>3, <1>6 DEF Of
<1>8. PICK n \in Int : n = io[j].refs - 1
  BY <1>3 DEF IoShape
<1>9. PICK y \in IoShape : y = [io[j] EXCEPT !.refs = n]
  BY <1>1, <1>2, <1>3, <1>8, <1>4, <1>5 DEF IoShape, UnrefIo, Swapped, Begun
<1>10. /\ y.used = io[j].used /\ y.io_watch = io[j].io_watch /\ y.net = io[j].net
       /\ y.killed = io[j].killed /\ y.in_loop = io[j].in_loop /\ y.user = io[j].user
       /\ y.announced = io[j].announced /\ y.late = io[j].late
  BY <1>9 DEF IoShape, UnrefIo, Swapped, Begun
<1>11. /\ y.refs = n /\ y.wrefs = io[j].wrefs /\ y.fins = io[j].fins /\ y.kills = io[j].kills
       /\ y.reads = io[j].reads
  BY <1>9 DEF IoShape, UnrefIo, Swapped, Begun
<1>12. /\ listening' = listening /\ io_list' = io_list /\ net_refs' = net_refs
       /\ calls' = calls
  BY DEF UnrefList, At, Of
<1>13. StepOf(Acceptor, j, x, y)
  BY <1>1, <1>2, <1>3, <1>6, <1>7, <1>9, <1>8, <1>4, <1>5, <1>12, Roles
  DEF UnrefList, At, StepOf, Goto, LoopDone, Becomes, Of, IInv, Shapes, UnrefIo
<1>14. /\ th'[Acceptor] = x /\ io'[j] = y
       /\ \A s \in Threads : s # Acceptor => th'[s] = th[s]
  BY <1>1, <1>2, <1>3, <1>13, StepIs DEF IInv
<1>15. ThreadOk(Acceptor, x)
  BY <1>1, <1>2, <1>3, <1>7, <1>4, <1>5
  DEF ThreadOk, UserPlace, AcceptorPlace, LoopPlace, Carried, KillPath, ReportPath
<1>16. ConnectionOk(j)'
  <2>1. PointersAt(j)'
    BY <1>10, <1>12, <1>14, <1>4, <1>5, Roles DEF PointersAt, Taken, Ended
  <2>2. UnusedAt(j)'
    BY <1>3, <1>7, <1>10, <1>12, <1>14, <1>4, <1>5, Roles DEF UnusedAt
  <2>3. EndsAt(j)'
    BY <1>3, <1>7, <1>10, <1>11, <1>14, <1>4, <1>5, Roles DEF EndsAt, Ended
  <2>4. UntoldAt(j)'
    BY <1>3, <1>7, <1>10, <1>11, <1>8, <1>12, <1>14, <1>4, <1>5, Roles DEF UntoldAt
  <2>5. AcceptorAt(j)'
    BY <1>3, <1>7, <1>10, <1>12, <1>14, <1>4, <1>5, Roles DEF AcceptorAt
  <2>6. LoopAt(j)'
    BY <1>3, <1>7, <1>10, <1>12, <1>14, <1>4, <1>5, Roles DEF LoopAt, ReportPath
  <2>7. OneTakesAt(j)'
    BY <1>3, <1>7, <1>10, <1>12, <1>14, <1>4, <1>5, Roles
    DEF OneTakesAt, Takes, TakenBy, OnTheWayWith, OnTheWay, KillPath
  <2>8. PairedAt(j)'
    BY <1>10, <1>12, <1>14, <1>4, <1>5, Roles
    DEF PairedAt, Someone, Takes, TakenBy, OnTheWayWith, OnTheWay, KillPath
  <2>9. WatchingAt(j)'
    BY <1>10, <1>12, <1>14, <1>4, <1>5, Roles DEF WatchingAt, Scheduled, Someone
  <2>. QED  BY <2>1, <2>2, <2>3, <2>4, <2>5, <2>6, <2>7, <2>8, <2>9 DEF ConnectionOk
<1>17. y.refs - RefsDue(Acceptor, x, y, j \in io_list', j)
         = io[j].refs - RefsDue(Acceptor, th[Acceptor], io[j], j \in io_list, j)
  BY <1>1, <1>2, <1>3, <1>7, <1>10, <1>11, <1>8, <1>12, <1>4, <1>5, Roles
  DEF RefsDue, UserOf, TakenBy, OnTheWayWith, OnTheWay, KillPath, One, IoShape
<1>18. y.wrefs - WatchDue(Acceptor, x, y, j) = io[j].wrefs - WatchDue(Acceptor, th[Acceptor], io[j], j)
  BY <1>3, <1>7, <1>10, <1>11, <1>4, <1>5, Roles
  DEF WatchDue, CarriedBy, WrittenBy, FailedBy, One, IoShape
<1>19. net_refs' \in Int /\ net_refs' - NetDue(Acceptor, x, y) = net_refs - NetDue(Acceptor, th[Acceptor], io[j])
  BY <1>3, <1>7, <1>10, <1>12, <1>4, <1>5, Roles DEF NetDue, NetHeldBy, One, IInv, Shapes
<1>20. /\ Acceptor # Acceptor => (y.announced <=> io[j].announced)
       /\ listening' \in BOOLEAN /\ io_list' \subseteq Ios /\ calls' \in 0 .. MaxCalls
  BY <1>12, <1>4, NetIoAssumption DEF IInv, Shapes
<1>. QED  BY <1>1, <1>2, <1>3, <1>6, <1>9, <1>13, <1>15, <1>16, <1>17, <1>18, <1>19, <1>20,
   StepKeeps

LEMMA SchedKeeps ==
  ASSUME IInv, Sched PROVE IInv'
<1>1. PICK j \in Ios : j = th[Acceptor].io
  BY Known, Roles DEF Sched, At
<1>2. Acceptor \in Threads /\ th[Acceptor] \in ThShape /\ ThreadOk(Acceptor, th[Acceptor])
  BY Known, Roles
<1>3. /\ io[j] \in IoShape /\ PointersAt(j) /\ UnusedAt(j) /\ EndsAt(j) /\ UntoldAt(j)
      /\ AcceptorAt(j) /\ LoopAt(j) /\ OneTakesAt(j) /\ PairedAt(j) /\ WatchingAt(j)
  BY KnownOf
<1>4. th[Acceptor].pc = "sched" /\ ~ th[Acceptor].watch /\ ~ th[Acceptor].net
  BY <1>1, <1>2 DEF Sched, At, ThreadOk, Carried
<1>5. io[j].announced /\ io[j].in_loop = "no" /\ th[Acceptor].then # "unref_list"
  BY <1>1, <1>2, <1>3, <1>4 DEF AcceptorAt, ThreadOk, AcceptorPlace, KillPath
<1>6. io[j].io_watch => io[j].wrefs > 0
  BY WatchHeld, <1>1 DEF IInv
<1>7. PICK x \in ThShape : x = [th[Acceptor] EXCEPT !.pc = "accepted"]
  BY <1>1, <1>2, <1>3, <1>4, <1>5, <1>6 DEF ThShape, Pcs, KillPath, ReportPath, Idle, Of, IoShape
<1>8. /\ x.pc = "accepted" /\ x.io = th[Acceptor].io /\ x.watch = th[Acceptor].watch
      /\ x.net = th[Acceptor].net /\ x.then = th[Acceptor].then
  BY <1>3, <1>7 DEF ThShape, Idle, Of
<1>9. PICK n \in Int : n = io[j].wrefs + 1
  BY <1>3 DEF IoShape
<1>10. PICK y \in IoShape : y = IF io[j].io_watch THEN [io[j] EXCEPT !.in_loop = "in", !.wrefs = n] ELSE io[j]
  BY <1>1, <1>2, <1>3, <1>9, <1>4, <1>5, <1>6 DEF IoShape, UnrefIo, Swapped, Begun
<1>11. /\ y.used = io[j].used /\ y.io_watch = io[j].io_watch /\ y.net = io[j].net
       /\ y.killed = io[j].killed
       /\ y.in_loop = IF io[j].io_watch THEN "in" ELSE io[j].in_loop
       /\ y.user = io[j].user /\ y.announced = io[j].announced /\ y.late = io[j].late
  BY <1>1, <1>2, <1>3, <1>9, <1>6, <1>10 DEF IoShape, UnrefIo, Swapped, Begun
<1>12. /\ y.refs = io[j].refs
       /\ y.wrefs = IF io[j].io_watch THEN n ELSE io[j].wrefs
       /\ y.fins = io[j].fins /\ y.kills = io[j].kills /\ y.reads = io[j].reads
  BY <1>6, <1>10 DEF IoShape, UnrefIo, Swapped, Begun
<1>13. /\ listening' = listening /\ io_list' = io_list /\ net_refs' = net_refs
       /\ calls' = calls
  BY DEF Sched, At, Of
<1>14. StepOf(Acceptor, j, x, y)
  BY <1>1, <1>2, <1>3, <1>7, <1>8, <1>10, <1>9, <1>4, <1>5, <1>6, <1>13, Roles
  DEF Sched, At, StepOf, Goto, LoopDone, Becomes, Of, IInv, Shapes
<1>15. /\ th'[Acceptor] = x /\ io'[j] = y
       /\ \A s \in Threads : s # Acceptor => th'[s] = th[s]
  BY <1>1, <1>2, <1>3, <1>14, StepIs DEF IInv
<1>16. ThreadOk(Acceptor, x)
  BY <1>1, <1>2, <1>3, <1>8, <1>4, <1>5
  DEF ThreadOk, UserPlace, AcceptorPlace, LoopPlace, Carried, KillPath, ReportPath
<1>17. ConnectionOk(j)'
  <2>1. PointersAt(j)'
    BY <1>3, <1>8, <1>11, <1>13, <1>15, <1>4, <1>5, <1>6, Roles DEF PointersAt, Taken, Ended
  <2>2. UnusedAt(j)'
    BY <1>3, <1>8, <1>11, <1>13, <1>15, <1>4, <1>5, <1>6, Roles DEF UnusedAt
  <2>3. EndsAt(j)'
    BY <1>1, <1>2, <1>3, <1>8, <1>11, <1>12, <1>9, <1>13, <1>15, <1>4, <1>5, <1>6, Roles
    DEF EndsAt, Ended
  <2>4. UntoldAt(j)'
    BY <1>1, <1>2, <1>3, <1>8, <1>11, <1>12, <1>9, <1>13, <1>15, <1>4, <1>5, <1>6, Roles
    DEF UntoldAt
  <2>5. AcceptorAt(j)'
    BY <1>1, <1>2, <1>3, <1>8, <1>11, <1>13, <1>15, <1>4, <1>5, <1>6, Roles DEF AcceptorAt
  <2>6. LoopAt(j)'
    BY <1>3, <1>8, <1>15, <1>4, <1>5, <1>6, Roles DEF LoopAt, ReportPath
  <2>7. OneTakesAt(j)'
    BY <1>3, <1>8, <1>11, <1>13, <1>15, <1>4, <1>5, <1>6, Roles
    DEF OneTakesAt, Takes, TakenBy, OnTheWayWith, OnTheWay, KillPath
  <2>8. PairedAt(j)'
    BY <1>3, <1>8, <1>11, <1>13, <1>15, <1>4, <1>5, <1>6, Roles
    DEF PairedAt, Someone, Takes, TakenBy, OnTheWayWith, OnTheWay, KillPath
  <2>9. WatchingAt(j)'
    BY <1>3, <1>8, <1>11, <1>13, <1>15, <1>4, <1>5, <1>6, Roles DEF WatchingAt, Scheduled, Someone
  <2>. QED  BY <2>1, <2>2, <2>3, <2>4, <2>5, <2>6, <2>7, <2>8, <2>9 DEF ConnectionOk
<1>18. y.refs - RefsDue(Acceptor, x, y, j \in io_list', j)
         = io[j].refs - RefsDue(Acceptor, th[Acceptor], io[j], j \in io_list, j)
  <2>1. y.wrefs > 0 <=> io[j].wrefs > 0
    BY <1>3, <1>9, <1>12, <1>4, <1>5, <1>6 DEF IoShape
  <2>2. /\ ~ TakenBy(x, j) /\ ~ TakenBy(th[Acceptor], j)
        /\ ~ OnTheWayWith(x, j) /\ ~ OnTheWayWith(th[Acceptor], j)
    BY <1>8, <1>4 DEF TakenBy, OnTheWayWith, OnTheWay, KillPath
  <2>3. /\ One(y.wrefs > 0) = One(io[j].wrefs > 0) /\ One(y.user) = One(io[j].user)
        /\ One(TakenBy(x, j)) = One(TakenBy(th[Acceptor], j))
        /\ One(OnTheWayWith(x, j)) = One(OnTheWayWith(th[Acceptor], j))
    BY <2>1, <2>2, <1>11 DEF One
  <2>4. /\ One(Acceptor \in Users /\ UserOf(x, j)) = One(Acceptor \in Users /\ UserOf(th[Acceptor], j))
        /\ One(Acceptor = Acceptor /\ x.io = j /\ ~ y.announced)
             = One(Acceptor = Acceptor /\ th[Acceptor].io = j /\ ~ io[j].announced)
        /\ One(j \in io_list') = One(j \in io_list) /\ y.refs = io[j].refs
    BY <1>8, <1>11, <1>12, <1>13 DEF One, UserOf
  <2>. QED  BY <2>3, <2>4 DEF RefsDue
<1>19. y.wrefs - WatchDue(Acceptor, x, y, j) = io[j].wrefs - WatchDue(Acceptor, th[Acceptor], io[j], j)
  BY <1>3, <1>8, <1>11, <1>12, <1>9, <1>13, <1>4, <1>5, <1>6, Roles
  DEF WatchDue, CarriedBy, WrittenBy, FailedBy, One, IoShape
<1>20. net_refs' \in Int /\ net_refs' - NetDue(Acceptor, x, y) = net_refs - NetDue(Acceptor, th[Acceptor], io[j])
  BY <1>3, <1>8, <1>11, <1>13, <1>4, <1>5, <1>6, Roles DEF NetDue, NetHeldBy, One, IInv, Shapes
<1>21. /\ Acceptor # Acceptor => (y.announced <=> io[j].announced)
       /\ listening' \in BOOLEAN /\ io_list' \subseteq Ios /\ calls' \in 0 .. MaxCalls
  BY <1>13, <1>4, Roles, NetIoAssumption DEF IInv, Shapes
<1>. QED  BY <1>1, <1>2, <1>3, <1>7, <1>10, <1>14, <1>16, <1>17, <1>18, <1>19, <1>20, <1>21,
   StepKeeps

AcceptedDone ==
  /\ At(Acceptor, "accepted")
  /\ th' = [th EXCEPT ![Acceptor] = Idle]
  /\ net_refs' = net_refs - 1
  /\ UNCHANGED <<listening, io_list, io, calls>>

LEMMA AcceptedDoneKeeps ==
  ASSUME IInv, AcceptedDone PROVE IInv'
<1>1. PICK j \in Ios : j = th[Acceptor].io
  BY Known, Roles DEF AcceptedDone, At
<1>2. Acceptor \in Threads /\ th[Acceptor] \in ThShape /\ ThreadOk(Acceptor, th[Acceptor])
  BY Known, Roles
<1>3. /\ io[j] \in IoShape /\ PointersAt(j) /\ UnusedAt(j) /\ EndsAt(j) /\ UntoldAt(j)
      /\ AcceptorAt(j) /\ LoopAt(j) /\ OneTakesAt(j) /\ PairedAt(j) /\ WatchingAt(j)
  BY KnownOf
<1>4. th[Acceptor].pc = "accepted" /\ ~ th[Acceptor].watch /\ ~ th[Acceptor].net
  BY <1>1, <1>2 DEF AcceptedDone, At, ThreadOk, Carried
<1>5. io[j].announced
  BY <1>1, <1>2, <1>3, <1>4 DEF AcceptorAt
<1>6. PICK x \in ThShape : x = Idle
  BY <1>1, <1>2, <1>3, <1>4, <1>5 DEF ThShape, Pcs, KillPath, ReportPath, Idle, Of, IoShape
<1>7. x.pc = "idle" /\ x.io = NoIo /\ ~ x.watch /\ ~ x.net /\ x.then = "idle"
  BY <1>3, <1>6 DEF ThShape, Idle, Of
<1>8. /\ listening' = listening /\ io_list' = io_list /\ net_refs' = net_refs - 1
      /\ calls' = calls
  BY DEF AcceptedDone, At, Of
<1>9. StepOf(Acceptor, j, x, io[j])
  BY <1>1, <1>2, <1>3, <1>6, <1>7, <1>4, Roles
  DEF AcceptedDone, At, StepOf, Goto, LoopDone, Becomes, Of, IInv, Shapes
<1>10. /\ th'[Acceptor] = x /\ io'[j] = io[j]
       /\ \A s \in Threads : s # Acceptor => th'[s] = th[s]
  BY <1>1, <1>2, <1>3, <1>9, StepIs DEF IInv
<1>11. ThreadOk(Acceptor, x)
  BY <1>3, <1>7 DEF ThreadOk, UserPlace, AcceptorPlace, LoopPlace, Carried, KillPath, ReportPath
<1>12. ConnectionOk(j)'
  <2>1. PointersAt(j)'
    BY <1>3, <1>7, <1>8, <1>10, Roles DEF PointersAt, Taken, Ended
  <2>2. UnusedAt(j)'
    BY <1>3, <1>7, <1>8, <1>10, Roles DEF UnusedAt
  <2>3. EndsAt(j)'
    BY <1>3, <1>7, <1>8, <1>10, Roles DEF EndsAt, Ended
  <2>4. UntoldAt(j)'
    BY <1>8, <1>10, <1>4, <1>5, Roles DEF UntoldAt
  <2>5. AcceptorAt(j)'
    BY <1>3, <1>7, <1>8, <1>10, Roles DEF AcceptorAt
  <2>6. LoopAt(j)'
    BY <1>3, <1>7, <1>8, <1>10, Roles DEF LoopAt, ReportPath
  <2>7. OneTakesAt(j)'
    BY <1>3, <1>7, <1>8, <1>10, <1>4, <1>5, Roles
    DEF OneTakesAt, Takes, TakenBy, OnTheWayWith, OnTheWay, KillPath
  <2>8. PairedAt(j)'
    BY <1>3, <1>7, <1>8, <1>10, <1>4, <1>5, Roles
    DEF PairedAt, Someone, Takes, TakenBy, OnTheWayWith, OnTheWay, KillPath
  <2>9. WatchingAt(j)'
    BY <1>3, <1>7, <1>8, <1>10, <1>4, <1>5, Roles DEF WatchingAt, Scheduled, Someone
  <2>. QED  BY <2>1, <2>2, <2>3, <2>4, <2>5, <2>6, <2>7, <2>8, <2>9 DEF ConnectionOk
<1>13. io[j].refs - RefsDue(Acceptor, x, io[j], j \in io_list', j)
         = io[j].refs - RefsDue(Acceptor, th[Acceptor], io[j], j \in io_list, j)
  BY <1>3, <1>7, <1>8, <1>4, <1>5, Roles
  DEF RefsDue, UserOf, TakenBy, OnTheWayWith, OnTheWay, KillPath, One, IoShape
<1>14. io[j].wrefs - WatchDue(Acceptor, x, io[j], j) = io[j].wrefs - WatchDue(Acceptor, th[Acceptor], io[j], j)
  BY <1>3, <1>7, <1>8, <1>4 DEF WatchDue, CarriedBy, WrittenBy, FailedBy, One, IoShape
<1>15. net_refs' \in Int /\ net_refs' - NetDue(Acceptor, x, io[j]) = net_refs - NetDue(Acceptor, th[Acceptor], io[j])
  BY <1>3, <1>7, <1>8, <1>4 DEF NetDue, NetHeldBy, One, IInv, Shapes
<1>16. /\ Acceptor # Acceptor => (io[j].announced <=> io[j].announced)
       /\ listening' \in BOOLEAN /\ io_list' \subseteq Ios /\ calls' \in 0 .. MaxCalls
  BY <1>3, <1>8 DEF IInv, Shapes
<1>. QED  BY <1>1, <1>2, <1>3, <1>6, <1>9, <1>11, <1>12, <1>13, <1>14, <1>15, <1>16, StepKeeps

UnrefChild ==
  /\ At(Acceptor, "unref_child")
  /\ Goto(Acceptor, "fail")
  /\ net_refs' = net_refs - 1
  /\ UNCHANGED <<listening, io_list, io, calls>>

LEMMA UnrefChildKeeps ==
  ASSUME IInv, UnrefChild PROVE IInv'
<1>1. PICK j \in Ios : j = th[Acceptor].io
  BY Known, Roles DEF UnrefChild, At
<1>2. Acceptor \in Threads /\ th[Acceptor] \in ThShape /\ ThreadOk(Acceptor, th[Acceptor])
  BY Known, Roles
<1>3. /\ io[j] \in IoShape /\ PointersAt(j) /\ UnusedAt(j) /\ EndsAt(j) /\ UntoldAt(j)
      /\ AcceptorAt(j) /\ LoopAt(j) /\ OneTakesAt(j) /\ PairedAt(j) /\ WatchingAt(j)
  BY KnownOf
<1>4. th[Acceptor].pc = "unref_child" /\ ~ th[Acceptor].watch /\ ~ th[Acceptor].net
  BY <1>1, <1>2 DEF UnrefChild, At, ThreadOk, Carried
<1>5. /\ th[Acceptor].then # "unref_list" /\ ~ io[j].announced /\ ~ io[j].net
      /\ ~ io[j].io_watch /\ j \notin io_list
  BY <1>1, <1>2, <1>3, <1>4 DEF AcceptorAt, ThreadOk, AcceptorPlace, KillPath, PointersAt, Taken
<1>6. PICK x \in ThShape : x = [th[Acceptor] EXCEPT !.pc = "fail"]
  BY <1>1, <1>2, <1>3, <1>4, <1>5 DEF ThShape, Pcs, KillPath, ReportPath, Idle, Of, IoShape
<1>7. /\ x.pc = "fail" /\ x.io = th[Acceptor].io /\ x.watch = th[Acceptor].watch
      /\ x.net = th[Acceptor].net /\ x.then = th[Acceptor].then
  BY <1>3, <1>6 DEF Of
<1>8. /\ listening' = listening /\ io_list' = io_list /\ net_refs' = net_refs - 1
      /\ calls' = calls
  BY DEF UnrefChild, At, Of
<1>9. StepOf(Acceptor, j, x, io[j])
  BY <1>1, <1>2, <1>3, <1>6, Roles
  DEF UnrefChild, At, StepOf, Goto, LoopDone, Becomes, Of, IInv, Shapes
<1>10. /\ th'[Acceptor] = x /\ io'[j] = io[j]
       /\ \A s \in Threads : s # Acceptor => th'[s] = th[s]
  BY <1>1, <1>2, <1>3, <1>9, StepIs DEF IInv
<1>11. ThreadOk(Acceptor, x)
  BY <1>1, <1>2, <1>3, <1>7, <1>4, <1>5
  DEF ThreadOk, UserPlace, AcceptorPlace, LoopPlace, Carried, KillPath, ReportPath
<1>12. ConnectionOk(j)'
  <2>1. PointersAt(j)'
    BY <1>8, <1>10, <1>4, <1>5, Roles DEF PointersAt, Taken, Ended
  <2>2. UnusedAt(j)'
    BY <1>3, <1>7, <1>8, <1>10, Roles DEF UnusedAt
  <2>3. EndsAt(j)'
    BY <1>3, <1>7, <1>8, <1>10, Roles DEF EndsAt, Ended
  <2>4. UntoldAt(j)'
    BY <1>3, <1>7, <1>8, <1>10, Roles DEF UntoldAt
  <2>5. AcceptorAt(j)'
    BY <1>3, <1>7, <1>8, <1>10, <1>4, <1>5, Roles DEF AcceptorAt
  <2>6. LoopAt(j)'
    BY <1>3, <1>7, <1>8, <1>10, Roles DEF LoopAt, ReportPath
  <2>7. OneTakesAt(j)'
    BY <1>3, <1>7, <1>8, <1>10, <1>4, <1>5, Roles
    DEF OneTakesAt, Takes, TakenBy, OnTheWayWith, OnTheWay, KillPath
  <2>8. PairedAt(j)'
    BY <1>8, <1>10, <1>4, <1>5, Roles
    DEF PairedAt, Someone, Takes, TakenBy, OnTheWayWith, OnTheWay, KillPath
  <2>9. WatchingAt(j)'
    BY <1>8, <1>10, <1>4, <1>5, Roles DEF WatchingAt, Scheduled, Someone
  <2>. QED  BY <2>1, <2>2, <2>3, <2>4, <2>5, <2>6, <2>7, <2>8, <2>9 DEF ConnectionOk
<1>13. io[j].refs - RefsDue(Acceptor, x, io[j], j \in io_list', j)
         = io[j].refs - RefsDue(Acceptor, th[Acceptor], io[j], j \in io_list, j)
  BY <1>3, <1>7, <1>8, <1>4
  DEF RefsDue, UserOf, TakenBy, OnTheWayWith, OnTheWay, KillPath, One, IoShape
<1>14. io[j].wrefs - WatchDue(Acceptor, x, io[j], j) = io[j].wrefs - WatchDue(Acceptor, th[Acceptor], io[j], j)
  BY <1>3, <1>7, <1>5, Roles DEF WatchDue, CarriedBy, WrittenBy, FailedBy, One, IoShape
<1>15. net_refs' \in Int /\ net_refs' - NetDue(Acceptor, x, io[j]) = net_refs - NetDue(Acceptor, th[Acceptor], io[j])
  BY <1>3, <1>7, <1>8, <1>4, <1>5, Roles DEF NetDue, NetHeldBy, One, IInv, Shapes
<1>16. /\ Acceptor # Acceptor => (io[j].announced <=> io[j].announced)
       /\ listening' \in BOOLEAN /\ io_list' \subseteq Ios /\ calls' \in 0 .. MaxCalls
  BY <1>3, <1>8 DEF IInv, Shapes
<1>. QED  BY <1>1, <1>2, <1>3, <1>6, <1>9, <1>11, <1>12, <1>13, <1>14, <1>15, <1>16, StepKeeps

LEMMA FailChildKeeps ==
  ASSUME IInv, FailChild PROVE IInv'
<1>1. PICK j \in Ios : j = th[Acceptor].io
  BY Known, Roles DEF FailChild, At
<1>2. Acceptor \in Threads /\ th[Acceptor] \in ThShape /\ ThreadOk(Acceptor, th[Acceptor])
  BY Known, Roles
<1>3. /\ io[j] \in IoShape /\ PointersAt(j) /\ UnusedAt(j) /\ EndsAt(j) /\ UntoldAt(j)
      /\ AcceptorAt(j) /\ LoopAt(j) /\ OneTakesAt(j) /\ PairedAt(j) /\ WatchingAt(j)
  BY KnownOf
<1>4. th[Acceptor].pc = "fail" /\ ~ th[Acceptor].watch /\ ~ th[Acceptor].net
  BY <1>1, <1>2 DEF FailChild, At, ThreadOk, Carried
<1>5. th[Acceptor].then # "unref_list" /\ ~ io[j].announced /\ ~ io[j].net /\ j \notin io_list
  BY <1>1, <1>2, <1>3, <1>4 DEF AcceptorAt, ThreadOk, AcceptorPlace, KillPath
<1>6. PICK x \in ThShape : x = [th[Acceptor] EXCEPT !.pc = "kill", !.then = "unref_new"]
  BY <1>1, <1>2, <1>3, <1>4, <1>5 DEF ThShape, Pcs, KillPath, ReportPath, Idle, Of, IoShape
<1>7. /\ x.pc = "kill" /\ x.io = th[Acceptor].io /\ x.watch = th[Acceptor].watch
      /\ x.net = th[Acceptor].net /\ x.then = "unref_new"
  BY <1>3, <1>6 DEF Of
<1>8. /\ listening' = listening /\ io_list' = io_list /\ net_refs' = net_refs
      /\ calls' = calls
  BY DEF FailChild, At, Of
<1>9. StepOf(Acceptor, j, x, io[j])
  BY <1>1, <1>2, <1>3, <1>6, <1>7, <1>4, <1>5, <1>8, Roles
  DEF FailChild, At, StepOf, Goto, LoopDone, Becomes, Of, IInv, Shapes
<1>10. /\ th'[Acceptor] = x /\ io'[j] = io[j]
       /\ \A s \in Threads : s # Acceptor => th'[s] = th[s]
  BY <1>1, <1>2, <1>3, <1>9, StepIs DEF IInv
<1>11. ThreadOk(Acceptor, x)
  BY <1>1, <1>2, <1>3, <1>7, <1>4, <1>5
  DEF ThreadOk, UserPlace, AcceptorPlace, LoopPlace, Carried, KillPath, ReportPath
<1>12. ConnectionOk(j)'
  <2>1. PointersAt(j)'
    BY <1>3, <1>7, <1>8, <1>10, Roles DEF PointersAt, Taken, Ended
  <2>2. UnusedAt(j)'
    BY <1>3, <1>7, <1>8, <1>10, Roles DEF UnusedAt
  <2>3. EndsAt(j)'
    BY <1>3, <1>7, <1>8, <1>10, Roles DEF EndsAt, Ended
  <2>4. UntoldAt(j)'
    BY <1>3, <1>7, <1>8, <1>10, Roles DEF UntoldAt
  <2>5. AcceptorAt(j)'
    BY <1>3, <1>7, <1>8, <1>10, <1>4, <1>5, Roles DEF AcceptorAt
  <2>6. LoopAt(j)'
    BY <1>3, <1>7, <1>8, <1>10, Roles DEF LoopAt, ReportPath
  <2>7. OneTakesAt(j)'
    BY <1>3, <1>7, <1>8, <1>10, <1>4, <1>5, Roles
    DEF OneTakesAt, Takes, TakenBy, OnTheWayWith, OnTheWay, KillPath
  <2>8. PairedAt(j)'
    BY <1>8, <1>10, <1>4, <1>5, Roles
    DEF PairedAt, Someone, Takes, TakenBy, OnTheWayWith, OnTheWay, KillPath
  <2>9. WatchingAt(j)'
    BY <1>3, <1>7, <1>8, <1>10, <1>4, <1>5, Roles DEF WatchingAt, Scheduled, Someone
  <2>. QED  BY <2>1, <2>2, <2>3, <2>4, <2>5, <2>6, <2>7, <2>8, <2>9 DEF ConnectionOk
<1>13. io[j].refs - RefsDue(Acceptor, x, io[j], j \in io_list', j)
         = io[j].refs - RefsDue(Acceptor, th[Acceptor], io[j], j \in io_list, j)
  BY <1>3, <1>7, <1>8, <1>4
  DEF RefsDue, UserOf, TakenBy, OnTheWayWith, OnTheWay, KillPath, One, IoShape
<1>14. io[j].wrefs - WatchDue(Acceptor, x, io[j], j) = io[j].wrefs - WatchDue(Acceptor, th[Acceptor], io[j], j)
  BY <1>3, <1>7, <1>5, Roles DEF WatchDue, CarriedBy, WrittenBy, FailedBy, One, IoShape
<1>15. net_refs' \in Int /\ net_refs' - NetDue(Acceptor, x, io[j]) = net_refs - NetDue(Acceptor, th[Acceptor], io[j])
  BY <1>3, <1>7, <1>8, <1>4, <1>5, Roles DEF NetDue, NetHeldBy, One, IInv, Shapes
<1>16. /\ Acceptor # Acceptor => (io[j].announced <=> io[j].announced)
       /\ listening' \in BOOLEAN /\ io_list' \subseteq Ios /\ calls' \in 0 .. MaxCalls
  BY <1>3, <1>8 DEF IInv, Shapes
<1>. QED  BY <1>1, <1>2, <1>3, <1>6, <1>9, <1>11, <1>12, <1>13, <1>14, <1>15, <1>16, StepKeeps

LEMMA UnrefNewKeeps ==
  ASSUME IInv, UnrefNew PROVE IInv'
<1>1. PICK j \in Ios : j = th[Acceptor].io
  BY Known, Roles DEF UnrefNew, At
<1>2. Acceptor \in Threads /\ th[Acceptor] \in ThShape /\ ThreadOk(Acceptor, th[Acceptor])
  BY Known, Roles
<1>3. /\ io[j] \in IoShape /\ PointersAt(j) /\ UnusedAt(j) /\ EndsAt(j) /\ UntoldAt(j)
      /\ AcceptorAt(j) /\ LoopAt(j) /\ OneTakesAt(j) /\ PairedAt(j) /\ WatchingAt(j)
  BY KnownOf
<1>4. th[Acceptor].pc = "unref_new" /\ ~ th[Acceptor].watch /\ ~ th[Acceptor].net
  BY <1>1, <1>2 DEF UnrefNew, At, ThreadOk, Carried
<1>5. /\ th[Acceptor].then # "unref_list" /\ ~ io[j].announced /\ ~ io[j].net
      /\ ~ io[j].io_watch /\ j \notin io_list
  BY <1>1, <1>2, <1>3, <1>4 DEF AcceptorAt, ThreadOk, AcceptorPlace, KillPath, PointersAt, Taken
<1>6. PICK x \in ThShape : x = Idle
  BY <1>1, <1>2, <1>3, <1>4, <1>5 DEF ThShape, Pcs, KillPath, ReportPath, Idle, Of, IoShape
<1>7. x.pc = "idle" /\ x.io = NoIo /\ ~ x.watch /\ ~ x.net /\ x.then = "idle"
  BY <1>3, <1>6 DEF ThShape, Idle, Of
<1>8. PICK n \in Int : n = io[j].refs - 1
  BY <1>3 DEF IoShape
<1>9. PICK y \in IoShape : y = [io[j] EXCEPT !.refs = n]
  BY <1>1, <1>2, <1>3, <1>8, <1>4, <1>5 DEF IoShape, UnrefIo, Swapped, Begun
<1>10. /\ y.used = io[j].used /\ y.io_watch = io[j].io_watch /\ y.net = io[j].net
       /\ y.killed = io[j].killed /\ y.in_loop = io[j].in_loop /\ y.user = io[j].user
       /\ y.announced = io[j].announced /\ y.late = io[j].late
  BY <1>9 DEF IoShape, UnrefIo, Swapped, Begun
<1>11. /\ y.refs = n /\ y.wrefs = io[j].wrefs /\ y.fins = io[j].fins /\ y.kills = io[j].kills
       /\ y.reads = io[j].reads
  BY <1>9 DEF IoShape, UnrefIo, Swapped, Begun
<1>12. /\ listening' = listening /\ io_list' = io_list /\ net_refs' = net_refs
       /\ calls' = calls
  BY DEF UnrefNew, At, Of
<1>13. StepOf(Acceptor, j, x, y)
  BY <1>1, <1>2, <1>3, <1>6, <1>7, <1>9, <1>8, <1>4, <1>5, <1>12, Roles
  DEF UnrefNew, At, StepOf, Goto, LoopDone, Becomes, Of, IInv, Shapes, UnrefIo
<1>14. /\ th'[Acceptor] = x /\ io'[j] = y
       /\ \A s \in Threads : s # Acceptor => th'[s] = th[s]
  BY <1>1, <1>2, <1>3, <1>13, StepIs DEF IInv
<1>15. ThreadOk(Acceptor, x)
  BY <1>3, <1>7 DEF ThreadOk, UserPlace, AcceptorPlace, LoopPlace, Carried, KillPath, ReportPath
<1>16. ConnectionOk(j)'
  <2>1. PointersAt(j)'
    BY <1>10, <1>12, <1>14, <1>4, <1>5, Roles DEF PointersAt, Taken, Ended
  <2>2. UnusedAt(j)'
    BY <1>3, <1>7, <1>10, <1>12, <1>14, <1>4, <1>5, Roles DEF UnusedAt
  <2>3. EndsAt(j)'
    BY <1>3, <1>7, <1>10, <1>11, <1>14, <1>4, <1>5, Roles DEF EndsAt, Ended
  <2>4. UntoldAt(j)'
    BY <1>3, <1>7, <1>10, <1>11, <1>8, <1>12, <1>14, <1>4, <1>5, Roles DEF UntoldAt
  <2>5. AcceptorAt(j)'
    BY <1>3, <1>7, <1>14, <1>4, <1>5, Roles DEF AcceptorAt
  <2>6. LoopAt(j)'
    BY <1>3, <1>7, <1>10, <1>12, <1>14, <1>4, <1>5, Roles DEF LoopAt, ReportPath
  <2>7. OneTakesAt(j)'
    BY <1>3, <1>7, <1>10, <1>12, <1>14, <1>4, <1>5, Roles
    DEF OneTakesAt, Takes, TakenBy, OnTheWayWith, OnTheWay, KillPath
  <2>8. PairedAt(j)'
    BY <1>10, <1>12, <1>14, <1>4, <1>5, Roles
    DEF PairedAt, Someone, Takes, TakenBy, OnTheWayWith, OnTheWay, KillPath
  <2>9. WatchingAt(j)'
    BY <1>10, <1>12, <1>14, <1>4, <1>5, Roles DEF WatchingAt, Scheduled, Someone
  <2>. QED  BY <2>1, <2>2, <2>3, <2>4, <2>5, <2>6, <2>7, <2>8, <2>9 DEF ConnectionOk
<1>17. y.refs - RefsDue(Acceptor, x, y, j \in io_list', j)
         = io[j].refs - RefsDue(Acceptor, th[Acceptor], io[j], j \in io_list, j)
  BY <1>1, <1>2, <1>3, <1>7, <1>10, <1>11, <1>8, <1>12, <1>4, <1>5, Roles
  DEF RefsDue, UserOf, TakenBy, OnTheWayWith, OnTheWay, KillPath, One, IoShape
<1>18. y.wrefs - WatchDue(Acceptor, x, y, j) = io[j].wrefs - WatchDue(Acceptor, th[Acceptor], io[j], j)
  BY <1>3, <1>7, <1>10, <1>11, <1>4, <1>5, Roles
  DEF WatchDue, CarriedBy, WrittenBy, FailedBy, One, IoShape
<1>19. net_refs' \in Int /\ net_refs' - NetDue(Acceptor, x, y) = net_refs - NetDue(Acceptor, th[Acceptor], io[j])
  BY <1>3, <1>7, <1>10, <1>12, <1>4, <1>5, Roles DEF NetDue, NetHeldBy, One, IInv, Shapes
<1>20. /\ Acceptor # Acceptor => (y.announced <=> io[j].announced)
       /\ listening' \in BOOLEAN /\ io_list' \subseteq Ios /\ calls' \in 0 .. MaxCalls
  BY <1>12, <1>4, NetIoAssumption DEF IInv, Shapes
<1>. QED  BY <1>1, <1>2, <1>3, <1>6, <1>9, <1>13, <1>15, <1>16, <1>17, <1>18, <1>19, <1>20,
   StepKeeps

DispatchGone(i) ==
  /\ At(Loop, "idle")
  /\ io[i].in_loop \in {"in", "leaving"}
  /\ io[i].killed
  /\ th' = [th EXCEPT ![Loop].io = i, ![Loop].pc = "drop_event"]
  /\ io' = io
  /\ UNCHANGED <<listening, io_list, net_refs, calls>>

LEMMA DispatchGoneKeeps ==
  ASSUME IInv, NEW i \in Ios, DispatchGone(i) PROVE IInv'
<1>1. Loop \in Threads /\ th[Loop] \in ThShape /\ ThreadOk(Loop, th[Loop])
  BY Known, Roles
<1>2. /\ io[i] \in IoShape /\ PointersAt(i) /\ UnusedAt(i) /\ EndsAt(i) /\ UntoldAt(i)
      /\ AcceptorAt(i) /\ LoopAt(i) /\ OneTakesAt(i) /\ PairedAt(i) /\ WatchingAt(i)
  BY KnownOf
<1>3. io[i].in_loop \in {"in", "leaving"} /\ io[i].killed
  BY DEF DispatchGone, At
<1>4. th[Loop].pc = "idle" /\ ~ th[Loop].watch /\ ~ th[Loop].net /\ th[Loop].io = NoIo
  BY <1>1, <1>2 DEF DispatchGone, At, ThreadOk, Carried
<1>5. io[i].announced
  BY <1>1, <1>2 DEF DispatchGone, UntoldAt
<1>6. PICK x \in ThShape : x = [th[Loop] EXCEPT !.io = i, !.pc = "drop_event"]
  BY <1>1, <1>2, <1>3, <1>4, <1>5 DEF ThShape, Pcs, KillPath, ReportPath, Idle, Of, IoShape
<1>7. /\ x.pc = "drop_event" /\ x.io = i /\ x.watch = th[Loop].watch /\ x.net = th[Loop].net
      /\ x.then = th[Loop].then
  BY <1>6, <1>3 DEF Of
<1>8. /\ listening' = listening /\ io_list' = io_list /\ net_refs' = net_refs
      /\ calls' = calls
  BY DEF DispatchGone, At, Of
<1>9. StepOf(Loop, i, x, io[i])
  BY <1>1, <1>2, <1>6, <1>7, <1>3, <1>4, <1>5, <1>8, Roles
  DEF DispatchGone, At, StepOf, Goto, LoopDone, Becomes, Of, IInv, Shapes
<1>10. /\ th'[Loop] = x /\ io'[i] = io[i]
       /\ \A s \in Threads : s # Loop => th'[s] = th[s]
  BY <1>1, <1>2, <1>9, StepIs DEF IInv
<1>11. ThreadOk(Loop, x)
  BY <1>7, <1>3, <1>4, <1>5, Roles
  DEF ThreadOk, UserPlace, AcceptorPlace, LoopPlace, Carried, KillPath, ReportPath
<1>12. ConnectionOk(i)'
  <2>1. PointersAt(i)'
    BY <1>1, <1>2, <1>7, <1>8, <1>10, <1>3, Roles DEF PointersAt, Taken, Ended
  <2>2. UnusedAt(i)'
    BY <1>1, <1>2, <1>10, <1>3, Roles DEF UnusedAt
  <2>3. EndsAt(i)'
    BY <1>1, <1>2, <1>10, <1>3, Roles DEF EndsAt, Ended
  <2>4. UntoldAt(i)'
    BY <1>10, <1>3, <1>4, <1>5, Roles DEF UntoldAt
  <2>5. AcceptorAt(i)'
    BY <1>1, <1>2, <1>10, <1>3, <1>4, <1>5, Roles DEF AcceptorAt
  <2>6. LoopAt(i)'
    BY <1>10, <1>3, Roles DEF LoopAt, ReportPath
  <2>7. OneTakesAt(i)'
    BY <1>1, <1>2, <1>7, <1>8, <1>10, <1>3, <1>4, <1>5, Roles
    DEF OneTakesAt, Takes, TakenBy, OnTheWayWith, OnTheWay, KillPath
  <2>8. PairedAt(i)'
    BY <1>1, <1>2, <1>7, <1>8, <1>10, <1>3, <1>4, <1>5, Roles
    DEF PairedAt, Someone, Takes, TakenBy, OnTheWayWith, OnTheWay, KillPath
  <2>9. WatchingAt(i)'
    BY <1>1, <1>2, <1>10, <1>3, <1>4, <1>5, Roles DEF WatchingAt, Scheduled, Someone
  <2>. QED  BY <2>1, <2>2, <2>3, <2>4, <2>5, <2>6, <2>7, <2>8, <2>9 DEF ConnectionOk
<1>13. io[i].refs - RefsDue(Loop, x, io[i], i \in io_list', i)
         = io[i].refs - RefsDue(Loop, th[Loop], io[i], i \in io_list, i)
  BY <1>7, <1>8, <1>3, <1>4, <1>5, Roles
  DEF RefsDue, UserOf, TakenBy, OnTheWayWith, OnTheWay, KillPath, One, IoShape
<1>14. io[i].wrefs - WatchDue(Loop, x, io[i], i) = io[i].wrefs - WatchDue(Loop, th[Loop], io[i], i)
  BY <1>7, <1>8, <1>3, <1>4 DEF WatchDue, CarriedBy, WrittenBy, FailedBy, One, IoShape
<1>15. net_refs' \in Int /\ net_refs' - NetDue(Loop, x, io[i]) = net_refs - NetDue(Loop, th[Loop], io[i])
  BY <1>7, <1>8, <1>5, Roles DEF NetDue, NetHeldBy, One, IInv, Shapes
<1>16. /\ Loop # Acceptor => (io[i].announced <=> io[i].announced)
       /\ listening' \in BOOLEAN /\ io_list' \subseteq Ios /\ calls' \in 0 .. MaxCalls
  BY <1>8, <1>3 DEF IInv, Shapes
<1>. QED  BY <1>1, <1>2, <1>6, <1>9, <1>11, <1>12, <1>13, <1>14, <1>15, <1>16, StepKeeps

DispatchMessage(i) ==
  /\ At(Loop, "idle")
  /\ io[i].in_loop \in {"in", "leaving"}
  /\ ~ io[i].killed
  /\ io[i].reads < MaxReads
  /\ io' = [io EXCEPT ![i].reads = @ + 1]
  /\ th' = [th EXCEPT ![Loop].io = i, ![Loop].pc = "read_message"]
  /\ UNCHANGED <<listening, io_list, net_refs, calls>>

LEMMA DispatchMessageKeeps ==
  ASSUME IInv, NEW i \in Ios, DispatchMessage(i) PROVE IInv'
<1>1. Loop \in Threads /\ th[Loop] \in ThShape /\ ThreadOk(Loop, th[Loop])
  BY Known, Roles
<1>2. /\ io[i] \in IoShape /\ PointersAt(i) /\ UnusedAt(i) /\ EndsAt(i) /\ UntoldAt(i)
      /\ AcceptorAt(i) /\ LoopAt(i) /\ OneTakesAt(i) /\ PairedAt(i) /\ WatchingAt(i)
  BY KnownOf
<1>3. io[i].in_loop \in {"in", "leaving"} /\ ~ io[i].killed /\ io[i].reads < MaxReads
  BY DEF DispatchMessage, At
<1>4. th[Loop].pc = "idle" /\ ~ th[Loop].watch /\ ~ th[Loop].net /\ th[Loop].io = NoIo
  BY <1>1, <1>2 DEF DispatchMessage, At, ThreadOk, Carried
<1>5. io[i].announced
  BY <1>1, <1>2 DEF DispatchMessage, UntoldAt
<1>6. PICK x \in ThShape : x = [th[Loop] EXCEPT !.io = i, !.pc = "read_message"]
  BY <1>1, <1>2, <1>3, <1>4, <1>5 DEF ThShape, Pcs, KillPath, ReportPath, Idle, Of, IoShape
<1>7. /\ x.pc = "read_message" /\ x.io = i /\ x.watch = th[Loop].watch
      /\ x.net = th[Loop].net /\ x.then = th[Loop].then
  BY <1>6, <1>3 DEF Of
<1>8. PICK n \in 0 .. MaxReads : n = io[i].reads + 1
  BY <1>2, <1>3, NetIoAssumption DEF IoShape
<1>9. PICK y \in IoShape : y = [io[i] EXCEPT !.reads = n]
  BY <1>1, <1>2, <1>8, <1>3, <1>4, <1>5 DEF IoShape, UnrefIo, Swapped, Begun
<1>10. /\ y.used = io[i].used /\ y.io_watch = io[i].io_watch /\ y.net = io[i].net
       /\ y.killed = io[i].killed /\ y.in_loop = io[i].in_loop /\ y.user = io[i].user
       /\ y.announced = io[i].announced /\ y.late = io[i].late
  BY <1>1, <1>2, <1>8, <1>3, <1>9 DEF IoShape, UnrefIo, Swapped, Begun
<1>11. /\ y.refs = io[i].refs /\ y.wrefs = io[i].wrefs /\ y.fins = io[i].fins
       /\ y.kills = io[i].kills /\ y.reads = n
  BY <1>9 DEF IoShape, UnrefIo, Swapped, Begun
<1>12. /\ listening' = listening /\ io_list' = io_list /\ net_refs' = net_refs
       /\ calls' = calls
  BY DEF DispatchMessage, At, Of
<1>13. StepOf(Loop, i, x, y)
  BY <1>1, <1>2, <1>6, <1>7, <1>9, <1>8, <1>3, <1>4, <1>5, <1>12, Roles
  DEF DispatchMessage, At, StepOf, Goto, LoopDone, Becomes, Of, IInv, Shapes
<1>14. /\ th'[Loop] = x /\ io'[i] = y
       /\ \A s \in Threads : s # Loop => th'[s] = th[s]
  BY <1>1, <1>2, <1>13, StepIs DEF IInv
<1>15. ThreadOk(Loop, x)
  BY <1>7, <1>3, <1>4, <1>5, Roles
  DEF ThreadOk, UserPlace, AcceptorPlace, LoopPlace, Carried, KillPath, ReportPath
<1>16. ConnectionOk(i)'
  <2>1. PointersAt(i)'
    BY <1>1, <1>2, <1>7, <1>10, <1>12, <1>14, <1>5, Roles DEF PointersAt, Taken, Ended
  <2>2. UnusedAt(i)'
    BY <1>1, <1>2, <1>7, <1>10, <1>12, <1>14, <1>5, Roles DEF UnusedAt
  <2>3. EndsAt(i)'
    BY <1>1, <1>2, <1>7, <1>10, <1>11, <1>8, <1>12, <1>14, <1>3, <1>4, <1>5, Roles
    DEF EndsAt, Ended
  <2>4. UntoldAt(i)'
    BY <1>1, <1>2, <1>7, <1>10, <1>11, <1>8, <1>12, <1>14, <1>3, <1>4, <1>5, Roles DEF UntoldAt
  <2>5. AcceptorAt(i)'
    BY <1>1, <1>2, <1>7, <1>10, <1>12, <1>14, <1>3, <1>4, <1>5, Roles DEF AcceptorAt
  <2>6. LoopAt(i)'
    BY <1>7, <1>10, <1>12, <1>14, <1>3, <1>4, <1>5, Roles DEF LoopAt, ReportPath
  <2>7. OneTakesAt(i)'
    BY <1>1, <1>2, <1>7, <1>10, <1>12, <1>14, <1>3, <1>4, <1>5, Roles
    DEF OneTakesAt, Takes, TakenBy, OnTheWayWith, OnTheWay, KillPath
  <2>8. PairedAt(i)'
    BY <1>1, <1>2, <1>7, <1>10, <1>12, <1>14, <1>3, <1>4, <1>5, Roles
    DEF PairedAt, Someone, Takes, TakenBy, OnTheWayWith, OnTheWay, KillPath
  <2>9. WatchingAt(i)'
    BY <1>1, <1>2, <1>7, <1>10, <1>12, <1>14, <1>3, <1>4, <1>5, Roles
    DEF WatchingAt, Scheduled, Someone
  <2>. QED  BY <2>1, <2>2, <2>3, <2>4, <2>5, <2>6, <2>7, <2>8, <2>9 DEF ConnectionOk
<1>17. y.refs - RefsDue(Loop, x, y, i \in io_list', i)
         = io[i].refs - RefsDue(Loop, th[Loop], io[i], i \in io_list, i)
  BY <1>7, <1>10, <1>11, <1>8, <1>12, <1>3, <1>4, <1>5, Roles
  DEF RefsDue, UserOf, TakenBy, OnTheWayWith, OnTheWay, KillPath, One, IoShape
<1>18. y.wrefs - WatchDue(Loop, x, y, i) = io[i].wrefs - WatchDue(Loop, th[Loop], io[i], i)
  BY <1>7, <1>10, <1>11, <1>8, <1>4, <1>5, Roles
  DEF WatchDue, CarriedBy, WrittenBy, FailedBy, One, IoShape
<1>19. net_refs' \in Int /\ net_refs' - NetDue(Loop, x, y) = net_refs - NetDue(Loop, th[Loop], io[i])
  BY <1>7, <1>10, <1>12, <1>3, Roles DEF NetDue, NetHeldBy, One, IInv, Shapes
<1>20. /\ Loop # Acceptor => (y.announced <=> io[i].announced)
       /\ listening' \in BOOLEAN /\ io_list' \subseteq Ios /\ calls' \in 0 .. MaxCalls
  BY <1>10, <1>12, NetIoAssumption DEF IInv, Shapes
<1>. QED  BY <1>1, <1>2, <1>13, <1>15, <1>16, <1>17, <1>18, <1>19, <1>20, StepKeeps

DispatchEnd(i) ==
  /\ At(Loop, "idle")
  /\ io[i].in_loop \in {"in", "leaving"}
  /\ ~ io[i].killed
  /\ io' = [io EXCEPT ![i].killed = TRUE]
  /\ th' = [th EXCEPT ![Loop].io = i, ![Loop].pc = "report", ![Loop].then = "drop_event"]
  /\ UNCHANGED <<listening, io_list, net_refs, calls>>

LEMMA DispatchEndKeeps ==
  ASSUME IInv, NEW i \in Ios, DispatchEnd(i) PROVE IInv'
<1>1. Loop \in Threads /\ th[Loop] \in ThShape /\ ThreadOk(Loop, th[Loop])
  BY Known, Roles
<1>2. /\ io[i] \in IoShape /\ PointersAt(i) /\ UnusedAt(i) /\ EndsAt(i) /\ UntoldAt(i)
      /\ AcceptorAt(i) /\ LoopAt(i) /\ OneTakesAt(i) /\ PairedAt(i) /\ WatchingAt(i)
  BY KnownOf
<1>3. io[i].in_loop \in {"in", "leaving"} /\ ~ io[i].killed
  BY DEF DispatchEnd, At
<1>4. th[Loop].pc = "idle" /\ ~ th[Loop].watch /\ ~ th[Loop].net /\ th[Loop].io = NoIo
  BY <1>1, <1>2 DEF DispatchEnd, At, ThreadOk, Carried
<1>5. io[i].announced
  BY <1>1, <1>2 DEF DispatchEnd, UntoldAt
<1>6. PICK x \in ThShape : x = [th[Loop] EXCEPT !.io = i, !.pc = "report", !.then = "drop_event"]
  BY <1>1, <1>2, <1>3, <1>4, <1>5 DEF ThShape, Pcs, KillPath, ReportPath, Idle, Of, IoShape
<1>7. /\ x.pc = "report" /\ x.io = i /\ x.watch = th[Loop].watch /\ x.net = th[Loop].net
      /\ x.then = "drop_event"
  BY <1>6, <1>3 DEF Of
<1>8. PICK y \in IoShape : y = [io[i] EXCEPT !.killed = TRUE]
  BY <1>1, <1>2, <1>3, <1>4, <1>5 DEF IoShape, UnrefIo, Swapped, Begun
<1>9. /\ y.used = io[i].used /\ y.io_watch = io[i].io_watch /\ y.net = io[i].net /\ y.killed
      /\ y.in_loop = io[i].in_loop /\ y.user = io[i].user /\ y.announced = io[i].announced
      /\ y.late = io[i].late
  BY <1>1, <1>2, <1>3, <1>4, <1>5, <1>8 DEF IoShape, UnrefIo, Swapped, Begun
<1>10. /\ y.refs = io[i].refs /\ y.wrefs = io[i].wrefs /\ y.fins = io[i].fins
       /\ y.kills = io[i].kills /\ y.reads = io[i].reads
  BY <1>5, <1>8 DEF Swapped, Begun
<1>11. /\ listening' = listening /\ io_list' = io_list /\ net_refs' = net_refs
       /\ calls' = calls
  BY DEF DispatchEnd, At, Of
<1>12. StepOf(Loop, i, x, y)
  BY <1>1, <1>2, <1>6, <1>7, <1>8, <1>3, <1>4, <1>5, <1>11, Roles
  DEF DispatchEnd, At, StepOf, Goto, LoopDone, Becomes, Of, IInv, Shapes
<1>13. /\ th'[Loop] = x /\ io'[i] = y
       /\ \A s \in Threads : s # Loop => th'[s] = th[s]
  BY <1>1, <1>2, <1>12, StepIs DEF IInv
<1>14. ThreadOk(Loop, x)
  BY <1>7, <1>3, <1>4, <1>5, Roles
  DEF ThreadOk, UserPlace, AcceptorPlace, LoopPlace, Carried, KillPath, ReportPath
<1>15. ConnectionOk(i)'
  <2>1. PointersAt(i)'
    BY <1>1, <1>2, <1>7, <1>9, <1>11, <1>13, <1>5, Roles DEF PointersAt, Taken, Ended
  <2>2. UnusedAt(i)'
    BY <1>1, <1>2, <1>7, <1>9, <1>11, <1>13, <1>5, Roles DEF UnusedAt
  <2>3. EndsAt(i)'
    BY ZenonT(20), <1>1, <1>2, <1>7, <1>9, <1>10, <1>11, <1>13, <1>3, <1>4, <1>5, Roles
    DEF EndsAt, Ended
  <2>4. UntoldAt(i)'
    BY <1>1, <1>2, <1>7, <1>9, <1>10, <1>11, <1>13, <1>3, <1>4, <1>5, Roles DEF UntoldAt
  <2>5. AcceptorAt(i)'
    BY <1>1, <1>2, <1>7, <1>9, <1>11, <1>13, <1>3, <1>4, <1>5, Roles DEF AcceptorAt
  <2>6. LoopAt(i)'
    BY <1>7, <1>9, <1>11, <1>13, <1>3, <1>4, <1>5, Roles DEF LoopAt, ReportPath
  <2>7. OneTakesAt(i)'
    BY <1>1, <1>2, <1>7, <1>9, <1>11, <1>13, <1>3, <1>4, <1>5, Roles
    DEF OneTakesAt, Takes, TakenBy, OnTheWayWith, OnTheWay, KillPath
  <2>8. PairedAt(i)'
    BY <1>1, <1>2, <1>7, <1>9, <1>11, <1>13, <1>3, <1>4, <1>5, Roles
    DEF PairedAt, Someone, Takes, TakenBy, OnTheWayWith, OnTheWay, KillPath
  <2>9. WatchingAt(i)'
    BY <1>7, <1>9, <1>11, <1>13, <1>5, Roles DEF WatchingAt, Scheduled, Someone
  <2>. QED  BY <2>1, <2>2, <2>3, <2>4, <2>5, <2>6, <2>7, <2>8, <2>9 DEF ConnectionOk
<1>16. y.refs - RefsDue(Loop, x, y, i \in io_list', i)
         = io[i].refs - RefsDue(Loop, th[Loop], io[i], i \in io_list, i)
  BY <1>7, <1>9, <1>10, <1>11, <1>3, <1>4, <1>5, Roles
  DEF RefsDue, UserOf, TakenBy, OnTheWayWith, OnTheWay, KillPath, One, IoShape
<1>17. y.wrefs - WatchDue(Loop, x, y, i) = io[i].wrefs - WatchDue(Loop, th[Loop], io[i], i)
  BY <1>7, <1>9, <1>10, <1>11, <1>3, <1>4, <1>5, Roles
  DEF WatchDue, CarriedBy, WrittenBy, FailedBy, One, IoShape
<1>18. net_refs' \in Int /\ net_refs' - NetDue(Loop, x, y) = net_refs - NetDue(Loop, th[Loop], io[i])
  BY <1>7, <1>9, <1>11, <1>3, Roles DEF NetDue, NetHeldBy, One, IInv, Shapes
<1>19. /\ Loop # Acceptor => (y.announced <=> io[i].announced)
       /\ listening' \in BOOLEAN /\ io_list' \subseteq Ios /\ calls' \in 0 .. MaxCalls
  BY <1>9, <1>11, NetIoAssumption DEF IInv, Shapes
<1>. QED  BY <1>1, <1>2, <1>12, <1>14, <1>15, <1>16, <1>17, <1>18, <1>19, StepKeeps

LEMMA ReadMessageKeeps ==
  ASSUME IInv, ReadMessage PROVE IInv'
<1>1. PICK j \in Ios : j = th[Loop].io
  BY Known, Roles DEF ReadMessage, At
<1>2. Loop \in Threads /\ th[Loop] \in ThShape /\ ThreadOk(Loop, th[Loop])
  BY Known, Roles
<1>3. /\ io[j] \in IoShape /\ PointersAt(j) /\ UnusedAt(j) /\ EndsAt(j) /\ UntoldAt(j)
      /\ AcceptorAt(j) /\ LoopAt(j) /\ OneTakesAt(j) /\ PairedAt(j) /\ WatchingAt(j)
  BY KnownOf
<1>4. th[Loop].pc = "read_message" /\ ~ th[Loop].watch /\ ~ th[Loop].net
  BY <1>1, <1>2 DEF ReadMessage, At, ThreadOk, Carried
<1>5. io[j].announced /\ io[j].in_loop \in {"in", "leaving"}
  BY <1>1, <1>2, <1>3, <1>4 DEF UntoldAt, LoopAt
<1>6. io[j].io_watch => ~ Ended(io[j])
  BY <1>3, <1>4 DEF PointersAt
<1>7. PICK x \in ThShape : x = [th[Loop] EXCEPT !.pc = IF io[j].io_watch THEN "on_read" ELSE "read_on"]
  BY <1>1, <1>2, <1>3, <1>4, <1>5, <1>6 DEF ThShape, Pcs, KillPath, ReportPath, Idle, Of, IoShape
<1>8. /\ x.pc = IF io[j].io_watch THEN "on_read" ELSE "read_on"
      /\ x.io = th[Loop].io /\ x.watch = th[Loop].watch /\ x.net = th[Loop].net
      /\ x.then = th[Loop].then
  BY <1>3, <1>7 DEF ThShape, Idle, Of
<1>9. PICK y \in IoShape : y = IF io[j].io_watch THEN Begun(io[j]) ELSE io[j]
  BY <1>3, <1>4, <1>5, <1>6 DEF IoShape, UnrefIo, Swapped, Begun, Ended
<1>10. /\ y.used = io[j].used /\ y.io_watch = io[j].io_watch /\ y.net = io[j].net
       /\ y.killed = io[j].killed /\ y.in_loop = io[j].in_loop /\ y.user = io[j].user
       /\ y.announced = io[j].announced
       /\ y.late = IF io[j].io_watch THEN io[j].late \/ Ended(io[j]) ELSE io[j].late
  BY <1>1, <1>2, <1>3, <1>4, <1>5, <1>6, <1>9 DEF IoShape, UnrefIo, Swapped, Begun, Ended
<1>11. /\ y.refs = io[j].refs /\ y.wrefs = io[j].wrefs /\ y.fins = io[j].fins
       /\ y.kills = io[j].kills /\ y.reads = io[j].reads
  BY <1>9 DEF IoShape, UnrefIo, Swapped, Begun, Ended
<1>12. /\ listening' = listening /\ io_list' = io_list /\ net_refs' = net_refs
       /\ calls' = calls
  BY DEF ReadMessage, At, Of
<1>13. StepOf(Loop, j, x, y)
  BY <1>1, <1>2, <1>3, <1>7, <1>8, <1>9, <1>6, <1>12, Roles
  DEF ReadMessage, At, StepOf, Goto, LoopDone, Becomes, Of, IInv, Shapes
<1>14. /\ th'[Loop] = x /\ io'[j] = y
       /\ \A s \in Threads : s # Loop => th'[s] = th[s]
  BY <1>1, <1>2, <1>3, <1>13, StepIs DEF IInv
<1>15. ThreadOk(Loop, x)
  BY <1>1, <1>2, <1>3, <1>8, <1>4, <1>5
  DEF ThreadOk, UserPlace, AcceptorPlace, LoopPlace, Carried, KillPath, ReportPath
<1>16. ConnectionOk(j)'
  <2>1. PointersAt(j)'
    BY <1>3, <1>8, <1>10, <1>12, <1>14, <1>4, <1>5, <1>6, Roles DEF PointersAt, Taken, Ended
  <2>2. UnusedAt(j)'
    BY <1>3, <1>8, <1>10, <1>12, <1>14, <1>4, <1>5, <1>6, Roles DEF UnusedAt
  <2>3. EndsAt(j)'
    BY <1>1, <1>2, <1>3, <1>8, <1>10, <1>11, <1>12, <1>14, <1>4, <1>5, <1>6, Roles
    DEF EndsAt, Ended
  <2>4. UntoldAt(j)'
    BY <1>1, <1>2, <1>3, <1>8, <1>10, <1>11, <1>12, <1>14, <1>4, <1>5, <1>6, Roles DEF UntoldAt
  <2>5. AcceptorAt(j)'
    BY <1>1, <1>2, <1>3, <1>8, <1>10, <1>12, <1>14, <1>4, <1>5, <1>6, Roles DEF AcceptorAt
  <2>6. LoopAt(j)'
    BY <1>3, <1>8, <1>10, <1>12, <1>14, <1>4, <1>5, <1>6, Roles DEF LoopAt, ReportPath
  <2>7. OneTakesAt(j)'
    BY <1>3, <1>8, <1>10, <1>12, <1>14, <1>4, <1>5, <1>6, Roles
    DEF OneTakesAt, Takes, TakenBy, OnTheWayWith, OnTheWay, KillPath
  <2>8. PairedAt(j)'
    BY <1>3, <1>8, <1>10, <1>12, <1>14, <1>4, <1>5, <1>6, Roles
    DEF PairedAt, Someone, Takes, TakenBy, OnTheWayWith, OnTheWay, KillPath
  <2>9. WatchingAt(j)'
    BY <1>3, <1>8, <1>10, <1>12, <1>14, <1>4, <1>5, <1>6, Roles DEF WatchingAt, Scheduled, Someone
  <2>. QED  BY <2>1, <2>2, <2>3, <2>4, <2>5, <2>6, <2>7, <2>8, <2>9 DEF ConnectionOk
<1>17. y.refs - RefsDue(Loop, x, y, j \in io_list', j)
         = io[j].refs - RefsDue(Loop, th[Loop], io[j], j \in io_list, j)
  BY <1>3, <1>8, <1>10, <1>11, <1>12, <1>4, <1>5, <1>6, Roles
  DEF RefsDue, UserOf, TakenBy, OnTheWayWith, OnTheWay, KillPath, One, IoShape
<1>18. y.wrefs - WatchDue(Loop, x, y, j) = io[j].wrefs - WatchDue(Loop, th[Loop], io[j], j)
  BY <1>3, <1>8, <1>10, <1>11, <1>5, <1>6, Roles
  DEF WatchDue, CarriedBy, WrittenBy, FailedBy, One, IoShape
<1>19. net_refs' \in Int /\ net_refs' - NetDue(Loop, x, y) = net_refs - NetDue(Loop, th[Loop], io[j])
  BY <1>3, <1>8, <1>10, <1>12, <1>6, Roles DEF NetDue, NetHeldBy, One, IInv, Shapes
<1>20. /\ Loop # Acceptor => (y.announced <=> io[j].announced)
       /\ listening' \in BOOLEAN /\ io_list' \subseteq Ios /\ calls' \in 0 .. MaxCalls
  BY <1>3, <1>10, <1>12, <1>4, Roles, NetIoAssumption DEF IInv, Shapes
<1>. QED  BY <1>1, <1>2, <1>9, <1>13, <1>15, <1>16, <1>17, <1>18, <1>19, <1>20, StepKeeps

LEMMA OnReadKeeps ==
  ASSUME IInv, OnRead PROVE IInv'
<1>1. PICK j \in Ios : j = th[Loop].io
  BY Known, Roles DEF OnRead, At
<1>2. Loop \in Threads /\ th[Loop] \in ThShape /\ ThreadOk(Loop, th[Loop])
  BY Known, Roles
<1>3. /\ io[j] \in IoShape /\ PointersAt(j) /\ UnusedAt(j) /\ EndsAt(j) /\ UntoldAt(j)
      /\ AcceptorAt(j) /\ LoopAt(j) /\ OneTakesAt(j) /\ PairedAt(j) /\ WatchingAt(j)
  BY KnownOf
<1>4. th[Loop].pc = "on_read" /\ ~ th[Loop].watch /\ ~ th[Loop].net
  BY <1>1, <1>2 DEF OnRead, At, ThreadOk, Carried
<1>5. io[j].announced /\ io[j].in_loop \in {"in", "leaving"}
  BY <1>1, <1>2, <1>3, <1>4 DEF UntoldAt, LoopAt
<1>6. PICK x \in ThShape : x = [th[Loop] EXCEPT !.pc = "read_on"]
  BY <1>1, <1>2, <1>3, <1>4, <1>5 DEF ThShape, Pcs, KillPath, ReportPath, Idle, Of, IoShape
<1>7. /\ x.pc = "read_on" /\ x.io = th[Loop].io /\ x.watch = th[Loop].watch
      /\ x.net = th[Loop].net /\ x.then = th[Loop].then
  BY <1>3, <1>6 DEF Of
<1>8. /\ listening' = listening /\ io_list' = io_list /\ net_refs' = net_refs
      /\ calls' = calls
  BY DEF OnRead, At, Of
<1>9. StepOf(Loop, j, x, io[j])
  BY <1>1, <1>2, <1>3, <1>6, Roles
  DEF OnRead, At, StepOf, Goto, LoopDone, Becomes, Of, IInv, Shapes
<1>10. /\ th'[Loop] = x /\ io'[j] = io[j]
       /\ \A s \in Threads : s # Loop => th'[s] = th[s]
  BY <1>1, <1>2, <1>3, <1>9, StepIs DEF IInv
<1>11. ThreadOk(Loop, x)
  BY <1>1, <1>2, <1>3, <1>7, <1>4, <1>5
  DEF ThreadOk, UserPlace, AcceptorPlace, LoopPlace, Carried, KillPath, ReportPath
<1>12. ConnectionOk(j)'
  <2>1. PointersAt(j)'
    BY <1>3, <1>7, <1>8, <1>10, Roles DEF PointersAt, Taken, Ended
  <2>2. UnusedAt(j)'
    BY <1>3, <1>7, <1>8, <1>10, Roles DEF UnusedAt
  <2>3. EndsAt(j)'
    BY <1>3, <1>7, <1>8, <1>10, Roles DEF EndsAt, Ended
  <2>4. UntoldAt(j)'
    BY <1>8, <1>10, <1>4, <1>5, Roles DEF UntoldAt
  <2>5. AcceptorAt(j)'
    BY <1>3, <1>7, <1>8, <1>10, Roles DEF AcceptorAt
  <2>6. LoopAt(j)'
    BY <1>3, <1>7, <1>8, <1>10, Roles DEF LoopAt, ReportPath
  <2>7. OneTakesAt(j)'
    BY <1>3, <1>7, <1>8, <1>10, <1>4, <1>5, Roles
    DEF OneTakesAt, Takes, TakenBy, OnTheWayWith, OnTheWay, KillPath
  <2>8. PairedAt(j)'
    BY <1>3, <1>7, <1>8, <1>10, <1>4, <1>5, Roles
    DEF PairedAt, Someone, Takes, TakenBy, OnTheWayWith, OnTheWay, KillPath
  <2>9. WatchingAt(j)'
    BY <1>3, <1>7, <1>8, <1>10, <1>4, <1>5, Roles DEF WatchingAt, Scheduled, Someone
  <2>. QED  BY <2>1, <2>2, <2>3, <2>4, <2>5, <2>6, <2>7, <2>8, <2>9 DEF ConnectionOk
<1>13. io[j].refs - RefsDue(Loop, x, io[j], j \in io_list', j)
         = io[j].refs - RefsDue(Loop, th[Loop], io[j], j \in io_list, j)
  BY <1>3, <1>7, <1>8, <1>4
  DEF RefsDue, UserOf, TakenBy, OnTheWayWith, OnTheWay, KillPath, One, IoShape
<1>14. io[j].wrefs - WatchDue(Loop, x, io[j], j) = io[j].wrefs - WatchDue(Loop, th[Loop], io[j], j)
  BY <1>3, <1>7, <1>5, Roles DEF WatchDue, CarriedBy, WrittenBy, FailedBy, One, IoShape
<1>15. net_refs' \in Int /\ net_refs' - NetDue(Loop, x, io[j]) = net_refs - NetDue(Loop, th[Loop], io[j])
  BY <1>3, <1>7, <1>8, <1>4 DEF NetDue, NetHeldBy, One, IInv, Shapes
<1>16. /\ Loop # Acceptor => (io[j].announced <=> io[j].announced)
       /\ listening' \in BOOLEAN /\ io_list' \subseteq Ios /\ calls' \in 0 .. MaxCalls
  BY <1>3, <1>8 DEF IInv, Shapes
<1>. QED  BY <1>1, <1>2, <1>3, <1>6, <1>9, <1>11, <1>12, <1>13, <1>14, <1>15, <1>16, StepKeeps

ReadOnGone ==
  /\ At(Loop, "read_on")
  /\ Of(Loop).killed
  /\ Goto(Loop, "drop_event")
  /\ io' = io
  /\ UNCHANGED <<listening, io_list, net_refs, calls>>

LEMMA ReadOnGoneKeeps ==
  ASSUME IInv, ReadOnGone PROVE IInv'
<1>1. PICK j \in Ios : j = th[Loop].io
  BY Known, Roles DEF ReadOnGone, At
<1>2. Loop \in Threads /\ th[Loop] \in ThShape /\ ThreadOk(Loop, th[Loop])
  BY Known, Roles
<1>3. /\ io[j] \in IoShape /\ PointersAt(j) /\ UnusedAt(j) /\ EndsAt(j) /\ UntoldAt(j)
      /\ AcceptorAt(j) /\ LoopAt(j) /\ OneTakesAt(j) /\ PairedAt(j) /\ WatchingAt(j)
  BY KnownOf
<1>4. io[j].killed
  BY <1>1, <1>2 DEF ReadOnGone, At, Of
<1>5. th[Loop].pc = "read_on" /\ ~ th[Loop].watch /\ ~ th[Loop].net
  BY <1>1, <1>2 DEF ReadOnGone, At, ThreadOk, Carried
<1>6. io[j].announced /\ io[j].in_loop \in {"in", "leaving"}
  BY <1>1, <1>2, <1>3, <1>4 DEF UntoldAt, LoopAt
<1>7. io[j].killed
  BY <1>3, <1>4 DEF ReadOnGone, Of
<1>8. PICK x \in ThShape : x = [th[Loop] EXCEPT !.pc = "drop_event"]
  BY <1>1, <1>2, <1>3, <1>4, <1>5, <1>6, <1>7
  DEF ThShape, Pcs, KillPath, ReportPath, Idle, Of, IoShape
<1>9. /\ x.pc = "drop_event" /\ x.io = th[Loop].io /\ x.watch = th[Loop].watch
      /\ x.net = th[Loop].net /\ x.then = th[Loop].then
  BY <1>3, <1>8 DEF ThShape, Idle, Of
<1>10. /\ listening' = listening /\ io_list' = io_list /\ net_refs' = net_refs
       /\ calls' = calls
  BY DEF ReadOnGone, At, Of
<1>11. StepOf(Loop, j, x, io[j])
  BY <1>1, <1>2, <1>3, <1>8, <1>7, <1>10, Roles
  DEF ReadOnGone, At, StepOf, Goto, LoopDone, Becomes, Of, IInv, Shapes
<1>12. /\ th'[Loop] = x /\ io'[j] = io[j]
       /\ \A s \in Threads : s # Loop => th'[s] = th[s]
  BY <1>1, <1>2, <1>3, <1>11, StepIs DEF IInv
<1>13. ThreadOk(Loop, x)
  BY <1>1, <1>2, <1>3, <1>9, <1>4, <1>5, Roles
  DEF ThreadOk, UserPlace, AcceptorPlace, LoopPlace, Carried, KillPath, ReportPath
<1>14. ConnectionOk(j)'
  <2>1. PointersAt(j)'
    BY <1>3, <1>9, <1>10, <1>12, <1>6, <1>7, Roles DEF PointersAt, Taken, Ended
  <2>2. UnusedAt(j)'
    BY <1>3, <1>9, <1>10, <1>12, <1>6, <1>7, Roles DEF UnusedAt
  <2>3. EndsAt(j)'
    BY <1>3, <1>9, <1>10, <1>12, <1>6, <1>7, Roles DEF EndsAt, Ended
  <2>4. UntoldAt(j)'
    BY <1>10, <1>12, <1>6, <1>7, Roles DEF UntoldAt
  <2>5. AcceptorAt(j)'
    BY <1>3, <1>9, <1>10, <1>12, <1>6, <1>7, Roles DEF AcceptorAt
  <2>6. LoopAt(j)'
    BY <1>10, <1>12, <1>6, <1>7, Roles DEF LoopAt, ReportPath
  <2>7. OneTakesAt(j)'
    BY <1>3, <1>9, <1>10, <1>12, <1>4, <1>5, <1>6, <1>7, Roles
    DEF OneTakesAt, Takes, TakenBy, OnTheWayWith, OnTheWay, KillPath
  <2>8. PairedAt(j)'
    BY <1>3, <1>9, <1>10, <1>12, <1>4, <1>5, <1>6, <1>7, Roles
    DEF PairedAt, Someone, Takes, TakenBy, OnTheWayWith, OnTheWay, KillPath
  <2>9. WatchingAt(j)'
    BY <1>3, <1>9, <1>10, <1>12, <1>4, <1>5, <1>6, <1>7, Roles DEF WatchingAt, Scheduled, Someone
  <2>. QED  BY <2>1, <2>2, <2>3, <2>4, <2>5, <2>6, <2>7, <2>8, <2>9 DEF ConnectionOk
<1>15. io[j].refs - RefsDue(Loop, x, io[j], j \in io_list', j)
         = io[j].refs - RefsDue(Loop, th[Loop], io[j], j \in io_list, j)
  BY <1>3, <1>9, <1>10, <1>4, <1>5, <1>6, <1>7, Roles
  DEF RefsDue, UserOf, TakenBy, OnTheWayWith, OnTheWay, KillPath, One, IoShape
<1>16. io[j].wrefs - WatchDue(Loop, x, io[j], j) = io[j].wrefs - WatchDue(Loop, th[Loop], io[j], j)
  BY <1>3, <1>9, <1>7, Roles DEF WatchDue, CarriedBy, WrittenBy, FailedBy, One, IoShape
<1>17. net_refs' \in Int /\ net_refs' - NetDue(Loop, x, io[j]) = net_refs - NetDue(Loop, th[Loop], io[j])
  BY <1>3, <1>9, <1>10, <1>4, <1>7, Roles DEF NetDue, NetHeldBy, One, IInv, Shapes
<1>18. /\ Loop # Acceptor => (io[j].announced <=> io[j].announced)
       /\ listening' \in BOOLEAN /\ io_list' \subseteq Ios /\ calls' \in 0 .. MaxCalls
  BY <1>3, <1>10, Roles, NetIoAssumption DEF IInv, Shapes
<1>. QED  BY <1>1, <1>2, <1>3, <1>8, <1>11, <1>13, <1>14, <1>15, <1>16, <1>17, <1>18, StepKeeps

ReadOnDone ==
  /\ At(Loop, "read_on")
  /\ ~ Of(Loop).killed
  /\ LoopDone
  /\ io' = io
  /\ UNCHANGED <<listening, io_list, net_refs, calls>>

LEMMA ReadOnDoneKeeps ==
  ASSUME IInv, ReadOnDone PROVE IInv'
<1>1. PICK j \in Ios : j = th[Loop].io
  BY Known, Roles DEF ReadOnDone, At
<1>2. Loop \in Threads /\ th[Loop] \in ThShape /\ ThreadOk(Loop, th[Loop])
  BY Known, Roles
<1>3. /\ io[j] \in IoShape /\ PointersAt(j) /\ UnusedAt(j) /\ EndsAt(j) /\ UntoldAt(j)
      /\ AcceptorAt(j) /\ LoopAt(j) /\ OneTakesAt(j) /\ PairedAt(j) /\ WatchingAt(j)
  BY KnownOf
<1>4. ~ io[j].killed
  BY <1>1, <1>2 DEF ReadOnDone, At, Of
<1>5. th[Loop].pc = "read_on" /\ ~ th[Loop].watch /\ ~ th[Loop].net
  BY <1>1, <1>2 DEF ReadOnDone, At, ThreadOk, Carried
<1>6. io[j].announced /\ io[j].in_loop \in {"in", "leaving"}
  BY <1>1, <1>2, <1>3, <1>4 DEF UntoldAt, LoopAt
<1>7. PICK x \in ThShape : x = Idle
  BY <1>1, <1>2, <1>3, <1>4, <1>5, <1>6 DEF ThShape, Pcs, KillPath, ReportPath, Idle, Of, IoShape
<1>8. x.pc = "idle" /\ x.io = NoIo /\ ~ x.watch /\ ~ x.net /\ x.then = "idle"
  BY <1>3, <1>7 DEF ThShape, Idle, Of
<1>9. /\ listening' = listening /\ io_list' = io_list /\ net_refs' = net_refs
      /\ calls' = calls
  BY DEF ReadOnDone, At, Of
<1>10. StepOf(Loop, j, x, io[j])
  BY <1>1, <1>2, <1>3, <1>7, <1>8, <1>4, <1>9, Roles
  DEF ReadOnDone, At, StepOf, Goto, LoopDone, Becomes, Of, IInv, Shapes
<1>11. /\ th'[Loop] = x /\ io'[j] = io[j]
       /\ \A s \in Threads : s # Loop => th'[s] = th[s]
  BY <1>1, <1>2, <1>3, <1>10, StepIs DEF IInv
<1>12. ThreadOk(Loop, x)
  BY <1>3, <1>8 DEF ThreadOk, UserPlace, AcceptorPlace, LoopPlace, Carried, KillPath, ReportPath
<1>13. ConnectionOk(j)'
  <2>1. PointersAt(j)'
    BY <1>3, <1>8, <1>9, <1>11, <1>6, Roles DEF PointersAt, Taken, Ended
  <2>2. UnusedAt(j)'
    BY <1>3, <1>8, <1>9, <1>11, <1>6, Roles DEF UnusedAt
  <2>3. EndsAt(j)'
    BY <1>3, <1>8, <1>9, <1>11, <1>6, Roles DEF EndsAt, Ended
  <2>4. UntoldAt(j)'
    BY <1>9, <1>11, <1>6, Roles DEF UntoldAt
  <2>5. AcceptorAt(j)'
    BY <1>3, <1>8, <1>9, <1>11, <1>6, Roles DEF AcceptorAt
  <2>6. LoopAt(j)'
    BY <1>3, <1>8, <1>9, <1>11, <1>6, Roles DEF LoopAt, ReportPath
  <2>7. OneTakesAt(j)'
    BY <1>3, <1>8, <1>9, <1>11, <1>4, <1>5, <1>6, Roles
    DEF OneTakesAt, Takes, TakenBy, OnTheWayWith, OnTheWay, KillPath
  <2>8. PairedAt(j)'
    BY <1>3, <1>8, <1>9, <1>11, <1>4, <1>5, <1>6, Roles
    DEF PairedAt, Someone, Takes, TakenBy, OnTheWayWith, OnTheWay, KillPath
  <2>9. WatchingAt(j)'
    BY <1>3, <1>8, <1>9, <1>11, <1>4, <1>5, <1>6, Roles DEF WatchingAt, Scheduled, Someone
  <2>. QED  BY <2>1, <2>2, <2>3, <2>4, <2>5, <2>6, <2>7, <2>8, <2>9 DEF ConnectionOk
<1>14. io[j].refs - RefsDue(Loop, x, io[j], j \in io_list', j)
         = io[j].refs - RefsDue(Loop, th[Loop], io[j], j \in io_list, j)
  BY <1>3, <1>8, <1>9, <1>4, <1>5, <1>6, Roles
  DEF RefsDue, UserOf, TakenBy, OnTheWayWith, OnTheWay, KillPath, One, IoShape
<1>15. io[j].wrefs - WatchDue(Loop, x, io[j], j) = io[j].wrefs - WatchDue(Loop, th[Loop], io[j], j)
  BY <1>3, <1>8, <1>5, <1>6, Roles DEF WatchDue, CarriedBy, WrittenBy, FailedBy, One, IoShape
<1>16. net_refs' \in Int /\ net_refs' - NetDue(Loop, x, io[j]) = net_refs - NetDue(Loop, th[Loop], io[j])
  BY <1>3, <1>8, <1>9, <1>4, <1>5, <1>6, Roles DEF NetDue, NetHeldBy, One, IInv, Shapes
<1>17. /\ Loop # Acceptor => (io[j].announced <=> io[j].announced)
       /\ listening' \in BOOLEAN /\ io_list' \subseteq Ios /\ calls' \in 0 .. MaxCalls
  BY <1>3, <1>9, NetIoAssumption DEF IInv, Shapes
<1>. QED  BY <1>1, <1>2, <1>3, <1>7, <1>10, <1>12, <1>13, <1>14, <1>15, <1>16, <1>17, StepKeeps

ReadOnMessage ==
  /\ At(Loop, "read_on")
  /\ ~ Of(Loop).killed
  /\ Of(Loop).reads < MaxReads
  /\ Becomes(Loop, [Of(Loop) EXCEPT !.reads = @ + 1])
  /\ Goto(Loop, "read_message")
  /\ UNCHANGED <<listening, io_list, net_refs, calls>>

LEMMA ReadOnMessageKeeps ==
  ASSUME IInv, ReadOnMessage PROVE IInv'
<1>1. PICK j \in Ios : j = th[Loop].io
  BY Known, Roles DEF ReadOnMessage, At
<1>2. Loop \in Threads /\ th[Loop] \in ThShape /\ ThreadOk(Loop, th[Loop])
  BY Known, Roles
<1>3. /\ io[j] \in IoShape /\ PointersAt(j) /\ UnusedAt(j) /\ EndsAt(j) /\ UntoldAt(j)
      /\ AcceptorAt(j) /\ LoopAt(j) /\ OneTakesAt(j) /\ PairedAt(j) /\ WatchingAt(j)
  BY KnownOf
<1>4. ~ io[j].killed /\ io[j].reads < MaxReads
  BY <1>1, <1>2 DEF ReadOnMessage, At, Of
<1>5. th[Loop].pc = "read_on" /\ ~ th[Loop].watch /\ ~ th[Loop].net
  BY <1>1, <1>2 DEF ReadOnMessage, At, ThreadOk, Carried
<1>6. io[j].announced /\ io[j].in_loop \in {"in", "leaving"}
  BY <1>1, <1>2, <1>3, <1>4 DEF UntoldAt, LoopAt
<1>7. PICK x \in ThShape : x = [th[Loop] EXCEPT !.pc = "read_message"]
  BY <1>1, <1>2, <1>3, <1>4, <1>5, <1>6 DEF ThShape, Pcs, KillPath, ReportPath, Idle, Of, IoShape
<1>8. /\ x.pc = "read_message" /\ x.io = th[Loop].io /\ x.watch = th[Loop].watch
      /\ x.net = th[Loop].net /\ x.then = th[Loop].then
  BY <1>3, <1>7 DEF ThShape, Idle, Of
<1>9. PICK n \in 0 .. MaxReads : n = io[j].reads + 1
  BY <1>3, <1>4, NetIoAssumption DEF IoShape
<1>10. PICK y \in IoShape : y = [io[j] EXCEPT !.reads = n]
  BY <1>1, <1>2, <1>3, <1>9, <1>4, <1>5, <1>6 DEF IoShape, UnrefIo, Swapped, Begun
<1>11. /\ y.used = io[j].used /\ y.io_watch = io[j].io_watch /\ y.net = io[j].net
       /\ y.killed = io[j].killed /\ y.in_loop = io[j].in_loop /\ y.user = io[j].user
       /\ y.announced = io[j].announced /\ y.late = io[j].late
  BY <1>1, <1>2, <1>3, <1>9, <1>4, <1>5, <1>6, <1>10 DEF IoShape, UnrefIo, Swapped, Begun
<1>12. /\ y.refs = io[j].refs /\ y.wrefs = io[j].wrefs /\ y.fins = io[j].fins
       /\ y.kills = io[j].kills /\ y.reads = n
  BY <1>6, <1>10 DEF IoShape, UnrefIo, Swapped, Begun
<1>13. /\ listening' = listening /\ io_list' = io_list /\ net_refs' = net_refs
       /\ calls' = calls
  BY DEF ReadOnMessage, At, Of
<1>14. StepOf(Loop, j, x, y)
  BY <1>1, <1>2, <1>3, <1>7, <1>8, <1>10, <1>9, <1>4, <1>5, <1>6, <1>13, Roles
  DEF ReadOnMessage, At, StepOf, Goto, LoopDone, Becomes, Of, IInv, Shapes
<1>15. /\ th'[Loop] = x /\ io'[j] = y
       /\ \A s \in Threads : s # Loop => th'[s] = th[s]
  BY <1>1, <1>2, <1>3, <1>14, StepIs DEF IInv
<1>16. ThreadOk(Loop, x)
  BY <1>1, <1>2, <1>3, <1>8, <1>4, <1>5
  DEF ThreadOk, UserPlace, AcceptorPlace, LoopPlace, Carried, KillPath, ReportPath
<1>17. ConnectionOk(j)'
  <2>1. PointersAt(j)'
    BY <1>3, <1>8, <1>11, <1>13, <1>15, <1>4, <1>5, <1>6, Roles DEF PointersAt, Taken, Ended
  <2>2. UnusedAt(j)'
    BY <1>3, <1>8, <1>11, <1>13, <1>15, <1>4, <1>5, <1>6, Roles DEF UnusedAt
  <2>3. EndsAt(j)'
    BY <1>1, <1>2, <1>3, <1>8, <1>11, <1>12, <1>9, <1>13, <1>15, <1>4, <1>5, <1>6, Roles
    DEF EndsAt, Ended
  <2>4. UntoldAt(j)'
    BY <1>1, <1>2, <1>3, <1>8, <1>11, <1>12, <1>9, <1>13, <1>15, <1>4, <1>5, <1>6, Roles
    DEF UntoldAt
  <2>5. AcceptorAt(j)'
    BY <1>1, <1>2, <1>3, <1>8, <1>11, <1>13, <1>15, <1>4, <1>5, <1>6, Roles DEF AcceptorAt
  <2>6. LoopAt(j)'
    BY <1>3, <1>8, <1>11, <1>13, <1>15, <1>4, <1>5, <1>6, Roles DEF LoopAt, ReportPath
  <2>7. OneTakesAt(j)'
    BY <1>3, <1>8, <1>11, <1>13, <1>15, <1>4, <1>5, <1>6, Roles
    DEF OneTakesAt, Takes, TakenBy, OnTheWayWith, OnTheWay, KillPath
  <2>8. PairedAt(j)'
    BY <1>3, <1>8, <1>11, <1>13, <1>15, <1>4, <1>5, <1>6, Roles
    DEF PairedAt, Someone, Takes, TakenBy, OnTheWayWith, OnTheWay, KillPath
  <2>9. WatchingAt(j)'
    BY <1>3, <1>8, <1>11, <1>13, <1>15, <1>4, <1>5, <1>6, Roles DEF WatchingAt, Scheduled, Someone
  <2>. QED  BY <2>1, <2>2, <2>3, <2>4, <2>5, <2>6, <2>7, <2>8, <2>9 DEF ConnectionOk
<1>18. y.refs - RefsDue(Loop, x, y, j \in io_list', j)
         = io[j].refs - RefsDue(Loop, th[Loop], io[j], j \in io_list, j)
  BY <1>3, <1>8, <1>11, <1>12, <1>9, <1>13, <1>4, <1>5, <1>6, Roles
  DEF RefsDue, UserOf, TakenBy, OnTheWayWith, OnTheWay, KillPath, One, IoShape
<1>19. y.wrefs - WatchDue(Loop, x, y, j) = io[j].wrefs - WatchDue(Loop, th[Loop], io[j], j)
  BY <1>3, <1>8, <1>11, <1>12, <1>4, <1>5, <1>6, Roles
  DEF WatchDue, CarriedBy, WrittenBy, FailedBy, One, IoShape
<1>20. net_refs' \in Int /\ net_refs' - NetDue(Loop, x, y) = net_refs - NetDue(Loop, th[Loop], io[j])
  BY <1>3, <1>8, <1>11, <1>13, <1>6, Roles DEF NetDue, NetHeldBy, One, IInv, Shapes
<1>21. /\ Loop # Acceptor => (y.announced <=> io[j].announced)
       /\ listening' \in BOOLEAN /\ io_list' \subseteq Ios /\ calls' \in 0 .. MaxCalls
  BY <1>3, <1>11, <1>13, <1>4, Roles, NetIoAssumption DEF IInv, Shapes
<1>. QED  BY <1>1, <1>2, <1>3, <1>7, <1>10, <1>14, <1>16, <1>17, <1>18, <1>19, <1>20, <1>21,
   StepKeeps

ReadOnEnd ==
  /\ At(Loop, "read_on")
  /\ ~ Of(Loop).killed
  /\ Becomes(Loop, [Of(Loop) EXCEPT !.killed = TRUE])
  /\ th' = [th EXCEPT ![Loop].pc = "report", ![Loop].then = "drop_event"]
  /\ UNCHANGED <<listening, io_list, net_refs, calls>>

LEMMA ReadOnEndKeeps ==
  ASSUME IInv, ReadOnEnd PROVE IInv'
<1>1. PICK j \in Ios : j = th[Loop].io
  BY Known, Roles DEF ReadOnEnd, At
<1>2. Loop \in Threads /\ th[Loop] \in ThShape /\ ThreadOk(Loop, th[Loop])
  BY Known, Roles
<1>3. /\ io[j] \in IoShape /\ PointersAt(j) /\ UnusedAt(j) /\ EndsAt(j) /\ UntoldAt(j)
      /\ AcceptorAt(j) /\ LoopAt(j) /\ OneTakesAt(j) /\ PairedAt(j) /\ WatchingAt(j)
  BY KnownOf
<1>4. ~ io[j].killed
  BY <1>1, <1>2 DEF ReadOnEnd, At, Of
<1>5. th[Loop].pc = "read_on" /\ ~ th[Loop].watch /\ ~ th[Loop].net
  BY <1>1, <1>2 DEF ReadOnEnd, At, ThreadOk, Carried
<1>6. io[j].announced /\ io[j].in_loop \in {"in", "leaving"}
  BY <1>1, <1>2, <1>3, <1>4, <1>5, Roles DEF UntoldAt, LoopAt
<1>7. PICK x \in ThShape : x = [th[Loop] EXCEPT !.pc = "report", !.then = "drop_event"]
  BY <1>1, <1>2, <1>3, <1>4, <1>5, <1>6 DEF ThShape, Pcs, KillPath, ReportPath, Idle, Of, IoShape
<1>8. /\ x.pc = "report" /\ x.io = th[Loop].io /\ x.watch = th[Loop].watch
      /\ x.net = th[Loop].net /\ x.then = "drop_event"
  BY <1>3, <1>7 DEF ThShape, Idle, Of
<1>9. PICK y \in IoShape : y = [io[j] EXCEPT !.killed = TRUE]
  BY <1>1, <1>2, <1>3, <1>4, <1>5, <1>6 DEF IoShape, UnrefIo, Swapped, Begun
<1>10. /\ y.used = io[j].used /\ y.io_watch = io[j].io_watch /\ y.net = io[j].net /\ y.killed
       /\ y.in_loop = io[j].in_loop /\ y.user = io[j].user /\ y.announced = io[j].announced
       /\ y.late = io[j].late
  BY <1>1, <1>2, <1>3, <1>4, <1>9 DEF IoShape, UnrefIo, Swapped, Begun
<1>11. /\ y.refs = io[j].refs /\ y.wrefs = io[j].wrefs /\ y.fins = io[j].fins
       /\ y.kills = io[j].kills /\ y.reads = io[j].reads
  BY <1>9 DEF IoShape, UnrefIo, Swapped, Begun
<1>12. /\ listening' = listening /\ io_list' = io_list /\ net_refs' = net_refs
       /\ calls' = calls
  BY DEF ReadOnEnd, At, Of
<1>13. StepOf(Loop, j, x, y)
  BY <1>1, <1>2, <1>3, <1>7, <1>8, <1>9, <1>4, <1>5, <1>6, <1>12, Roles
  DEF ReadOnEnd, At, StepOf, Goto, LoopDone, Becomes, Of, IInv, Shapes
<1>14. /\ th'[Loop] = x /\ io'[j] = y
       /\ \A s \in Threads : s # Loop => th'[s] = th[s]
  BY <1>1, <1>2, <1>3, <1>13, StepIs DEF IInv
<1>15. ThreadOk(Loop, x)
  BY <1>1, <1>2, <1>3, <1>8, <1>4, <1>5
  DEF ThreadOk, UserPlace, AcceptorPlace, LoopPlace, Carried, KillPath, ReportPath
<1>16. ConnectionOk(j)'
  <2>1. PointersAt(j)'
    BY <1>3, <1>8, <1>10, <1>12, <1>14, <1>4, <1>5, <1>6, Roles DEF PointersAt, Taken, Ended
  <2>2. UnusedAt(j)'
    BY <1>3, <1>8, <1>10, <1>12, <1>14, <1>4, <1>5, <1>6, Roles DEF UnusedAt
  <2>3. EndsAt(j)'
    BY <1>1, <1>2, <1>3, <1>8, <1>10, <1>11, <1>12, <1>14, <1>4, <1>5, <1>6, Roles
    DEF EndsAt, Ended
  <2>4. UntoldAt(j)'
    BY <1>1, <1>2, <1>3, <1>8, <1>10, <1>11, <1>12, <1>14, <1>4, <1>5, <1>6, Roles DEF UntoldAt
  <2>5. AcceptorAt(j)'
    BY <1>1, <1>2, <1>3, <1>8, <1>10, <1>12, <1>14, <1>4, <1>5, <1>6, Roles DEF AcceptorAt
  <2>6. LoopAt(j)'
    BY <1>10, <1>12, <1>14, <1>4, <1>5, <1>6, Roles DEF LoopAt, ReportPath
  <2>7. OneTakesAt(j)'
    BY <1>3, <1>8, <1>10, <1>12, <1>14, <1>4, <1>5, <1>6, Roles
    DEF OneTakesAt, Takes, TakenBy, OnTheWayWith, OnTheWay, KillPath
  <2>8. PairedAt(j)'
    BY <1>3, <1>8, <1>10, <1>12, <1>14, <1>4, <1>5, <1>6, Roles
    DEF PairedAt, Someone, Takes, TakenBy, OnTheWayWith, OnTheWay, KillPath
  <2>9. WatchingAt(j)'
    BY <1>1, <1>2, <1>3, <1>8, <1>14, <1>4, <1>5, <1>6, Roles DEF WatchingAt, Scheduled, Someone
  <2>. QED  BY <2>1, <2>2, <2>3, <2>4, <2>5, <2>6, <2>7, <2>8, <2>9 DEF ConnectionOk
<1>17. y.refs - RefsDue(Loop, x, y, j \in io_list', j)
         = io[j].refs - RefsDue(Loop, th[Loop], io[j], j \in io_list, j)
  BY <1>3, <1>8, <1>10, <1>11, <1>12, <1>4, <1>5, <1>6, Roles
  DEF RefsDue, UserOf, TakenBy, OnTheWayWith, OnTheWay, KillPath, One, IoShape
<1>18. y.wrefs - WatchDue(Loop, x, y, j) = io[j].wrefs - WatchDue(Loop, th[Loop], io[j], j)
  BY <1>3, <1>8, <1>10, <1>11, <1>5, <1>6, Roles
  DEF WatchDue, CarriedBy, WrittenBy, FailedBy, One, IoShape
<1>19. net_refs' \in Int /\ net_refs' - NetDue(Loop, x, y) = net_refs - NetDue(Loop, th[Loop], io[j])
  BY <1>3, <1>8, <1>10, <1>12, <1>6, Roles DEF NetDue, NetHeldBy, One, IInv, Shapes
<1>20. /\ Loop # Acceptor => (y.announced <=> io[j].announced)
       /\ listening' \in BOOLEAN /\ io_list' \subseteq Ios /\ calls' \in 0 .. MaxCalls
  BY <1>3, <1>10, <1>12, <1>4, Roles, NetIoAssumption DEF IInv, Shapes
<1>. QED  BY <1>1, <1>2, <1>3, <1>7, <1>9, <1>13, <1>15, <1>16, <1>17, <1>18, <1>19, <1>20,
   StepKeeps

LEMMA DropEventKeeps ==
  ASSUME IInv, DropEvent PROVE IInv'
<1>1. PICK j \in Ios : j = th[Loop].io
  BY Known, Roles DEF DropEvent, At
<1>2. Loop \in Threads /\ th[Loop] \in ThShape /\ ThreadOk(Loop, th[Loop])
  BY Known, Roles
<1>3. /\ io[j] \in IoShape /\ PointersAt(j) /\ UnusedAt(j) /\ EndsAt(j) /\ UntoldAt(j)
      /\ AcceptorAt(j) /\ LoopAt(j) /\ OneTakesAt(j) /\ PairedAt(j) /\ WatchingAt(j)
  BY KnownOf
<1>4. th[Loop].pc = "drop_event" /\ ~ th[Loop].watch /\ ~ th[Loop].net
  BY <1>1, <1>2 DEF DropEvent, At, LoopDone, ThreadOk, Carried
<1>5. io[j].announced /\ io[j].in_loop \in {"in", "leaving"}
  BY <1>1, <1>2, <1>3, <1>4 DEF UntoldAt, LoopAt
<1>6. io[j].killed
  BY <1>1, <1>2, <1>3, <1>4 DEF LoopAt
<1>7. PICK x \in ThShape : x = Idle
  BY <1>1, <1>2, <1>3, <1>4, <1>5, <1>6 DEF ThShape, Pcs, KillPath, ReportPath, Idle, Of, IoShape
<1>8. x.pc = "idle" /\ x.io = NoIo /\ ~ x.watch /\ ~ x.net /\ x.then = "idle"
  BY <1>3, <1>7 DEF ThShape, Idle, Of
<1>9. PICK z \in IoShape : z = [io[j] EXCEPT !.in_loop = "out"]
  BY <1>3 DEF IoShape
<1>10. PICK y \in IoShape : y = UnrefWatch(z)
  BY <1>6, UnrefWatchSound DEF IoShape, UnrefIo, Swapped, Begun
<1>11. /\ y.used = io[j].used /\ y.io_watch = io[j].io_watch /\ y.net = io[j].net
       /\ y.killed = io[j].killed /\ y.in_loop = "out" /\ y.user = io[j].user
       /\ y.announced = io[j].announced /\ y.late = io[j].late
  BY ZenonT(20), <1>1, <1>2, <1>3, <1>9, <1>4, <1>5, <1>6, UnrefWatchSound, <1>10
  DEF IoShape, UnrefIo, Swapped, Begun
<1>12. /\ y.refs = io[j].refs - One(io[j].wrefs = 1)
       /\ y.wrefs = io[j].wrefs - 1 /\ y.fins = io[j].fins /\ y.kills = io[j].kills
       /\ y.reads = io[j].reads
  BY <1>3, <1>9, <1>6, UnrefWatchSound, <1>10 DEF IoShape, UnrefIo, Swapped, Begun
<1>13. /\ listening' = listening /\ io_list' = io_list /\ net_refs' = net_refs
       /\ calls' = calls
  BY DEF DropEvent, At, LoopDone, Of
<1>14. StepOf(Loop, j, x, y)
  BY <1>1, <1>2, <1>3, <1>7, <1>8, <1>10, <1>9, <1>4, <1>5, <1>6, <1>13, Roles
  DEF DropEvent, At, LoopDone, StepOf, Goto, LoopDone, Becomes, Of, IInv, Shapes
<1>15. /\ th'[Loop] = x /\ io'[j] = y
       /\ \A s \in Threads : s # Loop => th'[s] = th[s]
  BY <1>1, <1>2, <1>3, <1>14, StepIs DEF IInv
<1>16. ThreadOk(Loop, x)
  BY <1>3, <1>8 DEF ThreadOk, UserPlace, AcceptorPlace, LoopPlace, Carried, KillPath, ReportPath
<1>17. ConnectionOk(j)'
  <2>1. PointersAt(j)'
    BY <1>3, <1>8, <1>11, <1>13, <1>15, <1>4, <1>5, <1>6, Roles DEF PointersAt, Taken, Ended
  <2>2. UnusedAt(j)'
    BY <1>3, <1>8, <1>11, <1>13, <1>15, <1>4, <1>5, <1>6, Roles DEF UnusedAt
  <2>3. EndsAt(j)'
    BY <1>1, <1>2, <1>3, <1>8, <1>11, <1>12, <1>9, <1>13, <1>15, <1>4, <1>5, <1>6, Roles
    DEF EndsAt, Ended
  <2>4. UntoldAt(j)'
    BY <1>1, <1>2, <1>3, <1>8, <1>11, <1>12, <1>9, <1>13, <1>15, <1>4, <1>5, <1>6, Roles
    DEF UntoldAt
  <2>5. AcceptorAt(j)'
    BY <1>1, <1>2, <1>3, <1>8, <1>11, <1>13, <1>15, <1>4, <1>5, <1>6, Roles DEF AcceptorAt
  <2>6. LoopAt(j)'
    BY <1>3, <1>8, <1>15, <1>4, <1>5, <1>6, Roles DEF LoopAt, ReportPath
  <2>7. OneTakesAt(j)'
    BY <1>3, <1>8, <1>11, <1>13, <1>15, <1>4, <1>5, <1>6, Roles
    DEF OneTakesAt, Takes, TakenBy, OnTheWayWith, OnTheWay, KillPath
  <2>8. PairedAt(j)'
    BY <1>3, <1>8, <1>11, <1>13, <1>15, <1>4, <1>5, <1>6, Roles
    DEF PairedAt, Someone, Takes, TakenBy, OnTheWayWith, OnTheWay, KillPath
  <2>9. WatchingAt(j)'
    BY <1>3, <1>8, <1>11, <1>13, <1>15, <1>4, <1>5, <1>6, Roles DEF WatchingAt, Scheduled, Someone
  <2>. QED  BY <2>1, <2>2, <2>3, <2>4, <2>5, <2>6, <2>7, <2>8, <2>9 DEF ConnectionOk
<1>18. y.refs - RefsDue(Loop, x, y, j \in io_list', j)
         = io[j].refs - RefsDue(Loop, th[Loop], io[j], j \in io_list, j)
  BY <1>3, <1>8, <1>11, <1>12, <1>9, <1>13, <1>4, <1>5, <1>6, Roles
  DEF RefsDue, UserOf, TakenBy, OnTheWayWith, OnTheWay, KillPath, One, IoShape
<1>19. y.wrefs - WatchDue(Loop, x, y, j) = io[j].wrefs - WatchDue(Loop, th[Loop], io[j], j)
  BY <1>3, <1>8, <1>11, <1>12, <1>4, <1>5, <1>6, Roles
  DEF WatchDue, CarriedBy, WrittenBy, FailedBy, One, IoShape
<1>20. net_refs' \in Int /\ net_refs' - NetDue(Loop, x, y) = net_refs - NetDue(Loop, th[Loop], io[j])
  BY <1>3, <1>8, <1>11, <1>13, <1>4, <1>5, <1>6, Roles DEF NetDue, NetHeldBy, One, IInv, Shapes
<1>21. /\ Loop # Acceptor => (y.announced <=> io[j].announced)
       /\ listening' \in BOOLEAN /\ io_list' \subseteq Ios /\ calls' \in 0 .. MaxCalls
  BY <1>3, <1>11, <1>13, <1>4, Roles, NetIoAssumption DEF IInv, Shapes
<1>. QED  BY <1>1, <1>2, <1>10, <1>14, <1>16, <1>17, <1>18, <1>19, <1>20, <1>21, StepKeeps

LEMMA RemoveEventKeeps ==
  ASSUME IInv, NEW i \in Ios, RemoveEvent(i) PROVE IInv'
<1>1. Loop \in Threads /\ th[Loop] \in ThShape /\ ThreadOk(Loop, th[Loop])
  BY Known, Roles
<1>2. /\ io[i] \in IoShape /\ PointersAt(i) /\ UnusedAt(i) /\ EndsAt(i) /\ UntoldAt(i)
      /\ AcceptorAt(i) /\ LoopAt(i) /\ OneTakesAt(i) /\ PairedAt(i) /\ WatchingAt(i)
  BY KnownOf
<1>3. th[Loop].pc = "idle" /\ ~ th[Loop].watch /\ ~ th[Loop].net /\ th[Loop].io = NoIo
  BY <1>1, <1>2 DEF RemoveEvent, At, ThreadOk, Carried
<1>4. io[i].announced /\ io[i].in_loop = "leaving"
  BY <1>2 DEF RemoveEvent, UntoldAt
<1>5. PICK z \in IoShape : z = [io[i] EXCEPT !.in_loop = "out"]
  BY <1>2 DEF IoShape
<1>6. PICK y \in IoShape : y = UnrefWatch(z)
  BY <1>1, <1>2, <1>4, UnrefWatchSound DEF Swapped, Begun
<1>7. /\ y.used = io[i].used /\ y.io_watch = io[i].io_watch /\ y.net = io[i].net
      /\ y.killed = io[i].killed /\ y.in_loop = "out" /\ y.user = io[i].user
      /\ y.announced = io[i].announced /\ y.late = io[i].late
  BY <1>1, <1>2, <1>5, <1>3, <1>4, UnrefWatchSound, <1>6 DEF IoShape, UnrefIo, Swapped, Begun
<1>8. /\ y.refs = io[i].refs - One(io[i].wrefs = 1)
      /\ y.wrefs = io[i].wrefs - 1 /\ y.fins = io[i].fins /\ y.kills = io[i].kills
      /\ y.reads = io[i].reads
  BY <1>5, <1>3, <1>4, UnrefWatchSound, <1>6 DEF IoShape, UnrefIo, Swapped, Begun
<1>9. /\ listening' = listening /\ io_list' = io_list /\ net_refs' = net_refs
      /\ calls' = calls
  BY DEF RemoveEvent, At
<1>10. StepOf(Loop, i, th[Loop], y)
  BY <1>6, <1>5, <1>3, <1>4 DEF RemoveEvent, At, StepOf, Goto, LoopDone, Becomes, Of, IInv, Shapes
<1>11. /\ th'[Loop] = th[Loop] /\ io'[i] = y
       /\ \A s \in Threads : s # Loop => th'[s] = th[s]
  BY <1>1, <1>2, <1>10, StepIs DEF IInv
<1>12. ThreadOk(Loop, th[Loop])
  BY <1>1
<1>13. ConnectionOk(i)'
  <2>1. PointersAt(i)'
    BY <1>1, <1>2, <1>7, <1>9, <1>11, <1>3 DEF PointersAt, Taken, Ended
  <2>2. UnusedAt(i)'
    BY <1>1, <1>2, <1>7, <1>9, <1>11, <1>3, <1>4, Roles DEF UnusedAt
  <2>3. EndsAt(i)'
    BY <1>1, <1>2, <1>7, <1>8, <1>5, <1>9, <1>11, <1>3, <1>4, Roles DEF EndsAt, Ended
  <2>4. UntoldAt(i)'
    BY <1>1, <1>2, <1>7, <1>8, <1>5, <1>9, <1>11, <1>3, <1>4, Roles DEF UntoldAt
  <2>5. AcceptorAt(i)'
    BY <1>1, <1>2, <1>7, <1>9, <1>11, <1>3, <1>4, Roles DEF AcceptorAt
  <2>6. LoopAt(i)'
    BY <1>11, <1>3, <1>4, Roles DEF LoopAt, ReportPath
  <2>7. OneTakesAt(i)'
    BY <1>1, <1>2, <1>7, <1>9, <1>11, <1>3
    DEF OneTakesAt, Takes, TakenBy, OnTheWayWith, OnTheWay, KillPath
  <2>8. PairedAt(i)'
    BY <1>1, <1>2, <1>7, <1>9, <1>11, <1>3
    DEF PairedAt, Someone, Takes, TakenBy, OnTheWayWith, OnTheWay, KillPath
  <2>9. WatchingAt(i)'
    BY <1>1, <1>2, <1>7, <1>9, <1>11, <1>3, <1>4, Roles DEF WatchingAt, Scheduled, Someone
  <2>. QED  BY <2>1, <2>2, <2>3, <2>4, <2>5, <2>6, <2>7, <2>8, <2>9 DEF ConnectionOk
<1>14. y.refs - RefsDue(Loop, th[Loop], y, i \in io_list', i)
         = io[i].refs - RefsDue(Loop, th[Loop], io[i], i \in io_list, i)
  BY <1>7, <1>8, <1>5, <1>9, Roles
  DEF RefsDue, UserOf, TakenBy, OnTheWayWith, OnTheWay, KillPath, One, IoShape
<1>15. y.wrefs - WatchDue(Loop, th[Loop], y, i) = io[i].wrefs - WatchDue(Loop, th[Loop], io[i], i)
  BY <1>7, <1>8, <1>5, <1>9, <1>3, <1>4, Roles
  DEF WatchDue, CarriedBy, WrittenBy, FailedBy, One, IoShape
<1>16. net_refs' \in Int /\ net_refs' - NetDue(Loop, th[Loop], y) = net_refs - NetDue(Loop, th[Loop], io[i])
  BY <1>7, <1>9 DEF NetDue, NetHeldBy, One, IInv, Shapes
<1>17. /\ Loop # Acceptor => (y.announced <=> io[i].announced)
       /\ listening' \in BOOLEAN /\ io_list' \subseteq Ios /\ calls' \in 0 .. MaxCalls
  BY <1>7, <1>9 DEF IInv, Shapes
<1>. QED  BY <1>1, <1>2, <1>6, <1>10, <1>12, <1>13, <1>14, <1>15, <1>16, <1>17, StepKeeps

LEMMA CallKeeps ==
  ASSUME IInv, NEW u \in Users, NEW i \in Ios, NEW place \in {"write", "kill_io"},
         Call(u, i, place)
  PROVE  IInv'
<1>1. u \in Threads /\ th[u] \in ThShape /\ ThreadOk(u, th[u])
  BY Known, Roles
<1>2. /\ io[i] \in IoShape /\ PointersAt(i) /\ UnusedAt(i) /\ EndsAt(i) /\ UntoldAt(i)
      /\ AcceptorAt(i) /\ LoopAt(i) /\ OneTakesAt(i) /\ PairedAt(i) /\ WatchingAt(i)
  BY KnownOf
<1>3. th[u].pc = "idle" /\ ~ th[u].watch /\ ~ th[u].net /\ th[u].io = NoIo
  BY <1>1, <1>2 DEF Call, At, ThreadOk, Carried
<1>4. io[i].announced /\ calls < MaxCalls
  BY <1>2 DEF Call, UntoldAt
<1>5. PICK x \in ThShape : x = [Idle EXCEPT !.pc = place, !.io = i]
  BY ZenonT(20), <1>1, <1>2, <1>3, <1>4 DEF ThShape, Pcs, KillPath, ReportPath, Idle, Of, IoShape
<1>6. x.pc = place /\ x.io = i /\ ~ x.watch /\ ~ x.net /\ x.then = "idle"
  BY <1>5, <1>3 DEF ThShape, Idle, Of
<1>7. PICK n \in Int : n = io[i].refs + 1
  BY <1>2 DEF IoShape
<1>8. PICK y \in IoShape : y = [io[i] EXCEPT !.refs = n]
  BY <1>1, <1>2, <1>7, <1>3, <1>4 DEF IoShape, UnrefIo, Swapped, Begun
<1>9. /\ y.used = io[i].used /\ y.io_watch = io[i].io_watch /\ y.net = io[i].net
      /\ y.killed = io[i].killed /\ y.in_loop = io[i].in_loop /\ y.user = io[i].user
      /\ y.announced = io[i].announced /\ y.late = io[i].late
  BY <1>1, <1>2, <1>7, <1>3, <1>4, <1>8 DEF IoShape, UnrefIo, Swapped, Begun
<1>10. /\ y.refs = n /\ y.wrefs = io[i].wrefs /\ y.fins = io[i].fins /\ y.kills = io[i].kills
       /\ y.reads = io[i].reads
  BY <1>4, <1>8 DEF Swapped, Begun
<1>11. /\ listening' = listening /\ io_list' = io_list /\ net_refs' = net_refs
       /\ calls' = calls + 1
  BY DEF Call, At
<1>12. StepOf(u, i, x, y)
  BY <1>5, <1>6, <1>8, <1>7, <1>3, <1>4, <1>11, Roles
  DEF Call, At, StepOf, Goto, LoopDone, Becomes, Of, IInv, Shapes
<1>13. /\ th'[u] = x /\ io'[i] = y
       /\ \A s \in Threads : s # u => th'[s] = th[s]
  BY <1>1, <1>2, <1>12, StepIs DEF IInv
<1>14. ThreadOk(u, x)
  BY <1>6, <1>3, <1>4, Roles
  DEF ThreadOk, UserPlace, AcceptorPlace, LoopPlace, Carried, KillPath, ReportPath
<1>15. ConnectionOk(i)'
  <2>1. PointersAt(i)'
    BY <1>1, <1>2, <1>6, <1>9, <1>11, <1>13, Roles DEF PointersAt, Taken, Ended
  <2>2. UnusedAt(i)'
    BY <1>1, <1>2, <1>6, <1>9, <1>11, <1>13, Roles DEF UnusedAt
  <2>3. EndsAt(i)'
    BY <1>1, <1>2, <1>6, <1>9, <1>10, <1>7, <1>11, <1>13, <1>3, <1>4, Roles DEF EndsAt, Ended
  <2>4. UntoldAt(i)'
    BY <1>1, <1>2, <1>6, <1>9, <1>10, <1>7, <1>11, <1>13, <1>3, <1>4, Roles DEF UntoldAt
  <2>5. AcceptorAt(i)'
    BY <1>1, <1>2, <1>6, <1>9, <1>11, <1>13, Roles DEF AcceptorAt
  <2>6. LoopAt(i)'
    BY <1>1, <1>2, <1>6, <1>9, <1>11, <1>13, Roles DEF LoopAt, ReportPath
  <2>7. OneTakesAt(i)'
    BY <1>1, <1>2, <1>6, <1>9, <1>11, <1>13, <1>3, <1>4, Roles
    DEF OneTakesAt, Takes, TakenBy, OnTheWayWith, OnTheWay, KillPath
  <2>8. PairedAt(i)'
    BY <1>1, <1>2, <1>6, <1>9, <1>11, <1>13, <1>3, <1>4, Roles
    DEF PairedAt, Someone, Takes, TakenBy, OnTheWayWith, OnTheWay, KillPath
  <2>9. WatchingAt(i)'
    BY <1>1, <1>2, <1>6, <1>9, <1>11, <1>13, <1>3, <1>4, Roles DEF WatchingAt, Scheduled, Someone
  <2>. QED  BY <2>1, <2>2, <2>3, <2>4, <2>5, <2>6, <2>7, <2>8, <2>9 DEF ConnectionOk
<1>16. y.refs - RefsDue(u, x, y, i \in io_list', i)
         = io[i].refs - RefsDue(u, th[u], io[i], i \in io_list, i)
  BY <1>1, <1>2, <1>6, <1>9, <1>10, <1>7, <1>11, <1>3, <1>4, Roles
  DEF RefsDue, UserOf, TakenBy, OnTheWayWith, OnTheWay, KillPath, One, IoShape
<1>17. y.wrefs - WatchDue(u, x, y, i) = io[i].wrefs - WatchDue(u, th[u], io[i], i)
  BY <1>6, <1>9, <1>10, <1>7, <1>11, <1>3, <1>4, Roles
  DEF WatchDue, CarriedBy, WrittenBy, FailedBy, One, IoShape
<1>18. net_refs' \in Int /\ net_refs' - NetDue(u, x, y) = net_refs - NetDue(u, th[u], io[i])
  BY <1>6, <1>9, <1>11, <1>3, <1>4, Roles DEF NetDue, NetHeldBy, One, IInv, Shapes
<1>19. /\ u # Acceptor => (y.announced <=> io[i].announced)
       /\ listening' \in BOOLEAN /\ io_list' \subseteq Ios /\ calls' \in 0 .. MaxCalls
  BY <1>9, <1>11, <1>3, <1>4, Roles, NetIoAssumption DEF IInv, Shapes
<1>. QED  BY <1>1, <1>2, <1>12, <1>14, <1>15, <1>16, <1>17, <1>18, <1>19, StepKeeps

LEMMA WriteKeeps ==
  ASSUME IInv, NEW u \in Users, Write(u) PROVE IInv'
<1>1. PICK j \in Ios : j = th[u].io
  BY Known, Roles DEF Write, At
<1>2. u \in Threads /\ th[u] \in ThShape /\ ThreadOk(u, th[u])
  BY Known, Roles
<1>3. /\ io[j] \in IoShape /\ PointersAt(j) /\ UnusedAt(j) /\ EndsAt(j) /\ UntoldAt(j)
      /\ AcceptorAt(j) /\ LoopAt(j) /\ OneTakesAt(j) /\ PairedAt(j) /\ WatchingAt(j)
  BY KnownOf
<1>4. th[u].pc = "write" /\ ~ th[u].watch /\ ~ th[u].net
  BY <1>1, <1>2 DEF Write, At, ThreadOk, Carried
<1>5. io[j].announced
  BY <1>1, <1>2, <1>3, <1>4 DEF UntoldAt
<1>6. io[j].io_watch => io[j].wrefs > 0
  BY WatchHeld, <1>1 DEF IInv
<1>7. PICK x \in ThShape : x = [th[u] EXCEPT !.pc = IF io[j].io_watch THEN "write_watch" ELSE "return"]
  BY <1>1, <1>2, <1>3, <1>4, <1>5, <1>6 DEF ThShape, Pcs, KillPath, ReportPath, Idle, Of, IoShape
<1>8. /\ x.pc = IF io[j].io_watch THEN "write_watch" ELSE "return"
      /\ x.io = th[u].io /\ x.watch = th[u].watch /\ x.net = th[u].net
      /\ x.then = th[u].then
  BY <1>3, <1>7 DEF ThShape, Idle, Of
<1>9. PICK n \in Int : n = io[j].wrefs + 1
  BY <1>3 DEF IoShape
<1>10. PICK y \in IoShape : y = IF io[j].io_watch THEN [io[j] EXCEPT !.wrefs = n] ELSE io[j]
  BY <1>1, <1>2, <1>3, <1>9, <1>4, <1>5, <1>6 DEF IoShape, UnrefIo, Swapped, Begun
<1>11. /\ y.used = io[j].used /\ y.io_watch = io[j].io_watch /\ y.net = io[j].net
       /\ y.killed = io[j].killed /\ y.in_loop = io[j].in_loop /\ y.user = io[j].user
       /\ y.announced = io[j].announced /\ y.late = io[j].late
  BY <1>1, <1>2, <1>3, <1>9, <1>6, <1>10 DEF IoShape, UnrefIo, Swapped, Begun
<1>12. /\ y.refs = io[j].refs
       /\ y.wrefs = IF io[j].io_watch THEN n ELSE io[j].wrefs
       /\ y.fins = io[j].fins /\ y.kills = io[j].kills /\ y.reads = io[j].reads
  BY <1>6, <1>10 DEF IoShape, UnrefIo, Swapped, Begun
<1>13. /\ listening' = listening /\ io_list' = io_list /\ net_refs' = net_refs
       /\ calls' = calls
  BY DEF Write, At, Of
<1>14. StepOf(u, j, x, y)
  BY <1>1, <1>2, <1>3, <1>7, <1>8, <1>10, <1>9, <1>4, <1>5, <1>6, <1>13, Roles
  DEF Write, At, StepOf, Goto, LoopDone, Becomes, Of, IInv, Shapes
<1>15. /\ th'[u] = x /\ io'[j] = y
       /\ \A s \in Threads : s # u => th'[s] = th[s]
  BY <1>1, <1>2, <1>3, <1>14, StepIs DEF IInv
<1>16. ThreadOk(u, x)
  BY <1>1, <1>2, <1>3, <1>8, <1>4, <1>5
  DEF ThreadOk, UserPlace, AcceptorPlace, LoopPlace, Carried, KillPath, ReportPath
<1>17. ConnectionOk(j)'
  <2>1. PointersAt(j)'
    BY <1>3, <1>8, <1>11, <1>13, <1>15, <1>4, <1>5, <1>6, Roles DEF PointersAt, Taken, Ended
  <2>2. UnusedAt(j)'
    BY <1>3, <1>8, <1>11, <1>13, <1>15, <1>4, <1>5, <1>6, Roles DEF UnusedAt
  <2>3. EndsAt(j)'
    BY <1>1, <1>2, <1>3, <1>8, <1>11, <1>12, <1>9, <1>13, <1>15, <1>4, <1>5, <1>6, Roles
    DEF EndsAt, Ended
  <2>4. UntoldAt(j)'
    BY <1>1, <1>2, <1>3, <1>8, <1>11, <1>12, <1>9, <1>13, <1>15, <1>4, <1>5, <1>6, Roles
    DEF UntoldAt
  <2>5. AcceptorAt(j)'
    BY <1>1, <1>2, <1>3, <1>8, <1>11, <1>13, <1>15, <1>4, <1>5, <1>6, Roles DEF AcceptorAt
  <2>6. LoopAt(j)'
    BY <1>3, <1>8, <1>11, <1>13, <1>15, <1>4, <1>5, <1>6, Roles DEF LoopAt, ReportPath
  <2>7. OneTakesAt(j)'
    BY <1>3, <1>8, <1>11, <1>13, <1>15, <1>4, <1>5, <1>6, Roles
    DEF OneTakesAt, Takes, TakenBy, OnTheWayWith, OnTheWay, KillPath
  <2>8. PairedAt(j)'
    BY <1>3, <1>8, <1>11, <1>13, <1>15, <1>4, <1>5, <1>6, Roles
    DEF PairedAt, Someone, Takes, TakenBy, OnTheWayWith, OnTheWay, KillPath
  <2>9. WatchingAt(j)'
    BY <1>3, <1>8, <1>11, <1>13, <1>15, <1>4, <1>5, <1>6, Roles DEF WatchingAt, Scheduled, Someone
  <2>. QED  BY <2>1, <2>2, <2>3, <2>4, <2>5, <2>6, <2>7, <2>8, <2>9 DEF ConnectionOk
<1>18. y.refs - RefsDue(u, x, y, j \in io_list', j)
         = io[j].refs - RefsDue(u, th[u], io[j], j \in io_list, j)
  <2>1. y.wrefs > 0 <=> io[j].wrefs > 0
    BY <1>3, <1>9, <1>12, <1>4, <1>5, <1>6 DEF IoShape
  <2>2. /\ ~ TakenBy(x, j) /\ ~ TakenBy(th[u], j)
        /\ ~ OnTheWayWith(x, j) /\ ~ OnTheWayWith(th[u], j)
    BY <1>8, <1>4 DEF TakenBy, OnTheWayWith, OnTheWay, KillPath
  <2>3. /\ One(y.wrefs > 0) = One(io[j].wrefs > 0) /\ One(y.user) = One(io[j].user)
        /\ One(TakenBy(x, j)) = One(TakenBy(th[u], j))
        /\ One(OnTheWayWith(x, j)) = One(OnTheWayWith(th[u], j))
    BY <2>1, <2>2, <1>11 DEF One
  <2>4. /\ One(u \in Users /\ UserOf(x, j)) = One(u \in Users /\ UserOf(th[u], j))
        /\ One(u = Acceptor /\ x.io = j /\ ~ y.announced)
             = One(u = Acceptor /\ th[u].io = j /\ ~ io[j].announced)
        /\ One(j \in io_list') = One(j \in io_list) /\ y.refs = io[j].refs
    BY <1>8, <1>11, <1>12, <1>13 DEF One, UserOf
  <2>. QED  BY <2>3, <2>4 DEF RefsDue
<1>19. y.wrefs - WatchDue(u, x, y, j) = io[j].wrefs - WatchDue(u, th[u], io[j], j)
  BY <1>1, <1>2, <1>3, <1>8, <1>11, <1>12, <1>9, <1>13, <1>4, <1>5, <1>6, Roles
  DEF WatchDue, CarriedBy, WrittenBy, FailedBy, One, IoShape
<1>20. net_refs' \in Int /\ net_refs' - NetDue(u, x, y) = net_refs - NetDue(u, th[u], io[j])
  BY <1>3, <1>8, <1>11, <1>13, <1>6, Roles DEF NetDue, NetHeldBy, One, IInv, Shapes
<1>21. /\ u # Acceptor => (y.announced <=> io[j].announced)
       /\ listening' \in BOOLEAN /\ io_list' \subseteq Ios /\ calls' \in 0 .. MaxCalls
  BY <1>3, <1>11, <1>13, <1>4, Roles, NetIoAssumption DEF IInv, Shapes
<1>. QED  BY <1>1, <1>2, <1>3, <1>7, <1>10, <1>14, <1>16, <1>17, <1>18, <1>19, <1>20, <1>21,
   StepKeeps

WriteWatchDone(u) ==
  /\ At(u, "write_watch")
  /\ Goto(u, "written")
  /\ io' = io
  /\ UNCHANGED <<listening, io_list, net_refs, calls>>

LEMMA WriteWatchDoneKeeps ==
  ASSUME IInv, NEW u \in Users, WriteWatchDone(u) PROVE IInv'
<1>1. PICK j \in Ios : j = th[u].io
  BY Known, Roles DEF WriteWatchDone, At
<1>2. u \in Threads /\ th[u] \in ThShape /\ ThreadOk(u, th[u])
  BY Known, Roles
<1>3. /\ io[j] \in IoShape /\ PointersAt(j) /\ UnusedAt(j) /\ EndsAt(j) /\ UntoldAt(j)
      /\ AcceptorAt(j) /\ LoopAt(j) /\ OneTakesAt(j) /\ PairedAt(j) /\ WatchingAt(j)
  BY KnownOf
<1>4. th[u].pc = "write_watch" /\ ~ th[u].watch /\ ~ th[u].net
  BY <1>1, <1>2 DEF WriteWatchDone, At, ThreadOk, Carried
<1>5. io[j].announced
  BY <1>1, <1>2, <1>3, <1>4 DEF UntoldAt
<1>6. PICK x \in ThShape : x = [th[u] EXCEPT !.pc = "written"]
  BY <1>1, <1>2, <1>3, <1>4, <1>5 DEF ThShape, Pcs, KillPath, ReportPath, Idle, Of, IoShape
<1>7. /\ x.pc = "written" /\ x.io = th[u].io /\ x.watch = th[u].watch /\ x.net = th[u].net
      /\ x.then = th[u].then
  BY <1>3, <1>6 DEF Of
<1>8. /\ listening' = listening /\ io_list' = io_list /\ net_refs' = net_refs
      /\ calls' = calls
  BY DEF WriteWatchDone, At, Of
<1>9. StepOf(u, j, x, io[j])
  BY <1>1, <1>2, <1>3, <1>6, Roles
  DEF WriteWatchDone, At, StepOf, Goto, LoopDone, Becomes, Of, IInv, Shapes
<1>10. /\ th'[u] = x /\ io'[j] = io[j]
       /\ \A s \in Threads : s # u => th'[s] = th[s]
  BY <1>1, <1>2, <1>3, <1>9, StepIs DEF IInv
<1>11. ThreadOk(u, x)
  BY <1>1, <1>2, <1>3, <1>7, <1>4, <1>5
  DEF ThreadOk, UserPlace, AcceptorPlace, LoopPlace, Carried, KillPath, ReportPath
<1>12. ConnectionOk(j)'
  <2>1. PointersAt(j)'
    BY <1>3, <1>7, <1>8, <1>10, Roles DEF PointersAt, Taken, Ended
  <2>2. UnusedAt(j)'
    BY <1>3, <1>7, <1>8, <1>10, Roles DEF UnusedAt
  <2>3. EndsAt(j)'
    BY <1>3, <1>7, <1>8, <1>10, Roles DEF EndsAt, Ended
  <2>4. UntoldAt(j)'
    BY <1>8, <1>10, <1>4, <1>5, Roles DEF UntoldAt
  <2>5. AcceptorAt(j)'
    BY <1>3, <1>7, <1>8, <1>10, Roles DEF AcceptorAt
  <2>6. LoopAt(j)'
    BY <1>3, <1>7, <1>8, <1>10, Roles DEF LoopAt, ReportPath
  <2>7. OneTakesAt(j)'
    BY <1>3, <1>7, <1>8, <1>10, <1>4, <1>5, Roles
    DEF OneTakesAt, Takes, TakenBy, OnTheWayWith, OnTheWay, KillPath
  <2>8. PairedAt(j)'
    BY <1>3, <1>7, <1>8, <1>10, <1>4, <1>5, Roles
    DEF PairedAt, Someone, Takes, TakenBy, OnTheWayWith, OnTheWay, KillPath
  <2>9. WatchingAt(j)'
    BY <1>3, <1>7, <1>8, <1>10, <1>4, <1>5, Roles DEF WatchingAt, Scheduled, Someone
  <2>. QED  BY <2>1, <2>2, <2>3, <2>4, <2>5, <2>6, <2>7, <2>8, <2>9 DEF ConnectionOk
<1>13. io[j].refs - RefsDue(u, x, io[j], j \in io_list', j)
         = io[j].refs - RefsDue(u, th[u], io[j], j \in io_list, j)
  BY <1>3, <1>7, <1>8, <1>4
  DEF RefsDue, UserOf, TakenBy, OnTheWayWith, OnTheWay, KillPath, One, IoShape
<1>14. io[j].wrefs - WatchDue(u, x, io[j], j) = io[j].wrefs - WatchDue(u, th[u], io[j], j)
  BY <1>3, <1>7, <1>8, <1>4 DEF WatchDue, CarriedBy, WrittenBy, FailedBy, One, IoShape
<1>15. net_refs' \in Int /\ net_refs' - NetDue(u, x, io[j]) = net_refs - NetDue(u, th[u], io[j])
  BY <1>3, <1>7, <1>8, <1>4 DEF NetDue, NetHeldBy, One, IInv, Shapes
<1>16. /\ u # Acceptor => (io[j].announced <=> io[j].announced)
       /\ listening' \in BOOLEAN /\ io_list' \subseteq Ios /\ calls' \in 0 .. MaxCalls
  BY <1>3, <1>8 DEF IInv, Shapes
<1>. QED  BY <1>1, <1>2, <1>3, <1>6, <1>9, <1>11, <1>12, <1>13, <1>14, <1>15, <1>16, StepKeeps

WriteWatchFails(u) ==
  /\ At(u, "write_watch")
  /\ ~ Of(u).killed
  /\ Becomes(u, [Of(u) EXCEPT !.killed = TRUE,
                              !.in_loop = IF @ = "in" THEN "leaving" ELSE @])
  /\ th' = [th EXCEPT ![u].pc = "report", ![u].then = "written"]
  /\ UNCHANGED <<listening, io_list, net_refs, calls>>

LEMMA WriteWatchFailsKeeps ==
  ASSUME IInv, NEW u \in Users, WriteWatchFails(u) PROVE IInv'
<1>1. PICK j \in Ios : j = th[u].io
  BY Known, Roles DEF WriteWatchFails, At
<1>2. u \in Threads /\ th[u] \in ThShape /\ ThreadOk(u, th[u])
  BY Known, Roles
<1>3. /\ io[j] \in IoShape /\ PointersAt(j) /\ UnusedAt(j) /\ EndsAt(j) /\ UntoldAt(j)
      /\ AcceptorAt(j) /\ LoopAt(j) /\ OneTakesAt(j) /\ PairedAt(j) /\ WatchingAt(j)
  BY KnownOf
<1>4. ~ io[j].killed
  BY <1>1, <1>2 DEF WriteWatchFails, At, Of
<1>5. th[u].pc = "write_watch" /\ ~ th[u].watch /\ ~ th[u].net
  BY <1>1, <1>2 DEF WriteWatchFails, At, ThreadOk, Carried
<1>6. io[j].announced
  BY <1>1, <1>2, <1>3, <1>4 DEF UntoldAt
<1>7. PICK x \in ThShape : x = [th[u] EXCEPT !.pc = "report", !.then = "written"]
  BY <1>1, <1>2, <1>3, <1>4, <1>5, <1>6 DEF ThShape, Pcs, KillPath, ReportPath, Idle, Of, IoShape
<1>8. /\ x.pc = "report" /\ x.io = th[u].io /\ x.watch = th[u].watch /\ x.net = th[u].net
      /\ x.then = "written"
  BY <1>3, <1>7 DEF ThShape, Idle, Of
<1>9. PICK y \in IoShape : y = [io[j] EXCEPT !.killed = TRUE, !.in_loop = IF @ = "in" THEN "leaving" ELSE @]
  BY <1>1, <1>2, <1>3, <1>4, <1>5, <1>6 DEF IoShape, UnrefIo, Swapped, Begun
<1>10. /\ y.used = io[j].used /\ y.io_watch = io[j].io_watch /\ y.net = io[j].net /\ y.killed
       /\ y.in_loop = IF io[j].in_loop = "in" THEN "leaving" ELSE io[j].in_loop
       /\ y.user = io[j].user /\ y.announced = io[j].announced /\ y.late = io[j].late
  BY <1>1, <1>2, <1>3, <1>4, <1>5, <1>6, <1>9 DEF IoShape, UnrefIo, Swapped, Begun
<1>11. /\ y.refs = io[j].refs /\ y.wrefs = io[j].wrefs /\ y.fins = io[j].fins
       /\ y.kills = io[j].kills /\ y.reads = io[j].reads
  BY <1>9 DEF IoShape, UnrefIo, Swapped, Begun
<1>12. /\ listening' = listening /\ io_list' = io_list /\ net_refs' = net_refs
       /\ calls' = calls
  BY DEF WriteWatchFails, At, Of
<1>13. StepOf(u, j, x, y)
  BY <1>1, <1>2, <1>3, <1>7, <1>8, <1>9, <1>4, <1>5, <1>6, <1>12, Roles
  DEF WriteWatchFails, At, StepOf, Goto, LoopDone, Becomes, Of, IInv, Shapes
<1>14. /\ th'[u] = x /\ io'[j] = y
       /\ \A s \in Threads : s # u => th'[s] = th[s]
  BY <1>1, <1>2, <1>3, <1>13, StepIs DEF IInv
<1>15. ThreadOk(u, x)
  BY <1>1, <1>2, <1>3, <1>8, <1>4, <1>5
  DEF ThreadOk, UserPlace, AcceptorPlace, LoopPlace, Carried, KillPath, ReportPath
<1>16. ConnectionOk(j)'
  <2>1. PointersAt(j)'
    BY <1>3, <1>8, <1>10, <1>12, <1>14, <1>4, <1>5, <1>6, Roles DEF PointersAt, Taken, Ended
  <2>2. UnusedAt(j)'
    BY <1>3, <1>8, <1>10, <1>12, <1>14, <1>4, <1>5, <1>6, Roles DEF UnusedAt
  <2>3. EndsAt(j)'
    BY <1>1, <1>2, <1>3, <1>8, <1>10, <1>11, <1>12, <1>14, <1>4, <1>5, <1>6, Roles
    DEF EndsAt, Ended
  <2>4. UntoldAt(j)'
    BY <1>1, <1>2, <1>3, <1>8, <1>10, <1>11, <1>12, <1>14, <1>4, <1>5, <1>6, Roles DEF UntoldAt
  <2>5. AcceptorAt(j)'
    BY <1>1, <1>2, <1>3, <1>8, <1>10, <1>12, <1>14, <1>4, <1>5, <1>6, Roles DEF AcceptorAt
  <2>6. LoopAt(j)'
    BY <1>3, <1>8, <1>10, <1>12, <1>14, <1>4, <1>5, <1>6, Roles DEF LoopAt, ReportPath
  <2>7. OneTakesAt(j)'
    BY <1>3, <1>8, <1>10, <1>12, <1>14, <1>4, <1>5, <1>6, Roles
    DEF OneTakesAt, Takes, TakenBy, OnTheWayWith, OnTheWay, KillPath
  <2>8. PairedAt(j)'
    BY <1>3, <1>8, <1>10, <1>12, <1>14, <1>4, <1>5, <1>6, Roles
    DEF PairedAt, Someone, Takes, TakenBy, OnTheWayWith, OnTheWay, KillPath
  <2>9. WatchingAt(j)'
    BY <1>1, <1>2, <1>3, <1>8, <1>14, <1>4, <1>5, <1>6, Roles DEF WatchingAt, Scheduled, Someone
  <2>. QED  BY <2>1, <2>2, <2>3, <2>4, <2>5, <2>6, <2>7, <2>8, <2>9 DEF ConnectionOk
<1>17. y.refs - RefsDue(u, x, y, j \in io_list', j)
         = io[j].refs - RefsDue(u, th[u], io[j], j \in io_list, j)
  BY <1>3, <1>8, <1>10, <1>11, <1>12, <1>4, <1>5, <1>6, Roles
  DEF RefsDue, UserOf, TakenBy, OnTheWayWith, OnTheWay, KillPath, One, IoShape
<1>18. y.wrefs - WatchDue(u, x, y, j) = io[j].wrefs - WatchDue(u, th[u], io[j], j)
  BY <1>3, <1>8, <1>10, <1>11, <1>5, <1>6, Roles
  DEF WatchDue, CarriedBy, WrittenBy, FailedBy, One, IoShape
<1>19. net_refs' \in Int /\ net_refs' - NetDue(u, x, y) = net_refs - NetDue(u, th[u], io[j])
  BY <1>3, <1>8, <1>10, <1>12, <1>6, Roles DEF NetDue, NetHeldBy, One, IInv, Shapes
<1>20. /\ u # Acceptor => (y.announced <=> io[j].announced)
       /\ listening' \in BOOLEAN /\ io_list' \subseteq Ios /\ calls' \in 0 .. MaxCalls
  BY <1>3, <1>10, <1>12, <1>4, Roles, NetIoAssumption DEF IInv, Shapes
<1>. QED  BY <1>1, <1>2, <1>3, <1>7, <1>9, <1>13, <1>15, <1>16, <1>17, <1>18, <1>19, <1>20,
   StepKeeps

LEMMA WrittenKeeps ==
  ASSUME IInv, NEW u \in Users, Written(u) PROVE IInv'
<1>1. PICK j \in Ios : j = th[u].io
  BY Known, Roles DEF Written, At
<1>2. u \in Threads /\ th[u] \in ThShape /\ ThreadOk(u, th[u])
  BY Known, Roles
<1>3. /\ io[j] \in IoShape /\ PointersAt(j) /\ UnusedAt(j) /\ EndsAt(j) /\ UntoldAt(j)
      /\ AcceptorAt(j) /\ LoopAt(j) /\ OneTakesAt(j) /\ PairedAt(j) /\ WatchingAt(j)
  BY KnownOf
<1>4. th[u].pc = "written" /\ ~ th[u].watch /\ ~ th[u].net
  BY <1>1, <1>2 DEF Written, At, ThreadOk, Carried
<1>5. io[j].announced
  BY <1>1, <1>2, <1>3, <1>4 DEF UntoldAt
<1>6. PICK x \in ThShape : x = [th[u] EXCEPT !.pc = "return"]
  BY <1>1, <1>2, <1>3, <1>4, <1>5 DEF ThShape, Pcs, KillPath, ReportPath, Idle, Of, IoShape
<1>7. /\ x.pc = "return" /\ x.io = th[u].io /\ x.watch = th[u].watch /\ x.net = th[u].net
      /\ x.then = th[u].then
  BY <1>3, <1>6 DEF Of
<1>8. PICK y \in IoShape : y = UnrefWatch(io[j])
  BY <1>3, <1>4, <1>5, UnrefWatchSound DEF Swapped, Begun
<1>9. /\ y.used = io[j].used /\ y.io_watch = io[j].io_watch /\ y.net = io[j].net
      /\ y.killed = io[j].killed /\ y.in_loop = io[j].in_loop /\ y.user = io[j].user
      /\ y.announced = io[j].announced /\ y.late = io[j].late
  BY ZenonT(20), <1>1, <1>2, <1>3, <1>4, <1>5, UnrefWatchSound, <1>8
  DEF IoShape, UnrefIo, Swapped, Begun
<1>10. /\ y.refs = io[j].refs - One(io[j].wrefs = 1)
       /\ y.wrefs = io[j].wrefs - 1 /\ y.fins = io[j].fins /\ y.kills = io[j].kills
       /\ y.reads = io[j].reads
  BY <1>3, <1>4, <1>5, UnrefWatchSound, <1>8 DEF IoShape, UnrefIo, Swapped, Begun
<1>11. /\ listening' = listening /\ io_list' = io_list /\ net_refs' = net_refs
       /\ calls' = calls
  BY DEF Written, At, Of
<1>12. StepOf(u, j, x, y)
  BY <1>1, <1>2, <1>3, <1>6, <1>7, <1>8, <1>11, Roles
  DEF Written, At, StepOf, Goto, LoopDone, Becomes, Of, IInv, Shapes
<1>13. /\ th'[u] = x /\ io'[j] = y
       /\ \A s \in Threads : s # u => th'[s] = th[s]
  BY <1>1, <1>2, <1>3, <1>12, StepIs DEF IInv
<1>14. ThreadOk(u, x)
  BY <1>1, <1>2, <1>3, <1>7, <1>4, <1>5
  DEF ThreadOk, UserPlace, AcceptorPlace, LoopPlace, Carried, KillPath, ReportPath
<1>15. ConnectionOk(j)'
  <2>1. PointersAt(j)'
    BY <1>3, <1>7, <1>9, <1>11, <1>13, <1>4, <1>5, Roles DEF PointersAt, Taken, Ended
  <2>2. UnusedAt(j)'
    BY <1>3, <1>7, <1>9, <1>11, <1>13, <1>4, <1>5, Roles DEF UnusedAt
  <2>3. EndsAt(j)'
    BY <1>1, <1>2, <1>3, <1>7, <1>9, <1>10, <1>11, <1>13, <1>4, <1>5, Roles DEF EndsAt, Ended
  <2>4. UntoldAt(j)'
    BY <1>1, <1>2, <1>3, <1>7, <1>9, <1>10, <1>11, <1>13, <1>4, <1>5, Roles DEF UntoldAt
  <2>5. AcceptorAt(j)'
    BY <1>1, <1>2, <1>3, <1>7, <1>9, <1>11, <1>13, <1>4, <1>5, Roles DEF AcceptorAt
  <2>6. LoopAt(j)'
    BY <1>3, <1>7, <1>9, <1>11, <1>13, <1>4, <1>5, Roles DEF LoopAt, ReportPath
  <2>7. OneTakesAt(j)'
    BY <1>3, <1>7, <1>9, <1>11, <1>13, <1>4, <1>5, Roles
    DEF OneTakesAt, Takes, TakenBy, OnTheWayWith, OnTheWay, KillPath
  <2>8. PairedAt(j)'
    BY <1>3, <1>7, <1>9, <1>11, <1>13, <1>4, <1>5, Roles
    DEF PairedAt, Someone, Takes, TakenBy, OnTheWayWith, OnTheWay, KillPath
  <2>9. WatchingAt(j)'
    BY <1>3, <1>7, <1>9, <1>11, <1>13, <1>4, <1>5, Roles DEF WatchingAt, Scheduled, Someone
  <2>. QED  BY <2>1, <2>2, <2>3, <2>4, <2>5, <2>6, <2>7, <2>8, <2>9 DEF ConnectionOk
<1>16. y.refs - RefsDue(u, x, y, j \in io_list', j)
         = io[j].refs - RefsDue(u, th[u], io[j], j \in io_list, j)
  BY <1>3, <1>7, <1>9, <1>10, <1>11, <1>4, <1>5, Roles
  DEF RefsDue, UserOf, TakenBy, OnTheWayWith, OnTheWay, KillPath, One, IoShape
<1>17. y.wrefs - WatchDue(u, x, y, j) = io[j].wrefs - WatchDue(u, th[u], io[j], j)
  BY <1>1, <1>2, <1>3, <1>7, <1>9, <1>10, <1>11, <1>4, <1>5, Roles
  DEF WatchDue, CarriedBy, WrittenBy, FailedBy, One, IoShape
<1>18. net_refs' \in Int /\ net_refs' - NetDue(u, x, y) = net_refs - NetDue(u, th[u], io[j])
  BY <1>3, <1>7, <1>9, <1>11, Roles DEF NetDue, NetHeldBy, One, IInv, Shapes
<1>19. /\ u # Acceptor => (y.announced <=> io[j].announced)
       /\ listening' \in BOOLEAN /\ io_list' \subseteq Ios /\ calls' \in 0 .. MaxCalls
  BY <1>3, <1>9, <1>11, <1>4, NetIoAssumption DEF IInv, Shapes
<1>. QED  BY <1>1, <1>2, <1>8, <1>12, <1>14, <1>15, <1>16, <1>17, <1>18, <1>19, StepKeeps

LEMMA KillIoKeeps ==
  ASSUME IInv, NEW u \in Users, KillIo(u) PROVE IInv'
<1>1. PICK j \in Ios : j = th[u].io
  BY Known, Roles DEF KillIo, At
<1>2. u \in Threads /\ th[u] \in ThShape /\ ThreadOk(u, th[u])
  BY Known, Roles
<1>3. /\ io[j] \in IoShape /\ PointersAt(j) /\ UnusedAt(j) /\ EndsAt(j) /\ UntoldAt(j)
      /\ AcceptorAt(j) /\ LoopAt(j) /\ OneTakesAt(j) /\ PairedAt(j) /\ WatchingAt(j)
  BY KnownOf
<1>4. th[u].pc = "kill_io" /\ ~ th[u].watch /\ ~ th[u].net
  BY <1>1, <1>2 DEF KillIo, At, ThreadOk, Carried
<1>5. io[j].announced
  BY <1>1, <1>2, <1>3, <1>4 DEF UntoldAt
<1>6. PICK x \in ThShape : x = [th[u] EXCEPT !.pc = IF j \in io_list THEN "kill" ELSE "return", !.then = "killed"]
  BY <1>1, <1>2, <1>3, <1>4, <1>5 DEF ThShape, Pcs, KillPath, ReportPath, Idle, Of, IoShape
<1>7. /\ x.pc = IF j \in io_list THEN "kill" ELSE "return"
      /\ x.io = th[u].io /\ x.watch = th[u].watch /\ x.net = th[u].net /\ x.then = "killed"
  BY <1>3, <1>6 DEF Of
<1>8. /\ listening' = listening /\ io_list' = io_list \ {j} /\ net_refs' = net_refs
      /\ calls' = calls
  BY <1>1, <1>2 DEF KillIo, At, Of
<1>9. StepOf(u, j, x, io[j])
  BY <1>1, <1>2, <1>3, <1>6, <1>7, <1>4, <1>5, <1>8, Roles
  DEF KillIo, At, StepOf, Goto, LoopDone, Becomes, Of, IInv, Shapes
<1>10. /\ th'[u] = x /\ io'[j] = io[j]
       /\ \A s \in Threads : s # u => th'[s] = th[s]
  BY <1>1, <1>2, <1>3, <1>9, StepIs DEF IInv
<1>11. ThreadOk(u, x)
  BY <1>1, <1>2, <1>3, <1>7, <1>4, <1>5
  DEF ThreadOk, UserPlace, AcceptorPlace, LoopPlace, Carried, KillPath, ReportPath
<1>12. ConnectionOk(j)'
  <2>1. PointersAt(j)'
    BY <1>3, <1>7, <1>8, <1>10, Roles DEF PointersAt, Taken, Ended
  <2>2. UnusedAt(j)'
    BY <1>3, <1>7, <1>8, <1>10, Roles DEF UnusedAt
  <2>3. EndsAt(j)'
    BY <1>3, <1>7, <1>8, <1>10, Roles DEF EndsAt, Ended
  <2>4. UntoldAt(j)'
    BY <1>8, <1>10, <1>4, <1>5, Roles DEF UntoldAt
  <2>5. AcceptorAt(j)'
    BY <1>3, <1>7, <1>8, <1>10, <1>4, <1>5, Roles DEF AcceptorAt
  <2>6. LoopAt(j)'
    BY <1>3, <1>7, <1>8, <1>10, Roles DEF LoopAt, ReportPath
  <2>7. OneTakesAt(j)'
    BY <1>1, <1>2, <1>3, <1>7, <1>8, <1>10, <1>4, <1>5, Roles
    DEF OneTakesAt, Takes, TakenBy, OnTheWayWith, OnTheWay, KillPath
  <2>8. PairedAt(j)'
    BY <1>1, <1>2, <1>3, <1>7, <1>8, <1>10, <1>4, <1>5, Roles
    DEF PairedAt, Someone, Takes, TakenBy, OnTheWayWith, OnTheWay, KillPath
  <2>9. WatchingAt(j)'
    BY <1>3, <1>7, <1>8, <1>10, <1>4, <1>5, Roles DEF WatchingAt, Scheduled, Someone
  <2>. QED  BY <2>1, <2>2, <2>3, <2>4, <2>5, <2>6, <2>7, <2>8, <2>9 DEF ConnectionOk
<1>13. io[j].refs - RefsDue(u, x, io[j], j \in io_list', j)
         = io[j].refs - RefsDue(u, th[u], io[j], j \in io_list, j)
  BY <1>1, <1>2, <1>3, <1>7, <1>8, <1>4
  DEF RefsDue, UserOf, TakenBy, OnTheWayWith, OnTheWay, KillPath, One, IoShape
<1>14. io[j].wrefs - WatchDue(u, x, io[j], j) = io[j].wrefs - WatchDue(u, th[u], io[j], j)
  BY <1>3, <1>7, <1>8, <1>4 DEF WatchDue, CarriedBy, WrittenBy, FailedBy, One, IoShape
<1>15. net_refs' \in Int /\ net_refs' - NetDue(u, x, io[j]) = net_refs - NetDue(u, th[u], io[j])
  BY <1>3, <1>7, <1>8, <1>4, <1>5, Roles DEF NetDue, NetHeldBy, One, IInv, Shapes
<1>16. /\ u # Acceptor => (io[j].announced <=> io[j].announced)
       /\ listening' \in BOOLEAN /\ io_list' \subseteq Ios /\ calls' \in 0 .. MaxCalls
  BY <1>3, <1>8 DEF IInv, Shapes
<1>. QED  BY <1>1, <1>2, <1>3, <1>6, <1>9, <1>11, <1>12, <1>13, <1>14, <1>15, <1>16, StepKeeps

LEMMA KilledKeeps ==
  ASSUME IInv, NEW u \in Users, Killed(u) PROVE IInv'
<1>1. PICK j \in Ios : j = th[u].io
  BY Known, Roles DEF Killed, At
<1>2. u \in Threads /\ th[u] \in ThShape /\ ThreadOk(u, th[u])
  BY Known, Roles
<1>3. /\ io[j] \in IoShape /\ PointersAt(j) /\ UnusedAt(j) /\ EndsAt(j) /\ UntoldAt(j)
      /\ AcceptorAt(j) /\ LoopAt(j) /\ OneTakesAt(j) /\ PairedAt(j) /\ WatchingAt(j)
  BY KnownOf
<1>4. th[u].pc = "killed" /\ ~ th[u].watch /\ ~ th[u].net
  BY <1>1, <1>2 DEF Killed, At, ThreadOk, Carried
<1>5. io[j].announced
  BY <1>1, <1>2, <1>3, <1>4 DEF UntoldAt
<1>6. ~ io[j].io_watch /\ ~ io[j].net
  BY <1>1, <1>2, <1>3, <1>4 DEF PointersAt, Taken
<1>7. j \notin io_list /\ io[j].user
  BY <1>1, <1>2, <1>3, <1>4, <1>5, <1>6 DEF Killed, At, OneTakesAt, Takes, TakenBy
<1>8. PICK x \in ThShape : x = [th[u] EXCEPT !.pc = "return"]
  BY <1>1, <1>2, <1>3, <1>4, <1>5, <1>6, <1>7
  DEF ThShape, Pcs, KillPath, ReportPath, Idle, Of, IoShape
<1>9. /\ x.pc = "return" /\ x.io = th[u].io /\ x.watch = th[u].watch /\ x.net = th[u].net
      /\ x.then = th[u].then
  BY <1>3, <1>8 DEF ThShape, Idle, Of
<1>10. PICK n \in Int, m \in Nat : n = io[j].refs - 2 /\ m = io[j].kills + 1
  BY <1>3 DEF IoShape
<1>11. UnrefIo([UnrefIo(io[j]) EXCEPT !.user = FALSE, !.kills = @ + 1])
         = [io[j] EXCEPT !.user = FALSE, !.kills = m, !.refs = n]
  BY <1>3, <1>10, KilledSound
<1>12. PICK y \in IoShape : y = [io[j] EXCEPT !.user = FALSE, !.kills = m, !.refs = n]
  BY <1>1, <1>2, <1>3, <1>10, <1>11, <1>4, <1>5, <1>6, <1>7 DEF IoShape, UnrefIo, Swapped, Begun
<1>13. /\ y.used = io[j].used /\ y.io_watch = io[j].io_watch /\ y.net = io[j].net
       /\ y.killed = io[j].killed /\ y.in_loop = io[j].in_loop /\ ~ y.user
       /\ y.announced = io[j].announced /\ y.late = io[j].late
  BY <1>1, <1>2, <1>3, <1>10, <1>11, <1>4, <1>5, <1>6, <1>7, <1>12
  DEF IoShape, UnrefIo, Swapped, Begun
<1>14. /\ y.refs = n /\ y.wrefs = io[j].wrefs /\ y.fins = io[j].fins /\ y.kills = m
       /\ y.reads = io[j].reads
  BY <1>7, <1>12 DEF IoShape, UnrefIo, Swapped, Begun
<1>15. /\ listening' = listening /\ io_list' = io_list /\ net_refs' = net_refs
       /\ calls' = calls
  BY DEF Killed, At, Of
<1>16. StepOf(u, j, x, y)
  BY <1>1, <1>2, <1>3, <1>8, <1>9, <1>12, <1>10, <1>11, <1>4, <1>5, <1>6, <1>7, <1>15, Roles
  DEF Killed, At, StepOf, Goto, LoopDone, Becomes, Of, IInv, Shapes
<1>17. /\ th'[u] = x /\ io'[j] = y
       /\ \A s \in Threads : s # u => th'[s] = th[s]
  BY <1>1, <1>2, <1>3, <1>16, StepIs DEF IInv
<1>18. ThreadOk(u, x)
  BY <1>1, <1>2, <1>3, <1>9, <1>4, <1>5, Roles
  DEF ThreadOk, UserPlace, AcceptorPlace, LoopPlace, Carried, KillPath, ReportPath
<1>19. ConnectionOk(j)'
  <2>1. PointersAt(j)'
    BY <1>13, <1>15, <1>17, <1>4, <1>5, <1>6, <1>7, Roles DEF PointersAt, Taken, Ended
  <2>2. UnusedAt(j)'
    BY <1>3, <1>9, <1>13, <1>15, <1>17, <1>4, <1>5, <1>6, <1>7, Roles DEF UnusedAt
  <2>3. EndsAt(j)'
    <3>1. io[j].fins + io[j].kills = 0 /\ ~ io[j].late
      BY <1>3, <1>4, <1>7 DEF EndsAt, Ended, One
    <3>2. Ended(y)
      BY <1>13, <1>4, <1>5, <1>6 DEF Ended
    <3>3. y.fins + y.kills = 1
      BY <1>3, <3>1, <1>10, <1>11, <1>14 DEF IoShape
    <3>. QED  BY <3>1, <3>2, <3>3, <1>13, <1>17 DEF EndsAt, Ended, One
  <2>4. UntoldAt(j)'
    BY <1>1, <1>2, <1>3, <1>9, <1>13, <1>14, <1>10, <1>11, <1>15, <1>17, <1>4, <1>5, <1>6, <1>7,
       Roles
    DEF UntoldAt
  <2>5. AcceptorAt(j)'
    BY <1>1, <1>2, <1>3, <1>9, <1>13, <1>15, <1>17, <1>4, <1>5, <1>6, <1>7, Roles DEF AcceptorAt
  <2>6. LoopAt(j)'
    BY <1>3, <1>9, <1>13, <1>15, <1>17, <1>4, <1>5, <1>6, <1>7, Roles DEF LoopAt, ReportPath
  <2>7. OneTakesAt(j)'
    BY <1>1, <1>2, <1>3, <1>9, <1>13, <1>15, <1>17, <1>4, <1>5, <1>6, <1>7, Roles
    DEF OneTakesAt, Takes, TakenBy, OnTheWayWith, OnTheWay, KillPath
  <2>8. PairedAt(j)'
    BY <1>13, <1>15, <1>17, <1>4, <1>5, <1>6, <1>7, Roles
    DEF PairedAt, Someone, Takes, TakenBy, OnTheWayWith, OnTheWay, KillPath
  <2>9. WatchingAt(j)'
    BY <1>13, <1>15, <1>17, <1>4, <1>5, <1>6, <1>7, Roles DEF WatchingAt, Scheduled, Someone
  <2>. QED  BY <2>1, <2>2, <2>3, <2>4, <2>5, <2>6, <2>7, <2>8, <2>9 DEF ConnectionOk
<1>20. y.refs - RefsDue(u, x, y, j \in io_list', j)
         = io[j].refs - RefsDue(u, th[u], io[j], j \in io_list, j)
  BY <1>1, <1>2, <1>3, <1>9, <1>13, <1>14, <1>10, <1>11, <1>15, <1>4, <1>5, <1>6, <1>7, Roles
  DEF RefsDue, UserOf, TakenBy, OnTheWayWith, OnTheWay, KillPath, One, IoShape
<1>21. y.wrefs - WatchDue(u, x, y, j) = io[j].wrefs - WatchDue(u, th[u], io[j], j)
  BY <1>3, <1>9, <1>13, <1>14, <1>15, <1>4, <1>5, <1>6, <1>7, Roles
  DEF WatchDue, CarriedBy, WrittenBy, FailedBy, One, IoShape
<1>22. net_refs' \in Int /\ net_refs' - NetDue(u, x, y) = net_refs - NetDue(u, th[u], io[j])
  BY <1>3, <1>9, <1>13, <1>15, <1>6, <1>7, Roles DEF NetDue, NetHeldBy, One, IInv, Shapes
<1>23. /\ u # Acceptor => (y.announced <=> io[j].announced)
       /\ listening' \in BOOLEAN /\ io_list' \subseteq Ios /\ calls' \in 0 .. MaxCalls
  BY <1>3, <1>13, <1>15, <1>4, <1>7, Roles, NetIoAssumption DEF IInv, Shapes
<1>. QED  BY <1>1, <1>2, <1>3, <1>8, <1>12, <1>16, <1>18, <1>19, <1>20, <1>21, <1>22, <1>23,
   StepKeeps

LEMMA ReturnKeeps ==
  ASSUME IInv, NEW u \in Users, Return(u) PROVE IInv'
<1>1. PICK j \in Ios : j = th[u].io
  BY Known, Roles DEF Return, At
<1>2. u \in Threads /\ th[u] \in ThShape /\ ThreadOk(u, th[u])
  BY Known, Roles
<1>3. /\ io[j] \in IoShape /\ PointersAt(j) /\ UnusedAt(j) /\ EndsAt(j) /\ UntoldAt(j)
      /\ AcceptorAt(j) /\ LoopAt(j) /\ OneTakesAt(j) /\ PairedAt(j) /\ WatchingAt(j)
  BY KnownOf
<1>4. th[u].pc = "return" /\ ~ th[u].watch /\ ~ th[u].net
  BY <1>1, <1>2 DEF Return, At, ThreadOk, Carried
<1>5. io[j].announced
  BY <1>1, <1>2, <1>3, <1>4 DEF UntoldAt
<1>6. PICK x \in ThShape : x = Idle
  BY <1>1, <1>2, <1>3, <1>4, <1>5 DEF ThShape, Pcs, KillPath, ReportPath, Idle, Of, IoShape
<1>7. x.pc = "idle" /\ x.io = NoIo /\ ~ x.watch /\ ~ x.net /\ x.then = "idle"
  BY <1>3, <1>6 DEF ThShape, Idle, Of
<1>8. PICK n \in Int : n = io[j].refs - 1
  BY <1>3 DEF IoShape
<1>9. PICK y \in IoShape : y = [io[j] EXCEPT !.refs = n]
  BY <1>1, <1>2, <1>3, <1>8, <1>4, <1>5 DEF IoShape, UnrefIo, Swapped, Begun
<1>10. /\ y.used = io[j].used /\ y.io_watch = io[j].io_watch /\ y.net = io[j].net
       /\ y.killed = io[j].killed /\ y.in_loop = io[j].in_loop /\ y.user = io[j].user
       /\ y.announced = io[j].announced /\ y.late = io[j].late
  BY <1>1, <1>2, <1>3, <1>8, <1>9 DEF IoShape, UnrefIo, Swapped, Begun
<1>11. /\ y.refs = n /\ y.wrefs = io[j].wrefs /\ y.fins = io[j].fins /\ y.kills = io[j].kills
       /\ y.reads = io[j].reads
  BY <1>9 DEF IoShape, UnrefIo, Swapped, Begun
<1>12. /\ listening' = listening /\ io_list' = io_list /\ net_refs' = net_refs
       /\ calls' = calls
  BY DEF Return, At, Of
<1>13. StepOf(u, j, x, y)
  BY <1>1, <1>2, <1>3, <1>6, <1>7, <1>9, <1>8, <1>4, <1>5, <1>12, Roles
  DEF Return, At, StepOf, Goto, LoopDone, Becomes, Of, IInv, Shapes, UnrefIo
<1>14. /\ th'[u] = x /\ io'[j] = y
       /\ \A s \in Threads : s # u => th'[s] = th[s]
  BY <1>1, <1>2, <1>3, <1>13, StepIs DEF IInv
<1>15. ThreadOk(u, x)
  BY <1>3, <1>7 DEF ThreadOk, UserPlace, AcceptorPlace, LoopPlace, Carried, KillPath, ReportPath
<1>16. ConnectionOk(j)'
  <2>1. PointersAt(j)'
    BY <1>3, <1>7, <1>10, <1>12, <1>14, <1>4, <1>5, Roles DEF PointersAt, Taken, Ended
  <2>2. UnusedAt(j)'
    BY <1>3, <1>7, <1>10, <1>12, <1>14, <1>4, <1>5, Roles DEF UnusedAt
  <2>3. EndsAt(j)'
    BY <1>1, <1>2, <1>3, <1>7, <1>10, <1>11, <1>8, <1>12, <1>14, <1>4, <1>5, Roles
    DEF EndsAt, Ended
  <2>4. UntoldAt(j)'
    BY <1>1, <1>2, <1>3, <1>7, <1>10, <1>11, <1>8, <1>12, <1>14, <1>4, <1>5, Roles DEF UntoldAt
  <2>5. AcceptorAt(j)'
    BY <1>1, <1>2, <1>3, <1>7, <1>10, <1>12, <1>14, <1>4, <1>5, Roles DEF AcceptorAt
  <2>6. LoopAt(j)'
    BY <1>3, <1>7, <1>10, <1>12, <1>14, <1>4, <1>5, Roles DEF LoopAt, ReportPath
  <2>7. OneTakesAt(j)'
    BY <1>3, <1>7, <1>10, <1>12, <1>14, <1>4, <1>5, Roles
    DEF OneTakesAt, Takes, TakenBy, OnTheWayWith, OnTheWay, KillPath
  <2>8. PairedAt(j)'
    BY <1>3, <1>7, <1>10, <1>12, <1>14, <1>4, <1>5, Roles
    DEF PairedAt, Someone, Takes, TakenBy, OnTheWayWith, OnTheWay, KillPath
  <2>9. WatchingAt(j)'
    BY <1>3, <1>7, <1>10, <1>12, <1>14, <1>4, <1>5, Roles DEF WatchingAt, Scheduled, Someone
  <2>. QED  BY <2>1, <2>2, <2>3, <2>4, <2>5, <2>6, <2>7, <2>8, <2>9 DEF ConnectionOk
<1>17. y.refs - RefsDue(u, x, y, j \in io_list', j)
         = io[j].refs - RefsDue(u, th[u], io[j], j \in io_list, j)
  BY <1>1, <1>2, <1>3, <1>7, <1>10, <1>11, <1>8, <1>12, <1>4, <1>5, Roles
  DEF RefsDue, UserOf, TakenBy, OnTheWayWith, OnTheWay, KillPath, One, IoShape
<1>18. y.wrefs - WatchDue(u, x, y, j) = io[j].wrefs - WatchDue(u, th[u], io[j], j)
  BY <1>3, <1>7, <1>10, <1>11, <1>4, <1>5, Roles
  DEF WatchDue, CarriedBy, WrittenBy, FailedBy, One, IoShape
<1>19. net_refs' \in Int /\ net_refs' - NetDue(u, x, y) = net_refs - NetDue(u, th[u], io[j])
  BY <1>3, <1>7, <1>10, <1>12, <1>4, <1>5, Roles DEF NetDue, NetHeldBy, One, IInv, Shapes
<1>20. /\ u # Acceptor => (y.announced <=> io[j].announced)
       /\ listening' \in BOOLEAN /\ io_list' \subseteq Ios /\ calls' \in 0 .. MaxCalls
  BY <1>3, <1>10, <1>12, <1>4, NetIoAssumption DEF IInv, Shapes
<1>. QED  BY <1>1, <1>2, <1>3, <1>6, <1>9, <1>13, <1>15, <1>16, <1>17, <1>18, <1>19, <1>20,
   StepKeeps

--------------------------------------------------------------------------------
(* The invariant.                                                           *)

LEMMA InitKeeps ==
  ASSUME Init PROVE IInv
<1>1. /\ \A t \in Threads : th[t] = Idle
      /\ \A i \in Ios : io[i] = UnusedIo
      /\ listening = TRUE /\ io_list = {} /\ net_refs = 1 /\ calls = 0
  BY DEF Init
<1>2. /\ Idle.pc = "idle" /\ Idle.io = NoIo /\ ~ Idle.watch /\ ~ Idle.net /\ Idle.then = "idle"
      /\ Idle \in ThShape
  BY DEF Idle, ThShape, Pcs
<1>3. /\ ~ UnusedIo.used /\ UnusedIo.refs = 0 /\ ~ UnusedIo.io_watch /\ ~ UnusedIo.net
      /\ UnusedIo.wrefs = 0 /\ ~ UnusedIo.killed /\ UnusedIo.in_loop = "no" /\ ~ UnusedIo.user
      /\ ~ UnusedIo.announced /\ UnusedIo.fins = 0 /\ UnusedIo.kills = 0 /\ ~ UnusedIo.late
  BY DEF UnusedIo
<1>4. UnusedIo \in IoShape
  BY NetIoAssumption DEF UnusedIo, IoShape
<1>5. Shapes
  BY <1>2, <1>4, NetIoAssumption DEF Init, Shapes
<1>6. ASSUME NEW t \in Threads PROVE ThreadOk(t, th[t])
  BY <1>1, <1>2 DEF ThreadOk, UserPlace, AcceptorPlace, LoopPlace, Carried, KillPath, ReportPath
<1>7. ASSUME NEW i \in Ios PROVE ConnectionOk(i)
  <2>1. \A t \in Threads : th[t].io # i
    BY <1>1, <1>2, Roles
  <2>2. \A t \in Threads : ~ Takes(t, i)
    BY <2>1 DEF Takes, TakenBy, OnTheWayWith
  <2>3. /\ ~ io[i].io_watch /\ ~ io[i].net /\ ~ io[i].killed /\ io[i].in_loop = "no"
        /\ ~ io[i].user /\ ~ io[i].announced /\ io[i].fins = 0 /\ io[i].kills = 0
        /\ ~ io[i].late /\ i \notin io_list
    BY <1>1, <1>3
  <2>4. PointersAt(i) /\ UnusedAt(i) /\ UntoldAt(i) /\ AcceptorAt(i) /\ LoopAt(i)
    BY <2>1, <2>3, Roles DEF PointersAt, Ended, UnusedAt, UntoldAt, AcceptorAt, LoopAt
  <2>5. EndsAt(i)
    BY <2>3 DEF EndsAt, Ended, One
  <2>6. OneTakesAt(i) /\ PairedAt(i) /\ WatchingAt(i)
    BY <2>2, <2>3 DEF OneTakesAt, PairedAt, WatchingAt
  <2>. QED  BY <2>4, <2>5, <2>6 DEF ConnectionOk
<1>8. Cardinality({}) = 0
  BY FS_EmptySet
<1>9. Refs /\ WatchRefs
  <2>1. SUFFICES ASSUME NEW i \in Ios
        PROVE  /\ io[i].refs = One(io[i].user) + One(io[i].wrefs > 0) + One(i \in io_list)
                     + Cardinality(UsersOf(i)) + Cardinality(Takers(i))
                     + Cardinality(TakersOnTheWay(i))
                     + One(th[Acceptor].io = i /\ ~ io[i].announced)
               /\ io[i].wrefs = One(io[i].io_watch) + One(io[i].in_loop \in {"in", "leaving"})
                     + Cardinality(Carriers(i)) + Cardinality(Writers(i)) + Cardinality(Failers(i))
    BY DEF Refs, WatchRefs
  <2>2. \A t \in Threads : th[t].io # i
    BY <1>1, <1>2, Roles
  <2>3. /\ UsersOf(i) = {} /\ Takers(i) = {} /\ TakersOnTheWay(i) = {} /\ Carriers(i) = {}
        /\ Writers(i) = {} /\ Failers(i) = {}
    BY <2>2, Roles
    DEF UsersOf, Takers, TakersOnTheWay, Carriers, Writers, Failers, UserOf, TakenBy,
        OnTheWayWith, CarriedBy, WrittenBy, FailedBy
  <2>4. /\ One(io[i].user) = 0 /\ One(io[i].wrefs > 0) = 0 /\ One(i \in io_list) = 0
        /\ One(th[Acceptor].io = i /\ ~ io[i].announced) = 0 /\ One(io[i].io_watch) = 0
        /\ One(io[i].in_loop \in {"in", "leaving"}) = 0
    BY <1>1, <1>3, <2>2, Roles DEF One
  <2>. QED  BY <1>1, <1>3, <1>8, <2>3, <2>4
<1>10. NetRefs
  <2>1. Netted = {} /\ NetCarriers = {}
    BY <1>1, <1>2, <1>3 DEF Netted, NetCarriers
  <2>2. One(NetHeldBy(th[Acceptor])) = 0
    BY <1>1, <1>2, Roles DEF NetHeldBy, One
  <2>. QED  BY <1>1, <1>8, <2>1, <2>2 DEF NetRefs
<1>. QED  BY <1>5, <1>6, <1>7, <1>9, <1>10 DEF IInv

\* The invariant does not mention whether the net listens, beyond its type.
LEMMA SameKeeps ==
  ASSUME IInv, listening' \in BOOLEAN, UNCHANGED <<io_list, net_refs, io, th, calls>>
  PROVE  IInv'
<1>1. Shapes'
  BY DEF IInv, Shapes
<1>2. (\A t \in Threads : ThreadOk(t, th[t]))'
  BY DEF IInv
<1>3. (\A i \in Ios : ConnectionOk(i))'
  <2>1. SUFFICES ASSUME NEW i \in Ios, ConnectionOk(i) PROVE ConnectionOk(i)'
    BY DEF IInv
  <2>2. \A t \in Threads : Takes(t, i)' <=> Takes(t, i)
    BY DEF Takes
  <2>. QED
    BY <2>1, <2>2
    DEF ConnectionOk, PointersAt, UnusedAt, EndsAt, UntoldAt, AcceptorAt, LoopAt, OneTakesAt,
        PairedAt, WatchingAt, Scheduled, Someone
<1>4. Refs' /\ WatchRefs' /\ NetRefs'
  BY DEF IInv, Refs, WatchRefs, NetRefs, UsersOf, Takers, TakersOnTheWay, Carriers, Writers,
         Failers, Netted, NetCarriers
<1>. QED  BY <1>1, <1>2, <1>3, <1>4 DEF IInv

LEMMA NextKeeps ==
  ASSUME IInv, [Next]_vars PROVE IInv'
<1>1. ASSUME NEW i \in Ios, Accept(i) PROVE IInv'
  BY <1>1, AcceptKeeps
<1>2. ASSUME NEW i \in Ios, Dispatch(i) PROVE IInv'
  <2>1. DispatchGone(i) \/ DispatchMessage(i) \/ DispatchEnd(i)
    BY <1>2 DEF Dispatch, DispatchGone, DispatchMessage, DispatchEnd
  <2>. QED  BY <2>1, DispatchGoneKeeps, DispatchMessageKeeps, DispatchEndKeeps
<1>3. CASE StopListening
  BY <1>3, SameKeeps DEF StopListening
<1>4. CASE Accepting
  <2>1. OnInit => OnInitTells \/ OnInitRefuses
    BY DEF OnInit, OnInitTells, OnInitRefuses
  <2>2. Accepted => AcceptedDone \/ UnrefChild
    BY DEF Accepted, AcceptedDone, UnrefChild
  <2>. QED  BY <1>4, <2>1, <2>2, AddChildKeeps, AddIoKeeps, OnInitTellsKeeps, OnInitRefusesKeeps,
     RefusedKeeps, UnrefListKeeps, SchedKeeps, AcceptedDoneKeeps, UnrefChildKeeps, FailChildKeeps,
     UnrefNewKeeps
  DEF Accepting
<1>5. CASE Dispatching
  <2>1. ReadOn => ReadOnGone \/ ReadOnDone \/ ReadOnMessage \/ ReadOnEnd
    BY DEF ReadOn, ReadOnGone, ReadOnDone, ReadOnMessage, ReadOnEnd
  <2>. QED  BY <1>5, <2>1, ReadMessageKeeps, OnReadKeeps, ReadOnGoneKeeps, ReadOnDoneKeeps,
     ReadOnMessageKeeps, ReadOnEndKeeps, DropEventKeeps, RemoveEventKeeps
  DEF Dispatching
<1>6. ASSUME NEW u \in Users, NEW i \in Ios, Call(u, i, "write") \/ Call(u, i, "kill_io")
      PROVE  IInv'
  BY <1>6, CallKeeps
<1>7. ASSUME NEW u \in Users, Using(u) PROVE IInv'
  <2>1. WriteWatch(u) => WriteWatchDone(u) \/ WriteWatchFails(u)
    BY DEF WriteWatch, WriteWatchDone, WriteWatchFails
  <2>. QED  BY <1>7, <2>1, WriteKeeps, WriteWatchDoneKeeps, WriteWatchFailsKeeps, WrittenKeeps,
     KillIoKeeps, KilledKeeps, ReturnKeeps
  DEF Using
<1>8. ASSUME NEW t \in Threads, Ending(t) PROVE IInv'
  BY <1>8, SwapToKillKeeps, KillWatchKeeps, CloseWatchKeeps, UnrefNetKeeps, SwapToReportKeeps,
     FindKeeps, OnFinKeeps
  DEF Ending
<1>9. CASE UNCHANGED vars
  BY <1>9, SameKeeps DEF vars, IInv, Shapes
<1>. QED  BY <1>1, <1>2, <1>3, <1>4, <1>5, <1>6, <1>7, <1>8, <1>9 DEF Next

\* The inductive invariant of the connections: the counts of JNetIO, JWatch and JNet, and who
\* holds what, for any number of connections and users.
THEOREM Invariance == Spec => []IInv
<1>. QED  BY InitKeeps, NextKeeps, PTL DEF Spec

--------------------------------------------------------------------------------
(* What follows from it.                                                    *)

\* The sets that the properties count are the ones that the invariant counts.
LEMMA CountsAgree ==
  ASSUME IInv, NEW i \in Ios
  PROVE  /\ io[i].refs = IoHolders(i) /\ io[i].wrefs = WatchHolders(i)
<1>1. /\ {t \in Users : th[t].io = i /\ th[t].pc \in {th[u].pc : u \in Users}} = UsersOf(i)
      /\ {t \in Threads : th[t].io = i /\ th[t].pc \in {"on_fin", "killed", "unref_list"}} = Takers(i)
      /\ {t \in Users : th[t].io = i /\ th[t].pc \in {"write_watch", "written"}} = Writers(i)
  BY DEF UsersOf, Takers, Writers, UserOf, TakenBy, WrittenBy
<1>2. {t \in Threads : th[t].io = i /\ th[t].then \in {"killed", "unref_list"}
                       /\ th[t].pc \in {"kill", "kill_watch", "close_watch", "unref_net"}}
        = TakersOnTheWay(i)
  BY DEF TakersOnTheWay, OnTheWayWith, OnTheWay, KillPath
<1>3. /\ {t \in Threads : th[t].io = i /\ th[t].watch} = Carriers(i)
      /\ {u \in Users : th[u].io = i /\ th[u].then = "written"
                        /\ th[u].pc \in {"report", "find", "on_fin", "unref_net"}} = Failers(i)
  BY DEF Carriers, CarriedBy, Failers, FailedBy
<1>4. io[i].refs = IoHolders(i)
  BY <1>1, <1>2 DEF IInv, Refs, IoHolders, Working
<1>5. io[i].wrefs = WatchHolders(i)
  BY <1>1, <1>3 DEF IInv, WatchRefs, WatchHolders, Working
<1>. QED  BY <1>4, <1>5

LEMMA CountsAreNat ==
  ASSUME IInv, NEW i \in Ios
  PROVE  /\ io[i].refs \in Nat /\ io[i].wrefs \in Nat
         /\ io[i].refs = 0 => io[i].wrefs = 0 /\ i \notin io_list /\ ~ io[i].user
                              /\ Takers(i) = {} /\ TakersOnTheWay(i) = {}
         /\ io[i].wrefs = 0 => ~ io[i].io_watch
<1>1. io[i].wrefs \in Nat /\ (io[i].wrefs = 0 => ~ io[i].io_watch)
  BY WatchHeld DEF IInv
<1>2. io[i].refs = One(io[i].user) + One(io[i].wrefs > 0) + One(i \in io_list)
                 + Cardinality(UsersOf(i)) + Cardinality(Takers(i)) + Cardinality(TakersOnTheWay(i))
                 + One(th[Acceptor].io = i /\ ~ io[i].announced)
  BY DEF IInv, Refs
<1>3. /\ Cardinality(UsersOf(i)) \in Nat /\ Cardinality(Takers(i)) \in Nat
      /\ Cardinality(TakersOnTheWay(i)) \in Nat
  BY PartsFinite
<1>4. io[i].refs \in Nat
  BY <1>2, <1>3 DEF One
<1>5. io[i].refs = 0 => io[i].wrefs = 0 /\ i \notin io_list /\ ~ io[i].user
                        /\ Cardinality(Takers(i)) = 0 /\ Cardinality(TakersOnTheWay(i)) = 0
  <2>1. /\ One(io[i].user) \in Nat /\ One(io[i].wrefs > 0) \in Nat /\ One(i \in io_list) \in Nat
        /\ One(th[Acceptor].io = i /\ ~ io[i].announced) \in Nat
    BY DEF One
  <2>2. /\ One(io[i].user) = 0 => ~ io[i].user
        /\ One(io[i].wrefs > 0) = 0 => ~ (io[i].wrefs > 0)
        /\ One(i \in io_list) = 0 => i \notin io_list
    BY DEF One
  <2>3. ASSUME io[i].refs = 0
        PROVE  /\ One(io[i].user) = 0 /\ One(io[i].wrefs > 0) = 0 /\ One(i \in io_list) = 0
               /\ Cardinality(Takers(i)) = 0 /\ Cardinality(TakersOnTheWay(i)) = 0
    <3>1. PICK a \in Nat : a = One(io[i].user)
      BY <2>1
    <3>2. PICK b \in Nat : b = One(io[i].wrefs > 0)
      BY <2>1
    <3>3. PICK c \in Nat : c = One(i \in io_list)
      BY <2>1
    <3>4. PICK d \in Nat : d = One(th[Acceptor].io = i /\ ~ io[i].announced)
      BY <2>1
    <3>5. PICK e \in Nat, f \in Nat, g \in Nat :
            /\ e = Cardinality(UsersOf(i)) /\ f = Cardinality(Takers(i))
            /\ g = Cardinality(TakersOnTheWay(i))
      BY <1>3
    <3>6. 0 = a + b + c + e + f + g + d
      BY <1>2, <2>3, <3>1, <3>2, <3>3, <3>4, <3>5
    <3>7. a = 0 /\ b = 0 /\ c = 0 /\ f = 0 /\ g = 0
      BY <3>6
    <3>. QED  BY <3>1, <3>2, <3>3, <3>5, <3>7
  <2>. QED  BY <1>1, <2>2, <2>3
<1>6. IsFiniteSet(Takers(i)) /\ IsFiniteSet(TakersOnTheWay(i))
  <2>1. Takers(i) \subseteq Threads /\ TakersOnTheWay(i) \subseteq Threads
    BY DEF Takers, TakersOnTheWay
  <2>. QED  BY <2>1, ThreadsFinite, FS_Subset
<1>. QED  BY <1>1, <1>4, <1>5, <1>6, FS_EmptySet

\* However accepting, the end of a connection, writers and kills interleave, the counts of
\* every JNetIO, of its watch and of the JNet are the numbers of those who hold them, and a
\* JNetIO that is freed points to no watch and no net, as hm_net_io_release asserts.
THEOREM CountsAreExact == Spec => []RefsExact
<1>1. ASSUME IInv PROVE RefsExact
  <2>1. net_refs = 1 + Cardinality({i \in Ios : io[i].net}) + Cardinality({t \in Threads : th[t].net})
          + One(\/ th[Acceptor].pc \in {"add_io", "on_init", "sched", "accepted", "refused",
                                        "unref_list", "unref_child"}
                \/ th[Acceptor].then = "unref_list")
    BY <1>1 DEF IInv, NetRefs, Netted, NetCarriers, NetHeldBy
  <2>2. net_refs \in Nat
    <3>1. Netted \subseteq Ios /\ NetCarriers \subseteq Threads
      BY DEF Netted, NetCarriers
    <3>2. Cardinality(Netted) \in Nat /\ Cardinality(NetCarriers) \in Nat
      BY <3>1, ThreadsFinite, FS_Subset, FS_CardinalityType
    <3>. QED  BY <1>1, <3>2 DEF IInv, NetRefs, One
  <2>3. TypeOK
    <3>1. \A i \in Ios : io[i] \in IoShape /\ io[i].refs \in Nat /\ io[i].wrefs \in Nat
      BY <1>1, CountsAreNat, KnownOf
    <3>2. io \in [Ios -> [used : BOOLEAN, refs : Nat, io_watch : BOOLEAN, net : BOOLEAN, wrefs : Nat,
                          killed : BOOLEAN, in_loop : {"no", "in", "leaving", "out"}, user : BOOLEAN,
                          announced : BOOLEAN, fins : Nat, kills : Nat, reads : 0 .. MaxReads,
                          late : BOOLEAN]]
      BY <1>1, <3>1 DEF IInv, Shapes, IoShape
    <3>3. \A t \in Threads : th[t].io \in Ios \cup {NoIo}
      BY <1>1 DEF IInv, Shapes, ThShape
    <3>. QED  BY <1>1, <2>2, <3>2, <3>3 DEF IInv, Shapes, TypeOK
  <2>4. ASSUME NEW i \in Ios, io[i].refs = 0
        PROVE  ~ io[i].io_watch /\ ~ io[i].net /\ i \notin io_list
    <3>1. /\ ~ io[i].io_watch /\ i \notin io_list
          /\ \A t \in Threads : ~ TakenBy(th[t], i) /\ ~ OnTheWayWith(th[t], i)
      BY <1>1, <2>4, CountsAreNat DEF Takers, TakersOnTheWay
    <3>2. PairedAt(i)
      BY <1>1, KnownOf
    <3>. QED  BY <3>1, <3>2 DEF PairedAt, Takes
  <2>. QED  BY <1>1, <2>1, <2>3, <2>4, CountsAgree DEF RefsExact
<1>. QED  BY <1>1, Invariance, PTL

\* A connection the user was told of ends for it exactly once, by on_fin or by its own kill, no
\* message is handed to the user after the end, and when all is over everything is freed.
THEOREM ConnectionsEndOnce == Spec => []EndedOnce
<1>1. ASSUME IInv PROVE EndedOnce
  <2>1. NoLateRead
    BY <1>1, KnownOf DEF NoLateRead, EndsAt
  <2>2. \A i \in Ios : /\ io[i].fins + io[i].kills = One(Ended(io[i]))
                       /\ ~ io[i].announced => io[i].fins = 0
    BY <1>1, KnownOf DEF EndsAt, UntoldAt
  <2>3. ASSUME Over PROVE io_list = {} /\ net_refs = 1 /\ \A i \in Ios : io[i].refs = 0 /\ io[i].wrefs = 0
    <3>1. \A t \in Threads : th[t].pc = "idle" /\ th[t].io = NoIo
      BY <1>1, <2>3, Known DEF Over, At, ThreadOk, Carried
    <3>2. ASSUME NEW i \in Ios
          PROVE  /\ ~ io[i].user /\ ~ io[i].io_watch /\ ~ io[i].net /\ i \notin io_list
                 /\ io[i].in_loop \notin {"in", "leaving"}
      <4>1. io[i].in_loop \notin {"in", "leaving"} /\ \A t \in Threads : ~ Takes(t, i)
        BY <2>3, <3>1, Roles DEF Over, Takes, TakenBy, OnTheWayWith
      <4>2. \A pc : ~ Someone(pc, i)
        BY <3>1, Roles DEF Someone
      <4>3. io[i] \in IoShape /\ UntoldAt(i) /\ OneTakesAt(i) /\ PairedAt(i) /\ WatchingAt(i)
        BY <1>1, KnownOf
      <4>4. ~ io[i].io_watch
        BY <3>1, <4>1, <4>2, <4>3, Roles DEF WatchingAt, Scheduled, UntoldAt
      <4>5. i \notin io_list /\ ~ io[i].net
        BY <4>1, <4>2, <4>3, <4>4 DEF PairedAt
      <4>6. ~ io[i].user
        BY <4>1, <4>3, <4>5 DEF OneTakesAt, UntoldAt
      <4>. QED  BY <4>1, <4>4, <4>5, <4>6
    <3>3. \A i \in Ios : io[i].refs = 0 /\ io[i].wrefs = 0
      <4>1. \A i \in Ios, t \in Threads : th[t].io # i
        BY <3>1, Roles
      <4>. QED  BY <1>1, <3>2, <4>1, Unheld DEF IInv
    <3>4. io_list = {}
      BY <1>1, <3>2 DEF IInv, Shapes
    <3>5. net_refs = 1
      <4>1. Netted = {}
        BY <3>2 DEF Netted
      <4>2. NetCarriers = {}
        BY <1>1, <3>1, Known DEF NetCarriers, ThreadOk, Carried
      <4>3. ~ NetHeldBy(th[Acceptor])
        BY <1>1, <3>1, Known, Roles DEF NetHeldBy, ThreadOk, AcceptorPlace, KillPath
      <4>. QED  BY <1>1, <4>1, <4>2, <4>3, FS_EmptySet DEF IInv, NetRefs, One
    <3>. QED  BY <3>3, <3>4, <3>5
  <2>. QED  BY <2>1, <2>2, <2>3 DEF EndedOnce
<1>. QED  BY <1>1, Invariance, PTL
===============================================================================
