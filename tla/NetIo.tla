---------------------------------- MODULE NetIo ---------------------------------
(***************************************************************************)
(* The life of accepted connections in hmnet: the list of a JNet            *)
(* (hm_net.c), the JNetIO its users hold (hm_netio.c) and the JWatch that   *)
(* the event loop holds (hm_watch.c; what a watch does with its socket is  *)
(* module NetWatch).                                                       *)
(*                                                                         *)
(* Threads.  One loop accepts, another one dispatches the connections,     *)
(* users write to them and kill them.  A connection that fails or is       *)
(* closed by the peer ends itself: the first thread that notices reports   *)
(* it with on_fin.  A connection its user kills is not reported.           *)
(*                                                                         *)
(* References.  A JNetIO is held by its user, its watch and the list, a    *)
(* watch by its JNetIO, the loop and those who write to it, the JNet by    *)
(* each JNetIO.  Every lock region is a step; on_init, on_read and on_fin  *)
(* are called outside the locks.                                           *)
(***************************************************************************)
EXTENDS Integers, FiniteSets, TLC

CONSTANTS
  Ios,          \* connections that may be accepted
  Users,        \* threads that write and kill
  MaxReads,     \* bound on the messages that arrive, for each connection
  MaxCalls,     \* bound on the calls of all users
  Acceptor, Loop, NoIo

ASSUME NetIoAssumption ==
  /\ MaxReads \in Nat /\ MaxCalls \in Nat
  /\ IsFiniteSet(Ios) /\ IsFiniteSet(Users)
  /\ {Acceptor, Loop} \cap Users = {} /\ Acceptor # Loop /\ NoIo \notin Ios

Threads == Users \cup {Acceptor, Loop}

VARIABLES
  listening,    \* the listening JNetIO still belongs to the net
  io_list,      \* net->io_list
  net_refs,     \* net->ref_count
  io,           \* the connections: JNetIO and JWatch
  th,           \* the threads
  calls         \* calls that users have made

vars == <<listening, io_list, net_refs, io, th, calls>>

\* refs, io_watch, net: of the JNetIO; wrefs, killed, in_loop: of the JWatch; user: the user has
\* it; announced, fins, kills, late: what the user was told.
UnusedIo == [used |-> FALSE, refs |-> 0, io_watch |-> FALSE, net |-> FALSE, wrefs |-> 0,
             killed |-> FALSE, in_loop |-> "no", user |-> FALSE, announced |-> FALSE, fins |-> 0,
             kills |-> 0, reads |-> 0, late |-> FALSE]
Idle == [pc |-> "idle", io |-> NoIo, watch |-> FALSE, net |-> FALSE, then |-> "idle"]

Init ==
  /\ listening = TRUE /\ io_list = {} /\ net_refs = 1
  /\ io = [i \in Ios |-> UnusedIo]
  /\ th = [t \in Threads |-> Idle]
  /\ calls = 0

Goto(t, pc) == th' = [th EXCEPT ![t].pc = pc]
At(t, pc) == th[t].pc = pc
Of(t) == io[th[t].io]

\* hm_net_io_unref, and hm_watch_unref with hm_watch_finalize.
UnrefIo(x) == [x EXCEPT !.refs = @ - 1]
UnrefWatch(x) == IF x.wrefs = 1 THEN UnrefIo([x EXCEPT !.wrefs = 0]) ELSE [x EXCEPT !.wrefs = @ - 1]

\* What a step of thread t does to its connection.
Becomes(t, x) == io' = [io EXCEPT ![th[t].io] = x]

--------------------------------------------------------------------------------
(* hm_net_io_kill and hm_net_io_async_kill, then `then'.                    *)

\* Whoever finds the pointers under the lock has to let go of what they point to.
Swapped(x) == [x EXCEPT !.io_watch = FALSE, !.net = FALSE]

SwapToKill(t) ==
  /\ At(t, "kill")
  /\ Becomes(t, Swapped(Of(t)))
  /\ th' = [th EXCEPT ![t].watch = Of(t).io_watch, ![t].net = Of(t).net, ![t].pc = "kill_watch"]
  /\ UNCHANGED <<listening, io_list, net_refs, calls>>

\* hm_watch_kill: the event leaves the loop later.
KillWatch(t) ==
  /\ At(t, "kill_watch")
  /\ IF th[t].watch
     THEN Becomes(t, [Of(t) EXCEPT !.in_loop = IF @ = "in" THEN "leaving" ELSE @])
          /\ Goto(t, "close_watch")
     ELSE Goto(t, "unref_net") /\ io' = io
  /\ UNCHANGED <<listening, io_list, net_refs, calls>>

CloseWatch(t) ==
  /\ At(t, "close_watch")
  /\ Becomes(t, UnrefWatch([Of(t) EXCEPT !.killed = TRUE]))
  /\ th' = [th EXCEPT ![t].watch = FALSE, ![t].pc = "unref_net"]
  /\ UNCHANGED <<listening, io_list, net_refs, calls>>

UnrefNet(t) ==
  /\ At(t, "unref_net")
  /\ net_refs' = net_refs - IF th[t].net THEN 1 ELSE 0
  /\ th' = [th EXCEPT ![t].pc = th[t].then, ![t].watch = FALSE, ![t].net = FALSE]
  /\ UNCHANGED <<listening, io_list, io, calls>>

\* A mutant: the net is read without being taken, so two threads may let go of it.
SwapToReportKeepingNet(t) ==
  /\ At(t, "report")
  /\ LET x == [Of(t) EXCEPT !.io_watch = FALSE]
     IN Becomes(t, IF Of(t).io_watch THEN UnrefWatch(x) ELSE x)
  /\ th' = [th EXCEPT ![t].net = Of(t).net, ![t].pc = IF Of(t).net THEN "find" ELSE "unref_net"]
  /\ UNCHANGED <<listening, io_list, net_refs, calls>>

SwapToReport(t) ==
  /\ At(t, "report")
  /\ Becomes(t, IF Of(t).io_watch THEN UnrefWatch(Swapped(Of(t))) ELSE Swapped(Of(t)))
  /\ th' = [th EXCEPT ![t].net = Of(t).net, ![t].pc = IF Of(t).net THEN "find" ELSE "unref_net"]
  /\ UNCHANGED <<listening, io_list, net_refs, calls>>

\* A mutant: on_fin is called whether or not the list still had the connection.
FindAlways(t) ==
  /\ At(t, "find")
  /\ io_list' = io_list \ {th[t].io}
  /\ Goto(t, "on_fin")
  /\ UNCHANGED <<listening, net_refs, io, calls>>

\* hm_net_async_kill_io: whoever takes the connection off the list reports it.
Find(t) ==
  /\ At(t, "find")
  /\ io_list' = io_list \ {th[t].io}
  /\ Goto(t, IF th[t].io \in io_list THEN "on_fin" ELSE "unref_net")
  /\ UNCHANGED <<listening, net_refs, io, calls>>

\* The user is told and gives up its reference; the one of the list is dropped.
OnFin(t) ==
  /\ At(t, "on_fin")
  /\ Becomes(t, UnrefIo([UnrefIo(Of(t)) EXCEPT !.user = FALSE, !.fins = @ + 1]))
  /\ Goto(t, "unref_net")
  /\ UNCHANGED <<listening, io_list, net_refs, calls>>

--------------------------------------------------------------------------------
(* The loop that accepts: hm_net_io_add_child_watch and hm_net_add_io.      *)

\* The JNetIO is made for the new watch.
Accept(i) ==
  /\ At(Acceptor, "idle") /\ ~ io[i].used
  /\ io' = [io EXCEPT ![i].used = TRUE, ![i].refs = 2, ![i].io_watch = TRUE, ![i].wrefs = 1]
  /\ th' = [th EXCEPT ![Acceptor].pc = "add_child", ![Acceptor].io = i]
  /\ UNCHANGED <<listening, io_list, net_refs, calls>>

\* hm_net_io_add_child: the net of the listening JNetIO, unless it was killed.
AddChild ==
  /\ At(Acceptor, "add_child")
  /\ Goto(Acceptor, IF listening THEN "add_io" ELSE "fail")
  /\ net_refs' = net_refs + IF listening THEN 1 ELSE 0
  /\ UNCHANGED <<listening, io_list, io, calls>>

\* __hm_net_add_io until the lock is given up for on_init.
AddIo ==
  LET i == th[Acceptor].io
  IN /\ At(Acceptor, "add_io")
     /\ io_list' = io_list \cup {i}
     /\ net_refs' = net_refs + 1
     /\ io' = [io EXCEPT ![i].net = TRUE, ![i].refs = @ + 1]
     /\ Goto(Acceptor, "on_init")
     /\ UNCHANGED <<listening, calls>>

\* The user keeps the reference made for it, or refuses the connection.
OnInit ==
  /\ At(Acceptor, "on_init")
  /\ \/ /\ io' = [io EXCEPT ![th[Acceptor].io].announced = TRUE, ![th[Acceptor].io].user = TRUE]
        /\ Goto(Acceptor, "sched")
     \/ /\ io' = io
        /\ th' = [th EXCEPT ![Acceptor].pc = "refused"]
  /\ UNCHANGED <<listening, io_list, net_refs, calls>>

\* _hm_net_kill_io for a connection that was refused.
Refused ==
  LET i == th[Acceptor].io
  IN /\ At(Acceptor, "refused")
     /\ io_list' = io_list \ {i}
     /\ th' = [th EXCEPT ![Acceptor].pc = IF i \in io_list THEN "kill" ELSE "unref_child",
                         ![Acceptor].then = "unref_list"]
     /\ UNCHANGED <<listening, net_refs, io, calls>>

UnrefList ==
  /\ At(Acceptor, "unref_list")
  /\ Becomes(Acceptor, UnrefIo(Of(Acceptor)))
  /\ th' = [th EXCEPT ![Acceptor].pc = "unref_child", ![Acceptor].then = "idle"]
  /\ UNCHANGED <<listening, io_list, net_refs, calls>>

\* hm_scheduler_sched_io: the watch is attached to the other loop if there still is one.
Sched ==
  /\ At(Acceptor, "sched")
  /\ IF Of(Acceptor).io_watch
     THEN Becomes(Acceptor, [Of(Acceptor) EXCEPT !.in_loop = "in", !.wrefs = @ + 1])
     ELSE io' = io
  /\ Goto(Acceptor, "accepted")
  /\ UNCHANGED <<listening, io_list, net_refs, calls>>

\* hm_net_io_add_child gives the net back.
Accepted ==
  /\ \/ At(Acceptor, "accepted") /\ th' = [th EXCEPT ![Acceptor] = Idle]
     \/ At(Acceptor, "unref_child") /\ Goto(Acceptor, "fail")
  /\ net_refs' = net_refs - 1
  /\ UNCHANGED <<listening, io_list, io, calls>>

\* The end of hm_net_io_add_child_watch when the connection was not added.
FailChild ==
  /\ At(Acceptor, "fail")
  /\ th' = [th EXCEPT ![Acceptor].pc = "kill", ![Acceptor].then = "unref_new"]
  /\ UNCHANGED <<listening, io_list, net_refs, io, calls>>

UnrefNew ==
  /\ At(Acceptor, "unref_new")
  /\ Becomes(Acceptor, UnrefIo(Of(Acceptor)))
  /\ th' = [th EXCEPT ![Acceptor] = Idle]
  /\ UNCHANGED <<listening, io_list, net_refs, calls>>

\* The listening JNetIO is killed.
StopListening ==
  /\ listening
  /\ listening' = FALSE
  /\ UNCHANGED <<io_list, net_refs, io, th, calls>>

--------------------------------------------------------------------------------
(* The loop that dispatches.                                                *)

\* A dispatch that is over, or has returned FALSE: the loop drops the event.
LoopDone == th' = [th EXCEPT ![Loop] = Idle]

\* hm_watch_rw_dispatch under the lock: a killed connection is left alone, otherwise a message
\* has come, or the end.
Dispatch(i) ==
  /\ At(Loop, "idle") /\ io[i].in_loop \in {"in", "leaving"}
  /\ IF io[i].killed
     THEN th' = [th EXCEPT ![Loop].io = i, ![Loop].pc = "drop_event"] /\ io' = io
     ELSE \/ /\ io[i].reads < MaxReads
             /\ io' = [io EXCEPT ![i].reads = @ + 1]
             /\ th' = [th EXCEPT ![Loop].io = i, ![Loop].pc = "read_message"]
          \/ /\ io' = [io EXCEPT ![i].killed = TRUE]
             /\ th' = [th EXCEPT ![Loop].io = i, ![Loop].pc = "report", ![Loop].then = "drop_event"]
  /\ UNCHANGED <<listening, io_list, net_refs, calls>>

Ended(x) == x.announced /\ ~ x.user

\* A delivery begins: too late if the connection has ended for its user.
Begun(x) == [x EXCEPT !.late = @ \/ Ended(x)]

\* hm_net_io_read_message: the reader is looked up under the lock.
ReadMessage ==
  /\ At(Loop, "read_message")
  /\ IF Of(Loop).io_watch
     THEN Becomes(Loop, Begun(Of(Loop))) /\ Goto(Loop, "on_read")
     ELSE Goto(Loop, "read_on") /\ io' = io
  /\ UNCHANGED <<listening, io_list, net_refs, calls>>

\* and called without it.
OnRead ==
  /\ At(Loop, "on_read")
  /\ Goto(Loop, "read_on")
  /\ UNCHANGED <<listening, io_list, net_refs, io, calls>>

\* The loop of __hm_watch_rw_dispatch goes on with the lock: until there is no more to read,
\* the connection was killed, or it ends.
ReadOn ==
  /\ At(Loop, "read_on")
  /\ IF Of(Loop).killed
     THEN Goto(Loop, "drop_event") /\ io' = io
     ELSE \/ LoopDone /\ io' = io
          \/ /\ Of(Loop).reads < MaxReads
             /\ Becomes(Loop, [Of(Loop) EXCEPT !.reads = @ + 1])
             /\ Goto(Loop, "read_message")
          \/ /\ Becomes(Loop, [Of(Loop) EXCEPT !.killed = TRUE])
             /\ th' = [th EXCEPT ![Loop].pc = "report", ![Loop].then = "drop_event"]
  /\ UNCHANGED <<listening, io_list, net_refs, calls>>

DropEvent ==
  /\ At(Loop, "drop_event")
  /\ Becomes(Loop, UnrefWatch([Of(Loop) EXCEPT !.in_loop = "out"]))
  /\ LoopDone
  /\ UNCHANGED <<listening, io_list, net_refs, calls>>

\* The operation that hm_event_remove has queued.
RemoveEvent(i) ==
  /\ At(Loop, "idle") /\ io[i].in_loop = "leaving"
  /\ io' = [io EXCEPT ![i] = UnrefWatch([@ EXCEPT !.in_loop = "out"])]
  /\ UNCHANGED <<listening, io_list, net_refs, th, calls>>

--------------------------------------------------------------------------------
(* Users hold a reference of their own while they call.                     *)

Call(u, i, pc) ==
  /\ At(u, "idle") /\ io[i].user /\ calls < MaxCalls
  /\ calls' = calls + 1
  /\ io' = [io EXCEPT ![i].refs = @ + 1]
  /\ th' = [th EXCEPT ![u] = [Idle EXCEPT !.pc = pc, !.io = i]]
  /\ UNCHANGED <<listening, io_list, net_refs>>

\* hm_net_io_write_message: the watch is referenced under the lock.
Write(u) ==
  /\ At(u, "write")
  /\ IF Of(u).io_watch
     THEN Becomes(u, [Of(u) EXCEPT !.wrefs = @ + 1]) /\ Goto(u, "write_watch")
     ELSE Goto(u, "return") /\ io' = io
  /\ UNCHANGED <<listening, io_list, net_refs, calls>>

\* hm_watch_write_message: a failure ends the connection.
WriteWatch(u) ==
  /\ At(u, "write_watch")
  /\ \/ Goto(u, "written") /\ io' = io
     \/ /\ ~ Of(u).killed
        /\ Becomes(u, [Of(u) EXCEPT !.killed = TRUE,
                                    !.in_loop = IF @ = "in" THEN "leaving" ELSE @])
        /\ th' = [th EXCEPT ![u].pc = "report", ![u].then = "written"]
  /\ UNCHANGED <<listening, io_list, net_refs, calls>>

Written(u) ==
  /\ At(u, "written")
  /\ Becomes(u, UnrefWatch(Of(u)))
  /\ Goto(u, "return")
  /\ UNCHANGED <<listening, io_list, net_refs, calls>>

\* hm_net_kill_io: zero, or -E_NONETIO when the connection has ended itself.
KillIo(u) ==
  LET i == th[u].io
  IN /\ At(u, "kill_io")
     /\ io_list' = io_list \ {i}
     /\ th' = [th EXCEPT ![u].pc = IF i \in io_list THEN "kill" ELSE "return", ![u].then = "killed"]
     /\ UNCHANGED <<listening, net_refs, io, calls>>

\* The references of the list and of the user.
Killed(u) ==
  /\ At(u, "killed")
  /\ Becomes(u, UnrefIo([UnrefIo(Of(u)) EXCEPT !.user = FALSE, !.kills = @ + 1]))
  /\ Goto(u, "return")
  /\ UNCHANGED <<listening, io_list, net_refs, calls>>

Return(u) ==
  /\ At(u, "return")
  /\ Becomes(u, UnrefIo(Of(u)))
  /\ th' = [th EXCEPT ![u] = Idle]
  /\ UNCHANGED <<listening, io_list, net_refs, calls>>

--------------------------------------------------------------------------------
Ending(t) ==
  SwapToKill(t) \/ KillWatch(t) \/ CloseWatch(t) \/ UnrefNet(t) \/ SwapToReport(t) \/ Find(t) \/ OnFin(t)

Accepting ==
  \/ AddChild \/ AddIo \/ OnInit \/ Refused \/ UnrefList \/ Sched \/ Accepted
  \/ FailChild \/ UnrefNew

Dispatching == ReadMessage \/ OnRead \/ ReadOn \/ DropEvent \/ \E i \in Ios : RemoveEvent(i)

Using(u) == Write(u) \/ WriteWatch(u) \/ Written(u) \/ KillIo(u) \/ Killed(u) \/ Return(u)

\* Every connection was accepted and has ended.
Over ==
  /\ \A t \in Threads : At(t, "idle")
  /\ \A i \in Ios : io[i].used /\ io[i].in_loop \notin {"in", "leaving"}

Next ==
  \/ \E i \in Ios : Accept(i) \/ Dispatch(i)
  \/ StopListening \/ Accepting \/ Dispatching
  \/ \E u \in Users, i \in Ios : Call(u, i, "write") \/ Call(u, i, "kill_io")
  \/ \E u \in Users : Using(u)
  \/ \E t \in Threads : Ending(t)
  \/ Over /\ UNCHANGED vars

Spec == Init /\ [][Next]_vars

--------------------------------------------------------------------------------
(* Properties.                                                              *)

TypeOK ==
  /\ listening \in BOOLEAN /\ io_list \subseteq Ios /\ net_refs \in Nat /\ calls \in 0 .. MaxCalls
  /\ io \in [Ios -> [used : BOOLEAN, refs : Nat, io_watch : BOOLEAN, net : BOOLEAN, wrefs : Nat,
                      killed : BOOLEAN, in_loop : {"no", "in", "leaving", "out"}, user : BOOLEAN,
                      announced : BOOLEAN, fins : Nat, kills : Nat, reads : 0 .. MaxReads,
                      late : BOOLEAN]]
  /\ \A t \in Threads : th[t].io \in Ios \cup {NoIo}

One(b) == IF b THEN 1 ELSE 0

\* Threads of T that work on connection i and are at one of the places.
Working(T, i, places) == Cardinality({t \in T : th[t].io = i /\ th[t].pc \in places})

IoHolders(i) ==
  One(io[i].user) + One(io[i].wrefs > 0) + One(i \in io_list) + Working(Users, i, {th[u].pc : u \in Users})
    \* the reference of the list, with whoever took the connection off it
    + Working(Threads, i, {"on_fin", "killed", "unref_list"})
    + Cardinality({t \in Threads : th[t].io = i /\ th[t].then \in {"killed", "unref_list"}
                                   /\ th[t].pc \in {"kill", "kill_watch", "close_watch", "unref_net"}})
    \* the one made for the user, until it has it or the connection is given up
    + One(th[Acceptor].io = i /\ ~ io[i].announced)

WatchHolders(i) ==
  One(io[i].io_watch) + One(io[i].in_loop \in {"in", "leaving"})
    + Cardinality({t \in Threads : th[t].io = i /\ th[t].watch})
    + Working(Users, i, {"write_watch", "written"})
    + Cardinality({u \in Users : th[u].io = i /\ th[u].then = "written"
                                 /\ th[u].pc \in {"report", "find", "on_fin", "unref_net"}})

\* However accepting, the end of a connection, writers and kills interleave, the counts of the
\* JNetIO, its watch and the JNet are the numbers of those who hold them, so none is freed in
\* somebody's hands, and what hm_net_io_release asserts holds: a JNetIO that is freed points to
\* no watch and no net.
RefsExact ==
  /\ TypeOK
  /\ \A i \in Ios : /\ io[i].refs = IoHolders(i) /\ io[i].wrefs = WatchHolders(i)
                    /\ io[i].refs = 0 => ~ io[i].io_watch /\ ~ io[i].net /\ i \notin io_list
  /\ net_refs = 1 + Cardinality({i \in Ios : io[i].net}) + Cardinality({t \in Threads : th[t].net})
                  + One(\/ th[Acceptor].pc \in {"add_io", "on_init", "sched", "accepted", "refused",
                                                 "unref_list", "unref_child"}
                        \/ th[Acceptor].then = "unref_list")

\* The code marks the call of the reader without the lock as a race.  It may run while the
\* connection ends, but it never begins once the connection has ended for the user, not even
\* for a message that was received before.
NoLateRead == \A i \in Ios : ~ io[i].late

\* A connection the user was told of ends for it exactly once, by on_fin or by a kill that
\* returned zero, whichever thread takes it off the list first; one it was not told of, or
\* refused, is never reported; no message is handed to the user after the end; and when all
\* is over everything is freed.
EndedOnce ==
  /\ NoLateRead
  /\ \A i \in Ios : /\ io[i].fins + io[i].kills = One(Ended(io[i]))
                    /\ ~ io[i].announced => io[i].fins = 0
  /\ Over => io_list = {} /\ net_refs = 1 /\ \A i \in Ios : io[i].refs = 0 /\ io[i].wrefs = 0
===============================================================================
