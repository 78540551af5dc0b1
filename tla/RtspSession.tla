------------------------------- MODULE RtspSession ------------------------------
(***************************************************************************)
(* A connection of the RTSP server (rtsp/rtsp.c), its sessions and the     *)
(* methods that create, play and end them (rtsp_method_*.c).               *)
(*                                                                         *)
(* Threads.  The event loop reads requests and hands each to a pool of     *)
(* handler threads without a limit, so the requests of one peer run        *)
(* concurrently and in any order; when the peer has gone the loop kills    *)
(* the client.  A session has a mutex, the client has one: whatever runs   *)
(* under one of them is a step, and the loops that give the mutex up for   *)
(* each element are a step per element.                                    *)
(*                                                                         *)
(* Memory.  Clients, sessions and RTP sessions are counted references; an  *)
(* object is freed by the step that drops the last.  A UDP transport owns  *)
(* a pair of ports of the allocator (module PortPool), an interleaved one  *)
(* a reference to the client.                                              *)
(***************************************************************************)
EXTENDS PortPool, TLC

CONSTANTS
  Handlers,     \* threads of the pool
  Sessions,     \* RTSP sessions that may be created
  Rtps,         \* RTP sessions that may be created
  MaxRequests,  \* bound on the requests of the peer
  MaxTries,     \* TRY_PORTS_ALLOC
  LowPort, HighPort,    \* the range of the allocator
  Reserved,     \* a port that was reserved
  Loop, NoSession, NoRtp

ASSUME SessionAssumption ==
  /\ MaxRequests \in Nat /\ MaxTries \in Nat \ {0}
  /\ LowPort \in Nat /\ HighPort \in Nat /\ LowPort < HighPort
  /\ Loop \notin Handlers /\ NoSession \notin Sessions /\ NoRtp \notin Rtps
  /\ IsFiniteSet(Handlers) /\ IsFiniteSet(Sessions) /\ IsFiniteSet(Rtps) /\ Handlers \cap Rtps = {}

Threads == Handlers \cup {Loop}
Methods == {"SETUP", "PLAY", "PAUSE", "TEARDOWN", "OPTIONS"}

VARIABLES
  client,       \* refs, killed, list of sessions, conns: in the listener's list, in_loop, freed
  sess,         \* the RTSP sessions
  rtp,          \* the RTP sessions
  pool,         \* the allocator of ports
  th,           \* the threads: where each is and what it has in its hands
  requests      \* requests read

vars == <<client, sess, rtp, pool, th, requests>>

NoTransport == [mode |-> "none", low |-> NoPort]
Unused == [stage |-> "unused", refs |-> 0, killed |-> FALSE, cur_state |-> "INIT",
           session_timer |-> "off", told |-> FALSE]
UnusedRtp == [stage |-> "unused", refs |-> 0, owner |-> NoSession, transport |-> NoTransport,
              playing |-> FALSE, leaving |-> 0]
Idle == [pc |-> "idle", method |-> "OPTIONS", sid |-> NoSession, cur |-> NoSession, rtp |-> NoRtp,
         transport |-> NoTransport, tries |-> 0, then |-> "idle"]

\* rtsp_client_incoming_cb has run: the list of connections and the loop own the client.
Init ==
  /\ client = [refs |-> 2, killed |-> FALSE, list |-> {}, conns |-> TRUE, in_loop |-> TRUE,
               freed |-> FALSE]
  /\ sess = [s \in Sessions |-> Unused]
  /\ rtp = [r \in Rtps |-> UnusedRtp]
  /\ pool = SetReserved(NewPool(LowPort, HighPort), Reserved)
  /\ th = [t \in Threads |-> [Idle EXCEPT !.pc = IF t = Loop THEN "polling" ELSE "idle"]]
  /\ requests = 0

--------------------------------------------------------------------------------
(* References.                                                              *)

Goto(t, pc) == th' = [th EXCEPT ![t].pc = pc]

\* The client after references were dropped or taken: rtsp_client_default_finalize at zero.
ClientRefs(c, n) == [c EXCEPT !.refs = @ + n, !.freed = @ \/ c.refs + n = 0]

\* rtsp_session_unref by one thread: at zero rtsp_session_finalize drops the client.
UnrefSession(s, c) ==
  IF sess[s].refs = 1
  THEN /\ sess' = [sess EXCEPT ![s].refs = 0, ![s].stage = "freed"]
       /\ client' = ClientRefs(c, -1)
  ELSE /\ sess' = [sess EXCEPT ![s].refs = @ - 1]
       /\ client' = c

\* rtp_transport_close.
PortsAfterClose(tr) == IF tr.mode = "udp" THEN PutPair(pool, tr.low, tr.low + 1) ELSE pool
ClientAfterClose(tr) == IF tr.mode = "interleaved" THEN ClientRefs(client, -1) ELSE client

\* rtp_session_finalize: the transport is closed and the RTSP session unreferenced.
FinalizeRtp(r) ==
  /\ pool' = PortsAfterClose(rtp[r].transport)
  /\ UnrefSession(rtp[r].owner, ClientAfterClose(rtp[r].transport))

--------------------------------------------------------------------------------
(* The event loop.                                                          *)

Creating == {h \in Handlers : th[h].method = "SETUP" /\ th[h].sid = NoSession
                                 /\ \/ th[h].pc \in {"transport", "dead", "create"}
                                    \/ th[h].then = "dead"}

\* rtsp_client_read.  The peer may name any session it was told of; it may also make one while
\* there are some to make.
Receive(h, method, sid) ==
  /\ th[Loop].pc = "polling" /\ th[h].pc = "idle" /\ requests < MaxRequests
  /\ sid # NoSession => sess[sid].told
  /\ method = "SETUP" /\ sid = NoSession =>
       Cardinality(Creating) < Cardinality({s \in Sessions : sess[s].stage = "unused"})
  /\ method \in {"PLAY", "PAUSE", "TEARDOWN"} => sid # NoSession
  /\ method = "OPTIONS" => sid = NoSession
  /\ requests' = requests + 1
  /\ client' = ClientRefs(client, 1)
  /\ th' = [th EXCEPT ![h] = [Idle EXCEPT !.pc = CASE method = "SETUP" -> "transport"
                                                   [] method = "OPTIONS" -> "dead"
                                                   [] OTHER -> "find",
                                          !.method = method, !.sid = sid, !.tries = MaxTries,
                                          !.then = "finish"]]
  /\ UNCHANGED <<sess, rtp, pool>>

\* The connection ends or fails: rtsp_client_kill.
PeerGone ==
  /\ th[Loop].pc = "polling"
  /\ client' = [client EXCEPT !.killed = TRUE]
  /\ Goto(Loop, "kill_sessions")
  /\ UNCHANGED <<sess, rtp, pool, requests>>

\* rtsp_client_kill_sessions: one session is taken off the list and killed without the mutex.
KillSessions ==
  /\ th[Loop].pc = "kill_sessions"
  /\ IF client.list = {}
     THEN Goto(Loop, "orphan") /\ client' = client
     ELSE \E s \in client.list :
            /\ client' = [client EXCEPT !.list = @ \ {s}]
            /\ th' = [th EXCEPT ![Loop].pc = "kill", ![Loop].cur = s, ![Loop].then = "kill_sessions"]
  /\ UNCHANGED <<sess, rtp, pool, requests>>

\* rtsp_client_orphan, then the callback returns FALSE and the loop drops the event.
Orphan ==
  /\ th[Loop].pc = "orphan"
  /\ client' = [ClientRefs(client, -1) EXCEPT !.conns = FALSE]
  /\ Goto(Loop, "leave")
  /\ UNCHANGED <<sess, rtp, pool, requests>>

Leave ==
  /\ th[Loop].pc = "leave"
  /\ client' = [ClientRefs(client, -1) EXCEPT !.in_loop = FALSE]
  /\ Goto(Loop, "gone")
  /\ UNCHANGED <<sess, rtp, pool, requests>>

\* The writer of an RTP session that was paused has left its loop: on_rtp_writer_destroy.
WriterDestroyed(r) ==
  /\ rtp[r].leaving > 0
  /\ rtp' = [rtp EXCEPT ![r].leaving = @ - 1, ![r].refs = @ - 1,
                        ![r].stage = IF rtp[r].refs = 1 THEN "freed" ELSE @]
  /\ IF rtp[r].refs = 1 THEN FinalizeRtp(r) ELSE UNCHANGED <<sess, client, pool>>
  /\ UNCHANGED <<th, requests>>

\* SETUP_TIMEOUT has passed since the session was created.
TimePasses(s) ==
  /\ sess[s].stage = "live" /\ sess[s].session_timer = "armed"
  /\ sess' = [sess EXCEPT ![s].session_timer = "expired"]
  /\ UNCHANGED <<client, rtp, pool, th, requests>>

--------------------------------------------------------------------------------
(* rtsp_session_kill and rtsp_session_unref, by the thread that holds a     *)
(* reference to the session in `cur'; it goes on at `then'.                 *)

KillMark(t) ==
  LET s == th[t].cur
  IN /\ th[t].pc = "kill"
     /\ sess' = [sess EXCEPT ![s].killed = TRUE]
     /\ Goto(t, IF sess[s].killed THEN "unref" ELSE "kill_rtps")
     /\ UNCHANGED <<client, rtp, pool, requests>>

Listed(s) == {r \in Rtps : rtp[r].stage = "listed" /\ rtp[r].owner = s}

\* rtsp_session_kill_rtps takes one RTP session off the list and gives the mutex up.
KillRtps(t) ==
  /\ th[t].pc = "kill_rtps"
  /\ IF Listed(th[t].cur) = {}
     THEN Goto(t, "unref") /\ rtp' = rtp
     ELSE \E r \in Listed(th[t].cur) :
            /\ rtp' = [rtp EXCEPT ![r].stage = "unlisted"]
            /\ th' = [th EXCEPT ![t].pc = "kill_rtp", ![t].rtp = r]
  /\ UNCHANGED <<client, sess, pool, requests>>

\* What rtp_session_pause leaves: the writer is removed from its loop later.
Paused(x) == IF x.playing THEN [x EXCEPT !.playing = FALSE, !.leaving = @ + 1] ELSE x

\* A mutant: only the first RTP session is killed.
KillFirstRtp(t) ==
  LET r == th[t].rtp
      last == rtp[r].refs = 1
      killed == [Paused(rtp[r]) EXCEPT !.refs = @ - 1, !.stage = IF last THEN "freed" ELSE @]
  IN /\ th[t].pc = "kill_rtp"
     /\ rtp' = [rtp EXCEPT ![r] = killed]
     /\ IF last THEN FinalizeRtp(r) ELSE UNCHANGED <<sess, client, pool>>
     /\ th' = [th EXCEPT ![t].pc = "unref", ![t].rtp = NoRtp]
     /\ UNCHANGED requests

\* rtp_session_kill and rtp_session_unref.
KillRtp(t) ==
  LET r == th[t].rtp
      last == rtp[r].refs = 1
      killed == [Paused(rtp[r]) EXCEPT !.refs = @ - 1, !.stage = IF last THEN "freed" ELSE @]
  IN /\ th[t].pc = "kill_rtp"
     /\ rtp' = [rtp EXCEPT ![r] = killed]
     /\ IF last THEN FinalizeRtp(r) ELSE UNCHANGED <<sess, client, pool>>
     /\ th' = [th EXCEPT ![t].pc = "kill_rtps", ![t].rtp = NoRtp]
     /\ UNCHANGED requests

\* rtsp_session_unref inside a loop over sessions; at the end of a request it is part of Finish.
Unref(t) ==
  /\ th[t].pc = "unref" /\ th[t].then # "finish"
  /\ UnrefSession(th[t].cur, client)
  /\ th' = [th EXCEPT ![t].pc = th[t].then, ![t].cur = NoSession]
  /\ UNCHANGED <<rtp, pool, requests>>

--------------------------------------------------------------------------------
(* Finding and removing sessions, under the client's mutex.                 *)

\* The thread gets a reference to session s, and goes on at pc.
Hold(t, s, pc, then) ==
  /\ sess' = [sess EXCEPT ![s].refs = @ + 1]
  /\ th' = [th EXCEPT ![t].pc = pc, ![t].cur = s, ![t].then = then]

\* rtsp_client_session_find.
Find(t) ==
  LET s == th[t].sid
  IN /\ th[t].pc = "find"
     /\ IF client.killed \/ s \notin client.list
        THEN Goto(t, "finish") /\ sess' = sess
        ELSE CASE th[t].method = "SETUP" -> Hold(t, s, "setup", "finish")
               [] th[t].method = "PLAY" -> Hold(t, s, "play_timer", "finish")
               [] th[t].method = "PAUSE" -> Hold(t, s, "pause", "finish")
               [] OTHER -> Hold(t, s, "remove", "finish")
     /\ UNCHANGED <<client, rtp, pool, requests>>

\* rtsp_client_find_dead_session, in the loop of rtsp_client_remove_dead_session.
FindDead(t) ==
  LET dead == {s \in client.list : sess[s].session_timer = "expired"}
  IN /\ th[t].pc = "dead"
     /\ IF client.killed \/ dead = {}
        THEN Goto(t, IF th[t].method = "SETUP" THEN "create" ELSE "finish") /\ sess' = sess
        ELSE \E s \in dead : Hold(t, s, "remove", "dead")
     /\ UNCHANGED <<client, rtp, pool, requests>>

\* A mutant: the reference of the list is dropped though another thread took the session off it.
RemoveTwice(t) ==
  LET s == th[t].cur
  IN /\ th[t].pc = "remove"
     /\ IF client.killed
        THEN UNCHANGED <<client, sess>>
        ELSE UnrefSession(s, [client EXCEPT !.list = @ \ {s}])
     /\ Goto(t, "kill")
     /\ UNCHANGED <<rtp, pool, requests>>

\* rtsp_client_session_remove; the session is killed next.
Remove(t) ==
  LET s == th[t].cur
  IN /\ th[t].pc = "remove"
     /\ IF client.killed \/ s \notin client.list
        THEN UNCHANGED <<client, sess>>
        ELSE UnrefSession(s, [client EXCEPT !.list = @ \ {s}])
     /\ Goto(t, "kill")
     /\ UNCHANGED <<rtp, pool, requests>>

--------------------------------------------------------------------------------
(* SETUP.                                                                   *)

\* rtsp_transport_ror: the data will go through the client's own connection.
Interleaved(t) ==
  /\ th[t].pc = "transport"
  /\ client' = ClientRefs(client, 1)
  /\ th' = [th EXCEPT ![t].pc = IF th[t].sid = NoSession THEN "dead" ELSE "find",
                      ![t].transport = [mode |-> "interleaved", low |-> NoPort], ![t].tries = 0]
  /\ UNCHANGED <<sess, rtp, pool, requests>>

\* What the variable on the stack may hold: the pair of an earlier try or ports of no pair.
Leftovers(t) == IF th[t].transport.low # NoPort THEN {th[t].transport.low}
                ELSE {p \in LowPort - 2 .. HighPort : Even(p)}

\* rtsp_transport_unicast: get_port_pair reports success whether or not the allocator had a pair;
\* the sockets are bound to the ports, or the pair is given back and another one tried.
TakePorts(t) ==
  LET got == GetPair(pool)
  IN /\ th[t].pc = "transport" /\ th[t].tries > 0
     /\ \E low \in IF got.low # NoPort THEN {got.low} ELSE Leftovers(t) :
          \/ /\ pool' = got.pool
             /\ th' = [th EXCEPT ![t].pc = IF th[t].sid = NoSession THEN "dead" ELSE "find",
                                 ![t].transport = [mode |-> "udp", low |-> low], ![t].tries = 0]
          \/ /\ pool' = PutPair(got.pool, low, low + 1)
             /\ th' = [th EXCEPT ![t].transport.low = low, ![t].tries = @ - 1]
     /\ UNCHANGED <<client, sess, rtp, requests>>

\* The ports were tried too often.
NoTransportLeft(t) ==
  /\ th[t].pc = "transport" /\ th[t].tries = 0
  /\ th' = [th EXCEPT ![t].pc = "finish", ![t].transport = NoTransport]
  /\ UNCHANGED <<client, sess, rtp, pool, requests>>

\* __rtsp_client_session_new: the test for a killed client looks at the mutex instead.
Create(t) ==
  /\ th[t].pc = "create"
  /\ \E s \in Sessions :
       /\ sess[s].stage = "unused"
       /\ sess' = [sess EXCEPT ![s].stage = "live", ![s].refs = 2, ![s].session_timer = "armed"]
       /\ client' = [ClientRefs(client, 1) EXCEPT !.list = @ \cup {s}]
       /\ th' = [th EXCEPT ![t].pc = "setup", ![t].cur = s, ![t].then = "finish"]
  /\ UNCHANGED <<rtp, pool, requests>>

\* A mutant: the transport stays with the request as well.
SetupKeepsTransport(t) ==
  LET s == th[t].cur
  IN /\ th[t].pc = "setup"
     /\ \/ /\ Goto(t, "unref")
           /\ UNCHANGED <<sess, rtp>>
        \/ /\ ~ sess[s].killed
           /\ \E r \in Rtps :
                /\ rtp[r].stage = "unused"
                /\ rtp' = [rtp EXCEPT ![r] = [UnusedRtp EXCEPT !.stage = "listed", !.refs = 1,
                                                !.owner = s, !.transport = th[t].transport]]
           /\ sess' = [sess EXCEPT ![s].refs = @ + 1, ![s].told = TRUE,
                         ![s].cur_state = IF @ = "INIT" THEN "READY" ELSE @]
           /\ th' = [th EXCEPT ![t].pc = "unref"]
     /\ UNCHANGED <<client, pool, requests>>

\* rtsp_handle_setup_request under the session's mutex: the session was killed, the track is
\* not found, or an RTP session takes the transport over.
Setup(t) ==
  LET s == th[t].cur
  IN /\ th[t].pc = "setup"
     /\ \/ /\ Goto(t, "unref")
           /\ UNCHANGED <<sess, rtp>>
        \/ /\ ~ sess[s].killed
           /\ \E r \in Rtps :
                /\ rtp[r].stage = "unused"
                /\ rtp' = [rtp EXCEPT ![r] = [UnusedRtp EXCEPT !.stage = "listed", !.refs = 1,
                                                !.owner = s, !.transport = th[t].transport]]
           /\ sess' = [sess EXCEPT ![s].refs = @ + 1, ![s].told = TRUE,
                         ![s].cur_state = IF @ = "INIT" THEN "READY" ELSE @]
           /\ th' = [th EXCEPT ![t].pc = "unref", ![t].transport = NoTransport]
     /\ UNCHANGED <<client, pool, requests>>

--------------------------------------------------------------------------------
(* PLAY, PAUSE, TEARDOWN and OPTIONS.                                       *)

\* rtsp_handle_play_request stops the timer before it has the session's mutex.
PlayTimer(t) ==
  /\ th[t].pc = "play_timer"
  /\ sess' = [sess EXCEPT ![th[t].cur].session_timer = "off"]
  /\ Goto(t, "play")
  /\ UNCHANGED <<client, rtp, pool, requests>>

\* rtp_session_resume gives the RTP session a writer.
Resumed(x) == IF x.playing THEN x ELSE [x EXCEPT !.playing = TRUE, !.refs = @ + 1]

\* The session was killed, the range or the position is refused, or the streams are resumed.
Play(t) ==
  LET s == th[t].cur
  IN /\ th[t].pc = "play"
     /\ \/ UNCHANGED <<sess, rtp>>
        \/ /\ ~ sess[s].killed
           /\ sess' = [sess EXCEPT ![s].cur_state = "PLAYING"]
           /\ rtp' = [r \in Rtps |-> IF r \in Listed(s) THEN Resumed(rtp[r]) ELSE rtp[r]]
     /\ Goto(t, "unref")
     /\ UNCHANGED <<client, pool, requests>>

Pause(t) ==
  LET s == th[t].cur
  IN /\ th[t].pc = "pause"
     /\ IF ~ sess[s].killed /\ sess[s].cur_state = "PLAYING"
        THEN /\ sess' = [sess EXCEPT ![s].cur_state = "READY"]
             /\ rtp' = [r \in Rtps |-> IF r \in Listed(s) THEN Paused(rtp[r]) ELSE rtp[r]]
        ELSE UNCHANGED <<sess, rtp>>
     /\ Goto(t, "unref")
     /\ UNCHANGED <<client, pool, requests>>

\* The request is done: the session is unreferenced, a transport that no RTP session took over
\* is closed (rtsp_reset_parsed_transport) and the task drops the client.
Finish(t) ==
  /\ \/ th[t].pc = "finish" /\ client' = ClientRefs(ClientAfterClose(th[t].transport), -1)
                           /\ sess' = sess
     \/ th[t].pc = "unref" /\ th[t].then = "finish"
          /\ UnrefSession(th[t].cur, ClientRefs(ClientAfterClose(th[t].transport), -1))
  /\ pool' = PortsAfterClose(th[t].transport)
  /\ th' = [th EXCEPT ![t] = Idle]
  /\ UNCHANGED <<rtp, requests>>

--------------------------------------------------------------------------------
Handle(t) ==
  \/ Find(t) \/ FindDead(t) \/ Remove(t)
  \/ Interleaved(t) \/ TakePorts(t) \/ NoTransportLeft(t) \/ Create(t) \/ Setup(t)
  \/ PlayTimer(t) \/ Play(t) \/ Pause(t) \/ Finish(t)

EndSession(t) == KillMark(t) \/ KillRtps(t) \/ KillRtp(t) \/ Unref(t)

\* The connection has ended and every thread is done.
Over ==
  /\ th[Loop].pc = "gone" /\ \A h \in Handlers : th[h].pc = "idle"
  /\ \A r \in Rtps : rtp[r].leaving = 0

Next ==
  \/ \E h \in Handlers, m \in Methods, s \in Sessions \cup {NoSession} : Receive(h, m, s)
  \/ PeerGone \/ KillSessions \/ Orphan \/ Leave
  \/ \E r \in Rtps : WriterDestroyed(r)
  \/ \E s \in Sessions : TimePasses(s)
  \/ \E t \in Handlers : Handle(t)
  \/ \E t \in Threads : EndSession(t)
  \/ Over /\ UNCHANGED vars

Spec == Init /\ [][Next]_vars

--------------------------------------------------------------------------------
(* Properties.                                                              *)

Ports == LowPort - 2 .. HighPort + 1
Transports == [mode : {"none", "udp", "interleaved"}, low : Ports \cup {NoPort}]

TypeOK ==
  /\ client \in [refs : Nat, killed : BOOLEAN, list : SUBSET Sessions, conns : BOOLEAN,
                  in_loop : BOOLEAN, freed : BOOLEAN]
  /\ sess \in [Sessions -> [stage : {"unused", "live", "freed"}, refs : Nat, killed : BOOLEAN,
                             cur_state : {"INIT", "READY", "PLAYING"},
                             session_timer : {"off", "armed", "expired"}, told : BOOLEAN]]
  /\ rtp \in [Rtps -> [stage : {"unused", "listed", "unlisted", "freed"}, refs : Nat,
                        owner : Sessions \cup {NoSession}, transport : Transports,
                        playing : BOOLEAN, leaving : Nat]]
  /\ \A t \in Threads : /\ th[t].cur \in Sessions \cup {NoSession}
                         /\ th[t].rtp \in Rtps \cup {NoRtp}
                         /\ th[t].transport \in Transports
  /\ requests \in 0 .. MaxRequests

One(b) == IF b THEN 1 ELSE 0

LiveRtps == {r \in Rtps : rtp[r].stage \in {"listed", "unlisted"}}
Interleaves(x) == x.transport.mode = "interleaved"

ClientHolders ==
  One(client.conns) + One(client.in_loop)
    + Cardinality({s \in Sessions : sess[s].stage = "live"})
    + Cardinality({t \in Handlers : th[t].pc # "idle"})
    + Cardinality({r \in LiveRtps : Interleaves(rtp[r])})
    + Cardinality({t \in Handlers : Interleaves(th[t])})

SessionHolders(s) ==
  One(s \in client.list) + Cardinality({t \in Threads : th[t].cur = s})
    + Cardinality({r \in LiveRtps : rtp[r].owner = s})

RtpHolders(r) == One(rtp[r].stage = "listed") + Cardinality({t \in Threads : th[t].rtp = r})
                   + One(rtp[r].playing) + rtp[r].leaving

\* However requests, the end of the connection, dead sessions and leaving writers interleave,
\* every reference count is the number of those who hold the object, nothing in anyone's hands
\* is freed, and what the finalizers assert holds: a client that is freed has no sessions and
\* a session that is freed no RTP sessions.
RefsExact ==
  /\ TypeOK
  /\ client.refs = ClientHolders /\ (client.freed <=> client.refs = 0)
  /\ \A s \in Sessions : sess[s].stage = "live" => sess[s].refs = SessionHolders(s)
  /\ \A s \in Sessions : sess[s].stage = "freed" => SessionHolders(s) = 0
  /\ \A r \in LiveRtps : rtp[r].refs = RtpHolders(r) /\ rtp[r].refs > 0
  /\ client.freed => client.list = {}

\* The transports that are open, by who has them.
Open ==
  [x \in {r \in LiveRtps : rtp[r].transport.mode = "udp"}
           \cup {t \in Handlers : th[t].transport.mode = "udp"} |->
     IF x \in Rtps THEN rtp[x].transport.low ELSE th[x].transport.low]

\* Each pair of ports that is taken belongs to exactly one transport, of a SETUP under way or of
\* an RTP session: none is lost by a path that fails, and none is given back twice or while it
\* is in use.
PortsOwned ==
  /\ Counted(pool)
  /\ pool.used = 2 * Cardinality(DOMAIN Open)
  /\ \A x \in DOMAIN Open : {Open[x], Open[x] + 1} \subseteq pool.set
  /\ \A x, y \in DOMAIN Open : Open[x] = Open[y] => x = y

\* In whatever state the sessions leave the allocator, its search finds a pair of an even port
\* and its successor exactly when there is one, and leaves everything else as it was.
PairFound == SearchSound(pool)

\* An assertion of jpf_bitmap_reset and __jpf_ports_put_one (ports.c:118-126, 282-290): a port that is
\* given back is in range and taken.
PutOnce == ~ pool.bug

\* When the connection has ended and every thread is done, which the run shows always comes
\* about (nothing else is a deadlock), each session that was killed, by TEARDOWN, as a dead one
\* or with its client, is freed with its RTP sessions and their ports, and so is the client,
\* unless a SETUP made a session after the loop had gone through the list: that session is
\* never killed and keeps the client.
NothingLeft ==
  Over => LET late == {s \in client.list : ~ sess[s].killed}
          IN /\ \A s \in Sessions \ late : sess[s].stage # "live"
             /\ \A r \in LiveRtps : rtp[r].owner \in late
             /\ client.list = late
             /\ client.freed <=> late = {}
===============================================================================
