------------------------------ MODULE RtspClient ------------------------------
(***************************************************************************)
(* The sessions of the RTSP client (rtsp_client.c, rtsp/*.c, media.c).  A   *)
(* user creates a session, opens it, asks to play and closes it; the timer  *)
(* and the watch of the session are called by event loops, one reply moves  *)
(* the set-up on by one request; rtsp_client_fin kills what is left.  A     *)
(* step is a region under the mutex of a session or of the list.            *)
(***************************************************************************)
EXTENDS Integers, Sequences, FiniteSets

CONSTANTS Session,    \* the sessions that may be created
          MaxTracks,  \* the streams of a medium
          MaxSeq,     \* no keep-alive is sent after so many requests
          MaxPlays,   \* a bound on the calls of rtsp_client_play_session
          MaxData     \* a bound on the packets that reach the user

None == "none"

ASSUME RtspClientAssumption ==
  /\ None \notin Session
  /\ {MaxTracks, MaxSeq, MaxPlays, MaxData} \subseteq Nat

VARIABLES client_single, \* the client exists
          list,          \* its sessions
          ses,           \* each session
          user,          \* where the thread that owns a session is
          fin,           \* where rtsp_client_fin is, and with which session
          crashed        \* NULL was dereferenced: the process has ended

vars == <<client_single, list, ses, user, fin, crashed>>

NoRequest == [seq |-> 0, method |-> None]

\* stalled and late tell what happened: the set-up will not go on, the user was
\* called after the end.
New == [refs |-> 0, killed |-> FALSE, url |-> FALSE, tcp |-> TRUE,
        rtsp_sock |-> None, ev_timer |-> None, rtsp_watch |-> None,
        state |-> "INIT", ntrack |-> 0, request_itrack |-> 0, rtp |-> << >>,
        session_id |-> None, play_pending |-> FALSE, rtsp_seq |-> 0, wait_for |-> NoRequest,
        out |-> << >>, in |-> << >>,
        asked |-> 0, played |-> 0, accepted |-> 0, got |-> 0,
        stalled |-> FALSE, late |-> FALSE]

Init ==
  /\ client_single = TRUE
  /\ list = {}
  /\ ses = [s \in Session |-> New]
  /\ user = [s \in Session |-> "none"]
  /\ fin = [at |-> "off", on |-> None]
  /\ crashed = FALSE

\* What every step but a dereference of NULL does.
Runs == ~ crashed /\ UNCHANGED crashed

-----------------------------------------------------------------------------
(* References.  The socket is closed with the watch once the watch has it.  *)

rtsp_client_session_unref(x, n) ==
  [x EXCEPT !.refs = @ - n,
            !.rtsp_sock = IF x.refs = n /\ @ = "session" THEN "closed" ELSE @]

Freed(x) == x.refs = 0

\* rtp_session_unref: the last reference gives back that on the session.
rtp_session_unref(x, k) ==
  LET y == [x EXCEPT !.rtp[k].refs = @ - 1]
  IN IF y.rtp[k].refs = 0 THEN rtsp_client_session_unref(y, 1) ELSE y

-----------------------------------------------------------------------------
(* Requests.  Each operator gives the states that it may leave the session  *)
(* in, since the watch may refuse a message.                                *)

\* The request that the next reply is compared with is the last one that was sent.
send_message(x, method, awaited) ==
  LET n == x.rtsp_seq + 1
  IN {[x EXCEPT !.rtsp_seq = n, !.wait_for = [seq |-> n, method |-> awaited],
                !.out = Append(@, [seq |-> n, method |-> method])],
      [x EXCEPT !.rtsp_seq = n, !.stalled = @ \/ method # "OPTIONS"]}

rtsp_session_describe(x) == send_message(x, "DESCRIBE", "DESCRIBE")

\* What PLAY waits for is a reply to SETUP; when it comes the session is READY
\* and looks at no reply.
rtsp_session_play(x) ==
  {[y EXCEPT !.played = IF y.wait_for = x.wait_for THEN @ ELSE @ + 1]
     : y \in send_message(x, "PLAY", "SETUP")}

\* A keep-alive takes the place of the request whose reply the set-up waits for.
rtsp_session_options(x) ==
  {[y EXCEPT !.stalled = @ \/ (x.state = "INIT" /\ y.wait_for # x.wait_for)]
     : y \in send_message(x, "OPTIONS", "OPTIONS")}

\* An RTP session over TCP has two channels of the connection; over UDP it has
\* two sockets, whose events refer to it, and may find none.
rtsp_media_create_rtp_session(x) ==
  [x EXCEPT !.rtp = Append(@, [refs |-> IF x.tcp THEN 1 ELSE 3, channel |-> 2 * Len(x.rtp)]),
            !.refs = @ + 1]

rtsp_session_setup(x) ==
  LET y == [x EXCEPT !.request_itrack = @ + 1]
  IN send_message(rtsp_media_create_rtp_session(y), "SETUP", "SETUP")
     \cup (IF x.tcp THEN {} ELSE {[y EXCEPT !.stalled = TRUE]})

-----------------------------------------------------------------------------
(* Messages of the server.                                                  *)

Stalled(x) == {[x EXCEPT !.stalled = TRUE]}

describe_response(x, m) ==
  IF x.ntrack # 0 THEN {x}
  ELSE IF m.ntrack = 0 THEN Stalled(x)
  ELSE rtsp_session_setup([x EXCEPT !.ntrack = m.ntrack])

\* A mutant: the last track is not asked for.
setup_response_early(x, m) ==
  IF m.session = None \/ x.session_id \notin {None, m.session} THEN Stalled(x)
  ELSE LET y == [x EXCEPT !.session_id = m.session, !.accepted = @ + 1]
           ready == [y EXCEPT !.state = "READY"]
       IN IF y.request_itrack + 1 < y.ntrack THEN rtsp_session_setup(y)
          ELSE IF y.play_pending THEN rtsp_session_play(ready) ELSE {ready}

\* The session of the first reply stays that of the others.
setup_response(x, m) ==
  IF m.session = None \/ x.session_id \notin {None, m.session} THEN Stalled(x)
  ELSE LET y == [x EXCEPT !.session_id = m.session, !.accepted = @ + 1]
           ready == [y EXCEPT !.state = "READY"]
       IN IF y.request_itrack < y.ntrack THEN rtsp_session_setup(y)
          ELSE IF y.play_pending THEN rtsp_session_play(ready) ELSE {ready}

rtsp_session_state_init(x, method, m) ==
  CASE method = "DESCRIBE" -> describe_response(x, m)
    [] method = "SETUP"    -> setup_response(x, m)
    [] OTHER               -> {x}

\* A packet goes to the RTP session of its channel and from there to the user.
interleaved_rcv(x, m) ==
  IF \E k \in DOMAIN x.rtp : x.rtp[k].channel = m.channel THEN [x EXCEPT !.got = @ + 1] ELSE x

rtsp_session_handle_rtsp_message(x, m) ==
  IF m.type = "data" THEN (IF x.state = "READY" THEN {interleaved_rcv(x, m)} ELSE {x})
  ELSE IF ~ m.ok THEN (IF m.seq = x.wait_for.seq /\ x.state = "INIT" THEN Stalled(x) ELSE {x})
  ELSE IF m.seq # x.wait_for.seq THEN {x}
  ELSE IF x.state = "INIT" THEN rtsp_session_state_init(x, x.wait_for.method, m) ELSE {x}

Becomes(s, results) == \E y \in results : ses' = [ses EXCEPT ![s] = y]
Called(s, was, y) == [y EXCEPT !.late = @ \/ (y.got > was.got /\ user[s] = "closed")]

rtsp_server_message_received(s) ==
  LET x == [ses[s] EXCEPT !.in = Tail(@)]
  IN /\ Runs
     /\ ses[s].rtsp_watch \in {"attached", "deleted"}
     /\ ses[s].in # << >>
     /\ Becomes(s, IF x.killed THEN {x}
                   ELSE {Called(s, x, y) : y \in rtsp_session_handle_rtsp_message(x, Head(ses[s].in))})
     /\ UNCHANGED <<client_single, list, user, fin>>

\* The server answers the requests in their order, as it likes: with an error,
\* with a medium of so many tracks, with or without the name of a session, or
\* with another name.  That it refuses OPTIONS or PLAY would change nothing.
Refusal(request) ==
  [type |-> "reply", seq |-> request.seq, ok |-> FALSE, ntrack |-> 0, session |-> None]
Answers(request, session_id) ==
  (IF request.method \in {"DESCRIBE", "SETUP"} THEN {Refusal(request)} ELSE {})
  \cup [type : {"reply"}, seq : {request.seq}, ok : {TRUE},
        ntrack : IF request.method = "DESCRIBE" THEN 0..MaxTracks ELSE {0},
        session : IF request.method = "SETUP" THEN {None, "a"} \cup (IF session_id = None THEN {} ELSE {"b"})
                  ELSE {None}]

ServerAnswers(s) ==
  /\ Runs
  /\ ses[s].out # << >>
  /\ \E m \in Answers(Head(ses[s].out), ses[s].session_id) :
       ses' = [ses EXCEPT ![s].out = Tail(@), ![s].in = Append(@, m)]
  /\ UNCHANGED <<client_single, list, user, fin>>

\* Packets on the channels of the session, and on one that it did not ask for.
ServerSends(s) ==
  /\ Runs
  /\ ses[s].tcp /\ ses[s].accepted > 0 /\ ~ ses[s].killed
  /\ ses[s].got < MaxData
  /\ \A i \in DOMAIN ses[s].in : ses[s].in[i].type # "data"
  /\ \E c \in {0, 1} : ses' = [ses EXCEPT ![s].in = Append(@, [type |-> "data", channel |-> c])]
  /\ UNCHANGED <<client_single, list, user, fin>>

\* rtp_recv_packets, over UDP.
rtp_packet_incoming_cb(s) ==
  /\ Runs
  /\ ~ ses[s].tcp /\ \E k \in DOMAIN ses[s].rtp : ses[s].rtp[k].refs > 0
  /\ ~ ses[s].killed
  /\ ses[s].got < MaxData
  /\ Becomes(s, {Called(s, ses[s], [ses[s] EXCEPT !.got = @ + 1])})
  /\ UNCHANGED <<client_single, list, user, fin>>

-----------------------------------------------------------------------------
(* The timer of a session: first it waits for the connection, then it ticks. *)

\* gst_rtsp_watch_new_2, _attach_2 and the first request.
connected(x) ==
  rtsp_session_describe([x EXCEPT !.rtsp_watch = "attached", !.rtsp_sock = "watch",
                                  !.refs = @ + 1, !.ev_timer = "ticks"])

\* The callback returns FALSE: the loop lets go of the timer, the session does not.
rtsp_conn_failed(x) == {[x EXCEPT !.ev_timer = "returned", !.stalled = TRUE]}

rtsp_session_on_timer(s) ==
  LET x == ses[s]
  IN /\ Runs
     /\ x.ev_timer \in {"connects", "ticks"}
     /\ ~ x.killed
     /\ x.rtsp_watch = None \/ x.rtsp_seq < MaxSeq
     /\ Becomes(s, IF x.rtsp_watch = None THEN connected(x) \cup rtsp_conn_failed(x)
                                          ELSE rtsp_session_options(x))
     /\ UNCHANGED <<client_single, list, user, fin>>

\* The loop lets go of an event that was deleted from the scheduler; the event lets go of
\* the session.
TimerFinalized(s) ==
  /\ Runs
  /\ ses[s].ev_timer = "deleted"
  /\ ses' = [ses EXCEPT ![s] = rtsp_client_session_unref([@ EXCEPT !.ev_timer = "gone"], 1)]
  /\ UNCHANGED <<client_single, list, user, fin>>

WatchFinalized(s) ==
  /\ Runs
  /\ ses[s].rtsp_watch = "deleted"
  /\ ses' = [ses EXCEPT ![s] =
               rtsp_client_session_unref([@ EXCEPT !.rtsp_watch = "gone",
                                                   !.rtsp_sock = "closed"], 1)]
  /\ UNCHANGED <<client_single, list, user, fin>>

RtpEventFinalized(s) ==
  /\ Runs
  /\ ses[s].killed
  /\ \E k \in DOMAIN ses[s].rtp :
       /\ ses[s].rtp[k].refs > 0
       /\ ses' = [ses EXCEPT ![s] = rtp_session_unref(@, k)]
  /\ UNCHANGED <<client_single, list, user, fin>>

-----------------------------------------------------------------------------
(* The calls of the user.                                                   *)

\* client_single is tested, read again for the argument of the next call, and its list
\* is used: three steps, and rtsp_client_fin may clear it before the second.
Tests(s, tested) == user' = [user EXCEPT ![s] = IF client_single THEN tested ELSE "refused"]

ReadsAgain(s, at, goes) ==
  /\ ~ crashed
  /\ user[s] = at
  /\ crashed' = ~ client_single
  /\ user' = IF client_single THEN [user EXCEPT ![s] = goes] ELSE user
  /\ UNCHANGED <<client_single, list, ses, fin>>

rtsp_client_create_session(s) ==
  /\ Runs
  /\ user[s] = "none"
  /\ Tests(s, "creates")
  /\ ses' = IF client_single THEN [ses EXCEPT ![s].refs = 1] ELSE ses
  /\ UNCHANGED <<client_single, list, fin>>

CreateReads(s) == ReadsAgain(s, "creates", "adds")

\* The client is not freed: its list is there even when client_single was cleared since.
rtsp_client_add_session(s) ==
  /\ Runs
  /\ user[s] = "adds"
  /\ user' = [user EXCEPT ![s] = "has"]
  /\ list' = list \cup {s}
  /\ UNCHANGED <<client_single, ses, fin>>

\* rtsp_client_fin leaves the user nothing but to close its session.
MayUse(s) == user[s] = "has" /\ fin.at = "off"

\* Connecting fails, is done at once or goes on.
rtsp_client_open_session(s) ==
  /\ Runs
  /\ MayUse(s)
  /\ ~ ses[s].url
  /\ \E tcp \in BOOLEAN :
       LET x == [ses[s] EXCEPT !.url = TRUE, !.tcp = tcp]
           waits == [x EXCEPT !.rtsp_sock = "session", !.ev_timer = "connects",
                              !.refs = @ + 1]
       IN Becomes(s, {[x EXCEPT !.rtsp_sock = "session", !.stalled = TRUE], waits}
                     \cup connected(waits))
  /\ UNCHANGED <<client_single, list, user, fin>>

rtsp_client_play_session(s) ==
  LET x == [ses[s] EXCEPT !.asked = @ + 1]
  IN /\ Runs
     /\ MayUse(s)
     /\ x.asked <= MaxPlays
     /\ Becomes(s, IF x.state = "READY" THEN rtsp_session_play(x)
                                        ELSE {[x EXCEPT !.play_pending = TRUE]})
     /\ UNCHANGED <<client_single, list, user, fin>>

\* A mutant: the timer that returned is forgotten.
kill_without_timer(x) ==
  IF x.killed THEN x
  ELSE LET gone == {k \in DOMAIN x.rtp : x.rtp[k].refs = 1}
           timer == IF x.ev_timer \in {"connects", "ticks"} THEN "deleted" ELSE x.ev_timer
           watch == IF x.rtsp_watch = "attached" THEN "deleted" ELSE x.rtsp_watch
           rtp == [k \in DOMAIN x.rtp |-> [x.rtp[k] EXCEPT !.refs = @ - 1]]
       IN [x EXCEPT !.killed = TRUE, !.ntrack = 0, !.out = << >>, !.ev_timer = timer,
                    !.rtsp_watch = watch, !.rtp = rtp, !.refs = x.refs - Cardinality(gone)]

\* Events are deleted from the scheduler and go later, by their loops, also a timer that
\* returned; the RTP sessions go with the medium, unless their events refer to them.
\* What the server would still answer is not heard.
rtsp_session_kill(x) ==
  IF x.killed THEN x
  ELSE LET gone == {k \in DOMAIN x.rtp : x.rtp[k].refs = 1}
           timer == IF x.ev_timer = None THEN None ELSE "deleted"
           watch == IF x.rtsp_watch = "attached" THEN "deleted" ELSE x.rtsp_watch
           rtp == [k \in DOMAIN x.rtp |-> [x.rtp[k] EXCEPT !.refs = @ - 1]]
       IN [x EXCEPT !.killed = TRUE, !.ntrack = 0, !.out = << >>, !.ev_timer = timer,
                    !.rtsp_watch = watch, !.rtp = rtp, !.refs = x.refs - Cardinality(gone)]

rtsp_client_close_session(s) ==
  /\ Runs
  /\ user[s] = "has"
  /\ Tests(s, "closes")
  /\ UNCHANGED <<client_single, list, ses, fin>>

CloseReads(s) == ReadsAgain(s, "closes", "finds")

\* A mutant: a session that fin took off the list is killed once more.
del_session_anyway(s) ==
  /\ Runs
  /\ user[s] = "finds"
  /\ user' = [user EXCEPT ![s] = "kills"]
  /\ list' = list \ {s}
  /\ UNCHANGED <<client_single, ses, fin>>

\* Who takes the session off the list kills it.
rtsp_client_del_session(s) ==
  /\ Runs
  /\ user[s] = "finds"
  /\ user' = [user EXCEPT ![s] = IF s \in list THEN "kills" ELSE "refused"]
  /\ list' = list \ {s}
  /\ UNCHANGED <<client_single, ses, fin>>

\* rtsp_session_kill_sync: the kill, then the reference of the user.
CloseKills(s) ==
  /\ Runs
  /\ user[s] = "kills"
  /\ user' = [user EXCEPT ![s] = "unrefs"]
  /\ ses' = [ses EXCEPT ![s] = rtsp_session_kill(@)]
  /\ UNCHANGED <<client_single, list, fin>>

CloseUnrefs(s) ==
  /\ Runs
  /\ user[s] = "unrefs"
  /\ user' = [user EXCEPT ![s] = "closed"]
  /\ ses' = [ses EXCEPT ![s] = rtsp_client_session_unref(@, 1)]
  /\ UNCHANGED <<client_single, list, fin>>

\* rtsp_client_fin: the lock of the list is given up for each kill.
rtsp_client_fin ==
  /\ Runs
  /\ fin.at = "off"
  /\ fin' = [fin EXCEPT !.at = "takes"]
  /\ UNCHANGED <<client_single, list, ses, user>>

FinTakes ==
  /\ Runs
  /\ fin.at = "takes"
  /\ IF list = {} THEN fin' = [fin EXCEPT !.at = "clears"] /\ UNCHANGED list
     ELSE \E s \in list : fin' = [at |-> "kills", on |-> s] /\ list' = list \ {s}
  /\ UNCHANGED <<client_single, ses, user>>

FinKills ==
  /\ Runs
  /\ fin.at = "kills"
  /\ fin' = [fin EXCEPT !.at = "unrefs"]
  /\ ses' = [ses EXCEPT ![fin.on] = rtsp_session_kill(@)]
  /\ UNCHANGED <<client_single, list, user>>

FinUnrefs ==
  /\ Runs
  /\ fin.at = "unrefs"
  /\ fin' = [at |-> "takes", on |-> None]
  /\ ses' = [ses EXCEPT ![fin.on] = rtsp_client_session_unref(@, 1)]
  /\ UNCHANGED <<client_single, list, user>>

FinClears ==
  /\ Runs
  /\ fin.at = "clears"
  /\ fin' = [fin EXCEPT !.at = "over"]
  /\ client_single' = FALSE
  /\ UNCHANGED <<list, ses, user>>

-----------------------------------------------------------------------------
UserCloses(s) ==
  \/ CreateReads(s)
  \/ rtsp_client_add_session(s)
  \/ CloseReads(s)
  \/ rtsp_client_del_session(s)
  \/ CloseKills(s)
  \/ CloseUnrefs(s)

UserCalls(s) ==
  \/ rtsp_client_create_session(s)
  \/ rtsp_client_open_session(s)
  \/ rtsp_client_play_session(s)
  \/ rtsp_client_close_session(s)

LoopFinalizes(s) ==
  \/ TimerFinalized(s)
  \/ WatchFinalized(s)
  \/ RtpEventFinalized(s)

FinStep == FinTakes \/ FinKills \/ FinUnrefs \/ FinClears

Next ==
  \/ \E s \in Session :
       \/ UserCalls(s) \/ UserCloses(s)
       \/ rtsp_session_on_timer(s) \/ rtsp_server_message_received(s)
       \/ rtp_packet_incoming_cb(s) \/ LoopFinalizes(s)
       \/ ServerAnswers(s) \/ ServerSends(s)
  \/ rtsp_client_fin
  \/ FinStep

Spec == Init /\ [][Next]_vars

\* Threads go on with a call that they began, loops call what is ready and let go
\* of what was deleted; the server answers.
FairSpec ==
  /\ Spec
  /\ \A s \in Session : /\ WF_vars(UserCloses(s))
                        /\ WF_vars(rtsp_session_on_timer(s))
                        /\ WF_vars(rtsp_server_message_received(s))
                        /\ WF_vars(TimerFinalized(s))
                        /\ WF_vars(WatchFinalized(s))
                        /\ WF_vars(RtpEventFinalized(s))
                        /\ WF_vars(ServerAnswers(s))
  /\ WF_vars(FinStep)

-----------------------------------------------------------------------------
\* Who refers to a session: its owner, until it or rtsp_client_fin gives it up, its
\* timer, its watch and its RTP sessions.
Owned(s) ==
  /\ user[s] \notin {"none", "closed"}
  /\ \/ s \in list \/ user[s] \in {"creates", "adds", "kills", "unrefs"}
     \/ fin.on = s
Holders(s) ==
  LET x == ses[s]
  IN (IF Owned(s) THEN 1 ELSE 0)
     + (IF x.ev_timer \in {"connects", "ticks", "returned", "deleted"} THEN 1 ELSE 0)
     + (IF x.rtsp_watch \in {"attached", "deleted"} THEN 1 ELSE 0)
     + Cardinality({k \in DOMAIN x.rtp : x.rtp[k].refs > 0})

\* A session is referenced as often as somebody holds it, so that nobody uses it when it
\* is freed; its socket is closed with it or with its watch and not before it was killed;
\* close and fin never take the same session; after a close that succeeded the user is
\* not called.
SessionsOwned ==
  \A s \in Session :
    LET x == ses[s]
    IN /\ x.refs = Holders(s)
       /\ x.refs = 0 => x.rtsp_sock \in {None, "closed"}
       /\ x.rtsp_sock = "closed" => x.killed
       /\ fin.on = s => user[s] \notin {"kills", "unrefs", "closed"}
       /\ ~ x.late

\* The set-up, driven by replies while a timer sends requests of its own, goes through
\* DESCRIBE and one SETUP for each track, whose RTP sessions have channels of their own, and
\* sends PLAY when every track was accepted, as often as the user asked at most, and
\* does not lose a PLAY that was asked for before.
SetUpInOrder ==
  \A s \in Session :
    LET x == ses[s]
    IN /\ x.accepted <= x.request_itrack /\ x.request_itrack <= x.accepted + 1
       /\ \A j, k \in DOMAIN x.rtp : x.rtp[j].channel = x.rtp[k].channel => j = k
       /\ x.state = "READY" /\ ~ x.killed => x.accepted = x.ntrack
       /\ x.played > 0 => x.state = "READY"
       /\ x.played <= x.asked
       /\ x.state = "READY" /\ x.asked > 0 /\ ~ x.stalled => x.played > 0

\* A session that was opened gets ready unless the server or the network refuses
\* something, or a keep-alive is sent while the set-up waits; one that was killed is freed
\* at last, and after rtsp_client_fin every session is, but one whose user read client_single
\* before it was cleared and links its session when fin has gone through the list: that
\* one is left over.  A user whose second read finds it cleared ends the process.
EndsAtLast ==
  \A s \in Session :
    /\ ses[s].ev_timer # None ~>
         (ses[s].state = "READY" \/ ses[s].stalled \/ ses[s].killed \/ crashed)
    /\ ses[s].killed ~> (Freed(ses[s]) \/ crashed)
    /\ fin.at = "over" ~> [](Freed(ses[s]) \/ s \in list \/ user[s] = "adds" \/ crashed)
=============================================================================
