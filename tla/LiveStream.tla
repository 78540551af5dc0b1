------------------------------- MODULE LiveStream -------------------------------
(***************************************************************************)
(* A live stream that is sent to a client through its RTSP connection:     *)
(* the RTP session with its writer (rtp/rtp.c), the descriptors a producer *)
(* wakes (utils/fdset.c) and the output of the connection (rtsp/rtsp.c,    *)
(* module OutputQueue).                                                    *)
(*                                                                         *)
(* Threads.  The producer puts packets and then calls the descriptors of   *)
(* the set.  Handler threads run PLAY, PAUSE and TEARDOWN one at a time,   *)
(* under the mutex of the session, and answer through the output.  The     *)
(* event loop runs the writer, which is woken by the pipe or its timer,    *)
(* and the write callback of the connection.  Each PLAY makes a pipe and a *)
(* writer of its own; the end the writer reads is closed when the writer   *)
(* has left the loop, the end the producer writes by PAUSE.                *)
(***************************************************************************)
EXTENDS OutputQueue, FiniteSets

CONSTANTS
  MaxPlays,     \* bound on the pipes that are made
  MaxPackets,   \* packets of the stream; the last is LS_EOF
  MaxRequests,  \* bound on the requests that are handled
  PacketSize, ResponseSize, MaxRoom     \* in units

ASSUME StreamAssumption ==
  /\ {MaxPlays, MaxPackets, MaxRequests} \subseteq Nat
  /\ {PacketSize, ResponseSize, MaxRoom} \subseteq Nat \ {0}

Gens == 1 .. MaxPlays

VARIABLES
  produced,     \* packets the producer has put
  producer,     \* "idle", or "call": fd_set_call is still to come
  rtp,          \* playing, killed, cursor: packets the writer has read, refs, gen: of the pipe
  pipe,         \* the ends of each pipe, whether there is a byte, whether the set has it
  ev,           \* the writer of each pipe: where the loop has it, whether it is to be removed, held
  out,          \* the output of the connection
  field, watch, \* whether the event's conditions, and the loop's watcher, have EV_WRITE
  mod,          \* a change of conditions is queued for the loop
  room,         \* what the socket takes before it says EAGAIN
  accepted, stream,     \* the messages that were not refused; the units that were sent
  overtaken,    \* EV_WRITE was cleared after something was queued
  handler, loop \* where these threads are

vars == <<produced, producer, rtp, pipe, ev, out, field, watch, mod, room, accepted, stream,
          overtaken, handler, loop>>
wire == <<out, room, accepted, stream>>
interest == <<field, watch, mod, overtaken>>
rtps == <<rtp, pipe, ev>>
source == <<produced, producer>>

Init ==
  /\ produced = 0 /\ producer = "idle"
  /\ rtp = [playing |-> FALSE, killed |-> FALSE, cursor |-> 0, refs |-> 1, gen |-> 0]
  /\ pipe = [g \in Gens |-> [rd |-> FALSE, wr |-> FALSE, byte |-> FALSE, inset |-> FALSE]]
  /\ ev = [g \in Gens |-> [in |-> "no", drop |-> FALSE, held |-> FALSE]]
  /\ out = NewOutput /\ room = MaxRoom /\ accepted = <<>> /\ stream = <<>>
  /\ field = FALSE /\ watch = FALSE /\ mod = FALSE /\ overtaken = FALSE
  /\ handler = [pc |-> "idle", request |-> "PAUSE", handled |-> 0]
  /\ loop = [pc |-> "idle", gen |-> 0]

--------------------------------------------------------------------------------
(* The producer.                                                            *)

\* bq_producer_put.
Put ==
  /\ producer = "idle" /\ produced < MaxPackets
  /\ produced' = produced + 1 /\ producer' = "call"
  /\ UNCHANGED <<rtps, wire, interest, handler, loop>>

\* fd_set_call under the mutex of the set: on_producer_working writes a byte to each descriptor.
Call ==
  /\ producer = "call"
  /\ producer' = "idle"
  /\ pipe' = [g \in Gens |-> [pipe[g] EXCEPT !.byte = @ \/ pipe[g].inset]]
  /\ UNCHANGED <<produced, rtp, ev, wire, interest, handler, loop>>

--------------------------------------------------------------------------------
(* The output.                                                              *)

\* Someone writes message rec: what becomes of the output, the socket and the record of both.
Write(rec) ==
  LET w == WriteData(out, rec, room)
  IN /\ out' = w.output
     /\ room' = room - Len(w.taken)
     /\ stream' = stream \o w.taken
     /\ accepted' = IF w.refused THEN accepted ELSE Append(accepted, rec)

Pending(rec) == WriteData(out, rec, room).pending

\* A mutant: the loop is not told of the change.
AddEventsUntold ==
  /\ field' = TRUE
  /\ overtaken' = (overtaken /\ field)
  /\ UNCHANGED <<mod, watch>>

\* g_event_add_events(client, EV_WRITE), after the mutex was released.
AddEvents ==
  /\ field' = TRUE
  /\ mod' = (mod \/ ~ field)
  /\ overtaken' = (overtaken /\ field)
  /\ watch' = watch

--------------------------------------------------------------------------------
(* PLAY, PAUSE and TEARDOWN under the mutex of the session.                 *)

HandlerAt(pc) == handler' = [handler EXCEPT !.pc = pc]
Begin(request, pc) ==
  handler' = [pc |-> pc, request |-> request, handled |-> handler.handled + 1]
MayBegin(request) ==
  /\ handler.pc = "idle" /\ ~ rtp.killed
  /\ request # "TEARDOWN" => handler.handled < MaxRequests

\* What an event that was dropped by the loop and its holder leaves: on_rtp_writer_destroy.
ClosedReader(g) == [pipe EXCEPT ![g].rd = FALSE]

\* rtp_session_resume_live: nothing when it plays, or when there is no descriptor for a pipe.
Play ==
  /\ MayBegin("PLAY")
  /\ \/ Begin("PLAY", "respond") /\ UNCHANGED rtps
     \/ /\ ~ rtp.playing /\ rtp.gen < MaxPlays
        /\ Begin("PLAY", "add_fd")
        /\ LET g == rtp.gen + 1
           IN /\ pipe' = [pipe EXCEPT ![g].rd = TRUE, ![g].wr = TRUE]
              /\ ev' = [ev EXCEPT ![g].held = TRUE]
              /\ rtp' = [rtp EXCEPT !.gen = g, !.refs = @ + 1]
  /\ UNCHANGED <<source, wire, interest, loop>>

\* bq_producer_add_fd.
AddFd ==
  /\ handler.pc = "add_fd"
  /\ pipe' = [pipe EXCEPT ![rtp.gen].inset = TRUE]
  /\ HandlerAt("attach")
  /\ UNCHANGED <<source, rtp, ev, wire, interest, loop>>

\* g_scheduler_add.
Attach ==
  /\ handler.pc = "attach"
  /\ ev' = [ev EXCEPT ![rtp.gen].in = "queued"]
  /\ rtp' = [rtp EXCEPT !.playing = TRUE]
  /\ HandlerAt("respond")
  /\ UNCHANGED <<source, pipe, wire, interest, loop>>

\* rtp_session_pause, called by PAUSE and, through rtp_session_kill, by TEARDOWN.
Pause(request) ==
  /\ MayBegin(request)
  /\ Begin(request, IF rtp.playing THEN "remove_fd" ELSE IF request = "PAUSE" THEN "respond" ELSE "kill")
  /\ rtp' = [rtp EXCEPT !.playing = FALSE]
  /\ UNCHANGED <<source, pipe, ev, wire, interest, loop>>

\* A mutant: the wrong end of the pipe is removed from the set.
RemoveOtherEnd ==
  /\ handler.pc = "remove_fd"
  /\ HandlerAt("detach")
  /\ UNCHANGED <<source, rtps, wire, interest, loop>>

\* bq_producer_remove_fd, under the mutex of the set.
RemoveFd ==
  /\ handler.pc = "remove_fd"
  /\ pipe' = [pipe EXCEPT ![rtp.gen].inset = FALSE]
  /\ HandlerAt("detach")
  /\ UNCHANGED <<source, rtp, ev, wire, interest, loop>>

\* rtp_pause_transport: the loop is told to remove the writer, which is unreferenced.
Detach ==
  LET g == rtp.gen
      last == ev[g].in = "out"
  IN /\ handler.pc = "detach"
     /\ ev' = [ev EXCEPT ![g].drop = TRUE, ![g].held = FALSE]
     /\ pipe' = IF last THEN ClosedReader(g) ELSE pipe
     /\ rtp' = [rtp EXCEPT !.refs = IF last THEN @ - 1 ELSE @]
     /\ HandlerAt("close")
     /\ UNCHANGED <<source, wire, interest, loop>>

\* close(fd[1]).
CloseWriteEnd ==
  /\ handler.pc = "close"
  /\ pipe' = [pipe EXCEPT ![rtp.gen].wr = FALSE]
  /\ HandlerAt(IF handler.request = "PAUSE" THEN "respond" ELSE "kill")
  /\ UNCHANGED <<source, rtp, ev, wire, interest, loop>>

\* bq_consumer_kill and rtp_session_unref.
Kill ==
  /\ handler.pc = "kill"
  /\ rtp' = [rtp EXCEPT !.killed = TRUE, !.refs = @ - 1]
  /\ HandlerAt("respond")
  /\ UNCHANGED <<source, pipe, ev, wire, interest, loop>>

\* Responses have the ids below zero.
Respond ==
  LET response == [id |-> 0 - handler.handled, size |-> ResponseSize]
  IN /\ handler.pc = "respond"
     /\ Write(response)
     /\ HandlerAt(IF Pending(response) THEN "add_events" ELSE "idle")
     /\ UNCHANGED <<source, rtps, interest, loop>>

RespondPending ==
  /\ handler.pc = "add_events"
  /\ AddEvents
  /\ HandlerAt("idle")
  /\ UNCHANGED <<source, rtps, wire, loop>>

--------------------------------------------------------------------------------
(* The event loop: its operations and the writer, rtp_lwrite_cb.            *)

LoopAt(pc, g) == loop' = [pc |-> pc, gen |-> g]

AttachWriter(g) ==
  /\ loop.pc = "idle" /\ ev[g].in = "queued"
  /\ ev' = [ev EXCEPT ![g].in = "watched"]
  /\ UNCHANGED <<source, rtp, pipe, wire, interest, handler, loop>>

\* The loop lets go of the writer; it is destroyed when nobody else holds it.
LetGo(g) ==
  /\ ev' = [ev EXCEPT ![g].in = "out"]
  /\ rtp' = [rtp EXCEPT !.refs = IF ev[g].held THEN @ ELSE @ - 1]
  /\ pipe' = IF ev[g].held THEN pipe ELSE ClosedReader(g)

DetachWriter(g) ==
  /\ loop.pc = "idle" /\ ev[g].in = "watched" /\ ev[g].drop
  /\ LetGo(g)
  /\ UNCHANGED <<source, wire, interest, handler, loop>>

\* The pipe or the timer wakes the writer, which empties the pipe; one whose other end is closed
\* ends the writer.
Wake(g) ==
  /\ loop.pc = "idle" /\ ev[g].in = "watched"
  /\ IF pipe[g].wr
     THEN /\ pipe' = [pipe EXCEPT ![g].byte = FALSE]
          /\ LoopAt("check", g)
          /\ UNCHANGED <<rtp, ev>>
     ELSE LetGo(g) /\ loop' = loop
  /\ UNCHANGED <<source, wire, interest, handler>>

\* rtp_session_would_block, under the client's mutex.
Check ==
  /\ loop.pc = "check"
  /\ IF WouldBlock(out) THEN LoopAt("idle", 0) ELSE LoopAt("send", loop.gen)
  /\ UNCHANGED <<source, rtps, wire, interest, handler>>

\* bq_consumer_get and rtp_packet_send: the packet goes to the output, LS_EOF as a packet that
\* tells the end.
Send ==
  LET next == rtp.cursor + 1
      packet == [id |-> next, size |-> PacketSize]
  IN /\ loop.pc = "send"
     /\ IF rtp.killed \/ next > produced
        THEN LoopAt("idle", 0) /\ UNCHANGED wire
        ELSE /\ Write(packet)
             /\ LoopAt(IF Pending(packet) THEN "pending" ELSE "move", loop.gen)
     /\ UNCHANGED <<source, rtps, interest, handler>>

SendPending ==
  /\ loop.pc = "pending"
  /\ AddEvents
  /\ LoopAt("move", loop.gen)
  /\ UNCHANGED <<source, rtps, wire, handler>>

\* bq_consumer_move; after LS_EOF the writer ends instead.
Move ==
  /\ loop.pc = "move"
  /\ IF rtp.cursor + 1 = MaxPackets
     THEN LetGo(loop.gen) /\ LoopAt("idle", 0)
     ELSE /\ rtp' = [rtp EXCEPT !.cursor = IF rtp.killed THEN @ ELSE @ + 1]
          /\ IF rtp.killed \/ rtp.cursor + 1 = produced
             THEN LoopAt("idle", 0) ELSE LoopAt("check", loop.gen)
          /\ UNCHANGED <<pipe, ev>>
  /\ UNCHANGED <<source, wire, interest, handler>>

--------------------------------------------------------------------------------
(* The event loop: the connection's write callback, rtsp_client_write.      *)

\* The operation that a change of the conditions has queued.
Modify ==
  /\ loop.pc = "idle" /\ mod
  /\ mod' = FALSE /\ watch' = field
  /\ UNCHANGED <<source, rtps, wire, field, overtaken, handler, loop>>

\* One pass under the mutex: nothing is left, a message is written, or the socket is full.
Pass(o) ==
  IF EmptyOutput(o)
  THEN /\ out' = o /\ LoopAt("clear", 0)
       /\ UNCHANGED <<room, accepted, stream>>
  ELSE LET w == WritePass(o, room)
       IN /\ out' = w.output
          /\ room' = room - Len(w.taken)
          /\ stream' = stream \o w.taken
          /\ LoopAt(IF w.whole THEN "written" ELSE "idle", 0)
          /\ accepted' = accepted

Writable ==
  /\ loop.pc = "idle" /\ watch /\ room > 0
  /\ Pass(out)
  /\ UNCHANGED <<source, rtps, interest, handler>>

\* The mutex was released after a message was written; its buffer is freed under it.
Written ==
  /\ loop.pc = "written"
  /\ Pass([out EXCEPT !.write_buffer = NoRec])
  /\ UNCHANGED <<source, rtps, interest, handler>>

\* g_event_remove_events_sync, after the mutex was released.
ClearWrite ==
  /\ loop.pc = "clear"
  /\ field' = FALSE /\ watch' = FALSE /\ mod' = mod
  /\ overtaken' = ~ EmptyOutput(out)
  /\ LoopAt("idle", 0)
  /\ UNCHANGED <<source, rtps, wire, handler>>

\* The peer reads.
PeerReads ==
  /\ room < MaxRoom
  /\ room' = MaxRoom
  /\ UNCHANGED <<source, rtps, out, accepted, stream, interest, handler, loop>>

--------------------------------------------------------------------------------
Handling ==
  \/ AddFd \/ Attach \/ RemoveFd \/ Detach \/ CloseWriteEnd \/ Kill \/ Respond \/ RespondPending

Writing == Check \/ Send \/ SendPending \/ Move \/ Written \/ ClearWrite

\* The operations of the loop and its callbacks, as far as the loop chooses between them.
Operations == Modify \/ \E g \in Gens : AttachWriter(g) \/ DetachWriter(g)
Waking == \E g \in Gens : Wake(g)

Over == rtp.refs = 0 /\ handler.pc = "idle" /\ loop.pc = "idle" /\ producer = "idle"

Next ==
  \/ Put \/ Call
  \/ Play \/ Pause("PAUSE") \/ Pause("TEARDOWN") \/ Handling
  \/ Operations \/ Waking \/ Writable \/ Writing \/ PeerReads
  \/ Over /\ UNCHANGED vars

\* Threads that have begun go on, the peer reads, and the loop, which is one thread, comes to its
\* operations, to the writer (at least when its timer fires) and to the connection.
Fairness ==
  /\ WF_vars(Call) /\ WF_vars(Handling) /\ WF_vars(Writing) /\ WF_vars(PeerReads)
  /\ SF_vars(Operations) /\ SF_vars(Waking) /\ SF_vars(Writable)

Spec == Init /\ [][Next]_vars
FairSpec == Spec /\ Fairness

--------------------------------------------------------------------------------
(* Properties.                                                              *)

TypeOK ==
  /\ produced \in 0 .. MaxPackets /\ producer \in {"idle", "call"}
  /\ rtp \in [playing : BOOLEAN, killed : BOOLEAN, cursor : 0 .. MaxPackets, refs : Nat,
               gen : 0 .. MaxPlays]
  /\ pipe \in [Gens -> [rd : BOOLEAN, wr : BOOLEAN, byte : BOOLEAN, inset : BOOLEAN]]
  /\ ev \in [Gens -> [in : {"no", "queued", "watched", "out"}, drop : BOOLEAN, held : BOOLEAN]]
  /\ {field, watch, mod, overtaken} \subseteq BOOLEAN
  /\ room \in 0 .. MaxRoom

\* Responses of the handlers and packets of the writer arrive whole, in the order in which they
\* were written and without a gap, although each may find the other's half of a message in the
\* output; the count of what is queued is exact, media stop before it is full, and whatever is
\* queued is waited for, unless the loop cleared EV_WRITE after it had released the mutex.
OutputSound ==
  /\ TypeOK
  /\ IsPrefix(stream, Units(accepted))
  /\ Len(Units(accepted)) - Len(stream) = out.backlog + out.write_buffer.size
  /\ BacklogExact(out)
  /\ ~ EmptyOutput(out) => \/ field \/ overtaken
                           \/ handler.pc = "add_events" \/ loop.pc \in {"pending", "written"}

InLoop(g) == ev[g].in \in {"queued", "watched"}

\* A descriptor of the set is open at both ends, so a wake-up never goes to a descriptor that
\* was closed and given to somebody else; the loop watches only an open pipe; there is one
\* writer and one pipe for each session that plays; and each of them holds the session.
PipesOwned ==
  /\ \A g \in Gens : /\ pipe[g].inset => pipe[g].wr /\ pipe[g].rd
                     /\ InLoop(g) \/ ev[g].held => pipe[g].rd
                     /\ g # rtp.gen => ~ pipe[g].wr /\ ~ ev[g].held
  /\ rtp.playing => pipe[rtp.gen].inset /\ ev[rtp.gen].held
  /\ rtp.refs = Cardinality({g \in Gens : pipe[g].rd}) + IF rtp.killed THEN 0 ELSE 1
  /\ Over => \A g \in Gens : ~ pipe[g].rd /\ ~ pipe[g].wr

\* What was queued is sent at last unless EV_WRITE was cleared over it, and a session that
\* plays gets the packets the producer has put, also when the wake-up found it blocked.
SentAtLast ==
  /\ ~ EmptyOutput(out) ~> (EmptyOutput(out) \/ overtaken)
  /\ \A n \in 1 .. MaxPackets - 1 :
       (rtp.playing /\ produced >= n) ~> (rtp.cursor >= n \/ ~ rtp.playing \/ overtaken)
===============================================================================
