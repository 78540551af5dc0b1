-------------------------------- MODULE NetWatch --------------------------------
(***************************************************************************)
(* A TCP connection of hmnet: the watch (hmnet/src/hm_watch.c) around the  *)
(* ring of output blocks, its connection (hm_conn.c) and the event of the  *)
(* loop that calls it.                                                     *)
(*                                                                         *)
(* Threads.  Any thread may write a message or kill the connection; the    *)
(* thread of the loop dispatches what libev reports.  All of them hold     *)
(* watch->lock while they work, so a step is a region under the lock.  The *)
(* loop gives it up while a message is delivered and while the callback    *)
(* for an established connection runs.  A change of the events the watch   *)
(* waits for is queued and applied by the loop later (module EventLoop);   *)
(* queued changes are kept here as one flag each, their order being of no  *)
(* account: a removal is final.                                            *)
(*                                                                         *)
(* A message is a number of bytes; byte i of the k-th call is <<k, i>>.    *)
(***************************************************************************)
EXTENDS NetBuf, FiniteSets

CONSTANTS
  Sizes,        \* sizes of formatted messages
  MaxWrites,    \* bound on the messages written
  MaxInbound,   \* bound on the messages received
  Room,         \* size of the socket's send buffer
  EarlyWrites   \* may a message be written before on_est was called?

ASSUME WatchAssumption ==
  /\ Sizes \subseteq 1 .. BlockSize
  /\ MaxWrites \in Nat /\ MaxInbound \in Nat /\ Room \in Nat \ {0}
  /\ EarlyWrites \in BOOLEAN

VARIABLES
  ring,         \* watch->buffer
  owed,         \* the bytes of accepted messages that the socket has not taken yet
  writes,       \* calls made
  sock,         \* the socket: "connecting", "up" or "broken"
  room,         \* free bytes of its send buffer
  inbound,      \* messages in its receive buffer
  received,     \* messages that have come so far
  peer_closed,
  in_progress,  \* CF_FLGS_CONN_INPROGRESS
  w_pending,
  killed,
  events,       \* what the event of the watch asks for
  modified,     \* a change of it is queued
  watching,     \* what libev watches
  in_loop,      \* "adding", "yes" or "no"
  removing,     \* the removal of the event is queued
  pc,           \* the loop: "polling", "delivering" or "establishing"
  revents,      \* what it was called for
  established,  \* on_est was called
  reports,      \* calls of funcs->close and funcs->error
  killer        \* the thread that kills the connection: "none", "removed" or "done"

dataVars == <<ring, owed, room>>
sockVars == <<sock, inbound, received, peer_closed>>
eventVars == <<events, modified, watching, in_loop, removing>>
vars == <<ring, owed, writes, sock, room, inbound, received, peer_closed, in_progress,
          w_pending, killed, events, modified, watching, in_loop, removing, pc, revents,
          established, reports, killer>>

\* hm_watch_create for a connection that was accepted or one that still connects; it is
\* attached to a loop before its creator gets it.
Init ==
  /\ ring = EmptyRing /\ owed = <<>> /\ writes = 0
  /\ in_progress \in BOOLEAN
  /\ sock = IF in_progress THEN "connecting" ELSE "up"
  /\ room = Room /\ inbound = 0 /\ received = 0 /\ peer_closed = FALSE
  /\ w_pending = FALSE /\ killed = FALSE
  /\ events = IF in_progress THEN {"write"} ELSE {"read"}
  /\ modified = FALSE /\ watching = {} /\ in_loop = "adding" /\ removing = FALSE
  /\ pc = "polling" /\ revents = {}
  /\ established = ~ in_progress
  /\ reports = 0
  /\ killer = "none"

--------------------------------------------------------------------------------
(* The socket and its peer.                                                 *)

Free == IF sock = "up" THEN room ELSE 0

\* What a poll of the socket reports.
Ready ==
  (IF inbound > 0 \/ peer_closed \/ sock = "broken" THEN {"read"} ELSE {})
    \cup (IF Free > 0 \/ sock = "broken" THEN {"write"} ELSE {})

SocketUnchanged == UNCHANGED <<ring, owed, writes, in_progress, w_pending, killed, eventVars, pc,
                               revents, established, reports, killer>>

ConnectEnds ==
  /\ sock = "connecting"
  /\ sock' \in {"up", "broken"}
  /\ UNCHANGED <<room, inbound, received, peer_closed>> /\ SocketUnchanged

\* The peer takes bytes: there is room for more.
Drain ==
  /\ sock = "up" /\ room < Room
  /\ room' \in room + 1 .. Room
  /\ UNCHANGED sockVars /\ SocketUnchanged

Arrive ==
  /\ sock = "up" /\ ~ peer_closed /\ received < MaxInbound
  /\ inbound' = inbound + 1 /\ received' = received + 1
  /\ UNCHANGED <<room, sock, peer_closed>> /\ SocketUnchanged

PeerCloses ==
  /\ sock = "up" /\ ~ peer_closed /\ peer_closed' = TRUE
  /\ UNCHANGED <<room, sock, inbound, received>> /\ SocketUnchanged

Break ==
  /\ sock = "up" /\ sock' = "broken"
  /\ UNCHANGED <<room, inbound, received, peer_closed>> /\ SocketUnchanged

--------------------------------------------------------------------------------
(* What is done under watch->lock.                                          *)

\* A byte that is not the one owed next spoils the stream.
Spoilt == <<<<0, 0>>>>

\* The socket takes bytes: they must be the first of those owed.
Taken(bytes, due) ==
  IF bytes = SubSeq(due, 1, Len(bytes)) THEN SubSeq(due, Len(bytes) + 1, Len(due)) ELSE Spoilt

\* hm_event_add_events and hm_event_remove_events.
ModifyEvents(new) ==
  /\ events' = new
  /\ modified' = (modified \/ new # events)

CloseAgain == killed' = TRUE /\ reports' = reports + 1

\* __hm_watch_close and __hm_watch_error: the first of them reports.
Close ==
  /\ killed' = TRUE
  /\ reports' = IF killed THEN reports ELSE reports + 1

\* A dispatch that returns FALSE takes the event out of the loop.
Leave == pc' = "polling" /\ revents' = {} /\ in_loop' = "no" /\ watching' = {}
Stay == pc' = "polling" /\ revents' = {} /\ UNCHANGED <<in_loop, watching>>

Fail ==
  /\ Close /\ Leave
  /\ UNCHANGED <<dataVars, w_pending, events, modified>>

\* The connection turns out to be established: wait for what comes instead, and call on_est
\* without the lock.
Establish ==
  /\ ModifyEvents({"read"} \cup (events \ {"write"}))
  /\ pc' = "establishing" /\ revents' = {}
  /\ UNCHANGED <<dataVars, w_pending, killed, in_loop, watching, reports>>

FlushForgetsPending ==
  LET f == NetBufFlush(ring, Free) IN
  /\ ring' = f.ring /\ owed' = Taken(f.out, owed) /\ room' = room - Len(f.out)
  /\ IF IsEmpty(f.ring) THEN ModifyEvents(events \ {"write"}) ELSE UNCHANGED <<events, modified>>
  /\ Stay
  /\ UNCHANGED <<w_pending, killed, reports>>

FlushStopsWaiting ==
  LET f == NetBufFlush(ring, Free) IN
  /\ ring' = f.ring /\ owed' = Taken(f.out, owed) /\ room' = room - Len(f.out)
  /\ ModifyEvents(events \ {"write"})
  /\ w_pending' = FALSE
  /\ Stay
  /\ UNCHANGED <<killed, reports>>

\* Send what the ring holds; when that is all, stop waiting for room.
Flush ==
  LET f == NetBufFlush(ring, Free) IN
  /\ ring' = f.ring /\ owed' = Taken(f.out, owed) /\ room' = room - Len(f.out)
  /\ IF IsEmpty(f.ring)
       THEN ModifyEvents(events \ {"write"}) /\ w_pending' = FALSE
       ELSE UNCHANGED <<events, modified, w_pending>>
  /\ Stay
  /\ UNCHANGED <<killed, reports>>

\* The part of __hm_watch_rw_dispatch for a socket that is writable.
Writable ==
  /\ in_progress' = FALSE
  /\ IF in_progress
       THEN IF sock = "broken" THEN Fail ELSE Establish
       ELSE IF sock = "broken" /\ ~ IsEmpty(ring) THEN Fail ELSE Flush
  /\ UNCHANGED established

\* One round of the loop of __hm_watch_rw_dispatch that reads: a connection that was
\* killed is left alone, a message is delivered without the lock.
Readable(R) ==
  /\ IF killed
       THEN /\ Leave
            /\ UNCHANGED <<dataVars, inbound, w_pending, killed, events, modified, reports, in_progress>>
     ELSE IF inbound > 0
       THEN /\ inbound' = inbound - 1
            /\ pc' = "delivering" /\ revents' = R
            /\ UNCHANGED <<dataVars, w_pending, killed, events, modified, in_loop, watching,
                           reports, in_progress>>
     ELSE IF peer_closed \/ sock = "broken"
       THEN Fail /\ UNCHANGED <<inbound, in_progress>>
     ELSE IF "write" \in R
       THEN Writable /\ UNCHANGED inbound
       ELSE /\ Stay
            /\ UNCHANGED <<dataVars, inbound, w_pending, killed, events, modified, reports,
                           in_progress>>
  /\ UNCHANGED established

--------------------------------------------------------------------------------
(* The loop.                                                                *)

\* libev calls hm_watch_rw_dispatch for everything that is ready.
Dispatch ==
  /\ pc = "polling"
  /\ LET R == watching \cap Ready IN
     /\ R # {}
     /\ IF "read" \in R THEN Readable(R) ELSE Writable /\ UNCHANGED inbound
  /\ UNCHANGED <<writes, sock, received, peer_closed, removing, killer>>

\* The reader has returned: lock the watch and read on, or give up if it refused the message.
Delivered ==
  /\ pc = "delivering"
  /\ \/ Readable(revents)
     \/ Fail /\ UNCHANGED <<inbound, in_progress, established>>
  /\ UNCHANGED <<writes, sock, received, peer_closed, removing, killer>>

\* on_est has returned.
Established ==
  /\ pc = "establishing"
  /\ established' = TRUE
  /\ Stay
  /\ UNCHANGED <<dataVars, writes, sockVars, in_progress, w_pending, killed, events, modified,
                 removing, reports, killer>>

\* The loop applies the operations that were queued.
ApplyAdd ==
  /\ pc = "polling" /\ in_loop = "adding"
  /\ in_loop' = "yes" /\ watching' = events
  /\ UNCHANGED <<dataVars, writes, sockVars, in_progress, w_pending, killed, events, modified,
                 removing, pc, revents, established, reports, killer>>

ApplyModify ==
  /\ pc = "polling" /\ in_loop # "adding"
  /\ modified /\ modified' = FALSE
  /\ watching' = IF in_loop = "yes" THEN events ELSE watching
  /\ UNCHANGED <<dataVars, writes, sockVars, in_progress, w_pending, killed, events, in_loop,
                 removing, pc, revents, established, reports, killer>>

ApplyRemove ==
  /\ pc = "polling" /\ in_loop # "adding"
  /\ removing /\ removing' = FALSE
  /\ in_loop' = "no" /\ watching' = {}
  /\ UNCHANGED <<dataVars, writes, sockVars, in_progress, w_pending, killed, events, modified,
                 pc, revents, established, reports, killer>>

--------------------------------------------------------------------------------
(* Other threads.                                                           *)

\* hm_watch_write_message of a message of some size.
Write(size) ==
  LET message == [i \in 1 .. size |-> <<writes + 1, i>>]
      w == NetBufWrite(ring, message, Free)
  IN
  /\ writes < MaxWrites /\ writes' = writes + 1
  /\ ~ killed
  /\ established \/ EarlyWrites
  /\ IF sock = "broken" /\ LastPos(ring) = {}
       THEN /\ removing' = TRUE
            /\ Close
            /\ UNCHANGED <<dataVars, w_pending, events, modified>>
       ELSE /\ ring' = w.ring /\ room' = room - Len(w.out)
            /\ owed' = Taken(w.out, IF w.ret > 0 THEN owed \o message ELSE owed)
            /\ IF w.ret > 0 /\ w.pending /\ ~ w_pending
                 THEN ModifyEvents(events \cup {"write"}) /\ w_pending' = TRUE
                 ELSE UNCHANGED <<events, modified, w_pending>>
            /\ UNCHANGED <<killed, reports, removing>>
  /\ UNCHANGED <<sockVars, in_progress, in_loop, watching, pc, revents, established, killer>>

\* hm_watch_kill takes the event out of the loop,
KillRemove ==
  /\ killer = "none" /\ killer' = "removed"
  /\ removing' = TRUE
  /\ UNCHANGED <<dataVars, writes, sockVars, in_progress, w_pending, killed, events, modified,
                 in_loop, watching, pc, revents, established, reports>>

\* ... then closes the watch.
KillClose ==
  /\ killer = "removed" /\ killer' = "done"
  /\ Close
  /\ UNCHANGED <<dataVars, writes, sockVars, in_progress, w_pending, eventVars, pc, revents,
                 established>>

Next ==
  \/ ConnectEnds \/ Drain \/ Arrive \/ PeerCloses \/ Break
  \/ Dispatch \/ Delivered \/ Established
  \/ ApplyAdd \/ ApplyModify \/ ApplyRemove
  \/ \E size \in Sizes : Write(size)
  \/ KillRemove \/ KillClose

Spec == Init /\ [][Next]_vars

\* The loop runs its operations and callbacks return; the network finishes to connect, in
\* one way or the other, and the peer takes what was sent.
FairSpec ==
  /\ Spec
  /\ WF_vars(ConnectEnds) /\ WF_vars(Drain)
  /\ WF_vars(Dispatch) /\ WF_vars(Delivered) /\ WF_vars(Established)
  /\ SF_vars(ApplyAdd) /\ SF_vars(ApplyModify) /\ SF_vars(ApplyRemove)
  /\ WF_vars(KillClose)

--------------------------------------------------------------------------------
(* Properties.                                                              *)

Block == [is_busy : BOOLEAN, start_pos : 0 .. BlockSize, raw_data : Seq(Nat \X Nat)]

\* The type of each variable.
TypeOK ==
  /\ ring \in [buff : [Positions -> Block], next_use : Positions, next_deal : 0 .. Blocks,
               no_blocks : BOOLEAN, buffer_bytes : Nat]
  /\ owed \in Seq(Nat \X Nat) /\ writes \in 0 .. MaxWrites
  /\ sock \in {"connecting", "up", "broken"} /\ room \in 0 .. Room
  /\ inbound \in 0 .. received /\ received \in 0 .. MaxInbound
  /\ {peer_closed, in_progress, w_pending, killed, modified, removing, established} \subseteq BOOLEAN
  /\ events \subseteq {"read", "write"} /\ watching \subseteq {"read", "write"}
  /\ in_loop \in {"adding", "yes", "no"}
  /\ pc \in {"polling", "delivering", "establishing"} /\ revents \subseteq {"read", "write"}
  /\ reports \in Nat /\ killer \in {"none", "removed", "done"}

\* The busy blocks are the ones from next_deal up to next_use, none of them is empty or
\* overfull, and the count of bytes is exact: no BUG() of hm_netbuf.c is ever reached, however
\* often the ring wraps around, is filled up and is sent in parts.
RingSound ==
  /\ {i \in Positions : ring.buff[i].is_busy} = {Waiting(ring)[i] : i \in DOMAIN Waiting(ring)}
  /\ \A i \in Positions :
       LET b == ring.buff[i] IN
         IF b.is_busy THEN b.start_pos < Len(b.raw_data) /\ Len(b.raw_data) <= BlockSize
                      ELSE b = FreeBlock
  /\ IsEmpty(ring) <=> Waiting(ring) = <<>>
  /\ ring.no_blocks <=> \A i \in Positions : ring.buff[i].is_busy
  /\ ring.buffer_bytes = Len(RingBytes(ring))

\* The socket gets the messages that were accepted, whole and in the order of the calls: no
\* byte is lost, doubled or overtaken, and none of a message that was dropped is sent.
StreamInOrder == RingBytes(ring) = owed

\* While the ring of a connection holds bytes, the connection waits for room to send them.
NothingStranded ==
  (~ IsEmpty(ring) /\ ~ killed /\ ~ in_progress) => "write" \in events

\* The ring is in order and somebody is going to empty it.
RingServed == TypeOK /\ RingSound /\ NothingStranded

\* A connection is reported closed or in error once, although its peer, a failed write of
\* another thread and hm_watch_kill may all end it at the same time.
ReportedOnce == reports = IF killed THEN 1 ELSE 0

\* What a write accepted is sent at last (hm_watch.c:526: "Write a internal msg to network",
\* "return the size written") unless the connection ends, and then that is reported.
SentAtLast == (owed # <<>>) ~> (owed = <<>> \/ killed)
================================================================================
