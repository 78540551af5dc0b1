------------------------------- MODULE OutputQueue ------------------------------
(***************************************************************************)
(* The output of a connection: a queue of messages that the socket did not *)
(* take at once.  The connection of an RTSP client (rtsp/rtsp.c) and the    *)
(* watch of RTP over TCP (rtp/rtp_watch.c) have the same code for it.  A   *)
(* message is a record of its id and the units that are left of it; the    *)
(* socket takes `room' units before it says EAGAIN.                        *)
(***************************************************************************)
EXTENDS Integers, Sequences, SequencesExt

CONSTANTS
  MaxPending,   \* MAX_DATA_PENDING, in units
  Mtu           \* _RTP_MTU, in units

ASSUME OutputAssumption == MaxPending \in Nat \ {0} /\ Mtu \in Nat \ {0}

NoRec == [id |-> 0, size |-> 0]

NewOutput == [queue |-> <<>>, write_buffer |-> NoRec, backlog |-> 0]

EmptyOutput(o) == o.queue = <<>> /\ o.write_buffer = NoRec

\* rtsp_client_would_block.
WouldBlock(o) == o.backlog + Mtu > MaxPending

Least(a, b) == IF a < b THEN a ELSE b

\* What the socket takes of a message: the units, one id for each.
Taken(rec, room) == [i \in 1 .. Least(rec.size, room) |-> rec.id]
Rest(rec, room) == [rec EXCEPT !.size = @ - Least(@, room)]

Enqueue(o, rec) == [o EXCEPT !.queue = Append(@, rec), !.backlog = @ + rec.size]

\* A mutant: a message that the socket takes in part is queued as a whole.
WriteDataWhole(o, rec, room) ==
  LET direct == EmptyOutput(o)
      rest == IF direct THEN Rest(rec, room) ELSE rec
      taken == IF direct THEN Taken(rec, room) ELSE <<>>
      pending == rest.size > 0 /\ o.backlog < MaxPending
  IN [output |-> IF pending THEN Enqueue(o, rec) ELSE o, taken |-> taken,
      pending |-> pending, refused |-> rest.size > 0 /\ ~ pending]

\* rtsp_client_write_data under the client's mutex: the output afterwards, what the socket took,
\* whether EV_WRITE is to be asked for, and whether the message was refused.
WriteData(o, rec, room) ==
  LET direct == EmptyOutput(o)
      rest == IF direct THEN Rest(rec, room) ELSE rec
      taken == IF direct THEN Taken(rec, room) ELSE <<>>
      pending == rest.size > 0 /\ o.backlog < MaxPending
  IN [output |-> IF pending THEN Enqueue(o, rest) ELSE o, taken |-> taken,
      pending |-> pending, refused |-> rest.size > 0 /\ ~ pending]

\* The next message becomes the write buffer.
Pop(o) ==
  LET rec == Head(o.queue)
  IN [queue |-> Tail(o.queue), write_buffer |-> rec,
      backlog |-> (IF o.backlog < rec.size THEN rec.size ELSE o.backlog) - rec.size]

\* One pass of rtsp_client_write under the mutex, when there is something to write.
WritePass(o, room) ==
  LET popped == IF o.write_buffer = NoRec THEN Pop(o) ELSE o
      rec == popped.write_buffer
  IN [output |-> [popped EXCEPT !.write_buffer = Rest(rec, room)], taken |-> Taken(rec, room),
      whole |-> rec.size <= room]

\* The units of a sequence of messages, in order.
Units(recs) == FlattenSeq([i \in DOMAIN recs |-> Taken(recs[i], recs[i].size)])

\* backlog counts what the queue holds.
BacklogExact(o) == o.backlog = Len(Units(o.queue))
===============================================================================
