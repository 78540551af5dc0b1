--------------------------------- MODULE NetBuf ---------------------------------
(***************************************************************************)
(* The ring of output blocks of a connection (hmnet/src/hm_netbuf.c) as    *)
(* operators on its value.  Every function of it runs under buf_lock and,  *)
(* in this program, under the lock of the watch, so each is one step.      *)
(*                                                                         *)
(* A block is busy while it holds bytes that were not sent; raw_data here  *)
(* are the bytes up to end_pos.  free stands for the number of bytes the   *)
(* socket takes before it answers EAGAIN.                                  *)
(***************************************************************************)
EXTENDS Naturals, Sequences

CONSTANTS
  Blocks,    \* num_buffers: BUFFER_BLOCKS of hm_watch.c
  BlockSize  \* MAX_IO_BUFFER_SIZE

ASSUME RingAssumption == Blocks \in Nat \ {0} /\ BlockSize \in Nat \ {0}

Positions == 0 .. Blocks - 1
FreeBlock == [is_busy |-> FALSE, start_pos |-> 0, raw_data |-> <<>>]

\* hm_net_buf_init: next_deal = Blocks says that no block is to be sent.
EmptyRing == [buff |-> [i \in Positions |-> FreeBlock], next_use |-> 0,
              next_deal |-> Blocks, no_blocks |-> FALSE, buffer_bytes |-> 0]

Following(i) == (i + 1) % Blocks
IsEmpty(r) == r.next_deal = Blocks
Unsent(b) == SubSeq(b.raw_data, b.start_pos + 1, Len(b.raw_data))
Lesser(i, j) == IF i <= j THEN i ELSE j

\* hm_net_buf_last_pos: the block written last, if it is still to be sent.
LastPos(r) ==
  LET last == IF r.next_use = 0 THEN Blocks - 1 ELSE r.next_use - 1
  IN  {i \in {last} : r.buff[i].is_busy}

\* Put bytes into the next block: the end of __hm_net_buf_write and hm_net_buf_write_ok.
Store(r, bytes) ==
  LET next == Following(r.next_use)
      deal == IF IsEmpty(r) THEN r.next_use ELSE r.next_deal
  IN  [r EXCEPT !.buff[r.next_use] = [is_busy |-> TRUE, start_pos |-> 0, raw_data |-> bytes],
                !.buffer_bytes = @ + Len(bytes),
                !.next_deal = deal, !.next_use = next,
                !.no_blocks = @ \/ next = deal]

\* Add bytes to the block written last: hm_net_buf_append.
AppendLast(r, i, bytes) ==
  [r EXCEPT !.buff[i].raw_data = @ \o bytes, !.buffer_bytes = @ + Len(bytes)]

WriteStarting(r, bytes, free) ==
  LET n == Lesser(free, Len(bytes))
  IN  IF n = Len(bytes)
        THEN [ring |-> r, out |-> bytes, ret |-> Len(bytes), pending |-> FALSE]
        ELSE [ring |-> Store(r, bytes), out |-> SubSeq(bytes, 1, n),
              ret |-> Len(bytes), pending |-> TRUE]

\* A message written while the ring is empty goes to the socket, and what the socket does
\* not take goes into a block.
WriteDirect(r, bytes, free) ==
  LET n == Lesser(free, Len(bytes))
  IN  IF n = Len(bytes)
        THEN [ring |-> r, out |-> bytes, ret |-> Len(bytes), pending |-> FALSE]
        ELSE [ring |-> Store(r, SubSeq(bytes, n + 1, Len(bytes))),
              out |-> SubSeq(bytes, 1, n), ret |-> Len(bytes), pending |-> TRUE]

\* A message written behind others is kept whole or, when there is no block for it,
\* dropped whole: then ret is 0.
WriteBehind(r, i, bytes) ==
  IF Len(r.buff[i].raw_data) + Len(bytes) <= BlockSize
    THEN [ring |-> AppendLast(r, i, bytes), out |-> <<>>, ret |-> Len(bytes), pending |-> TRUE]
  ELSE IF r.no_blocks
    THEN [ring |-> r, out |-> <<>>, ret |-> 0, pending |-> TRUE]
    ELSE [ring |-> Store(r, bytes), out |-> <<>>, ret |-> Len(bytes), pending |-> TRUE]

\* hm_net_buf_write: the ring it leaves, the bytes the socket took and what it returns.
NetBufWrite(r, bytes, free) ==
  IF LastPos(r) = {} THEN WriteDirect(r, bytes, free)
  ELSE WriteBehind(r, CHOOSE i \in LastPos(r) : TRUE, bytes)

\* hm_net_buf_flush_ok: the block at next_deal was sent.
FlushOk(r) ==
  LET next == Following(r.next_deal)
      freed == [r.buff EXCEPT ![r.next_deal] = FreeBlock]
  IN  [r EXCEPT !.buff = freed, !.no_blocks = FALSE,
                !.next_deal = IF freed[next].is_busy THEN next ELSE Blocks]

\* One round of the loop of __hm_net_buf_flush, once free more bytes have room.
FlushBlock(f) ==
  LET r == f.ring
      left == Unsent(r.buff[r.next_deal])
      n == Lesser(f.free, Len(left))
      counted == [r EXCEPT !.buffer_bytes = @ - n]
  IN  IF IsEmpty(r) THEN f
      ELSE [ring |-> IF n = Len(left) THEN FlushOk(counted)
                     ELSE [counted EXCEPT !.buff[r.next_deal].start_pos = @ + n],
            out |-> f.out \o SubSeq(left, 1, n), free |-> f.free - n]

\* hm_net_buf_flush: the ring it leaves and the bytes the socket took.
NetBufFlush(r, free) ==
  LET after[n \in 0 .. Blocks] == IF n = 0 THEN [ring |-> r, out |-> <<>>, free |-> free]
                                  ELSE FlushBlock(after[n - 1])
  IN  after[Blocks]

--------------------------------------------------------------------------------

\* The busy blocks in the order in which they are sent.
Waiting(r) ==
  IF IsEmpty(r) THEN <<>>
  ELSE LET n == IF r.no_blocks THEN Blocks ELSE (r.next_use + Blocks - r.next_deal) % Blocks
       IN  [i \in 1 .. n |-> (r.next_deal + i - 1) % Blocks]

\* Messages one after the other.
Joined(ss) ==
  LET first[n \in 0 .. Len(ss)] == IF n = 0 THEN <<>> ELSE first[n - 1] \o ss[n]
  IN  first[Len(ss)]

\* The bytes the ring holds.
RingBytes(r) == Joined([i \in DOMAIN Waiting(r) |-> Unsent(r.buff[Waiting(r)[i]])])
================================================================================
