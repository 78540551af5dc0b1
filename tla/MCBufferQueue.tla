----------------------------- MODULE MCBufferQueue -----------------------------
(* Model checking of BufferQueue.  Consumers are interchangeable: what one   *)
(* of them may count on, each may.                                          *)
EXTENDS BufferQueue

Reader == CHOOSE c \in Consumers : TRUE

ReaderSpec == Spec /\ Fairness(Reader)

\* A reader that stays never stops before a packet it could read, whether the other
\* readers are called or not.
EveryPacketRead == PacketsRead(Reader)
================================================================================
