----------------------------- MODULE BroadcastLog ------------------------------
(***************************************************************************)
(* What the packet queue promises to its readers, without lists, serials   *)
(* or counts: a log of numbered packets, an interval first..last of which  *)
(* is kept, and a cursor per reader.  A packet is kept exactly as long as  *)
(* some reader still stands on it or before it.                            *)
(***************************************************************************)
EXTENDS Integers

CONSTANT Readers

VARIABLES
  last,    \* number of the newest packet
  first,   \* number of the oldest packet kept, last + 1 when none is
  cursor   \* of each reader: Absent, Fresh, or the packet it read last

logVars == <<last, first, cursor>>

Absent == -1
Fresh == 0

Init == last = 0 /\ first = 1 /\ cursor = [r \in Readers |-> Absent]

Present(cur) == {r \in Readers : cur[r] # Absent}

\* The oldest packet still owed to a reader whose cursors are cur.
OldestOwed(cur) ==
  IF Present(cur) = {} THEN last + 1
  ELSE IF \E r \in Present(cur) : cur[r] = Fresh THEN first
  ELSE CHOOSE p \in {cur[r] : r \in Present(cur)} :
         \A r \in Present(cur) : p <= cur[r]

Publish == last' = last + 1 /\ UNCHANGED <<first, cursor>>

\* The producer throws the kept packets away and every reader starts over.
Discard ==
  /\ first' = last + 1
  /\ cursor' = [r \in Readers |-> IF cursor[r] = Absent THEN Absent ELSE Fresh]
  /\ UNCHANGED last

Join(r) ==
  /\ cursor[r] = Absent
  /\ cursor' = [cursor EXCEPT ![r] = Fresh]
  /\ UNCHANGED <<last, first>>

Read(r) ==
  /\ cursor[r] # Absent
  /\ LET next == IF cursor[r] = Fresh THEN first ELSE cursor[r] + 1 IN
     /\ next <= last
     /\ cursor' = [cursor EXCEPT ![r] = next]
  /\ first' = OldestOwed(cursor')
  /\ UNCHANGED last

Leave(r) ==
  /\ cursor[r] # Absent
  /\ cursor' = [cursor EXCEPT ![r] = Absent]
  /\ first' = OldestOwed(cursor')
  /\ UNCHANGED last

Next ==
  \/ Publish \/ Discard
  \/ \E r \in Readers : Join(r) \/ Read(r) \/ Leave(r)

Spec == Init /\ [][Next]_logVars
================================================================================
