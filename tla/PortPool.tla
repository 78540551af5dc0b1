-------------------------------- MODULE PortPool --------------------------------
(***************************************************************************)
(* The allocator of UDP ports (utils/ports.c; the RTSP client has a copy   *)
(* of it): a map of the ports of a range, a place where the next search    *)
(* begins, and counters.  Every operation runs under the allocator's lock, *)
(* so it is an operator on the value of the allocator.                     *)
(***************************************************************************)
EXTENDS Integers, FiniteSets

NoPort == -1

Even(port) == port % 2 = 0

\* jpf_media_ports_set_range(low, hi): the range is low .. hi - 1.
NewPool(low, hi) ==
  [min |-> low, max |-> hi, set |-> {}, used |-> 0, reserved |-> 0, next |-> low, bug |-> FALSE]

InRange(p) == p.min .. p.max - 1
Total(p) == p.max - p.min

Following(p, port) == IF port + 1 >= p.max THEN p.min ELSE port + 1

SetReserved(p, port) ==
  IF port \notin InRange(p) \ p.set THEN p
  ELSE [p EXCEPT !.set = @ \cup {port}, !.reserved = @ + 1]

\* The i-th port a search looks at.
Candidate(p, i) == p.min + ((p.next - p.min + i) % Total(p))

\* __jpf_ports_get_one: the allocator afterwards and the port, or NoPort.
GetOne(p) ==
  LET hits == {i \in 0 .. Total(p) - 1 : Candidate(p, i) \notin p.set}
  IN IF p.used + p.reserved >= Total(p) \/ hits = {} THEN [pool |-> p, port |-> NoPort]
     ELSE LET port == Candidate(p, CHOOSE i \in hits : \A j \in hits : i <= j)
          IN [pool |-> [p EXCEPT !.set = @ \cup {port}, !.used = @ + 1, !.next = Following(p, port)],
              port |-> port]

\* __jpf_ports_put_one: a port that is out of range or not set is a BUG().
PutOne(p, port) ==
  [p EXCEPT !.set = @ \ {port}, !.used = @ - 1, !.bug = @ \/ port \notin p.set]

PutPair(p, low, hi) == PutOne(PutOne(p, low), hi)

--------------------------------------------------------------------------------
(* __jpf_ports_get_pair as a search: `stage' says which of the two ports is *)
(* looked for, `left' how many attempts remain.                             *)

Fails(s, p) == [s EXCEPT !.stage = "failed", !.pool = p]

\* The inner loop that looks for an even port.
LookForLow(s) ==
  LET got == GetOne(s.pool)
  IN IF s.left = 0 \/ got.port = NoPort THEN Fails(s, s.pool)
     ELSE IF Even(got.port)
          THEN [s EXCEPT !.stage = "hi", !.pool = got.pool, !.left = @ - 1, !.low = got.port]
          ELSE [s EXCEPT !.pool = PutOne(got.pool, got.port), !.left = @ - 1]

\* A mutant: the low port is kept when the other one does not follow it.
LookForHiKeepingLow(s) ==
  LET got == GetOne(s.pool)
      without == PutOne(got.pool, s.low)
  IN CASE got.port = NoPort -> Fails(s, PutOne(s.pool, s.low))
       [] got.port = s.low + 1 -> [s EXCEPT !.stage = "found", !.pool = got.pool]
       [] got.port \notin {NoPort, s.low + 1} /\ ~ Even(got.port) ->
            [s EXCEPT !.stage = "low", !.pool = PutOne(got.pool, got.port)]
       [] OTHER -> IF s.left = 0 THEN Fails(s, PutOne(without, got.port))
                   ELSE [s EXCEPT !.pool = without, !.left = @ - 1, !.low = got.port]

\* The inner loop that looks for its successor.
LookForHi(s) ==
  LET got == GetOne(s.pool)
      without == PutOne(got.pool, s.low)
  IN CASE got.port = NoPort -> Fails(s, PutOne(s.pool, s.low))
       [] got.port = s.low + 1 -> [s EXCEPT !.stage = "found", !.pool = got.pool]
       [] got.port \notin {NoPort, s.low + 1} /\ ~ Even(got.port) ->
            [s EXCEPT !.stage = "low", !.pool = PutOne(without, got.port)]
       [] OTHER -> IF s.left = 0 THEN Fails(s, PutOne(without, got.port))
                   ELSE [s EXCEPT !.pool = without, !.left = @ - 1, !.low = got.port]

Look(s) ==
  CASE s.stage = "low" -> LookForLow(s)
    [] s.stage = "hi" -> LookForHi(s)
    [] OTHER -> s

\* Every attempt takes at most two looks.
Search(p) ==
  LET look[n \in 0 .. 2 * Total(p) + 2] ==
        IF n = 0 THEN [stage |-> "low", pool |-> p, left |-> Total(p), low |-> NoPort]
        ELSE Look(look[n - 1])
  IN look[2 * Total(p) + 2]

\* The allocator afterwards and the even port of the pair, or NoPort.
GetPair(p) ==
  LET s == IF p.used + p.reserved + 2 > Total(p)
           THEN [stage |-> "failed", pool |-> p, left |-> 0, low |-> NoPort]
           ELSE Search(p)
  IN [pool |-> s.pool, low |-> IF s.stage = "found" THEN s.low ELSE NoPort]

--------------------------------------------------------------------------------
\* The pairs that are free.
FreePairs(p) ==
  {low \in InRange(p) : Even(low) /\ {low, low + 1} \subseteq InRange(p) \ p.set}

\* The counters agree with the map.
Counted(p) == ~ p.bug /\ p.used >= 0 /\ p.used + p.reserved = Cardinality(p.set)

\* A search finds a free pair exactly when there is one, takes nothing else, and leaves the
\* counters right.
SearchSound(p) ==
  LET got == GetPair(p)
  IN /\ Counted(got.pool)
     /\ got.low = NoPort <=> FreePairs(p) = {}
     /\ got.low = NoPort => got.pool.set = p.set
     /\ got.low # NoPort => /\ got.low \in FreePairs(p)
                            /\ got.pool.set = p.set \cup {got.low, got.low + 1}
===============================================================================
