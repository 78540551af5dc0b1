---------------------------- MODULE RtspSessionProofs ---------------------------
(***************************************************************************)
(* Proofs about RtspSession for all finite sets of handler threads,        *)
(* sessions and RTP sessions, every number of requests and every range of  *)
(* ports.                                                                  *)
(*                                                                         *)
(* A count is exact because a step changes it by what one thread, session  *)
(* and RTP session owe before and after.  That nothing is left rests on    *)
(* who ends a session that is no longer found: the thread that marked it,  *)
(* or the loop.  The search for a pair ends because it has a number of     *)
(* looks left, and finds a pair that is free because none is passed over.  *)
(***************************************************************************)
EXTENDS RtspSession, FiniteSetTheorems, WellFoundedInduction, TLAPS

-----------------------------------------------------------------------------
(* Induction over the natural numbers.                                      *)

\* A set of naturals that is not empty has a least member.
LEMMA Least ==
  ASSUME NEW T, T \subseteq Nat, T # {}
  PROVE  \E x \in T : \A y \in T : x <= y
<1> DEFINE R == OpToRel(<, Nat)
<1>1. IsWellFoundedOn(R, Nat)
  BY NatLessThanWellFounded
<1>2. R = {ss \in Nat \X Nat : ss[1] < ss[2]}
  BY DEF OpToRel
<1> HIDE DEF R
<1>3. PICK x \in T : \A y \in T : ~ (<<y, x>> \in R)
  BY <1>1, WFMin
<1>4. ASSUME NEW y \in T PROVE x <= y
  <2>1. x \in Nat /\ y \in Nat
    OBVIOUS
  <2>2. SUFFICES ASSUME y < x PROVE FALSE
    BY <2>1
  <2>3. <<y, x>> \in {ss \in Nat \X Nat : ss[1] < ss[2]}
    BY <2>1, <2>2
  <2>4. <<y, x>> \in R
    BY <2>3, <1>2, Zenon
  <2> QED BY <2>4, <1>3, Zenon
<1> QED BY <1>4

\* What holds of 0 and of the successor of each number it holds of, it holds of all.
LEMMA Induct ==
  ASSUME NEW S, NEW m \in Nat, 0 \in S, \A n \in 0 .. m - 1 : n \in S => n + 1 \in S
  PROVE  \A n \in 0 .. m : n \in S
<1> SUFFICES ASSUME NEW n0 \in 0 .. m, n0 \notin S PROVE FALSE
  OBVIOUS
<1> DEFINE T == {n \in 0 .. m : n \notin S}
<1>1. T \subseteq Nat /\ T # {}
  OBVIOUS
<1>2. PICK x \in T : \A y \in T : x <= y
  BY <1>1, Least
<1>3. x # 0
  BY <1>2
<1>4. x - 1 \in 0 .. m - 1 /\ x - 1 \notin T
  BY <1>2, <1>3
<1> QED BY <1>2, <1>4

-----------------------------------------------------------------------------
(* One port.                                                                *)

\* An allocator with its fields in place.
Pools == [min : Nat, max : Nat, set : SUBSET Nat, used : Int, reserved : Int, next : Nat,
          bug : BOOLEAN]
Shaped(p) ==
  /\ p \in Pools /\ p.min < p.max
  /\ p.set \subseteq InRange(p) /\ p.next \in InRange(p)

\* The same range.
SameRange(p, q) == q.min = p.min /\ q.max = p.max /\ q.reserved = p.reserved

\* How far a port is from where the next search begins.
Ahead(p, q) == IF p.next <= q THEN q - p.next ELSE q - p.next + Total(p)

\* What % gives for a number that is less than twice the divisor.
LEMMA ModSmall ==
  ASSUME NEW B \in Nat \ {0}, NEW x \in Nat, x < 2 * B
  PROVE  x % B = IF x < B THEN x ELSE x - B
<1>1. CASE x < B
  BY <1>1
<1>2. CASE B <= x
  BY <1>2
<1> QED BY <1>1, <1>2

\* The ports a search looks at are those of the range, from where it begins.
LEMMA CandidateIs ==
  ASSUME NEW p, Shaped(p), NEW i \in 0 .. Total(p) - 1
  PROVE  Candidate(p, i) \in InRange(p) /\ Ahead(p, Candidate(p, i)) = i
<1> DEFINE x == p.next - p.min + i
           T == Total(p)
<1>1. p.next \in Nat /\ p.min \in Nat /\ p.max \in Nat /\ p.min <= p.next /\ p.next < p.max
  BY DEF Shaped, Pools, InRange
<1>2. x \in Nat /\ T \in Nat \ {0} /\ x < 2 * T /\ T = p.max - p.min /\ i \in Nat /\ i < T
  BY <1>1 DEF Total
<1>3. x % T = IF x < T THEN x ELSE x - T
  <2> HIDE DEF x, T
  <2> QED BY <1>2, ModSmall, Zenon
<1>4. Candidate(p, i) = p.min + (IF x < T THEN x ELSE x - T)
  BY <1>3, Zenon DEF Candidate
<1>5. Candidate(p, i) \in InRange(p)
  BY <1>1, <1>2, <1>4 DEF InRange
<1>6. Ahead(p, Candidate(p, i)) = i
  BY <1>1, <1>2, <1>4 DEF Ahead
<1> QED BY <1>5, <1>6

\* ... and each of them is looked at.
LEMMA AheadIs ==
  ASSUME NEW p, Shaped(p), NEW q \in InRange(p)
  PROVE  Ahead(p, q) \in 0 .. Total(p) - 1 /\ Candidate(p, Ahead(p, q)) = q
<1>1. /\ p.next \in Nat /\ p.min \in Nat /\ p.max \in Nat /\ p.min <= p.next /\ p.next < p.max
      /\ q \in Nat /\ p.min <= q /\ q < p.max
  BY DEF Shaped, Pools, InRange
<1>2. Ahead(p, q) \in 0 .. Total(p) - 1
  BY <1>1 DEF Ahead, Total
<1>3. PICK c : c = Candidate(p, Ahead(p, q))
  OBVIOUS
<1>4. c \in InRange(p) /\ Ahead(p, c) = Ahead(p, q)
  BY <1>2, <1>3, CandidateIs, Zenon
<1>5. c \in Nat /\ p.min <= c /\ c < p.max
  BY <1>1, <1>4 DEF InRange
<1>6. c = q
  BY <1>1, <1>4, <1>5 DEF Ahead, Total
<1> QED BY <1>2, <1>3, <1>6

\* A port was taken, and the next search begins behind it.
Taking(p, port, q) ==
  /\ Shaped(q) /\ SameRange(p, q) /\ q.bug = p.bug
  /\ q.set = p.set \cup {port} /\ q.used = p.used + 1 /\ q.next = Following(p, port)

\* __jpf_ports_get_one takes the first free port behind the last one, or none.
LEMMA GetOneIs ==
  ASSUME NEW p, Shaped(p)
  PROVE  \/ /\ GetOne(p).pool = p /\ GetOne(p).port = NoPort
            /\ p.used + p.reserved >= Total(p) \/ InRange(p) \subseteq p.set
         \/ /\ GetOne(p).port \in InRange(p) \ p.set
            /\ Taking(p, GetOne(p).port, GetOne(p).pool)
            /\ \A q \in InRange(p) \ p.set : Ahead(p, GetOne(p).port) <= Ahead(p, q)
<1> DEFINE hits == {i \in 0 .. Total(p) - 1 : Candidate(p, i) \notin p.set}
           first == CHOOSE i \in hits : \A j \in hits : i <= j
           port == Candidate(p, first)
           took == [p EXCEPT !.set = @ \cup {port}, !.used = @ + 1, !.next = Following(p, port)]
<1>1. CASE p.used + p.reserved >= Total(p) \/ hits = {}
  <2>1. GetOne(p) = [pool |-> p, port |-> NoPort]
    BY <1>1, Zenon DEF GetOne
  <2>2. hits = {} => InRange(p) \subseteq p.set
    BY AheadIs
  <2> HIDE DEF hits
  <2> QED BY <1>1, <2>1, <2>2
<1>2. CASE ~ (p.used + p.reserved >= Total(p) \/ hits = {})
  <2>1. GetOne(p) = [pool |-> took, port |-> port]
    BY <1>2, Zenon DEF GetOne
  <2>2. hits \subseteq Nat /\ hits # {}
    BY <1>2
  <2>3. \E i \in hits : \A j \in hits : i <= j
    <3> HIDE DEF hits
    <3> QED BY <2>2, Least, Zenon
  <2>4. first \in hits /\ \A j \in hits : first <= j
    <3> HIDE DEF hits
    <3> QED BY <2>3, Zenon
  <2>5. first \in 0 .. Total(p) - 1 /\ port \notin p.set
    <3> HIDE DEF first
    <3> QED BY <2>4
  <2>6. port \in InRange(p) /\ Ahead(p, port) = first
    <3> HIDE DEF first
    <3> QED BY <2>5, CandidateIs, Zenon
  <2>7. ASSUME NEW q \in InRange(p) \ p.set PROVE first <= Ahead(p, q)
    <3>1. Ahead(p, q) \in hits
      <4> QED BY AheadIs, Zenon
    <3> HIDE DEF hits, first
    <3> QED BY <2>4, <3>1, Zenon
  <2>8. PICK c : c = port
    OBVIOUS
  <2>9. PICK f : f = took
    OBVIOUS
  <2>10. Taking(p, c, f)
    <3> HIDE DEF port
    <3>1. f = [p EXCEPT !.set = @ \cup {c}, !.used = @ + 1, !.next = Following(p, c)]
      BY <2>8, <2>9, Zenon
    <3>2. c \in InRange(p) /\ c \in Nat /\ p \in Pools /\ p.min < p.max
      BY <2>6, <2>8 DEF Shaped, InRange, Pools
    <3>3. Following(p, c) \in InRange(p) /\ Following(p, c) \in Nat
      BY <3>2 DEF Following, InRange, Pools
    <3>4. /\ f.min = p.min /\ f.max = p.max /\ f.reserved = p.reserved /\ f.bug = p.bug
          /\ f.set = p.set \cup {c} /\ f.used = p.used + 1 /\ f.next = Following(p, c)
      BY <3>1, <3>2 DEF Pools
    <3>5. f \in Pools
      <4>1. p.set \cup {c} \in SUBSET Nat /\ p.used + 1 \in Int
        BY <3>2 DEF Pools
      <4> QED BY <3>1, <3>2, <3>3, <4>1, Zenon DEF Pools
    <3>6. p.set \cup {c} \subseteq InRange(p)
      BY <3>2 DEF Shaped
    <3>7. InRange(f) = InRange(p)
      BY <3>4, Zenon DEF InRange
    <3>8. Shaped(f)
      BY <3>2, <3>3, <3>4, <3>5, <3>6, <3>7, Zenon DEF Shaped
    <3> QED BY <3>4, <3>8, Zenon DEF Taking, SameRange
  <2> HIDE DEF port, took, first, hits
  <2>11. GetOne(p).pool = f /\ GetOne(p).port = c
    BY <2>1, <2>8, <2>9
  <2> QED BY <2>5, <2>6, <2>7, <2>8, <2>10, <2>11, Zenon
<1> QED BY <1>1, <1>2, Zenon

\* A port was given back.
Giving(p, port, q) ==
  /\ Shaped(q) /\ SameRange(p, q) /\ q.bug = (p.bug \/ port \notin p.set)
  /\ q.set = p.set \ {port} /\ q.used = p.used - 1 /\ q.next = p.next

\* __jpf_ports_put_one gives a port back, whatever it is.
LEMMA PutOneIs ==
  ASSUME NEW p, Shaped(p), NEW port
  PROVE  Giving(p, port, PutOne(p, port))
<1> PICK f : f = PutOne(p, port)
  OBVIOUS
<1>1. f = [p EXCEPT !.set = @ \ {port}, !.used = @ - 1, !.bug = @ \/ port \notin p.set]
  BY Zenon DEF PutOne
<1>2. p \in Pools
  BY DEF Shaped
<1>3. /\ f.min = p.min /\ f.max = p.max /\ f.reserved = p.reserved /\ f.next = p.next
      /\ f.set = p.set \ {port} /\ f.used = p.used - 1
  BY <1>1, <1>2 DEF Pools
<1>4. f.bug = (p.bug \/ port \notin p.set)
  BY <1>1, <1>2, Zenon DEF Pools
<1>5. f \in Pools
  <2>1. p.set \ {port} \in SUBSET Nat /\ p.used - 1 \in Int
    BY <1>2 DEF Pools
  <2> QED BY <1>1, <1>2, <2>1, Zenon DEF Pools
<1>6. InRange(f) = InRange(p)
  BY <1>3, Zenon DEF InRange
<1>7. Shaped(f)
  BY <1>3, <1>5, <1>6 DEF Shaped
<1> QED BY <1>3, <1>4, <1>7, Zenon DEF Giving, SameRange

-----------------------------------------------------------------------------
(* A search for a pair.                                                     *)

\* The looks of a search, as Search counts them, and where it starts.
StartOf(p) == [stage |-> "low", pool |-> p, left |-> Total(p), low |-> NoPort]
Looks(p) ==
  CHOOSE f : f = [n \in 0 .. 2 * Total(p) + 2 |-> IF n = 0 THEN StartOf(p) ELSE Look(f[n - 1])]

\* A search is the last of its looks.
LEMMA SearchIsLooks == ASSUME NEW p PROVE Search(p) = Looks(p)[2 * Total(p) + 2]
BY DEF Search, Looks, StartOf

\* Each look goes on from the one before.
LEMMA LooksDef ==
  ASSUME NEW p, NEW N \in Nat, N = 2 * Total(p) + 2
  PROVE  /\ Looks(p)[0] = StartOf(p)
         /\ \A n \in 0 .. N - 1 : Looks(p)[n + 1] = Look(Looks(p)[n])
<1> DEFINE Some(f, m) ==
      /\ f = [n \in 0 .. m |-> f[n]] /\ f[0] = StartOf(p)
      /\ \A n \in 1 .. m : f[n] = Look(f[n - 1])
<1> DEFINE S == {m \in 0 .. N : \E f : Some(f, m)}
<1>1. 0 \in S
  <2>1. Some([n \in 0 .. 0 |-> StartOf(p)], 0)
    OBVIOUS
  <2>2. 0 \in 0 .. N
    OBVIOUS
  <2> HIDE DEF Some
  <2> QED BY <2>1, <2>2
<1>2. ASSUME NEW m \in 0 .. N - 1, m \in S PROVE m + 1 \in S
  <2>1. PICK f : Some(f, m)
    BY <1>2
  <2>2. PICK g : g = [n \in 0 .. m + 1 |-> IF n = m + 1 THEN Look(f[m]) ELSE f[n]]
    OBVIOUS
  <2>3. g = [n \in 0 .. m + 1 |-> g[n]] /\ g[0] = StartOf(p)
    BY <2>1, <2>2
  <2>4. ASSUME NEW n \in 1 .. m + 1 PROVE g[n] = Look(g[n - 1])
    <3>1. CASE n = m + 1
      <4>1. g[n] = Look(f[m]) /\ g[n - 1] = f[m]
        BY <2>2, <3>1
      <4> QED BY <4>1, Zenon
    <3>2. CASE n \in 1 .. m
      <4>1. f[n] = Look(f[n - 1])
        BY <2>1, <3>2, Zenon
      <4>2. g[n] = f[n] /\ g[n - 1] = f[n - 1]
        BY <2>2, <3>2
      <4> QED BY <4>1, <4>2, Zenon
    <3>3. n = m + 1 \/ n \in 1 .. m
      OBVIOUS
    <3> QED BY <3>1, <3>2, <3>3, Zenon
  <2>5. Some(g, m + 1)
    BY <2>3, <2>4, Zenon
  <2>6. m + 1 \in 0 .. N
    OBVIOUS
  <2> HIDE DEF Some
  <2> QED BY <2>5, <2>6
<1>3. N \in S
  <2> HIDE DEF S
  <2>1. \A n \in 0 .. N - 1 : n \in S => n + 1 \in S
    BY <1>2
  <2>2. \A n \in 0 .. N : n \in S
    BY <1>1, <2>1, Induct, Zenon
  <2> QED BY <2>2
<1>4. PICK f : Some(f, N)
  BY <1>3
<1>5. f = [n \in 0 .. N |-> IF n = 0 THEN StartOf(p) ELSE Look(f[n - 1])]
  <2>1. \A n \in 0 .. N : f[n] = IF n = 0 THEN StartOf(p) ELSE Look(f[n - 1])
    <3>1. \A n \in 0 .. N : n = 0 \/ (n # 0 /\ n \in 1 .. N)
      OBVIOUS
    <3> QED BY <1>4, <3>1, Zenon
  <2> QED BY <1>4, <2>1, Zenon
<1>6. PICK h : h = Looks(p)
  OBVIOUS
<1>7. h = [n \in 0 .. N |-> IF n = 0 THEN StartOf(p) ELSE Look(h[n - 1])]
  BY <1>5, <1>6, Zenon DEF Looks
<1>8. h[0] = StartOf(p)
  <2>1. 0 \in 0 .. N
    OBVIOUS
  <2> QED BY <1>7, <2>1, Zenon
<1>9. ASSUME NEW n \in 0 .. N - 1 PROVE h[n + 1] = Look(h[n])
  <2>1. n + 1 \in 0 .. N /\ n + 1 # 0 /\ (n + 1) - 1 = n
    OBVIOUS
  <2>2. h[n + 1] = Look(h[(n + 1) - 1])
    BY <1>7, <2>1, Zenon
  <2> QED BY <2>1, <2>2, Zenon
<1> QED BY <1>6, <1>8, <1>9, Zenon

\* The state of a search.
At(s, stage, ports, left, low) ==
  /\ DOMAIN s = {"stage", "pool", "left", "low"}
  /\ s.stage = stage /\ s.pool = ports /\ s.left = left /\ s.low = low

\* A search under way, of an allocator with the range and counters of p.
Placed(p, s) ==
  /\ At(s, s.stage, s.pool, s.left, s.low)
  /\ s.stage \in {"low", "hi", "found", "failed"} /\ s.left \in Nat
  /\ Shaped(s.pool) /\ SameRange(p, s.pool)
  /\ s.low \in InRange(p) \cup {NoPort} /\ (s.stage \in {"hi", "found"} => s.low \in InRange(p))

\* What the fields of a state of the search become when some of them change.
LEMMA AtExcept ==
  ASSUME NEW s, NEW a, NEW b, NEW c, NEW d, At(s, a, b, c, d), NEW x, NEW y, NEW z, NEW w
  PROVE  /\ At([s EXCEPT !.stage = x, !.pool = y], x, y, c, d)
         /\ At([s EXCEPT !.stage = x, !.pool = y, !.left = z, !.low = w], x, y, z, w)
         /\ At([s EXCEPT !.pool = y, !.left = z], a, y, z, d)
         /\ At([s EXCEPT !.pool = y, !.left = z, !.low = w], a, y, z, w)
BY DEF At

\* What a look does, by what it finds.
LEMMA LookIs ==
  ASSUME NEW p, Shaped(p), NEW s, Placed(p, s), NEW got, got = GetOne(s.pool)
  PROVE  /\ s.stage = "low" /\ (s.left = 0 \/ got.port = NoPort) =>
              At(Look(s), "failed", s.pool, s.left, s.low)
         /\ s.stage = "low" /\ s.left # 0 /\ got.port # NoPort /\ Even(got.port) =>
              At(Look(s), "hi", got.pool, s.left - 1, got.port)
         /\ s.stage = "low" /\ s.left # 0 /\ got.port # NoPort /\ ~ Even(got.port) =>
              At(Look(s), "low", PutOne(got.pool, got.port), s.left - 1, s.low)
         /\ s.stage = "hi" /\ got.port = NoPort =>
              At(Look(s), "failed", PutOne(s.pool, s.low), s.left, s.low)
         /\ s.stage = "hi" /\ got.port = s.low + 1 => At(Look(s), "found", got.pool, s.left, s.low)
         /\ s.stage = "hi" /\ got.port \notin {NoPort, s.low + 1} /\ ~ Even(got.port) =>
              At(Look(s), "low", PutOne(PutOne(got.pool, s.low), got.port), s.left, s.low)
         /\ s.stage = "hi" /\ got.port \notin {NoPort, s.low + 1} /\ Even(got.port) /\ s.left = 0 =>
              At(Look(s), "failed", PutOne(PutOne(got.pool, s.low), got.port), s.left, s.low)
         /\ s.stage = "hi" /\ got.port \notin {NoPort, s.low + 1} /\ Even(got.port) /\ s.left # 0 =>
              At(Look(s), "hi", PutOne(got.pool, s.low), s.left - 1, got.port)
         /\ s.stage \notin {"low", "hi"} => Look(s) = s
<1>1. At(s, s.stage, s.pool, s.left, s.low)
  BY DEF Placed
<1>2. CASE s.stage = "low"
  <2>1. Look(s) = LookForLow(s)
    BY <1>2 DEF Look
  <2>2. Look(s) = IF s.left = 0 \/ got.port = NoPort THEN Fails(s, s.pool)
                  ELSE IF Even(got.port)
                       THEN [s EXCEPT !.stage = "hi", !.pool = got.pool, !.left = @ - 1, !.low = got.port]
                       ELSE [s EXCEPT !.pool = PutOne(got.pool, got.port), !.left = @ - 1]
    BY <2>1, Zenon DEF LookForLow
  <2>3. At(Fails(s, s.pool), "failed", s.pool, s.left, s.low)
    BY <1>1, AtExcept, Zenon DEF Fails
  <2>4. At([s EXCEPT !.stage = "hi", !.pool = got.pool, !.left = @ - 1, !.low = got.port],
           "hi", got.pool, s.left - 1, got.port)
    BY <1>1 DEF At
  <2>5. PICK g : g = PutOne(got.pool, got.port)
    OBVIOUS
  <2>6. At([s EXCEPT !.pool = g, !.left = @ - 1], "low", g, s.left - 1, s.low)
    BY <1>1, <1>2 DEF At
  <2> QED BY <1>2, <2>2, <2>3, <2>4, <2>5, <2>6, Zenon
<1>3. CASE s.stage = "hi"
  <2>1. PICK without : without = PutOne(got.pool, s.low)
    OBVIOUS
  <2>2. Look(s) = LookForHi(s)
    BY <1>3 DEF Look
  <2>3. s.low \in Nat
    BY <1>3 DEF Placed, InRange, Pools, Shaped
  <2>4. /\ got.port = NoPort => Look(s) = Fails(s, PutOne(s.pool, s.low))
        /\ got.port = s.low + 1 => Look(s) = [s EXCEPT !.stage = "found", !.pool = got.pool]
        /\ got.port \notin {NoPort, s.low + 1} /\ ~ Even(got.port) =>
             Look(s) = [s EXCEPT !.stage = "low", !.pool = PutOne(without, got.port)]
        /\ got.port \notin {NoPort, s.low + 1} /\ Even(got.port) =>
             Look(s) = IF s.left = 0 THEN Fails(s, PutOne(without, got.port))
                       ELSE [s EXCEPT !.pool = without, !.left = @ - 1, !.low = got.port]
    <3>1. NoPort # s.low + 1
      BY <2>3 DEF NoPort
    <3> QED BY <2>1, <2>2, <3>1 DEF LookForHi
  <2>5. PICK f : f = PutOne(s.pool, s.low)
    OBVIOUS
  <2>6. PICK g : g = PutOne(without, got.port)
    OBVIOUS
  <2>7. /\ At(Fails(s, f), "failed", f, s.left, s.low)
        /\ At(Fails(s, g), "failed", g, s.left, s.low)
    BY <1>1, AtExcept, Zenon DEF Fails
  <2>8. At([s EXCEPT !.stage = "found", !.pool = got.pool], "found", got.pool, s.left, s.low)
    BY <1>1, AtExcept, Zenon
  <2>9. At([s EXCEPT !.stage = "low", !.pool = g], "low", g, s.left, s.low)
    BY <1>1, AtExcept, Zenon
  <2>10. At([s EXCEPT !.pool = without, !.left = @ - 1, !.low = got.port],
            "hi", without, s.left - 1, got.port)
    BY <1>1, <1>3 DEF At
  <2>11. s.stage # "low"
    BY <1>3
  <2> QED BY <1>3, <2>1, <2>4, <2>5, <2>6, <2>7, <2>8, <2>9, <2>10, <2>11, Zenon
<1>4. CASE s.stage \notin {"low", "hi"}
  BY <1>4 DEF Look
<1> QED BY <1>2, <1>3, <1>4, Zenon

\* No port is left, and a port that is the next free one.
Full(q) == q.used + q.reserved >= Total(q) \/ InRange(q) \subseteq q.set
NextFree(q, port) ==
  port \in InRange(q) \ q.set /\ \A x \in InRange(q) \ q.set : Ahead(q, port) <= Ahead(q, x)

\* What a look s with port in its hands, taken from its allocator with q left, comes to: t with
\* allocator f.
Outcome(s, port, q, t, f) ==
  \/ s.stage = "low" /\ s.left # 0 /\ Even(port) /\ f = q /\ At(t, "hi", f, s.left - 1, port)
  \/ /\ s.stage = "low" /\ s.left # 0 /\ ~ Even(port)
     /\ Giving(q, port, f) /\ At(t, "low", f, s.left - 1, s.low)
  \/ s.stage = "hi" /\ port = s.low + 1 /\ f = q /\ At(t, "found", f, s.left, s.low)
  \/ /\ s.stage = "hi" /\ port # s.low + 1 /\ ~ Even(port)
     /\ \E g : Giving(q, s.low, g) /\ Giving(g, port, f)
     /\ At(t, "low", f, s.left, s.low)
  \/ /\ s.stage = "hi" /\ port # s.low + 1 /\ Even(port) /\ s.left = 0
     /\ \E g : Giving(q, s.low, g) /\ Giving(g, port, f)
     /\ At(t, "failed", f, s.left, s.low)
  \/ /\ s.stage = "hi" /\ port # s.low + 1 /\ Even(port) /\ s.left # 0
     /\ Giving(q, s.low, f) /\ At(t, "hi", f, s.left - 1, port)

\* What one look of the search does, by the stage it is in and what the allocator still has.
LEMMA LookOutcome ==
  ASSUME NEW p, Shaped(p), NEW s, Placed(p, s), s.stage \in {"low", "hi"}
  PROVE  \/ /\ s.stage = "low" /\ (s.left = 0 \/ Full(s.pool))
            /\ At(Look(s), "failed", s.pool, s.left, s.low)
         \/ /\ s.stage = "hi" /\ Full(s.pool)
            /\ \E f : Giving(s.pool, s.low, f) /\ At(Look(s), "failed", f, s.left, s.low)
         \/ \E port, q, f : /\ NextFree(s.pool, port) /\ Taking(s.pool, port, q)
                            /\ Outcome(s, port, q, Look(s), f)
<1>1. PICK got : got = GetOne(s.pool)
  OBVIOUS
<1>2. PICK t : t = Look(s)
  OBVIOUS
<1>3. Shaped(s.pool)
  BY DEF Placed
<1>4. CASE got.pool = s.pool /\ got.port = NoPort /\ Full(s.pool)
  <2>1. CASE s.stage = "low"
    <3>1. At(t, "failed", s.pool, s.left, s.low)
      BY <1>1, <1>2, <1>4, <2>1, LookIs, Zenon
    <3> QED BY <1>2, <1>4, <2>1, <3>1, Zenon
  <2>2. CASE s.stage = "hi"
    <3>1. PICK f : f = PutOne(s.pool, s.low)
      OBVIOUS
    <3>2. At(t, "failed", f, s.left, s.low)
      BY <1>1, <1>2, <1>4, <2>2, <3>1, LookIs, Zenon
    <3>3. Giving(s.pool, s.low, f)
      BY <1>3, <3>1, PutOneIs, Zenon
    <3> QED BY <1>2, <1>4, <2>2, <3>2, <3>3, Zenon
  <2> QED BY <2>1, <2>2, Zenon
<1>5. CASE NextFree(s.pool, got.port) /\ Taking(s.pool, got.port, got.pool)
  <2>1. PICK port : port = got.port
    OBVIOUS
  <2>2. PICK q : q = got.pool
    OBVIOUS
  <2>3. port # NoPort /\ Shaped(q)
    <3>1. port \in Nat
      BY <1>5, <2>1 DEF NextFree, InRange, Shaped, Pools, Placed
    <3>2. port # NoPort
      BY <3>1 DEF NoPort
    <3> QED BY <3>2, <1>5, <2>1, <2>2, Zenon DEF Taking
  <2>4. PICK f : f = PutOne(q, s.low)
    OBVIOUS
  <2>5. PICK g : g = PutOne(q, port)
    OBVIOUS
  <2>6. PICK h : h = PutOne(f, port)
    OBVIOUS
  <2>7. Giving(q, s.low, f) /\ Giving(q, port, g) /\ Giving(f, port, h)
    <3>1. Giving(q, s.low, f) /\ Giving(q, port, g)
      BY <2>3, <2>4, <2>5, PutOneIs, Zenon
    <3>2. Shaped(f)
      BY <3>1, Zenon DEF Giving
    <3> QED BY <2>6, <3>1, <3>2, PutOneIs, Zenon
  <2>8. CASE s.stage = "low" /\ s.left = 0
    <3>1. At(t, "failed", s.pool, s.left, s.low)
      BY <1>1, <1>2, <2>8, LookIs, Zenon
    <3> QED BY <1>2, <2>8, <3>1, Zenon
  <2>9. CASE s.stage = "low" /\ s.left # 0
    <3>1. CASE Even(port)
      <4>1. At(t, "hi", q, s.left - 1, port)
        BY <1>1, <1>2, <2>1, <2>2, <2>3, <2>9, <3>1, LookIs, Zenon
      <4>2. Outcome(s, port, q, t, q)
        BY <2>9, <3>1, <4>1, Zenon DEF Outcome
      <4> QED BY <1>2, <1>5, <2>1, <2>2, <4>2, Zenon
    <3>2. CASE ~ Even(port)
      <4>1. At(t, "low", g, s.left - 1, s.low)
        BY <1>1, <1>2, <2>1, <2>2, <2>3, <2>5, <2>9, <3>2, LookIs, Zenon
      <4>2. Outcome(s, port, q, t, g)
        BY <2>7, <2>9, <3>2, <4>1, Zenon DEF Outcome
      <4> QED BY <1>2, <1>5, <2>1, <2>2, <4>2, Zenon
    <3> QED BY <3>1, <3>2, Zenon
  <2>10. CASE s.stage = "hi"
    <3>1. CASE port = s.low + 1
      <4>1. At(t, "found", q, s.left, s.low)
        BY <1>1, <1>2, <2>1, <2>2, <2>10, <3>1, LookIs, Zenon
      <4>2. Outcome(s, port, q, t, q)
        BY <2>10, <3>1, <4>1, Zenon DEF Outcome
      <4> QED BY <1>2, <1>5, <2>1, <2>2, <4>2, Zenon
    <3>2. port # s.low + 1 => port \notin {NoPort, s.low + 1}
      BY <2>3, Zenon
    <3>3. CASE port # s.low + 1 /\ ~ Even(port)
      <4>1. At(t, "low", h, s.left, s.low)
        BY <1>1, <1>2, <2>1, <2>2, <2>4, <2>6, <2>10, <3>2, <3>3, LookIs, Zenon
      <4>2. Outcome(s, port, q, t, h)
        BY <2>7, <2>10, <3>3, <4>1, Zenon DEF Outcome
      <4> QED BY <1>2, <1>5, <2>1, <2>2, <4>2, Zenon
    <3>4. CASE port # s.low + 1 /\ Even(port) /\ s.left = 0
      <4>1. At(t, "failed", h, s.left, s.low)
        BY <1>1, <1>2, <2>1, <2>2, <2>4, <2>6, <2>10, <3>2, <3>4, LookIs, Zenon
      <4>2. Outcome(s, port, q, t, h)
        BY <2>7, <2>10, <3>4, <4>1, Zenon DEF Outcome
      <4> QED BY <1>2, <1>5, <2>1, <2>2, <4>2, Zenon
    <3>5. CASE port # s.low + 1 /\ Even(port) /\ s.left # 0
      <4>1. At(t, "hi", f, s.left - 1, port)
        BY <1>1, <1>2, <2>1, <2>2, <2>4, <2>10, <3>2, <3>5, LookIs, Zenon
      <4>2. Outcome(s, port, q, t, f)
        BY <2>7, <2>10, <3>5, <4>1, Zenon DEF Outcome
      <4> QED BY <1>2, <1>5, <2>1, <2>2, <4>2, Zenon
    <3> QED BY <3>1, <3>3, <3>4, <3>5, Zenon
  <2> QED BY <2>8, <2>9, <2>10, Zenon
<1> QED BY <1>1, <1>3, <1>4, <1>5, GetOneIs, Zenon DEF Full, NextFree

\* Every look keeps the range.
LEMMA PlacedKept ==
  ASSUME NEW p, Shaped(p), NEW s, Placed(p, s)
  PROVE  Placed(p, Look(s))
<1>1. PICK t : t = Look(s)
  OBVIOUS
<1>2. s.left \in Nat /\ s.left # 0 => s.left - 1 \in Nat
  BY DEF Placed
<1>3. CASE s.stage \notin {"low", "hi"}
  <2>1. t = s
    BY <1>1, <1>3, LookIs, Zenon
  <2> QED BY <1>1, <2>1
<1>4. CASE s.stage \in {"low", "hi"}
  <2>1. CASE s.stage = "low" /\ At(t, "failed", s.pool, s.left, s.low)
    BY <1>1, <2>1 DEF Placed, At
  <2>2. ASSUME NEW f, s.stage = "hi", Giving(s.pool, s.low, f), At(t, "failed", f, s.left, s.low)
        PROVE  Placed(p, t)
    BY <2>2 DEF Placed, At, Giving, SameRange
  <2>3. ASSUME NEW port, NEW q, NEW f, NextFree(s.pool, port), Taking(s.pool, port, q),
               Outcome(s, port, q, t, f)
        PROVE  Placed(p, t)
    <3>1. port \in InRange(p) /\ SameRange(p, s.pool) /\ s.left \in Nat /\ s.low \in InRange(p) \cup {NoPort}
      BY <2>3 DEF NextFree, InRange, Placed, SameRange
    <3>2. Shaped(q) /\ SameRange(p, q)
      BY <2>3, <3>1 DEF Taking, SameRange
    <3>3. Shaped(f) /\ SameRange(p, f)
      <4>1. ASSUME NEW x, Giving(q, x, f) PROVE Shaped(f) /\ SameRange(p, f)
        BY <4>1, <3>2 DEF Giving, SameRange
      <4>2. ASSUME NEW x, NEW y, NEW g, Giving(q, x, g), Giving(g, y, f)
            PROVE  Shaped(f) /\ SameRange(p, f)
        BY <4>2, <3>2 DEF Giving, SameRange
      <4>3. f = q \/ (\E x : Giving(q, x, f)) \/ \E x, y, g : Giving(q, x, g) /\ Giving(g, y, f)
        BY <2>3, Zenon DEF Outcome
      <4> QED BY <3>2, <4>1, <4>2, <4>3, Zenon
    <3>4. \/ At(t, "hi", f, s.left - 1, port) /\ s.left # 0
          \/ At(t, "low", f, s.left - 1, s.low) /\ s.left # 0
          \/ At(t, "found", f, s.left, s.low) /\ s.stage = "hi"
          \/ At(t, "low", f, s.left, s.low)
          \/ At(t, "failed", f, s.left, s.low)
      BY <2>3, Zenon DEF Outcome
    <3>5. s.stage = "hi" => s.low \in InRange(p)
      BY DEF Placed
    <3> QED BY <1>2, <3>1, <3>3, <3>4, <3>5 DEF Placed, At
  <2> QED BY <1>1, <1>4, <2>1, <2>2, <2>3, LookOutcome, Zenon
<1> QED BY <1>3, <1>4, Zenon

\* What a search holds of the ports of allocator p: nothing, the even port in its hands, or the
\* pair it found.
HoldsNothing(p, q) == q.set = p.set /\ q.used = p.used
HoldsLow(p, q, low) ==
  /\ low \in InRange(p) \ p.set /\ Even(low)
  /\ q.set = p.set \cup {low} /\ q.used = p.used + 1
HoldsPair(p, q, low) ==
  /\ {low, low + 1} \subseteq InRange(p) \ p.set /\ Even(low)
  /\ q.set = p.set \cup {low, low + 1} /\ q.used = p.used + 2
Tracks(p, s) ==
  /\ ~ s.pool.bug
  /\ s.stage \in {"low", "failed"} => HoldsNothing(p, s.pool)
  /\ s.stage = "hi" => HoldsLow(p, s.pool, s.low)
  /\ s.stage = "found" => HoldsPair(p, s.pool, s.low)

\* Every look keeps account of the ports it takes.
LEMMA TracksKept ==
  ASSUME NEW p, Shaped(p), NEW s, Placed(p, s), Tracks(p, s)
  PROVE  Tracks(p, Look(s))
<1>1. PICK t : t = Look(s)
  OBVIOUS
<1>2. InRange(s.pool) = InRange(p) /\ Shaped(s.pool)
  BY DEF Placed, SameRange, InRange
<1>3. CASE s.stage \notin {"low", "hi"}
  <2>1. t = s
    BY <1>1, <1>3, LookIs, Zenon
  <2> QED BY <1>1, <2>1
<1>4. CASE s.stage \in {"low", "hi"}
  <2>1. CASE s.stage = "low" /\ At(t, "failed", s.pool, s.left, s.low)
    BY <1>1, <2>1 DEF Tracks, At
  <2>2. ASSUME NEW f, s.stage = "hi", Giving(s.pool, s.low, f), At(t, "failed", f, s.left, s.low)
        PROVE  Tracks(p, t)
    <3>1. HoldsLow(p, s.pool, s.low)
      BY <2>2 DEF Tracks
    <3>2. f.set = p.set
      BY <2>2, <3>1 DEF Giving, HoldsLow
    <3>3. f.used = p.used
      BY <2>2, <3>1 DEF Giving, HoldsLow, Shaped, Pools
    <3>4. ~ f.bug
      BY <2>2, <3>1 DEF Giving, HoldsLow, Tracks
    <3> QED BY <2>2, <3>2, <3>3, <3>4 DEF Tracks, At, HoldsNothing
  <2>3. ASSUME NEW port, NEW q, NEW f, NextFree(s.pool, port), Taking(s.pool, port, q),
               Outcome(s, port, q, t, f)
        PROVE  Tracks(p, t)
    <3>1. port \in InRange(p) \ s.pool.set /\ port \in Nat /\ p.used \in Int
      BY <1>2, <2>3 DEF NextFree, InRange, Shaped, Pools
    <3>2. q.set = s.pool.set \cup {port} /\ q.used = s.pool.used + 1 /\ ~ q.bug /\ Shaped(q)
      BY <2>3 DEF Taking, Tracks
    <3>3. CASE s.stage = "low"
      <4>1. HoldsNothing(p, s.pool)
        BY <3>3 DEF Tracks
      <4>2. q.set = p.set \cup {port} /\ q.used = p.used + 1 /\ port \notin p.set
        BY <3>1, <3>2, <4>1 DEF HoldsNothing
      <4>3. CASE Even(port) /\ f = q /\ At(t, "hi", f, s.left - 1, port)
        BY <3>1, <3>2, <4>2, <4>3 DEF Tracks, At, HoldsLow
      <4>4. CASE ~ Even(port) /\ Giving(q, port, f) /\ At(t, "low", f, s.left - 1, s.low)
        <5>1. f.set = p.set
          BY <4>2, <4>4 DEF Giving
        <5>2. f.used = p.used
          BY <3>1, <4>2, <4>4 DEF Giving
        <5>3. ~ f.bug
          BY <3>2, <4>2, <4>4 DEF Giving
        <5> QED BY <4>4, <5>1, <5>2, <5>3 DEF Tracks, At, HoldsNothing
      <4>5. s.stage # "hi"
        BY <3>3
      <4> QED BY <2>3, <4>3, <4>4, <4>5, Zenon DEF Outcome
    <3>4. CASE s.stage = "hi"
      <4>1. HoldsLow(p, s.pool, s.low)
        BY <3>4 DEF Tracks
      <4>2. s.low \in Nat /\ s.low \in InRange(p) /\ s.low \notin p.set /\ Even(s.low)
        BY <4>1 DEF HoldsLow, InRange, Shaped, Pools
      <4>3. /\ q.set = p.set \cup {s.low, port} /\ q.used = p.used + 2
            /\ port \notin p.set /\ port # s.low
        BY <3>1, <3>2, <4>1 DEF HoldsLow
      <4>4. CASE port = s.low + 1 /\ f = q /\ At(t, "found", f, s.left, s.low)
        <5>1. HoldsPair(p, q, s.low)
          BY <3>1, <4>2, <4>3, <4>4 DEF HoldsPair
        <5> QED BY <3>2, <4>4, <5>1 DEF Tracks, At
      <4>5. ASSUME NEW g, Giving(q, s.low, g), Giving(g, port, f), At(t, t.stage, f, s.left, s.low),
                   t.stage \in {"low", "failed"}
            PROVE  Tracks(p, t)
        <5>1. f.set = p.set
          BY <4>2, <4>3, <4>5 DEF Giving
        <5>2. f.used = p.used
          BY <3>1, <4>3, <4>5 DEF Giving
        <5>3. ~ g.bug
          BY <3>2, <4>3, <4>5 DEF Giving
        <5>4. ~ f.bug
          BY <4>3, <4>5, <5>3 DEF Giving
        <5> QED BY <4>5, <5>1, <5>2, <5>4 DEF Tracks, At, HoldsNothing
      <4>6. CASE Even(port) /\ Giving(q, s.low, f) /\ At(t, "hi", f, s.left - 1, port)
        <5>1. f.set = p.set \cup {port}
          BY <4>2, <4>3, <4>6 DEF Giving
        <5>2. f.used = p.used + 1
          BY <3>1, <4>3, <4>6 DEF Giving
        <5>3. ~ f.bug
          BY <3>2, <4>3, <4>6 DEF Giving
        <5> QED BY <3>1, <4>3, <4>6, <5>1, <5>2, <5>3 DEF Tracks, At, HoldsLow
      <4>7. s.stage # "low"
        BY <3>4
      <4>8. ASSUME At(t, "low", f, s.left, s.low) \/ At(t, "failed", f, s.left, s.low)
            PROVE  At(t, t.stage, f, s.left, s.low) /\ t.stage \in {"low", "failed"}
        BY <4>8 DEF At
      <4> QED BY <2>3, <4>4, <4>5, <4>6, <4>7, <4>8, Zenon DEF Outcome
    <3> QED BY <1>4, <3>3, <3>4, Zenon
  <2> QED BY <1>1, <1>4, <2>1, <2>2, <2>3, LookOutcome, Zenon
<1> QED BY <1>3, <1>4, Zenon

\* An allocator whose counters agree with its map.
Sane(p) == Shaped(p) /\ Counted(p)

\* The ports of a range are finite, and as many as the range is long.
LEMMA RangeFinite ==
  ASSUME NEW p, Shaped(p)
  PROVE  /\ IsFiniteSet(InRange(p)) /\ Cardinality(InRange(p)) = Total(p) /\ Total(p) \in Nat \ {0}
         /\ IsFiniteSet(p.set) /\ Cardinality(p.set) \in Nat
<1>1. p.min \in Int /\ p.max - 1 \in Int /\ p.min < p.max /\ p.max \in Int
  BY DEF Shaped, Pools
<1>2. IsFiniteSet(InRange(p)) /\ Cardinality(InRange(p)) = Total(p)
  <2>1. /\ IsFiniteSet(p.min .. p.max - 1)
        /\ Cardinality(p.min .. p.max - 1) = IF p.min > p.max - 1 THEN 0 ELSE (p.max - 1) - p.min + 1
    BY <1>1, FS_Interval, Zenon
  <2>2. (IF p.min > p.max - 1 THEN 0 ELSE (p.max - 1) - p.min + 1) = Total(p)
    BY <1>1 DEF Total
  <2>3. InRange(p) = p.min .. p.max - 1
    BY Zenon DEF InRange
  <2> QED BY <2>1, <2>2, <2>3, Zenon
<1>3. p.set \in SUBSET InRange(p)
  BY DEF Shaped
<1>4. IsFiniteSet(p.set) /\ Cardinality(p.set) \in Nat
  BY <1>2, <1>3, FS_Subset, FS_CardinalityType, Zenon
<1> QED BY <1>1, <1>2, <1>4 DEF Total

\* While a port is free the counters say so.
LEMMA NotFull ==
  ASSUME NEW p, Sane(p), NEW a \in InRange(p) \ p.set
  PROVE  ~ Full(p)
<1>1. p.set \cup {a} \in SUBSET InRange(p)
  BY DEF Sane, Shaped
<1>2. Cardinality(p.set \cup {a}) = Cardinality(p.set) + 1
  BY RangeFinite, FS_AddElement, Zenon DEF Sane
<1>3. Cardinality(p.set \cup {a}) <= Total(p)
  <2>1. IsFiniteSet(InRange(p)) /\ Cardinality(InRange(p)) = Total(p)
    BY RangeFinite, Zenon DEF Sane
  <2>2. Cardinality(p.set \cup {a}) <= Cardinality(InRange(p))
    BY <1>1, <2>1, FS_Subset, Zenon
  <2> QED BY <2>1, <2>2
<1>4. p.used + p.reserved = Cardinality(p.set)
  BY DEF Sane, Counted
<1>5. Cardinality(p.set) \in Nat /\ Total(p) \in Nat
  BY RangeFinite DEF Sane
<1> QED BY <1>2, <1>3, <1>4, <1>5 DEF Full

\* A search leaves the counters right.
LEMMA TracksSane ==
  ASSUME NEW p, Sane(p), NEW s, Placed(p, s), Tracks(p, s)
  PROVE  Sane(s.pool)
<1>1. /\ IsFiniteSet(p.set) /\ Cardinality(p.set) \in Nat /\ p.used \in Nat
      /\ p.used + p.reserved = Cardinality(p.set) /\ p.reserved \in Int
  BY RangeFinite DEF Sane, Counted, Shaped, Pools
<1>2. s.pool.reserved = p.reserved /\ Shaped(s.pool) /\ ~ s.pool.bug
  BY DEF Placed, SameRange, Tracks
<1>3. CASE HoldsNothing(p, s.pool)
  BY <1>1, <1>2, <1>3 DEF HoldsNothing, Sane, Counted
<1>4. CASE HoldsLow(p, s.pool, s.low)
  <2>1. Cardinality(p.set \cup {s.low}) = Cardinality(p.set) + 1
    BY <1>1, <1>4, FS_AddElement DEF HoldsLow
  <2> QED BY <1>1, <1>2, <1>4, <2>1 DEF HoldsLow, Sane, Counted
<1>5. CASE HoldsPair(p, s.pool, s.low)
  <2>1. IsFiniteSet(p.set \cup {s.low}) /\ Cardinality(p.set \cup {s.low}) = Cardinality(p.set) + 1
    BY <1>1, <1>5, FS_AddElement DEF HoldsPair
  <2>2. s.low \in Int
    BY <1>5 DEF HoldsPair, InRange, Sane, Shaped, Pools
  <2>3. s.low + 1 \notin p.set \cup {s.low}
    BY <1>5, <2>2 DEF HoldsPair
  <2>4. Cardinality((p.set \cup {s.low}) \cup {s.low + 1}) = Cardinality(p.set) + 1 + 1
    BY <2>1, <2>3, FS_AddElement, Zenon
  <2>5. (p.set \cup {s.low}) \cup {s.low + 1} = p.set \cup {s.low, s.low + 1}
    OBVIOUS
  <2>6. Cardinality(s.pool.set) = Cardinality(p.set) + 1 + 1
    BY <1>5, <2>4, <2>5, Zenon DEF HoldsPair
  <2>7. s.pool.used = p.used + 2
    BY <1>5, Zenon DEF HoldsPair
  <2> QED BY <1>1, <1>2, <2>6, <2>7 DEF Sane, Counted
<1> QED BY <1>3, <1>4, <1>5 DEF Tracks, Placed

\* After n looks: each attempt takes two looks at most.
Ends(p, n, s) ==
  s.stage \in {"low", "hi"} => n + 2 * s.left + (IF s.stage = "hi" THEN 1 ELSE 0) <= 2 * Total(p)

\* A look takes the search one step nearer to its end ...
LEMMA EndsKept ==
  ASSUME NEW p, Shaped(p), NEW s, Placed(p, s), NEW n \in Nat, Ends(p, n, s)
  PROVE  Ends(p, n + 1, Look(s))
<1>1. PICK t : t = Look(s)
  OBVIOUS
<1>2. PICK T \in Nat : T = Total(p)
  BY RangeFinite
<1>3. s.left \in Nat
  BY DEF Placed
<1>4. CASE s.stage \notin {"low", "hi"}
  <2>1. t = s
    BY <1>1, <1>4, LookIs, Zenon
  <2> QED BY <1>1, <1>4, <2>1 DEF Ends
<1>5. CASE s.stage \in {"low", "hi"}
  <2>1. \/ t.stage = "failed" \/ t.stage = "found"
        \/ t.stage \in {"low", "hi"} /\ s.left # 0 /\ t.left = s.left - 1
        \/ t.stage = "low" /\ s.stage = "hi" /\ t.left = s.left
    <3>1. ASSUME NEW port, NEW q, NEW f, Outcome(s, port, q, t, f)
          PROVE  \/ t.stage = "failed" \/ t.stage = "found"
                 \/ t.stage \in {"low", "hi"} /\ s.left # 0 /\ t.left = s.left - 1
                 \/ t.stage = "low" /\ s.stage = "hi" /\ t.left = s.left
      BY <3>1 DEF Outcome, At
    <3>2. ASSUME NEW f, At(t, "failed", f, s.left, s.low) PROVE t.stage = "failed"
      BY <3>2 DEF At
    <3> QED BY <1>1, <1>5, <3>1, <3>2, LookOutcome, Zenon
  <2> QED BY <1>1, <1>2, <1>3, <1>5, <2>1 DEF Ends
<1> QED BY <1>4, <1>5, Zenon

\* A free pair at a is ahead of the search and can still be reached, or its even port is in the
\* search's hands and the other one is next, or a pair was found.
Reaches(p, a, n, s) ==
  \/ s.stage = "found"
  \/ /\ s.stage \in {"low", "hi"} /\ a \notin s.pool.set
     /\ Ahead(s.pool, a) < s.left /\ Ahead(s.pool, a) + n < Total(p)
  \/ s.stage = "hi" /\ s.low = a /\ s.pool.next = a + 1 /\ n <= Total(p)

\* ... and does not lead it past a pair that is free.
LEMMA ReachesKept ==
  ASSUME NEW p, Sane(p), NEW a \in FreePairs(p), NEW n \in Nat, NEW s, Placed(p, s), Tracks(p, s),
         Reaches(p, a, n, s)
  PROVE  Reaches(p, a, n + 1, Look(s))
<1>1. PICK t : t = Look(s)
  OBVIOUS
<1>2. /\ p.min \in Nat /\ p.max \in Nat /\ a \in Nat /\ Even(a) /\ Total(p) = p.max - p.min
      /\ p.min <= a /\ a + 1 < p.max /\ a \notin p.set /\ a + 1 \notin p.set
      /\ a \in InRange(p) /\ a + 1 \in InRange(p)
  BY DEF FreePairs, InRange, Sane, Shaped, Pools, Total
<1>3. /\ s.pool.next \in Nat /\ p.min <= s.pool.next /\ s.pool.next < p.max
      /\ s.pool.min = p.min /\ s.pool.max = p.max /\ s.left \in Nat
      /\ InRange(s.pool) = InRange(p) /\ Total(s.pool) = p.max - p.min
  <2>1. s.pool.min = p.min /\ s.pool.max = p.max
    BY DEF Placed, SameRange
  <2> QED BY <1>2, <2>1 DEF Placed, Shaped, InRange, Pools, Total
<1>4. CASE s.stage = "found"
  <2>1. t = s
    BY <1>1, <1>4, LookIs, Zenon DEF Sane
  <2> QED BY <1>1, <1>4, <2>1 DEF Reaches
<1>5. CASE /\ s.stage \in {"low", "hi"} /\ a \notin s.pool.set
           /\ Ahead(s.pool, a) < s.left /\ Ahead(s.pool, a) + n < Total(p)
  <2>1. Ahead(s.pool, a) \in Nat
    BY <1>2, <1>3 DEF Ahead
  <2>2. s.left # 0
    BY <1>3, <1>5, <2>1
  <2>3. ~ Full(s.pool)
    BY <1>2, <1>3, <1>5, TracksSane, NotFull, Zenon
  <2>4. PICK port, q, f : /\ NextFree(s.pool, port) /\ Taking(s.pool, port, q)
                          /\ Outcome(s, port, q, t, f)
    BY <1>1, <1>5, <2>2, <2>3, LookOutcome, Zenon DEF Sane
  <2>5. port \in Nat /\ p.min <= port /\ port < p.max /\ Ahead(s.pool, port) <= Ahead(s.pool, a)
    <3>1. port \in InRange(p) /\ a \in InRange(s.pool) \ s.pool.set
      BY <1>2, <1>3, <1>5, <2>4 DEF NextFree
    <3>2. Ahead(s.pool, port) <= Ahead(s.pool, a)
      BY <2>4, <3>1, Zenon DEF NextFree
    <3> QED BY <1>2, <3>1, <3>2 DEF InRange
  <2>6. f.next = IF port + 1 >= p.max THEN p.min ELSE port + 1
    <3>1. q.next = IF port + 1 >= p.max THEN p.min ELSE port + 1
      BY <1>3, <2>4 DEF Taking, Following
    <3>2. f.next = q.next
      BY <2>4 DEF Outcome, Giving
    <3> QED BY <3>1, <3>2
  <2>7. f.min = p.min /\ f.max = p.max /\ Total(f) = p.max - p.min
    <3>1. q.min = p.min /\ q.max = p.max
      BY <1>3, <2>4 DEF Taking, SameRange
    <3>2. f.min = q.min /\ f.max = q.max
      BY <2>4 DEF Outcome, Giving, SameRange
    <3> QED BY <3>1, <3>2 DEF Total
  <2>8. CASE port = a
    <3>1. s.stage = "hi" => port # s.low + 1
      <4>1. s.stage = "hi" => s.low \in Nat /\ Even(s.low)
        BY <1>2 DEF Tracks, HoldsLow, InRange
      <4> QED BY <1>2, <2>8, <4>1 DEF Even
    <3>2. t.stage = "hi" /\ t.low = a /\ t.pool = f
      BY <1>2, <1>5, <2>2, <2>4, <2>8, <3>1 DEF Outcome, At
    <3>3. f.next = a + 1
      BY <1>2, <2>6, <2>8
    <3>4. n + 1 <= Total(p)
      BY <1>2, <1>5, <2>1
    <3> QED BY <1>1, <3>2, <3>3, <3>4 DEF Reaches
  <2>9. CASE port # a
    <3>1. Ahead(f, a) < Ahead(s.pool, a) /\ Ahead(f, a) \in Nat
      BY <1>2, <1>3, <2>5, <2>6, <2>7, <2>9 DEF Ahead
    <3>2. \/ t.stage = "found"
          \/ /\ t.stage \in {"low", "hi"} /\ t.pool = f /\ t.left \in {s.left, s.left - 1}
             /\ f.set \subseteq s.pool.set \cup {port}
      <4>1. f.set \subseteq s.pool.set \cup {port}
        BY <2>4 DEF Outcome, Giving, Taking
      <4> QED BY <2>2, <2>4, <4>1 DEF Outcome, At
    <3>3. Ahead(f, a) < s.left - 1 /\ Ahead(f, a) + (n + 1) < Total(p)
      BY <1>2, <1>3, <1>5, <2>1, <3>1
    <3>4. t.stage \in {"low", "hi"} /\ t.pool = f /\ t.left \in {s.left, s.left - 1} =>
            Ahead(t.pool, a) < t.left /\ Ahead(t.pool, a) + (n + 1) < Total(p)
      BY <1>3, <3>1, <3>3
    <3> QED BY <1>1, <1>5, <2>9, <3>2, <3>4 DEF Reaches
  <2> QED BY <2>8, <2>9
<1>6. CASE s.stage = "hi" /\ s.low = a /\ s.pool.next = a + 1 /\ n <= Total(p)
  <2>1. a + 1 \in InRange(s.pool) \ s.pool.set
    BY <1>2, <1>3, <1>6 DEF Tracks, HoldsLow
  <2>2. ~ Full(s.pool)
    BY <2>1, TracksSane, NotFull, Zenon
  <2>3. s.stage # "low"
    BY <1>6
  <2>4. PICK port, q, f : /\ NextFree(s.pool, port) /\ Taking(s.pool, port, q)
                          /\ Outcome(s, port, q, t, f)
    BY <1>1, <1>6, <2>2, <2>3, LookOutcome, Zenon DEF Sane
  <2>5. port = a + 1
    <3>1. Ahead(s.pool, port) <= Ahead(s.pool, a + 1)
      BY <2>1, <2>4, Zenon DEF NextFree
    <3>2. port \in Nat /\ p.min <= port /\ port < p.max
      BY <1>2, <1>3, <2>4 DEF NextFree, InRange
    <3>3. Ahead(s.pool, a + 1) = 0
      BY <1>2, <1>6 DEF Ahead
    <3> QED BY <1>2, <1>3, <1>6, <3>1, <3>2, <3>3 DEF Ahead
  <2>6. t.stage = "found"
    BY <1>6, <2>4, <2>5 DEF Outcome, At
  <2> QED BY <1>1, <2>6 DEF Reaches
<1> QED BY <1>4, <1>5, <1>6, Zenon DEF Reaches

\* Every look of a search is in order.
LEMMA LooksPlaced ==
  ASSUME NEW p, Shaped(p), NEW N \in Nat, N = 2 * Total(p) + 2
  PROVE  \A n \in 0 .. N : Placed(p, Looks(p)[n])
<1> DEFINE h == Looks(p)
           S == {n \in 0 .. N : Placed(p, h[n])}
<1>1. h[0] = StartOf(p) /\ \A n \in 0 .. N - 1 : h[n + 1] = Look(h[n])
  BY LooksDef, Zenon
<1> HIDE DEF h
<1>2. Placed(p, StartOf(p))
  BY RangeFinite DEF Placed, At, StartOf, SameRange
<1>3. 0 \in S
  <2>1. 0 \in 0 .. N
    OBVIOUS
  <2> QED BY <1>1, <1>2, <2>1, Zenon
<1>4. ASSUME NEW n \in 0 .. N - 1, n \in S PROVE n + 1 \in S
  <2>1. n + 1 \in 0 .. N
    OBVIOUS
  <2> QED BY <1>1, <1>4, <2>1, PlacedKept, Zenon
<1>5. \A n \in 0 .. N : n \in S
  <2> HIDE DEF S
  <2>1. \A n \in 0 .. N - 1 : n \in S => n + 1 \in S
    BY <1>4
  <2> QED BY <1>3, <2>1, Induct, Zenon
<1> QED BY <1>5, Zenon DEF h

\* ... and so are its accounts.
LEMMA LooksTrack ==
  ASSUME NEW p, Sane(p), NEW N \in Nat, N = 2 * Total(p) + 2
  PROVE  \A n \in 0 .. N : Tracks(p, Looks(p)[n]) /\ Ends(p, n, Looks(p)[n])
<1> DEFINE h == Looks(p)
           S == {n \in 0 .. N : Tracks(p, h[n]) /\ Ends(p, n, h[n])}
<1>1. /\ h[0] = StartOf(p) /\ \A n \in 0 .. N - 1 : h[n + 1] = Look(h[n])
      /\ \A n \in 0 .. N : Placed(p, h[n])
  BY LooksDef, LooksPlaced, Zenon DEF Sane
<1> HIDE DEF h
<1>2. Tracks(p, StartOf(p)) /\ Ends(p, 0, StartOf(p))
  BY RangeFinite DEF Tracks, Ends, StartOf, HoldsNothing, Sane, Counted
<1>3. 0 \in S
  <2>1. 0 \in 0 .. N
    OBVIOUS
  <2> QED BY <1>1, <1>2, <2>1, Zenon
<1>4. ASSUME NEW n \in 0 .. N - 1, n \in S PROVE n + 1 \in S
  <2>1. n + 1 \in 0 .. N /\ n \in 0 .. N /\ n \in Nat
    OBVIOUS
  <2>2. Placed(p, h[n]) /\ Shaped(p) /\ h[n + 1] = Look(h[n])
    BY <1>1, <2>1, Zenon DEF Sane
  <2>3. Tracks(p, Look(h[n]))
    BY <1>4, <2>2, TracksKept, Zenon
  <2>4. Ends(p, n + 1, Look(h[n]))
    BY <1>4, <2>1, <2>2, EndsKept, Zenon
  <2> QED BY <2>1, <2>2, <2>3, <2>4, Zenon
<1>5. \A n \in 0 .. N : n \in S
  <2> HIDE DEF S
  <2>1. \A n \in 0 .. N - 1 : n \in S => n + 1 \in S
    BY <1>4
  <2> QED BY <1>3, <2>1, Induct, Zenon
<1> QED BY <1>5, Zenon DEF h

\* A free pair stays within reach.
LEMMA LooksReach ==
  ASSUME NEW p, Sane(p), NEW N \in Nat, N = 2 * Total(p) + 2, NEW a \in FreePairs(p)
  PROVE  \A n \in 0 .. N : Reaches(p, a, n, Looks(p)[n])
<1> DEFINE h == Looks(p)
           S == {n \in 0 .. N : Reaches(p, a, n, h[n])}
<1>1. /\ h[0] = StartOf(p) /\ \A n \in 0 .. N - 1 : h[n + 1] = Look(h[n])
      /\ \A n \in 0 .. N : Placed(p, h[n]) /\ Tracks(p, h[n])
  BY LooksDef, LooksPlaced, LooksTrack, Zenon DEF Sane
<1> HIDE DEF h
<1>2. Reaches(p, a, 0, StartOf(p))
  <2>1. a \in InRange(p) \ p.set
    BY DEF FreePairs
  <2>2. Ahead(p, a) \in 0 .. Total(p) - 1
    BY <2>1, AheadIs DEF Sane
  <2> QED BY <2>1, <2>2, RangeFinite DEF Reaches, StartOf, Sane
<1>3. 0 \in S
  <2>1. 0 \in 0 .. N
    OBVIOUS
  <2> QED BY <1>1, <1>2, <2>1, Zenon
<1>4. ASSUME NEW n \in 0 .. N - 1, n \in S PROVE n + 1 \in S
  <2>1. n + 1 \in 0 .. N /\ n \in 0 .. N /\ n \in Nat
    OBVIOUS
  <2> QED BY <1>1, <1>4, <2>1, ReachesKept, Zenon
<1>5. \A n \in 0 .. N : n \in S
  <2> HIDE DEF S
  <2>1. \A n \in 0 .. N - 1 : n \in S => n + 1 \in S
    BY <1>4
  <2> QED BY <1>3, <2>1, Induct, Zenon
<1> QED BY <1>5, Zenon DEF h

\* What __jpf_ports_get_pair leaves of any allocator.
LEMMA GetPairShape ==
  ASSUME NEW p, Shaped(p)
  PROVE  /\ Shaped(GetPair(p).pool) /\ SameRange(p, GetPair(p).pool)
         /\ GetPair(p).low \in InRange(p) \cup {NoPort}
<1>1. PICK N \in Nat : N = 2 * Total(p) + 2
  BY RangeFinite
<1>2. PICK s : s = Search(p)
  OBVIOUS
<1>3. Placed(p, s)
  <2>1. N \in 0 .. N
    OBVIOUS
  <2> QED BY <1>1, <1>2, <2>1, LooksPlaced, SearchIsLooks, Zenon
<1>4. CASE p.used + p.reserved + 2 > Total(p)
  BY <1>4 DEF GetPair, SameRange
<1>5. CASE ~ (p.used + p.reserved + 2 > Total(p))
  <2>1. GetPair(p) = [pool |-> s.pool, low |-> IF s.stage = "found" THEN s.low ELSE NoPort]
    BY <1>2, <1>5, Zenon DEF GetPair
  <2> QED BY <1>3, <2>1 DEF Placed
<1> QED BY <1>4, <1>5

\* The search of __jpf_ports_get_pair (ports.c) finds a pair of an even port and its successor
\* exactly when one is free, whatever the range, the ports that are taken and the place where
\* the search begins, and takes nothing else.
THEOREM PairSearchIsSound == \A p : Sane(p) => SearchSound(p)
<1> SUFFICES ASSUME NEW p, Sane(p) PROVE SearchSound(p)
  OBVIOUS
<1>1. PICK N \in Nat : N = 2 * Total(p) + 2 /\ N \in 0 .. N /\ Total(p) \in Nat
  <2>1. Total(p) \in Nat
    BY RangeFinite DEF Sane
  <2> QED BY <2>1
<1>2. PICK s : s = Search(p)
  OBVIOUS
<1>3. Placed(p, s) /\ Tracks(p, s) /\ Ends(p, N, s) /\ \A a \in FreePairs(p) : Reaches(p, a, N, s)
  <2>1. s = Looks(p)[N]
    BY <1>1, <1>2, SearchIsLooks, Zenon
  <2>2. Placed(p, s)
    BY <1>1, <2>1, LooksPlaced, Zenon DEF Sane
  <2>3. Tracks(p, s) /\ Ends(p, N, s)
    BY <1>1, <2>1, LooksTrack, Zenon
  <2> QED BY <1>1, <2>1, <2>2, <2>3, LooksReach, Zenon
<1>4. s.stage \in {"found", "failed"}
  <2>1. s.left \in Nat
    BY <1>3 DEF Placed
  <2>2. s.stage \notin {"low", "hi"}
    BY <1>1, <1>3, <2>1 DEF Ends
  <2> QED BY <1>3, <2>2 DEF Placed
<1>5. PICK got : got = GetPair(p)
  OBVIOUS
<1>6. FreePairs(p) # {} => p.used + p.reserved + 2 <= Total(p)
  <2>1. SUFFICES ASSUME NEW a \in FreePairs(p) PROVE p.used + p.reserved + 2 <= Total(p)
    BY <2>1
  <2>2. a \in InRange(p) \ p.set /\ a + 1 \in InRange(p) \ p.set /\ a + 1 # a
    BY DEF FreePairs, InRange, Sane, Shaped, Pools
  <2>3. /\ IsFiniteSet(p.set) /\ Cardinality(p.set) \in Nat /\ IsFiniteSet(InRange(p))
        /\ Cardinality(InRange(p)) = Total(p)
    BY RangeFinite, Zenon DEF Sane
  <2>4. IsFiniteSet(p.set \cup {a}) /\ Cardinality(p.set \cup {a}) = Cardinality(p.set) + 1
    BY <2>2, <2>3, FS_AddElement, Zenon
  <2>5. a + 1 \notin p.set \cup {a}
    BY <2>2
  <2>6. Cardinality((p.set \cup {a}) \cup {a + 1}) = Cardinality(p.set) + 1 + 1
    BY <2>4, <2>5, FS_AddElement, Zenon
  <2>7. (p.set \cup {a}) \cup {a + 1} \in SUBSET InRange(p)
    BY <2>2 DEF Sane, Shaped
  <2>8. Cardinality((p.set \cup {a}) \cup {a + 1}) <= Cardinality(InRange(p))
    BY <2>3, <2>7, FS_Subset, Zenon
  <2> QED BY <2>3, <2>6, <2>8 DEF Sane, Counted
<1>7. CASE p.used + p.reserved + 2 > Total(p)
  <2>1. got.pool = p /\ got.low = NoPort
    BY <1>5, <1>7 DEF GetPair
  <2>2. FreePairs(p) = {}
    BY <1>1, <1>6, <1>7 DEF Sane, Counted, Shaped, Pools
  <2> QED BY <1>5, <2>1, <2>2, Zenon DEF SearchSound, Sane
<1>8. CASE ~ (p.used + p.reserved + 2 > Total(p))
  <2>1. got.pool = s.pool /\ got.low = IF s.stage = "found" THEN s.low ELSE NoPort
    BY <1>2, <1>5, <1>8 DEF GetPair
  <2>2. Counted(got.pool)
    BY <1>3, <2>1, TracksSane, Zenon DEF Sane
  <2>3. CASE s.stage = "found"
    <3>1. HoldsPair(p, s.pool, s.low)
      BY <1>3, <2>3 DEF Tracks
    <3>2. s.low \in FreePairs(p) /\ s.pool.set = p.set \cup {s.low, s.low + 1}
      BY <3>1 DEF HoldsPair, FreePairs
    <3>3. s.low # NoPort
      BY <3>2 DEF FreePairs, InRange, NoPort, Sane, Shaped, Pools
    <3> QED BY <1>5, <2>1, <2>2, <2>3, <3>2, <3>3 DEF SearchSound
  <2>4. CASE s.stage = "failed"
    <3>1. s.pool.set = p.set
      BY <1>3, <2>4 DEF Tracks, HoldsNothing
    <3>2. FreePairs(p) = {}
      BY <1>3, <2>4 DEF Reaches
    <3> QED BY <1>5, <2>1, <2>2, <2>4, <3>1, <3>2 DEF SearchSound
  <2> QED BY <1>4, <2>3, <2>4
<1> QED BY <1>7, <1>8

-----------------------------------------------------------------------------
(* The invariant.                                                           *)

ClientShape == [refs : Int, killed : BOOLEAN, list : SUBSET Sessions, conns : BOOLEAN,
                in_loop : BOOLEAN, freed : BOOLEAN]
SessShape == [stage : {"unused", "live", "freed"}, refs : Int, killed : BOOLEAN,
              cur_state : {"INIT", "READY", "PLAYING"},
              session_timer : {"off", "armed", "expired"}, told : BOOLEAN]
RtpShape == [stage : {"unused", "listed", "unlisted", "freed"}, refs : Int,
             owner : Sessions \cup {NoSession}, transport : Transports, playing : BOOLEAN,
             leaving : Nat]

\* A thread that has a session in its hands, and where the loop and a handler may be.
Ending == {"kill", "kill_rtps", "kill_rtp", "unref"}
Holding == Ending \cup {"setup", "play_timer", "play", "pause", "remove"}
LoopPcs == Ending \cup {"polling", "kill_sessions", "orphan", "leave", "gone"}
HandlerPcs == Holding \cup {"idle", "transport", "find", "dead", "create", "finish"}
ThShape == [pc : LoopPcs \cup HandlerPcs, method : Methods, sid : Sessions \cup {NoSession},
            cur : Sessions \cup {NoSession}, rtp : Rtps \cup {NoRtp}, transport : Transports,
            tries : Nat, then : {"idle", "finish", "dead", "kill_sessions"}]

PoolShape(p) == Shaped(p) /\ p.min = LowPort /\ p.max = HighPort

Shapes ==
  /\ client \in ClientShape /\ sess \in [Sessions -> SessShape] /\ rtp \in [Rtps -> RtpShape]
  /\ th \in [Threads -> ThShape] /\ requests \in 0 .. MaxRequests /\ PoolShape(pool)

\* What thread t, as record x, has in its hands, by where it is.
Place(t, x) ==
  /\ IF t = Loop THEN x.pc \in LoopPcs /\ x.transport.mode = "none" /\ (x.pc \in Ending => x.then = "kill_sessions")
     ELSE x.pc \in HandlerPcs /\ (x.pc \in Holding => x.then \in {"finish", "dead"})
  /\ x.pc \in Holding <=> x.cur # NoSession
  /\ x.pc = "kill_rtp" <=> x.rtp # NoRtp
  /\ x.pc \in {"idle", "transport"} => x.transport.mode = "none"

\* What is counted is alive.
LiveStage(x) == x.stage \in {"listed", "unlisted"}
Alive ==
  /\ client.freed <=> client.refs = 0
  /\ \A s \in Sessions : sess[s].stage = "live" <=> sess[s].refs # 0
  /\ \A s \in Sessions : sess[s].stage = "unused" => ~ sess[s].killed
  /\ \A r \in Rtps : LiveStage(rtp[r]) <=> rtp[r].refs # 0
  /\ \A r \in Rtps : LiveStage(rtp[r]) => rtp[r].owner \in Sessions

\* The loop and the client's list of connections let go of the client in turn.
ClientAt ==
  /\ client.killed <=> th[Loop].pc # "polling"
  /\ client.conns <=> th[Loop].pc \notin {"leave", "gone"}
  /\ client.in_loop <=> th[Loop].pc # "gone"

Counts ==
  /\ client.refs = ClientHolders
  /\ \A s \in Sessions : sess[s].refs = SessionHolders(s)
  /\ \A r \in Rtps : rtp[r].refs = RtpHolders(r)

\* The RTP session a thread kills is one of its session.
Paired(t) == th[t].rtp \in Rtps => rtp[th[t].rtp].owner = th[t].cur

IInv ==
  /\ Shapes /\ (\A t \in Threads : Place(t, th[t]) /\ Paired(t)) /\ Alive /\ ClientAt /\ Counts

\* A session that was not killed is on the list, or is about to be killed;
Kept(s) ==
  sess[s].stage = "live" /\ ~ sess[s].killed =>
    s \in client.list \/ \E t \in Threads : th[t].cur = s /\ th[t].pc = "kill"
\* once it was killed, its RTP sessions are taken off its list;
Emptied(s) ==
  sess[s].killed =>
    Listed(s) = {} \/ \E t \in Threads : th[t].cur = s /\ th[t].pc \in {"kill_rtps", "kill_rtp"}
\* one that was taken off is paused by the thread that did;
Stopped(r) == rtp[r].stage = "unlisted" /\ rtp[r].playing => \E t \in Threads : th[t].rtp = r
\* and what is on the list after the loop has gone through it is never killed.
Late(s) ==
  th[Loop].pc \in {"orphan", "leave", "gone"} /\ s \in client.list =>
    /\ ~ sess[s].killed
    /\ \A t \in Threads : th[t].cur = s => th[t].pc \in {"setup", "unref"}
EndInv == (\A s \in Sessions : Kept(s) /\ Emptied(s) /\ Late(s)) /\ \A r \in Rtps : Stopped(r)

-----------------------------------------------------------------------------
(* Counting.                                                                *)

\* Two finite sets that differ in r at most.
LEMMA CountStep ==
  ASSUME NEW T, IsFiniteSet(T), NEW A \in SUBSET T, NEW B \in SUBSET T, NEW r, A \ {r} = B \ {r}
  PROVE  /\ Cardinality(A) \in Nat /\ Cardinality(B) \in Nat
         /\ Cardinality(B) - One(r \in B) = Cardinality(A) - One(r \in A)
<1>1. IsFiniteSet(A) /\ IsFiniteSet(B)
  BY FS_Subset
<1>2. Cardinality(A) \in Nat /\ Cardinality(B) \in Nat
  BY <1>1, FS_CardinalityType
<1>3. /\ Cardinality(A \ {r}) = IF r \in A THEN Cardinality(A) - 1 ELSE Cardinality(A)
      /\ Cardinality(B \ {r}) = IF r \in B THEN Cardinality(B) - 1 ELSE Cardinality(B)
  BY <1>1, FS_RemoveElement
<1> QED BY <1>2, <1>3 DEF One

\* A set with a member counts at least one.
LEMMA CountSome ==
  ASSUME NEW T, IsFiniteSet(T), NEW A \in SUBSET T
  PROVE  Cardinality(A) \in Nat /\ \A r \in A : Cardinality(A) > 0
<1>1. IsFiniteSet(A) /\ Cardinality(A) \in Nat
  BY FS_Subset, FS_CardinalityType
<1>2. \A r \in A : Cardinality(A) # 0
  BY <1>1, FS_EmptySet
<1> QED BY <1>1, <1>2

\* Which threads there are.
LEMMA Roles ==
  /\ Handlers \subseteq Threads /\ Loop \in Threads /\ Loop \notin Handlers
  /\ NoSession \notin Sessions /\ NoRtp \notin Rtps
  /\ \A t \in Threads : t \in Handlers <=> t # Loop
BY SessionAssumption DEF Threads

\* The sets that are counted are finite.
LEMMA AllFinite ==
  IsFiniteSet(Threads) /\ IsFiniteSet(Handlers) /\ IsFiniteSet(Sessions) /\ IsFiniteSet(Rtps)
<1>1. IsFiniteSet(Handlers \cup {Loop})
  BY SessionAssumption, FS_AddElement
<1> QED BY <1>1, SessionAssumption DEF Threads

\* A step changes thread t, session s and RTP session r at most; NoSession and NoRtp stand for none.
ThStep(t) == th' \in [Threads -> ThShape] /\ \A u \in Threads : u # t => th'[u] = th[u]
SessStep(s) == sess' \in [Sessions -> SessShape] /\ \A q \in Sessions : q # s => sess'[q] = sess[q]
RtpStep(r) == rtp' \in [Rtps -> RtpShape] /\ \A q \in Rtps : q # r => rtp'[q] = rtp[q]

\* Nothing changes what RTP sessions hold.
SameRtps ==
  \A q \in Rtps : /\ LiveStage(rtp'[q]) <=> LiveStage(rtp[q])
                  /\ rtp'[q].owner = rtp[q].owner /\ rtp'[q].transport = rtp[q].transport

\* What they hold of the client,
InHand(x) == One(x.pc # "idle") + One(Interleaves(x))
ClientDue(c, live, r, t, R, T) ==
  One(c.conns) + One(c.in_loop) + live
    + (IF t \in Handlers THEN InHand(T[t]) ELSE 0)
    + One(r \in Rtps /\ LiveStage(R[r]) /\ Interleaves(R[r]))

LiveSessions == {s \in Sessions : sess[s].stage = "live"}
Busy == {t \in Handlers : th[t].pc # "idle"}
RtpInterleaves == {r \in LiveRtps : Interleaves(rtp[r])}
ThInterleaves == {t \in Handlers : Interleaves(th[t])}

\* The count of the client is exact after a step that pays what it owes: the other threads,
\* sessions and RTP sessions owe it what they did.
LEMMA ClientStep ==
  ASSUME client.refs = ClientHolders, client \in ClientShape, client' \in ClientShape,
         NEW t \in Threads, ThStep(t), NEW s, NEW r,
         \A q \in Sessions : q # s => (sess'[q].stage = "live" <=> sess[q].stage = "live"),
         \A q \in Rtps : q # r => ((LiveStage(rtp'[q]) /\ Interleaves(rtp'[q]))
                                     <=> (LiveStage(rtp[q]) /\ Interleaves(rtp[q]))),
         client'.refs - ClientDue(client', One(s \in Sessions /\ sess'[s].stage = "live"), r, t, rtp', th')
           = client.refs - ClientDue(client, One(s \in Sessions /\ sess[s].stage = "live"), r, t, rtp, th)
  PROVE  (client.refs = ClientHolders)' /\ client'.refs \in Nat
<1>1. /\ Cardinality(LiveSessions) \in Nat /\ Cardinality(LiveSessions') \in Nat
      /\ Cardinality(LiveSessions') - One(s \in LiveSessions') = Cardinality(LiveSessions) - One(s \in LiveSessions)
  <2>1. /\ LiveSessions \in SUBSET Sessions /\ LiveSessions' \in SUBSET Sessions
        /\ LiveSessions \ {s} = LiveSessions' \ {s}
    BY DEF LiveSessions
  <2> QED BY <2>1, AllFinite, CountStep
<1>2. /\ Cardinality(Busy) \in Nat /\ Cardinality(Busy') \in Nat
      /\ Cardinality(Busy') - One(t \in Busy') = Cardinality(Busy) - One(t \in Busy)
  <2>1. Busy \in SUBSET Handlers /\ Busy' \in SUBSET Handlers /\ Busy \ {t} = Busy' \ {t}
    BY Roles DEF Busy, ThStep
  <2> QED BY <2>1, AllFinite, CountStep
<1>3. /\ Cardinality(ThInterleaves) \in Nat /\ Cardinality(ThInterleaves') \in Nat
      /\ Cardinality(ThInterleaves') - One(t \in ThInterleaves')
           = Cardinality(ThInterleaves) - One(t \in ThInterleaves)
  <2>1. /\ ThInterleaves \in SUBSET Handlers /\ ThInterleaves' \in SUBSET Handlers
        /\ ThInterleaves \ {t} = ThInterleaves' \ {t}
    BY Roles DEF ThInterleaves, ThStep, Interleaves
  <2> QED BY <2>1, AllFinite, CountStep
<1>4. /\ Cardinality(RtpInterleaves) \in Nat /\ Cardinality(RtpInterleaves') \in Nat
      /\ Cardinality(RtpInterleaves') - One(r \in RtpInterleaves')
           = Cardinality(RtpInterleaves) - One(r \in RtpInterleaves)
  <2>1. /\ RtpInterleaves \in SUBSET Rtps /\ RtpInterleaves' \in SUBSET Rtps
        /\ RtpInterleaves \ {r} = RtpInterleaves' \ {r}
    BY DEF RtpInterleaves, LiveRtps, LiveStage
  <2> QED BY <2>1, AllFinite, CountStep
<1>5. /\ s \in LiveSessions <=> s \in Sessions /\ sess[s].stage = "live"
      /\ s \in LiveSessions' <=> s \in Sessions /\ sess'[s].stage = "live"
      /\ t \in Busy <=> t \in Handlers /\ th[t].pc # "idle"
      /\ t \in Busy' <=> t \in Handlers /\ th'[t].pc # "idle"
      /\ t \in ThInterleaves <=> t \in Handlers /\ Interleaves(th[t])
      /\ t \in ThInterleaves' <=> t \in Handlers /\ Interleaves(th'[t])
      /\ r \in RtpInterleaves <=> r \in Rtps /\ LiveStage(rtp[r]) /\ Interleaves(rtp[r])
      /\ r \in RtpInterleaves' <=> r \in Rtps /\ LiveStage(rtp'[r]) /\ Interleaves(rtp'[r])
  BY DEF LiveSessions, Busy, ThInterleaves, RtpInterleaves, LiveRtps, LiveStage
<1>6. ClientHolders = One(client.conns) + One(client.in_loop) + Cardinality(LiveSessions)
                        + Cardinality(Busy) + Cardinality(RtpInterleaves) + Cardinality(ThInterleaves)
  BY DEF ClientHolders, LiveSessions, Busy, RtpInterleaves, ThInterleaves
<1>7. ClientHolders' = One(client'.conns) + One(client'.in_loop) + Cardinality(LiveSessions')
                        + Cardinality(Busy') + Cardinality(RtpInterleaves') + Cardinality(ThInterleaves')
  BY DEF ClientHolders, LiveSessions, Busy, RtpInterleaves, ThInterleaves
<1>8. client.refs \in Int /\ client'.refs \in Int
  BY DEF ClientShape
<1>9. client'.refs = ClientHolders'
  BY <1>1, <1>2, <1>3, <1>4, <1>5, <1>6, <1>7, <1>8 DEF ClientDue, InHand, One
<1>10. One(client'.conns) \in Nat /\ One(client'.in_loop) \in Nat
  BY DEF One
<1> QED BY <1>1, <1>2, <1>3, <1>4, <1>7, <1>9, <1>10

\* ... of their sessions,
SessionDue(q, t, r, l, R, T) ==
  One(q \in l) + One(T[t].cur = q) + One(r \in Rtps /\ LiveStage(R[r]) /\ R[r].owner = q)
AtSession(s) == {t \in Threads : th[t].cur = s}
RtpsOf(s) == {r \in LiveRtps : rtp[r].owner = s}

\* The same of the count of every session ...
LEMMA SessionsStep ==
  ASSUME \A q \in Sessions : sess[q].refs = SessionHolders(q),
         sess \in [Sessions -> SessShape], sess' \in [Sessions -> SessShape],
         NEW t \in Threads, ThStep(t), NEW r,
         \A q \in Rtps : q # r => /\ LiveStage(rtp'[q]) <=> LiveStage(rtp[q])
                                  /\ rtp'[q].owner = rtp[q].owner,
         \A q \in Sessions : sess'[q].refs - SessionDue(q, t, r, client'.list, rtp', th')
                               = sess[q].refs - SessionDue(q, t, r, client.list, rtp, th)
  PROVE  (\A q \in Sessions : sess[q].refs = SessionHolders(q))' /\ \A q \in Sessions : sess'[q].refs \in Nat
<1> SUFFICES ASSUME NEW s \in Sessions
    PROVE  sess'[s].refs = SessionHolders(s)' /\ sess'[s].refs \in Nat
  OBVIOUS
<1>1. /\ Cardinality(AtSession(s)) \in Nat /\ Cardinality(AtSession(s)') \in Nat
      /\ Cardinality(AtSession(s)') - One(t \in AtSession(s)')
           = Cardinality(AtSession(s)) - One(t \in AtSession(s))
  <2>1. /\ AtSession(s) \in SUBSET Threads /\ AtSession(s)' \in SUBSET Threads
        /\ AtSession(s) \ {t} = AtSession(s)' \ {t}
    BY DEF AtSession, ThStep
  <2> QED BY <2>1, AllFinite, CountStep
<1>2. /\ Cardinality(RtpsOf(s)) \in Nat /\ Cardinality(RtpsOf(s)') \in Nat
      /\ Cardinality(RtpsOf(s)') - One(r \in RtpsOf(s)') = Cardinality(RtpsOf(s)) - One(r \in RtpsOf(s))
  <2>1. RtpsOf(s) \in SUBSET Rtps /\ RtpsOf(s)' \in SUBSET Rtps /\ RtpsOf(s) \ {r} = RtpsOf(s)' \ {r}
    BY DEF RtpsOf, LiveRtps, LiveStage
  <2> QED BY <2>1, AllFinite, CountStep
<1>3. /\ t \in AtSession(s) <=> th[t].cur = s
      /\ t \in AtSession(s)' <=> th'[t].cur = s
      /\ r \in RtpsOf(s) <=> r \in Rtps /\ LiveStage(rtp[r]) /\ rtp[r].owner = s
      /\ r \in RtpsOf(s)' <=> r \in Rtps /\ LiveStage(rtp'[r]) /\ rtp'[r].owner = s
  BY DEF AtSession, RtpsOf, LiveRtps, LiveStage
<1>4. /\ SessionHolders(s) = One(s \in client.list) + Cardinality(AtSession(s)) + Cardinality(RtpsOf(s))
      /\ SessionHolders(s)' = One(s \in client'.list) + Cardinality(AtSession(s)') + Cardinality(RtpsOf(s)')
  BY DEF SessionHolders, AtSession, RtpsOf
<1>5. sess[s].refs \in Int /\ sess'[s].refs \in Int
  BY DEF SessShape
<1>6. sess'[s].refs - SessionDue(s, t, r, client'.list, rtp', th')
        = sess[s].refs - SessionDue(s, t, r, client.list, rtp, th)
  OBVIOUS
<1>7. sess[s].refs = SessionHolders(s)
  OBVIOUS
<1>8. One(s \in client'.list) \in Nat
  BY DEF One
<1>9. sess'[s].refs = SessionHolders(s)'
  <2>1. /\ One(t \in AtSession(s)) = One(th[t].cur = s)
        /\ One(t \in AtSession(s)') = One(th'[t].cur = s)
        /\ One(r \in RtpsOf(s)) = One(r \in Rtps /\ LiveStage(rtp[r]) /\ rtp[r].owner = s)
        /\ One(r \in RtpsOf(s)') = One(r \in Rtps /\ LiveStage(rtp'[r]) /\ rtp'[r].owner = s)
    BY <1>3 DEF One
  <2>2. /\ One(th[t].cur = s) \in Nat /\ One(th'[t].cur = s) \in Nat
        /\ One(s \in client.list) \in Nat /\ One(s \in client'.list) \in Nat
        /\ One(r \in Rtps /\ LiveStage(rtp[r]) /\ rtp[r].owner = s) \in Nat
        /\ One(r \in Rtps /\ LiveStage(rtp'[r]) /\ rtp'[r].owner = s) \in Nat
    BY DEF One
  <2>3. /\ SessionDue(s, t, r, client'.list, rtp', th') = One(s \in client'.list) + One(th'[t].cur = s)
             + One(r \in Rtps /\ LiveStage(rtp'[r]) /\ rtp'[r].owner = s)
        /\ SessionDue(s, t, r, client.list, rtp, th) = One(s \in client.list) + One(th[t].cur = s)
             + One(r \in Rtps /\ LiveStage(rtp[r]) /\ rtp[r].owner = s)
    BY DEF SessionDue
  <2>4. PICK a \in Nat, a1 \in Nat, b \in Nat, b1 \in Nat, c \in Nat, c1 \in Nat :
          /\ a = One(s \in client.list) /\ a1 = One(s \in client'.list)
          /\ b = One(th[t].cur = s) /\ b1 = One(th'[t].cur = s)
          /\ c = One(r \in Rtps /\ LiveStage(rtp[r]) /\ rtp[r].owner = s)
          /\ c1 = One(r \in Rtps /\ LiveStage(rtp'[r]) /\ rtp'[r].owner = s)
    BY <2>2, Zenon
  <2>5. PICK n \in Nat, n1 \in Nat, m \in Nat, m1 \in Nat :
          /\ n = Cardinality(AtSession(s)) /\ n1 = Cardinality(AtSession(s)')
          /\ m = Cardinality(RtpsOf(s)) /\ m1 = Cardinality(RtpsOf(s)')
    BY <1>1, <1>2, Zenon
  <2>6. n1 - b1 = n - b /\ m1 - c1 = m - c
    BY <1>1, <1>2, <2>1, <2>4, <2>5
  <2>7. SessionHolders(s) = a + n + m /\ SessionHolders(s)' = a1 + n1 + m1
    BY <1>4, <2>4, <2>5
  <2>8. sess'[s].refs - (a1 + b1 + c1) = sess[s].refs - (a + b + c)
    BY <1>6, <2>3, <2>4
  <2> QED BY <1>5, <1>7, <2>6, <2>7, <2>8
<1> QED BY <1>1, <1>2, <1>4, <1>8, <1>9

\* ... and what is held of them.
RtpDue(x, y, q) == One(x.stage = "listed") + One(y.rtp = q) + One(x.playing) + x.leaving
AtRtp(r) == {t \in Threads : th[t].rtp = r}

\* ... and of every RTP session.
LEMMA RtpsStep ==
  ASSUME \A q \in Rtps : rtp[q].refs = RtpHolders(q),
         rtp \in [Rtps -> RtpShape], rtp' \in [Rtps -> RtpShape],
         NEW t \in Threads, ThStep(t),
         \A q \in Rtps : rtp'[q].refs - RtpDue(rtp'[q], th'[t], q) = rtp[q].refs - RtpDue(rtp[q], th[t], q)
  PROVE  (\A q \in Rtps : rtp[q].refs = RtpHolders(q))' /\ \A q \in Rtps : rtp'[q].refs \in Nat
<1> SUFFICES ASSUME NEW r \in Rtps
    PROVE  rtp'[r].refs = RtpHolders(r)' /\ rtp'[r].refs \in Nat
  OBVIOUS
<1>1. /\ Cardinality(AtRtp(r)) \in Nat /\ Cardinality(AtRtp(r)') \in Nat
      /\ Cardinality(AtRtp(r)') - One(t \in AtRtp(r)') = Cardinality(AtRtp(r)) - One(t \in AtRtp(r))
  <2>1. AtRtp(r) \in SUBSET Threads /\ AtRtp(r)' \in SUBSET Threads /\ AtRtp(r) \ {t} = AtRtp(r)' \ {t}
    BY DEF AtRtp, ThStep
  <2> QED BY <2>1, AllFinite, CountStep
<1>2. (t \in AtRtp(r) <=> th[t].rtp = r) /\ (t \in AtRtp(r)' <=> th'[t].rtp = r)
  BY DEF AtRtp
<1>3. /\ RtpHolders(r) = One(rtp[r].stage = "listed") + Cardinality(AtRtp(r)) + One(rtp[r].playing) + rtp[r].leaving
      /\ RtpHolders(r)' = One(rtp'[r].stage = "listed") + Cardinality(AtRtp(r)') + One(rtp'[r].playing) + rtp'[r].leaving
  BY DEF RtpHolders, AtRtp
<1>4. rtp[r].refs \in Int /\ rtp'[r].refs \in Int /\ rtp[r].leaving \in Nat /\ rtp'[r].leaving \in Nat
  BY DEF RtpShape
<1>5. rtp'[r].refs - RtpDue(rtp'[r], th'[t], r) = rtp[r].refs - RtpDue(rtp[r], th[t], r) /\ rtp[r].refs = RtpHolders(r)
  OBVIOUS
<1>6. One(rtp'[r].stage = "listed") \in Nat /\ One(rtp'[r].playing) \in Nat
  BY DEF One
<1>7. rtp'[r].refs = RtpHolders(r)'
  <2>1. One(t \in AtRtp(r)) = One(th[t].rtp = r) /\ One(t \in AtRtp(r)') = One(th'[t].rtp = r)
    BY <1>2 DEF One
  <2>2. /\ One(th[t].rtp = r) \in Nat /\ One(th'[t].rtp = r) \in Nat
        /\ One(rtp[r].stage = "listed") \in Nat /\ One(rtp[r].playing) \in Nat
    BY DEF One
  <2>3. /\ RtpDue(rtp'[r], th'[t], r) = One(rtp'[r].stage = "listed") + One(th'[t].rtp = r)
                                           + One(rtp'[r].playing) + rtp'[r].leaving
        /\ RtpDue(rtp[r], th[t], r) = One(rtp[r].stage = "listed") + One(th[t].rtp = r)
                                           + One(rtp[r].playing) + rtp[r].leaving
    BY DEF RtpDue
  <2>4. PICK a \in Nat, a1 \in Nat, b \in Nat, b1 \in Nat, c \in Nat, c1 \in Nat :
          /\ a = One(rtp[r].stage = "listed") /\ a1 = One(rtp'[r].stage = "listed")
          /\ b = One(th[t].rtp = r) /\ b1 = One(th'[t].rtp = r)
          /\ c = One(rtp[r].playing) /\ c1 = One(rtp'[r].playing)
    BY <1>6, <2>2, Zenon
  <2>5. PICK n \in Nat, n1 \in Nat : n = Cardinality(AtRtp(r)) /\ n1 = Cardinality(AtRtp(r)')
    BY <1>1, Zenon
  <2>6. n1 - b1 = n - b
    BY <1>1, <2>1, <2>4, <2>5
  <2>7. RtpHolders(r) = a + n + c + rtp[r].leaving /\ RtpHolders(r)' = a1 + n1 + c1 + rtp'[r].leaving
    BY <1>3, <2>4, <2>5
  <2>8. rtp'[r].refs - (a1 + b1 + c1 + rtp'[r].leaving) = rtp[r].refs - (a + b + c + rtp[r].leaving)
    BY <1>5, <2>3, <2>4
  <2>9. rtp[r].refs = RtpHolders(r)
    BY <1>5
  <2>10. PICK g \in Nat, g1 \in Nat, h \in Int, h1 \in Int :
           g = rtp[r].leaving /\ g1 = rtp'[r].leaving /\ h = rtp[r].refs /\ h1 = rtp'[r].refs
    BY <1>4, Zenon
  <2>11. h = a + n + c + g /\ h1 - (a1 + b1 + c1 + g1) = h - (a + b + c + g)
    BY <2>7, <2>8, <2>9, <2>10
  <2>12. h1 = a1 + n1 + c1 + g1
    <3>1. h - (a + b + c + g) = n - b
      BY <2>11
    <3>2. h1 = (n1 - b1) + (a1 + b1 + c1 + g1)
      BY <2>6, <2>11, <3>1
    <3> QED BY <3>2
  <2> QED BY <2>7, <2>10, <2>12
<1> QED BY <1>1, <1>3, <1>4, <1>6, <1>7

\* Whoever holds something is counted.
LEMMA Held ==
  ASSUME IInv
  PROVE  /\ client.refs \in Nat
         /\ client.conns \/ client.in_loop \/ (\E t \in Handlers : th[t].pc # "idle") => client.refs # 0
         /\ \A s \in Sessions : sess[s].stage = "live" => client.refs # 0
         /\ \A s \in client.list : s \in Sessions /\ sess[s].stage = "live"
         /\ \A t \in Threads : th[t].cur \in Sessions => sess[th[t].cur].stage = "live"
         /\ \A r \in Rtps : LiveStage(rtp[r]) => rtp[r].owner \in Sessions /\ sess[rtp[r].owner].stage = "live"
         /\ \A t \in Threads : th[t].rtp \in Rtps => LiveStage(rtp[th[t].rtp])
         /\ \A r \in Rtps : rtp[r].leaving > 0 \/ rtp[r].playing => LiveStage(rtp[r])
<1>1. /\ Cardinality(LiveSessions) \in Nat /\ Cardinality(Busy) \in Nat
      /\ Cardinality(RtpInterleaves) \in Nat /\ Cardinality(ThInterleaves) \in Nat
      /\ \A s \in LiveSessions : Cardinality(LiveSessions) > 0
      /\ \A t \in Busy : Cardinality(Busy) > 0
  <2>1. /\ LiveSessions \in SUBSET Sessions /\ Busy \in SUBSET Handlers
        /\ RtpInterleaves \in SUBSET Rtps /\ ThInterleaves \in SUBSET Handlers
    BY DEF LiveSessions, Busy, RtpInterleaves, ThInterleaves, LiveRtps
  <2> QED BY <2>1, AllFinite, CountSome
<1>2. client.refs = One(client.conns) + One(client.in_loop) + Cardinality(LiveSessions)
                      + Cardinality(Busy) + Cardinality(RtpInterleaves) + Cardinality(ThInterleaves)
  BY DEF IInv, Counts, ClientHolders, LiveSessions, Busy, RtpInterleaves, ThInterleaves
<1>3. /\ client.refs \in Nat
      /\ client.conns \/ client.in_loop => client.refs # 0
      /\ \A t \in Busy : client.refs # 0
      /\ \A s \in LiveSessions : client.refs # 0
  <2>1. /\ One(client.conns) \in Nat /\ One(client.in_loop) \in Nat
        /\ client.conns => One(client.conns) = 1
        /\ client.in_loop => One(client.in_loop) = 1
    BY DEF One
  <2> QED BY <1>1, <1>2, <2>1
<1>4. ASSUME NEW s \in Sessions
      PROVE  /\ s \in client.list => sess[s].refs # 0
             /\ \A t \in Threads : th[t].cur = s => sess[s].refs # 0
             /\ \A r \in Rtps : LiveStage(rtp[r]) /\ rtp[r].owner = s => sess[s].refs # 0
  <2>1. AtSession(s) \in SUBSET Threads /\ RtpsOf(s) \in SUBSET Rtps
    BY DEF AtSession, RtpsOf, LiveRtps
  <2>2. /\ Cardinality(AtSession(s)) \in Nat /\ Cardinality(RtpsOf(s)) \in Nat
        /\ \A t \in AtSession(s) : Cardinality(AtSession(s)) > 0
        /\ \A r \in RtpsOf(s) : Cardinality(RtpsOf(s)) > 0
    BY <2>1, AllFinite, CountSome
  <2>3. sess[s].refs = One(s \in client.list) + Cardinality(AtSession(s)) + Cardinality(RtpsOf(s))
    BY DEF IInv, Counts, SessionHolders, AtSession, RtpsOf
  <2>4. /\ s \in client.list => sess[s].refs # 0
        /\ \A t \in AtSession(s) : sess[s].refs # 0
        /\ \A r \in RtpsOf(s) : sess[s].refs # 0
    BY <2>2, <2>3 DEF One
  <2> QED BY <2>4 DEF AtSession, RtpsOf, LiveRtps, LiveStage
<1>5. ASSUME NEW r \in Rtps
      PROVE  /\ \A t \in Threads : th[t].rtp = r => rtp[r].refs # 0
             /\ rtp[r].leaving > 0 \/ rtp[r].playing => rtp[r].refs # 0
  <2>1. Cardinality(AtRtp(r)) \in Nat /\ \A t \in AtRtp(r) : Cardinality(AtRtp(r)) > 0
    <3>1. AtRtp(r) \in SUBSET Threads
      BY DEF AtRtp
    <3> QED BY <3>1, AllFinite, CountSome
  <2>2. /\ rtp[r].refs = One(rtp[r].stage = "listed") + Cardinality(AtRtp(r)) + One(rtp[r].playing) + rtp[r].leaving
        /\ rtp[r].leaving \in Nat
    BY DEF IInv, Counts, RtpHolders, AtRtp, Shapes, RtpShape
  <2>3. (\A t \in AtRtp(r) : rtp[r].refs # 0) /\ (rtp[r].leaving > 0 \/ rtp[r].playing => rtp[r].refs # 0)
    <3>1. /\ One(rtp[r].stage = "listed") \in Nat /\ One(rtp[r].playing) \in Nat
          /\ rtp[r].playing => One(rtp[r].playing) = 1
      BY DEF One
    <3> QED BY <2>1, <2>2, <3>1
  <2> QED BY <2>3 DEF AtRtp
<1>6. client.list \subseteq Sessions
  BY DEF IInv, Shapes, ClientShape
<1> QED BY <1>3, <1>4, <1>5, <1>6 DEF IInv, Alive, LiveSessions, Busy
-----------------------------------------------------------------------------
(* What a step changes.                                                     *)

\* A function that was changed at one argument.
LEMMA Updated ==
  ASSUME NEW S, NEW X, NEW f \in [S -> X], NEW a \in S, NEW x \in X, NEW g, g = [f EXCEPT ![a] = x]
  PROVE  g \in [S -> X] /\ g[a] = x /\ \A b \in S : b # a => g[b] = f[b]
OBVIOUS

\* Client record d is c after n references were dropped.
Settled(c) == c.freed <=> c.refs = 0
Drop(c, d, n) ==
  /\ n \in Nat /\ c \in ClientShape /\ d \in ClientShape /\ d.refs = c.refs - n
  /\ d.list = c.list /\ d.killed = c.killed /\ d.conns = c.conns /\ d.in_loop = c.in_loop
  /\ Settled(c) /\ d.refs \in Nat => Settled(d)

\* rtsp_client_unref and rtsp_client_ref.
LEMMA ClientRefsIs ==
  ASSUME NEW c \in ClientShape
  PROVE  /\ Drop(c, ClientRefs(c, -1), 1)
         /\ ClientRefs(c, 1) \in ClientShape /\ ClientRefs(c, 1).refs = c.refs + 1
         /\ ClientRefs(c, 1).list = c.list /\ ClientRefs(c, 1).killed = c.killed
         /\ ClientRefs(c, 1).conns = c.conns /\ ClientRefs(c, 1).in_loop = c.in_loop
         /\ Settled(c) /\ c.refs \in Nat /\ c.refs # 0 => Settled(ClientRefs(c, 1))
<1>1. ASSUME NEW n \in Int
      PROVE  /\ ClientRefs(c, n) \in ClientShape
             /\ ClientRefs(c, n).refs = c.refs + n
             /\ ClientRefs(c, n).freed <=> c.freed \/ c.refs + n = 0
             /\ ClientRefs(c, n).list = c.list
             /\ ClientRefs(c, n).killed = c.killed /\ ClientRefs(c, n).conns = c.conns
             /\ ClientRefs(c, n).in_loop = c.in_loop
  <2> PICK d : d = ClientRefs(c, n)
    OBVIOUS
  <2>1. d = [c EXCEPT !.refs = @ + n, !.freed = @ \/ c.refs + n = 0]
    BY Zenon DEF ClientRefs
  <2>2. c.refs + n \in Int /\ c.refs \in Int
    BY DEF ClientShape
  <2>3. d \in ClientShape
    BY <2>1, <2>2, Zenon DEF ClientShape
  <2>4. /\ d.refs = c.refs + n /\ d.list = c.list
        /\ d.killed = c.killed /\ d.conns = c.conns /\ d.in_loop = c.in_loop
    BY <2>1 DEF ClientShape
  <2>5. d.freed = (c.freed \/ c.refs + n = 0)
    BY <2>1, Zenon DEF ClientShape
  <2> QED BY <2>3, <2>4, <2>5
<1>2. c.refs \in Int
  BY DEF ClientShape
<1>3. -1 \in Int /\ 1 \in Int /\ c.refs + (-1) = c.refs - 1
  BY <1>2
<1>4. Drop(c, ClientRefs(c, -1), 1)
  <2> PICK d : d = ClientRefs(c, -1)
    OBVIOUS
  <2>1. /\ d \in ClientShape /\ d.refs = c.refs - 1 /\ (d.freed <=> c.freed \/ c.refs - 1 = 0)
        /\ d.list = c.list /\ d.killed = c.killed /\ d.conns = c.conns /\ d.in_loop = c.in_loop
    BY <1>1, <1>3
  <2>2. Settled(c) /\ d.refs \in Nat => Settled(d)
    BY <1>2, <2>1 DEF Settled
  <2>3. Drop(c, d, 1)
    BY <2>1, <2>2 DEF Drop
  <2> QED BY <2>3
<1>5. Settled(c) /\ c.refs \in Nat /\ c.refs # 0 => Settled(ClientRefs(c, 1))
  <2>1. ClientRefs(c, 1).refs = c.refs + 1 /\ (ClientRefs(c, 1).freed <=> c.freed \/ c.refs + 1 = 0)
    BY <1>1, <1>3
  <2> QED BY <2>1 DEF Settled
<1> QED BY <1>1, <1>3, <1>4, <1>5

\* No reference dropped is a client left alone, and two drops in a row add up.
LEMMA DropNone ==
  ASSUME NEW c \in ClientShape PROVE Drop(c, c, 0)
BY DEF Drop, ClientShape

\* Two drops in a row drop what both do.
LEMMA DropBoth ==
  ASSUME NEW c, NEW d, NEW e, NEW n, NEW m, Drop(c, d, n), Drop(d, e, m)
  PROVE  Drop(c, e, n + m)
<1>1. c.refs \in Int /\ d.refs \in Int /\ e.refs \in Int
  BY DEF Drop, ClientShape
<1> QED BY <1>1 DEF Drop

\* rtp_transport_close drops the client or gives the ports back.
LEMMA CloseIs ==
  ASSUME Shapes, NEW tr \in Transports
  PROVE  /\ Drop(client, ClientAfterClose(tr), One(tr.mode = "interleaved"))
         /\ PoolShape(PortsAfterClose(tr))
<1>1. PoolShape(PortsAfterClose(tr))
  <2>1. Shaped(pool)
    BY DEF Shapes, PoolShape
  <2>2. PICK q : q = PutOne(pool, tr.low)
    OBVIOUS
  <2>3. Giving(pool, tr.low, q)
    BY <2>1, <2>2, PutOneIs, Zenon
  <2>4. PICK f : f = PutOne(q, tr.low + 1)
    OBVIOUS
  <2>5. Shaped(q)
    BY <2>3 DEF Giving
  <2>6. Giving(q, tr.low + 1, f)
    BY <2>4, <2>5, PutOneIs, Zenon
  <2>7. PoolShape(f)
    BY <2>3, <2>6 DEF Giving, SameRange, PoolShape, Shapes
  <2>8. PortsAfterClose(tr) \in {f, pool}
    BY <2>2, <2>4 DEF PortsAfterClose, PutPair
  <2> QED BY <2>7, <2>8 DEF Shapes
<1>2. client \in ClientShape
  BY DEF Shapes
<1>3. CASE tr.mode = "interleaved"
  <2>1. ClientAfterClose(tr) = ClientRefs(client, -1) /\ One(tr.mode = "interleaved") = 1
    BY <1>3 DEF ClientAfterClose, One
  <2>2. Drop(client, ClientRefs(client, -1), 1)
    BY <1>2, ClientRefsIs, Zenon
  <2> QED BY <1>1, <2>1, <2>2
<1>4. CASE tr.mode # "interleaved"
  <2>1. ClientAfterClose(tr) = client /\ One(tr.mode = "interleaved") = 0
    BY <1>4 DEF ClientAfterClose, One
  <2> QED BY <1>1, <1>2, <2>1, DropNone
<1> QED BY <1>3, <1>4

\* Session records: what rtsp_session_unref makes of one, and which are sound.
Unreffed(x, y) ==
  /\ y.refs = x.refs - 1 /\ y.stage = (IF x.refs = 1 THEN "freed" ELSE x.stage) /\ y.killed = x.killed
SoundSess(x) ==
  /\ x.refs \in Nat => (x.stage = "live" <=> x.refs # 0)
  /\ x.stage = "unused" => ~ x.killed
SoundRtp(x) ==
  /\ x.refs \in Nat => (LiveStage(x) <=> x.refs # 0)
  /\ LiveStage(x) => x.owner \in Sessions

\* rtsp_session_unref by a thread that has c of the client.
LEMMA UnrefIs ==
  ASSUME Shapes, NEW s \in Sessions, NEW c \in ClientShape, UnrefSession(s, c)
  PROVE  SessStep(s) /\ Unreffed(sess[s], sess'[s]) /\ Drop(c, client', One(sess[s].refs = 1))
<1>1. sess \in [Sessions -> SessShape] /\ sess[s] \in SessShape
  BY DEF Shapes
<1>2. sess[s].refs \in Int /\ sess[s].refs - 1 \in Int
  BY <1>1 DEF SessShape
<1>3. CASE sess[s].refs = 1
  <2> PICK x : x = [sess[s] EXCEPT !.refs = 0, !.stage = "freed"]
    OBVIOUS
  <2>1. sess' = [sess EXCEPT ![s] = x] /\ client' = ClientRefs(c, -1) /\ One(sess[s].refs = 1) = 1
    BY <1>3 DEF UnrefSession, One
  <2>2. x \in SessShape /\ x.refs = 0 /\ x.stage = "freed" /\ x.killed = sess[s].killed
    <3>1. x = [stage |-> "freed", refs |-> 0, killed |-> sess[s].killed, cur_state |-> sess[s].cur_state,
               session_timer |-> sess[s].session_timer, told |-> sess[s].told]
      BY <1>1 DEF SessShape
    <3> QED BY <1>1, <3>1 DEF SessShape
  <2>3. SessStep(s) /\ sess'[s] = x
    BY <1>1, <2>1, <2>2, Updated, Zenon DEF SessStep
  <2>4. Unreffed(sess[s], x)
    BY <1>3, <2>2 DEF Unreffed
  <2>5. Drop(c, ClientRefs(c, -1), 1)
    BY ClientRefsIs, Zenon
  <2> QED BY <2>1, <2>3, <2>4, <2>5
<1>4. CASE sess[s].refs # 1
  <2> PICK x : x = [sess[s] EXCEPT !.refs = @ - 1]
    OBVIOUS
  <2>1. sess' = [sess EXCEPT ![s] = x] /\ client' = c /\ One(sess[s].refs = 1) = 0
    BY <1>4 DEF UnrefSession, One
  <2>2. x \in SessShape /\ x.refs = sess[s].refs - 1 /\ x.stage = sess[s].stage /\ x.killed = sess[s].killed
    BY <1>1, <1>2 DEF SessShape
  <2>3. SessStep(s) /\ sess'[s] = x
    BY <1>1, <2>1, <2>2, Updated, Zenon DEF SessStep
  <2>4. Unreffed(sess[s], x)
    BY <1>4, <2>2 DEF Unreffed
  <2> QED BY <2>1, <2>3, <2>4, DropNone
<1> QED BY <1>3, <1>4

\* rtp_session_finalize.
LEMMA FinalizeIs ==
  ASSUME Shapes, NEW r \in Rtps, rtp[r].owner \in Sessions, FinalizeRtp(r)
  PROVE  /\ SessStep(rtp[r].owner) /\ Unreffed(sess[rtp[r].owner], sess'[rtp[r].owner])
         /\ Drop(client, client', One(Interleaves(rtp[r])) + One(sess[rtp[r].owner].refs = 1))
         /\ PoolShape(pool')
<1> PICK tr : tr = rtp[r].transport
  OBVIOUS
<1>1. tr \in Transports
  BY DEF Shapes, RtpShape
<1>2. /\ Drop(client, ClientAfterClose(tr), One(tr.mode = "interleaved")) /\ PoolShape(PortsAfterClose(tr))
  BY <1>1, CloseIs
<1>3. ClientAfterClose(tr) \in ClientShape
  BY <1>2 DEF Drop
<1>4. pool' = PortsAfterClose(tr) /\ UnrefSession(rtp[r].owner, ClientAfterClose(tr))
  BY DEF FinalizeRtp
<1>5. /\ SessStep(rtp[r].owner) /\ Unreffed(sess[rtp[r].owner], sess'[rtp[r].owner])
      /\ Drop(ClientAfterClose(tr), client', One(sess[rtp[r].owner].refs = 1))
  BY <1>3, <1>4, UnrefIs
<1>6. One(tr.mode = "interleaved") = One(Interleaves(rtp[r]))
  BY DEF Interleaves
<1> QED BY <1>2, <1>4, <1>5, <1>6, DropBoth
-----------------------------------------------------------------------------
(* What a step of thread t has to show, which touches session s and RTP      *)
(* session r; NoSession and NoRtp stand for none.                            *)

ThPart(t) == ThStep(t) /\ Place(t, th'[t]) /\ (th'[t].rtp \in Rtps => rtp'[th'[t].rtp].owner = th'[t].cur)
SessPart(s) == SessStep(s) /\ (s \in Sessions => SoundSess(sess'[s]))
ClientPart ==
  /\ client' \in ClientShape /\ (client'.refs \in Nat => Settled(client'))
  /\ client'.killed <=> th'[Loop].pc # "polling"
  /\ client'.conns <=> th'[Loop].pc \notin {"leave", "gone"}
  /\ client'.in_loop <=> th'[Loop].pc # "gone"
SameStake(x, y) ==
  (LiveStage(y) <=> LiveStage(x)) /\ y.owner = x.owner /\ y.transport = x.transport
RtpPart(t, r) ==
  /\ rtp' \in [Rtps -> RtpShape]
  /\ \A q \in Rtps : /\ SoundRtp(rtp'[q])
                     /\ LiveStage(rtp[q]) => rtp'[q].owner = rtp[q].owner
                     /\ q # r => SameStake(rtp[q], rtp'[q])
                     /\ rtp'[q].refs - RtpDue(rtp'[q], th'[t], q) = rtp[q].refs - RtpDue(rtp[q], th[t], q)
RestPart == requests' \in 0 .. MaxRequests /\ PoolShape(pool')

\* Sessions other than s lose and win nobody.
Apart(t, s, r) ==
  \A q \in Sessions : q # s =>
    /\ q \in client'.list <=> q \in client.list
    /\ th'[t].cur = q <=> th[t].cur = q
    /\ r \in Rtps => ((LiveStage(rtp'[r]) /\ rtp'[r].owner = q) <=> (LiveStage(rtp[r]) /\ rtp[r].owner = q))
SessionOwed(t, s, r) ==
  /\ Apart(t, s, r)
  /\ s \in Sessions => sess'[s].refs - SessionDue(s, t, r, client'.list, rtp', th')
                         = sess[s].refs - SessionDue(s, t, r, client.list, rtp, th)
ClientOwed(t, s, r) ==
  client'.refs - ClientDue(client', One(s \in Sessions /\ sess'[s].stage = "live"), r, t, rtp', th')
    = client.refs - ClientDue(client, One(s \in Sessions /\ sess[s].stage = "live"), r, t, rtp, th)

\* A step that shows all of it keeps the invariant.
LEMMA StepKeeps ==
  ASSUME IInv, NEW t \in Threads, NEW s, NEW r,
         ThPart(t), SessPart(s), ClientPart, RtpPart(t, r), RestPart, SessionOwed(t, s, r), ClientOwed(t, s, r)
  PROVE  IInv'
<1>1. /\ client \in ClientShape /\ sess \in [Sessions -> SessShape] /\ rtp \in [Rtps -> RtpShape]
      /\ client' \in ClientShape /\ sess' \in [Sessions -> SessShape] /\ rtp' \in [Rtps -> RtpShape]
      /\ ThStep(t) /\ \A q \in Sessions : q # s => sess'[q] = sess[q]
  BY DEF IInv, Shapes, ClientPart, SessPart, SessStep, RtpPart, ThPart
<1>2. (client.refs = ClientHolders)' /\ client'.refs \in Nat
  <2>1. client.refs = ClientHolders
    BY DEF IInv, Counts
  <2>2. \A q \in Rtps : q # r => ((LiveStage(rtp'[q]) /\ Interleaves(rtp'[q]))
                                     <=> (LiveStage(rtp[q]) /\ Interleaves(rtp[q])))
    BY DEF RtpPart, SameStake, Interleaves
  <2>3. \A q \in Sessions : q # s => (sess'[q].stage = "live" <=> sess[q].stage = "live")
    BY <1>1
  <2>4. client'.refs - ClientDue(client', One(s \in Sessions /\ sess'[s].stage = "live"), r, t, rtp', th')
           = client.refs - ClientDue(client, One(s \in Sessions /\ sess[s].stage = "live"), r, t, rtp, th)
    BY DEF ClientOwed
  <2> QED BY <1>1, <2>1, <2>2, <2>3, <2>4, ClientStep
<1>3. (\A q \in Sessions : sess[q].refs = SessionHolders(q))' /\ \A q \in Sessions : sess'[q].refs \in Nat
  <2>1. \A q \in Sessions : sess[q].refs = SessionHolders(q)
    BY DEF IInv, Counts
  <2>2. \A q \in Rtps : q # r => /\ LiveStage(rtp'[q]) <=> LiveStage(rtp[q])
                                 /\ rtp'[q].owner = rtp[q].owner
    BY DEF RtpPart, SameStake
  <2>3. ASSUME NEW q \in Sessions
        PROVE  sess'[q].refs - SessionDue(q, t, r, client'.list, rtp', th')
                 = sess[q].refs - SessionDue(q, t, r, client.list, rtp, th)
    <3>1. CASE q = s
      BY <3>1 DEF SessionOwed
    <3>2. CASE q # s
      <4>1. SessionDue(q, t, r, client'.list, rtp', th') = SessionDue(q, t, r, client.list, rtp, th)
        <5>1. /\ One(q \in client'.list) = One(q \in client.list)
              /\ One(th'[t].cur = q) = One(th[t].cur = q)
              /\ One(r \in Rtps /\ LiveStage(rtp'[r]) /\ rtp'[r].owner = q)
                   = One(r \in Rtps /\ LiveStage(rtp[r]) /\ rtp[r].owner = q)
          BY <3>2 DEF SessionOwed, Apart, One
        <5> QED BY <5>1 DEF SessionDue
      <4> QED BY <1>1, <3>2, <4>1
    <3> QED BY <3>1, <3>2
  <2> QED BY <1>1, <2>1, <2>2, <2>3, SessionsStep
<1>4. (\A q \in Rtps : rtp[q].refs = RtpHolders(q))' /\ \A q \in Rtps : rtp'[q].refs \in Nat
  <2>1. \A q \in Rtps : rtp[q].refs = RtpHolders(q)
    BY DEF IInv, Counts
  <2>2. \A q \in Rtps : rtp'[q].refs - RtpDue(rtp'[q], th'[t], q) = rtp[q].refs - RtpDue(rtp[q], th[t], q)
    BY DEF RtpPart
  <2> QED BY <1>1, <2>1, <2>2, RtpsStep
<1>5. Counts'
  BY <1>2, <1>3, <1>4 DEF Counts
<1>6. Shapes'
  BY <1>1 DEF Shapes, ThStep, RestPart
<1>7. ClientAt'
  BY DEF ClientAt, ClientPart
<1>8. Alive'
  <2>1. client'.freed <=> client'.refs = 0
    BY <1>2 DEF ClientPart, Settled
  <2>2. \A q \in Sessions : SoundSess(sess'[q])
    <3>1. \A q \in Sessions : SoundSess(sess[q])
      BY DEF IInv, Alive, SoundSess
    <3> QED BY <1>1, <3>1 DEF SessPart
  <2>3. \A q \in Rtps : SoundRtp(rtp'[q])
    BY DEF RtpPart
  <2> QED BY <1>3, <1>4, <2>1, <2>2, <2>3 DEF Alive, SoundSess, SoundRtp, LiveStage
<1>9. ASSUME NEW u \in Threads PROVE Place(u, th'[u]) /\ Paired(u)'
  <2>1. CASE u = t
    BY <2>1 DEF ThPart, Paired
  <2>2. CASE u # t
    <3>1. th'[u] = th[u] /\ Place(u, th[u]) /\ Paired(u)
      BY <1>1, <2>2 DEF ThStep, IInv
    <3>2. th[u].rtp \in Rtps => LiveStage(rtp[th[u].rtp])
      BY Held
    <3>3. th[u].rtp \in Rtps => rtp'[th[u].rtp].owner = rtp[th[u].rtp].owner
      BY <3>2 DEF RtpPart
    <3> QED BY <3>1, <3>3 DEF Paired
  <2> QED BY <2>1, <2>2
<1> QED BY <1>5, <1>6, <1>7, <1>8, <1>9 DEF IInv, Place

\* The loop is no nearer to letting go of the client.
SameLoop ==
  /\ th'[Loop].pc = "polling" <=> th[Loop].pc = "polling"
  /\ th'[Loop].pc \in {"leave", "gone"} <=> th[Loop].pc \in {"leave", "gone"}
  /\ th'[Loop].pc = "gone" <=> th[Loop].pc = "gone"

\* What is left alone is sound.
LEMMA SameClient ==
  ASSUME IInv, client' = client, SameLoop
  PROVE  ClientPart
BY DEF IInv, Shapes, Alive, ClientAt, ClientPart, Settled, SameLoop

\* Sessions that are left alone keep their part,
LEMMA SameSess ==
  ASSUME IInv, sess' = sess
  PROVE  \A s : SessPart(s)
BY DEF IInv, Shapes, Alive, SessPart, SessStep, SoundSess

\* and so do RTP sessions,
LEMMA SameRtp ==
  ASSUME IInv, rtp' = rtp, NEW t \in Threads, th'[t].rtp = th[t].rtp
  PROVE  \A r : RtpPart(t, r)
<1>1. rtp \in [Rtps -> RtpShape]
  BY DEF IInv, Shapes
<1>2. ASSUME NEW q \in Rtps PROVE SoundRtp(rtp[q])
  BY DEF IInv, Alive, SoundRtp
<1>3. \A q \in Rtps : RtpDue(rtp'[q], th'[t], q) = RtpDue(rtp[q], th[t], q)
  BY DEF RtpDue
<1> QED BY <1>1, <1>2, <1>3 DEF RtpPart, SameStake

\* and the allocator and the number of requests.
LEMMA SameRest ==
  ASSUME IInv, UNCHANGED <<requests, pool>>
  PROVE  RestPart
BY DEF IInv, Shapes, RestPart

\* A thread that goes on elsewhere,
LEMMA GotoIs ==
  ASSUME Shapes, NEW t \in Threads, NEW pc \in LoopPcs \cup HandlerPcs, Goto(t, pc)
  PROVE  /\ ThStep(t) /\ th'[t].pc = pc /\ th'[t].cur = th[t].cur /\ th'[t].rtp = th[t].rtp
         /\ th'[t].transport = th[t].transport /\ th'[t].tries = th[t].tries /\ th'[t].then = th[t].then
         /\ th'[t].method = th[t].method /\ th'[t].sid = th[t].sid
<1> PICK x : x = [th[t] EXCEPT !.pc = pc]
  OBVIOUS
<1>1. th \in [Threads -> ThShape] /\ th[t] \in ThShape /\ th' = [th EXCEPT ![t] = x]
  BY DEF Shapes, Goto
<1>2. x \in ThShape
  BY <1>1, Zenon DEF ThShape
<1>3. /\ x.pc = pc /\ x.cur = th[t].cur /\ x.rtp = th[t].rtp
      /\ x.transport = th[t].transport /\ x.tries = th[t].tries /\ x.then = th[t].then
      /\ x.method = th[t].method /\ x.sid = th[t].sid
  BY <1>1 DEF ThShape
<1>4. ThStep(t) /\ th'[t] = x
  BY <1>1, <1>2, Updated, Zenon DEF ThStep
<1> QED BY <1>3, <1>4

-----------------------------------------------------------------------------
(* The actions keep the invariant.                                          *)

\* References are natural numbers, and a live session has some.
LEMMA RefsNat ==
  ASSUME IInv
  PROVE  \A s \in Sessions : sess[s].refs \in Nat /\ (sess[s].stage = "live" => sess[s].refs # 0)
<1> SUFFICES ASSUME NEW s \in Sessions PROVE sess[s].refs \in Nat
  BY DEF IInv, Alive
<1>1. /\ Cardinality(AtSession(s)) \in Nat /\ Cardinality(RtpsOf(s)) \in Nat
  <2>1. AtSession(s) \in SUBSET Threads /\ RtpsOf(s) \in SUBSET Rtps
    BY DEF AtSession, RtpsOf, LiveRtps
  <2> QED BY <2>1, AllFinite, CountSome
<1>2. sess[s].refs = One(s \in client.list) + Cardinality(AtSession(s)) + Cardinality(RtpsOf(s))
  BY DEF IInv, Counts, SessionHolders, AtSession, RtpsOf
<1> QED BY <1>1, <1>2 DEF One

\* What IInv says of thread t.
LEMMA AtThread ==
  ASSUME IInv, NEW t \in Threads
  PROVE  /\ Shapes /\ th[t] \in ThShape /\ Place(t, th[t])
         /\ th[t].pc \in LoopPcs \cup HandlerPcs /\ th[t].transport \in Transports
         /\ th[t].cur \in Sessions \cup {NoSession} /\ th[t].rtp \in Rtps \cup {NoRtp}
         /\ th[t].pc \in Holding => /\ th[t].cur \in Sessions /\ sess[th[t].cur] \in SessShape
                                    /\ sess[th[t].cur].stage = "live" /\ sess[th[t].cur].refs \in Nat \ {0}
         /\ th[t].pc \notin Holding => th[t].cur = NoSession
         /\ th[t].pc # "kill_rtp" => th[t].rtp = NoRtp
<1>1. Shapes /\ th[t] \in ThShape /\ Place(t, th[t])
  BY DEF IInv, Shapes
<1>2. /\ th[t].pc \in LoopPcs \cup HandlerPcs /\ th[t].transport \in Transports
      /\ th[t].cur \in Sessions \cup {NoSession} /\ th[t].rtp \in Rtps \cup {NoRtp}
  BY <1>1 DEF ThShape
<1>3. th[t].pc \in Holding => th[t].cur \in Sessions /\ sess[th[t].cur].stage = "live"
  BY <1>1, <1>2, Held DEF Place
<1>4. \A s \in Sessions : sess[s].stage = "live" => sess[s].refs \in Nat \ {0}
  BY RefsNat
<1>5. \A s \in Sessions : sess[s] \in SessShape
  BY <1>1 DEF Shapes
<1> QED BY <1>1, <1>2, <1>3, <1>4, <1>5 DEF Place

\* A step of one thread that changes no object.
LEMMA ThOnly ==
  ASSUME IInv, NEW t \in Threads, NEW n, UNCHANGED <<client, rtp>>, SessPart(n),
         \A s \in Sessions : sess'[s].refs = sess[s].refs /\ sess'[s].stage = sess[s].stage,
         RestPart, ThStep(t), Place(t, th'[t]), SameLoop,
         th'[t].cur = th[t].cur, th'[t].rtp = th[t].rtp, InHand(th'[t]) = InHand(th[t])
  PROVE  IInv'
<1>0. NoRtp \notin Rtps
  BY SessionAssumption
<1>1. ThPart(t)
  <2>1. Paired(t)
    BY DEF IInv
  <2> QED BY <2>1 DEF ThPart, Paired
<1>2. ClientPart /\ RtpPart(t, NoRtp)
  BY SameClient, SameRtp
<1>3. SessionOwed(t, n, NoRtp)
  BY <1>0 DEF SessionOwed, Apart, SessionDue
<1>4. ClientOwed(t, n, NoRtp)
  <2>1. One(n \in Sessions /\ sess'[n].stage = "live") = One(n \in Sessions /\ sess[n].stage = "live")
    BY <1>0 DEF One
  <2>2. client' = client /\ rtp' = rtp
    OBVIOUS
  <2>3. ClientDue(client', One(n \in Sessions /\ sess'[n].stage = "live"), NoRtp, t, rtp', th')
          = ClientDue(client, One(n \in Sessions /\ sess[n].stage = "live"), NoRtp, t, rtp, th)
    BY <2>1, <2>2 DEF ClientDue
  <2> QED BY <2>2, <2>3 DEF ClientOwed
<1> QED BY <1>1, <1>2, <1>3, <1>4, StepKeeps

\* ... by moving on from one place to another.
LEMMA GotoOnly ==
  ASSUME IInv, NEW t \in Threads, NEW pc \in LoopPcs \cup HandlerPcs, Goto(t, pc),
         UNCHANGED <<client, rtp, pool, requests>>, NEW n, SessPart(n),
         \A s \in Sessions : sess'[s].refs = sess[s].refs /\ sess'[s].stage = sess[s].stage,
         th[t].pc # "idle", pc \notin {"idle", "transport"},
         pc \in Holding <=> th[t].pc \in Holding, pc = "kill_rtp" <=> th[t].pc = "kill_rtp",
         IF t = Loop THEN pc \in LoopPcs /\ pc \notin {"polling", "leave", "gone"}
                             /\ th[t].pc \notin {"polling", "leave", "gone"}
         ELSE pc \in HandlerPcs
  PROVE  IInv'
<1>1. /\ ThStep(t) /\ th'[t].pc = pc /\ th'[t].cur = th[t].cur /\ th'[t].rtp = th[t].rtp
      /\ th'[t].transport = th[t].transport /\ th'[t].then = th[t].then
  BY GotoIs DEF IInv
<1>2. Place(t, th[t]) /\ Place(t, th'[t])
  <2>1. Place(t, th[t])
    BY DEF IInv
  <2> QED BY <1>1, <2>1 DEF Place, Holding, Ending, LoopPcs, HandlerPcs
<1>3. SameLoop
  BY <1>1, Roles DEF SameLoop, ThStep
<1>4. InHand(th'[t]) = InHand(th[t])
  BY <1>1 DEF InHand, Interleaves
<1>5. RestPart
  BY SameRest
<1> QED BY <1>1, <1>2, <1>3, <1>4, <1>5, ThOnly

\* A field of a session that counts nothing.
LEMMA SessMark ==
  ASSUME IInv, NEW s \in Sessions, NEW x \in SessShape, sess[s].stage # "unused",
         x.refs = sess[s].refs, x.stage = sess[s].stage, sess' = [sess EXCEPT ![s] = x]
  PROVE  /\ SessPart(s) /\ sess'[s] = x
         /\ \A q \in Sessions : sess'[q].refs = sess[q].refs /\ sess'[q].stage = sess[q].stage
<1>1. sess \in [Sessions -> SessShape]
  BY DEF IInv, Shapes
<1>2. SessStep(s) /\ sess'[s] = x
  BY <1>1, Updated, Zenon DEF SessStep
<1>3. SoundSess(x)
  BY DEF IInv, Alive, SoundSess
<1>4. \A q \in Sessions : sess'[q].refs = sess[q].refs /\ sess'[q].stage = sess[q].stage
  BY <1>2 DEF SessStep
<1> QED BY <1>2, <1>3, <1>4 DEF SessPart

\* The loop keeps the invariant: it ends by itself or for rtsp_client_kill, kills the sessions of
\* the list, and gives up the references it holds.
LEMMA PeerGoneKeeps == ASSUME IInv, PeerGone PROVE IInv'
<1> DEFINE t == Loop
<1>1. Shapes /\ Place(t, th[t]) /\ th[t].pc = "polling" /\ t \in Threads /\ th[t] \in ThShape
  BY Roles, AtThread DEF PeerGone
<1>2. /\ ThStep(t) /\ th'[t].pc = "kill_sessions" /\ th'[t].cur = th[t].cur /\ th'[t].rtp = th[t].rtp
      /\ th'[t].transport = th[t].transport /\ th'[t].then = th[t].then
  BY <1>1, GotoIs DEF PeerGone, LoopPcs
<1>3. Place(t, th'[t])
  BY <1>1, <1>2 DEF Place, Holding, Ending, LoopPcs, HandlerPcs
<1>4. ThPart(t)
  BY <1>1, <1>2, <1>3 DEF ThPart, Place, PeerGone, IInv, Paired
<1>5. /\ client' \in ClientShape /\ client'.refs = client.refs /\ client'.freed = client.freed
      /\ client'.killed /\ client'.list = client.list /\ client'.conns = client.conns
      /\ client'.in_loop = client.in_loop
  BY <1>1 DEF PeerGone, Shapes, ClientShape
<1>6. ClientPart
  BY <1>1, <1>2, <1>5 DEF IInv, ClientPart, Settled, Alive, ClientAt
<1>7. SessPart(NoSession) /\ RtpPart(t, NoRtp) /\ RestPart
  BY <1>1, <1>2, SameSess, SameRtp, SameRest DEF PeerGone
<1>8. SessionOwed(t, NoSession, NoRtp)
  BY <1>2, <1>5, Roles DEF SessionOwed, Apart
<1>9. ClientOwed(t, NoSession, NoRtp)
  BY <1>2, <1>5, Roles DEF ClientOwed, ClientDue
<1> HIDE DEF t
<1> QED BY <1>1, <1>4, <1>6, <1>7, <1>8, <1>9, StepKeeps

\* The loop has session s in its hands, as the list had.
LEMMA KillSessionsKeeps == ASSUME IInv, KillSessions PROVE IInv'
<1> PICK t : t = Loop
  OBVIOUS
<1>1. Shapes /\ Place(t, th[t]) /\ th[t].pc = "kill_sessions" /\ t \in Threads /\ th[t] \in ThShape
  BY Roles, AtThread DEF KillSessions
<1>2. CASE client.list = {}
  <2>1. /\ Goto(t, "orphan") /\ UNCHANGED <<client, sess, rtp, pool, requests>>
        /\ "orphan" \in LoopPcs \cup HandlerPcs
    BY <1>2 DEF KillSessions, LoopPcs
  <2>2. SessPart(NoSession)
    BY <2>1, SameSess
  <2>3. ~ ("orphan" \in Holding) /\ ~ (th[t].pc \in Holding) /\ "orphan" \in LoopPcs
    BY <1>1 DEF Holding, Ending, LoopPcs
  <2> QED BY <1>1, <2>1, <2>2, <2>3, GotoOnly
<1>3. CASE client.list # {}
  <2>1. PICK s \in client.list :
          /\ client' = [client EXCEPT !.list = @ \ {s}]
          /\ th' = [th EXCEPT ![Loop].pc = "kill", ![Loop].cur = s, ![Loop].then = "kill_sessions"]
          /\ UNCHANGED <<sess, rtp, pool, requests>>
    BY <1>3 DEF KillSessions
  <2>2. s \in Sessions /\ s # NoSession
    BY <1>1, Roles DEF Shapes, ClientShape
  <2> PICK x : x = [th[t] EXCEPT !.pc = "kill", !.cur = s, !.then = "kill_sessions"]
    OBVIOUS
  <2>3. th' = [th EXCEPT ![t] = x] /\ th \in [Threads -> ThShape]
    BY <1>1, <2>1 DEF Shapes
  <2>4. /\ x \in ThShape /\ x.pc = "kill" /\ x.cur = s /\ x.then = "kill_sessions"
        /\ x.rtp = th[t].rtp /\ x.transport = th[t].transport
    BY <1>1, <2>2 DEF ThShape, LoopPcs, Ending
  <2>5. ThStep(t) /\ th'[t] = x
    BY <1>1, <2>3, <2>4, Updated, Zenon DEF ThStep
  <2>6. th[t].cur = NoSession /\ th[t].rtp = NoRtp
    BY <1>1 DEF Place, Holding, Ending
  <2>7. ThPart(t)
    BY <1>1, <2>2, <2>4, <2>5, <2>6, Roles DEF ThPart, Place, Holding, Ending, LoopPcs
  <2>8. /\ client' \in ClientShape /\ client'.refs = client.refs /\ client'.freed = client.freed
        /\ client'.killed = client.killed /\ client'.list = client.list \ {s} /\ client'.conns = client.conns
        /\ client'.in_loop = client.in_loop
    BY <1>1, <2>1 DEF Shapes, ClientShape
  <2>9. ClientPart
    BY <1>1, <2>4, <2>5, <2>8 DEF IInv, ClientPart, Settled, Alive, ClientAt
  <2>10. SessPart(s) /\ RtpPart(t, NoRtp) /\ RestPart
    BY <1>1, <2>1, <2>4, <2>5, SameSess, SameRtp, SameRest
  <2>11. SessionOwed(t, s, NoRtp)
    <3>1. Apart(t, s, NoRtp)
      BY <2>2, <2>4, <2>5, <2>6, <2>8, Roles DEF Apart
    <3>2. SessionDue(s, t, NoRtp, client'.list, rtp', th') = SessionDue(s, t, NoRtp, client.list, rtp, th)
      <4>1. /\ One(s \in client'.list) = 0 /\ One(s \in client.list) = 1
            /\ One(th'[t].cur = s) = 1 /\ One(th[t].cur = s) = 0
        BY <2>1, <2>2, <2>4, <2>5, <2>6, <2>8 DEF One
      <4>2. /\ One(NoRtp \in Rtps /\ LiveStage(rtp'[NoRtp]) /\ rtp'[NoRtp].owner = s) = 0
            /\ One(NoRtp \in Rtps /\ LiveStage(rtp[NoRtp]) /\ rtp[NoRtp].owner = s) = 0
        BY Roles DEF One
      <4> QED BY <4>1, <4>2 DEF SessionDue
    <3> QED BY <2>1, <3>1, <3>2 DEF SessionOwed
  <2>12. ClientOwed(t, s, NoRtp)
    BY <1>1, <2>1, <2>4, <2>5, <2>8, Roles DEF ClientOwed, ClientDue
  <2> QED BY <1>1, <2>7, <2>9, <2>10, <2>11, <2>12, StepKeeps
<1> QED BY <1>2, <1>3
\* The list of connections and the loop let go of the client.
LEMMA OrphanKeeps == ASSUME IInv, Orphan PROVE IInv'
<1> PICK t : t = Loop
  OBVIOUS
<1>1. Shapes /\ Place(t, th[t]) /\ th[t].pc = "orphan" /\ t \in Threads /\ th[t] \in ThShape
  BY Roles, AtThread DEF Orphan
<1>2. /\ ThStep(t) /\ th'[t].pc = "leave" /\ th'[t].cur = th[t].cur /\ th'[t].rtp = th[t].rtp
      /\ th'[t].transport = th[t].transport /\ th'[t].then = th[t].then
  BY <1>1, GotoIs DEF Orphan, LoopPcs
<1>3. ThPart(t)
  <2>1. Place(t, th'[t])
    BY <1>1, <1>2 DEF Place, Holding, Ending, LoopPcs, HandlerPcs
  <2> QED BY <1>1, <1>2, <2>1 DEF ThPart, Place, Orphan, IInv, Paired
<1> PICK d : d = ClientRefs(client, -1)
  OBVIOUS
<1>4. Drop(client, d, 1) /\ client' = [d EXCEPT !.conns = FALSE]
  BY <1>1, ClientRefsIs, Zenon DEF Orphan, Shapes
<1>5. /\ client' \in ClientShape /\ client'.refs = client.refs - 1 /\ client'.freed = d.freed
      /\ client'.killed = client.killed /\ client'.list = client.list /\ client'.conns = FALSE
      /\ client'.in_loop = client.in_loop
  BY <1>4 DEF Drop, ClientShape
<1>6. ClientPart
  <2>1. client.conns /\ client.killed /\ client.in_loop /\ Settled(client)
    BY <1>1 DEF IInv, ClientAt, Alive, Settled
  <2>2. client'.refs \in Nat => Settled(client')
    BY <1>4, <1>5, <2>1 DEF Drop, Settled
  <2> QED BY <1>1, <1>2, <1>5, <2>1, <2>2 DEF ClientPart
<1>7. SessPart(NoSession) /\ RtpPart(t, NoRtp) /\ RestPart
  BY <1>1, <1>2, SameSess, SameRtp, SameRest DEF Orphan
<1>8. SessionOwed(t, NoSession, NoRtp)
  BY <1>2, <1>5, Roles DEF SessionOwed, Apart
<1>9. ClientOwed(t, NoSession, NoRtp)
  <2>1. One(client.conns) = 1 /\ One(client'.conns) = 0
    BY <1>1, <1>5 DEF IInv, ClientAt, One
  <2>2. t \notin Handlers /\ NoRtp \notin Rtps /\ NoSession \notin Sessions /\ client.refs \in Int
    BY <1>1, Roles DEF Shapes, ClientShape
  <2>3. /\ One(NoRtp \in Rtps /\ LiveStage(rtp'[NoRtp]) /\ Interleaves(rtp'[NoRtp])) = 0
        /\ One(NoRtp \in Rtps /\ LiveStage(rtp[NoRtp]) /\ Interleaves(rtp[NoRtp])) = 0
        /\ One(NoSession \in Sessions /\ sess'[NoSession].stage = "live") = 0
        /\ One(NoSession \in Sessions /\ sess[NoSession].stage = "live") = 0
    BY <2>2 DEF One
  <2>4. One(client.in_loop) \in Nat
    BY DEF One
  <2> QED BY <1>5, <2>1, <2>2, <2>3, <2>4 DEF ClientOwed, ClientDue
<1> QED BY <1>1, <1>3, <1>6, <1>7, <1>8, <1>9, StepKeeps

\* The loop gives up its own reference to the client when it is left.
LEMMA LeaveKeeps == ASSUME IInv, Leave PROVE IInv'
<1> PICK t : t = Loop
  OBVIOUS
<1>1. Shapes /\ Place(t, th[t]) /\ th[t].pc = "leave" /\ t \in Threads /\ th[t] \in ThShape
  BY Roles, AtThread DEF Leave
<1>2. /\ ThStep(t) /\ th'[t].pc = "gone" /\ th'[t].cur = th[t].cur /\ th'[t].rtp = th[t].rtp
      /\ th'[t].transport = th[t].transport /\ th'[t].then = th[t].then
  BY <1>1, GotoIs DEF Leave, LoopPcs
<1>3. ThPart(t)
  <2>1. Place(t, th'[t])
    BY <1>1, <1>2 DEF Place, Holding, Ending, LoopPcs, HandlerPcs
  <2> QED BY <1>1, <1>2, <2>1 DEF ThPart, Place, Leave, IInv, Paired
<1> PICK d : d = ClientRefs(client, -1)
  OBVIOUS
<1>4. Drop(client, d, 1) /\ client' = [d EXCEPT !.in_loop = FALSE]
  BY <1>1, ClientRefsIs, Zenon DEF Leave, Shapes
<1>5. /\ client' \in ClientShape /\ client'.refs = client.refs - 1 /\ client'.freed = d.freed
      /\ client'.killed = client.killed /\ client'.list = client.list /\ client'.in_loop = FALSE
      /\ client'.conns = client.conns
  BY <1>4 DEF Drop, ClientShape
<1>6. ClientPart
  <2>1. ~ client.conns /\ client.killed /\ client.in_loop /\ Settled(client)
    BY <1>1 DEF IInv, ClientAt, Alive, Settled
  <2>2. client'.refs \in Nat => Settled(client')
    BY <1>4, <1>5, <2>1 DEF Drop, Settled
  <2> QED BY <1>1, <1>2, <1>5, <2>1, <2>2 DEF ClientPart
<1>7. SessPart(NoSession) /\ RtpPart(t, NoRtp) /\ RestPart
  BY <1>1, <1>2, SameSess, SameRtp, SameRest DEF Leave
<1>8. SessionOwed(t, NoSession, NoRtp)
  BY <1>2, <1>5, Roles DEF SessionOwed, Apart
<1>9. ClientOwed(t, NoSession, NoRtp)
  <2>1. One(client.in_loop) = 1 /\ One(client'.in_loop) = 0
    BY <1>1, <1>5 DEF IInv, ClientAt, One
  <2>2. t \notin Handlers /\ NoRtp \notin Rtps /\ NoSession \notin Sessions /\ client.refs \in Int
    BY <1>1, Roles DEF Shapes, ClientShape
  <2>3. /\ One(NoRtp \in Rtps /\ LiveStage(rtp'[NoRtp]) /\ Interleaves(rtp'[NoRtp])) = 0
        /\ One(NoRtp \in Rtps /\ LiveStage(rtp[NoRtp]) /\ Interleaves(rtp[NoRtp])) = 0
        /\ One(NoSession \in Sessions /\ sess'[NoSession].stage = "live") = 0
        /\ One(NoSession \in Sessions /\ sess[NoSession].stage = "live") = 0
    BY <2>2 DEF One
  <2>4. One(client.conns) \in Nat
    BY DEF One
  <2> QED BY <1>5, <2>1, <2>2, <2>3, <2>4 DEF ClientOwed, ClientDue
<1> QED BY <1>1, <1>3, <1>6, <1>7, <1>8, <1>9, StepKeeps

\* A request takes a reference to the client.
LEMMA ReceiveKeeps ==
  ASSUME IInv, NEW t \in Handlers, NEW m \in Methods, NEW sid \in Sessions \cup {NoSession},
         Receive(t, m, sid)
  PROVE  IInv'
<1>1. Shapes /\ Place(t, th[t]) /\ th[t].pc = "idle" /\ t \in Threads /\ th[t] \in ThShape /\ t # Loop
  BY Roles, AtThread DEF Receive
<1>2. PICK pc \in {"transport", "dead", "find"} : pc = CASE m = "SETUP" -> "transport"
                                                   [] m = "OPTIONS" -> "dead"
                                                   [] OTHER -> "find"
  OBVIOUS
<1> PICK x : x = [Idle EXCEPT !.pc = pc, !.method = m, !.sid = sid, !.tries = MaxTries, !.then = "finish"]
  OBVIOUS
<1>3. th' = [th EXCEPT ![t] = x] /\ th \in [Threads -> ThShape]
  BY <1>1, <1>2 DEF Receive, Shapes
<1>4. x = [pc |-> pc, method |-> m, sid |-> sid, cur |-> NoSession, rtp |-> NoRtp,
           transport |-> NoTransport, tries |-> MaxTries, then |-> "finish"]
  BY DEF Idle
<1>5. x \in ThShape
  <2>1. MaxTries \in Nat /\ NoTransport \in Transports
    BY SessionAssumption DEF NoTransport, Transports
  <2> QED BY <1>4, <2>1 DEF ThShape, HandlerPcs
<1>6. ThStep(t) /\ th'[t] = x
  BY <1>1, <1>3, <1>5, Updated, Zenon DEF ThStep
<1>7. th[t].cur = NoSession /\ th[t].rtp = NoRtp /\ th[t].transport.mode = "none"
  BY <1>1 DEF Place, Holding, Ending
<1>8. Place(t, x) /\ x.rtp = NoRtp /\ x.cur = NoSession /\ x.transport = NoTransport /\ x.pc # "idle"
  <2>1. x.rtp = NoRtp /\ x.cur = NoSession
    BY DEF Idle
  <2>3. x.transport = NoTransport /\ x.pc = pc
    BY DEF Idle
  <2>2. x.transport.mode = "none"
    BY <2>3 DEF NoTransport
  <2> QED BY <1>1, <1>2, <2>1, <2>2, <2>3 DEF Place, Holding, Ending, HandlerPcs
<1>9. ThPart(t)
  BY <1>6, <1>8, Roles DEF ThPart
<1> PICK d : d = ClientRefs(client, 1)
  OBVIOUS
<1>10. /\ client' = d /\ client \in ClientShape /\ Settled(client)
       /\ client.refs \in Nat /\ client.refs # 0 /\ th'[Loop].pc = th[Loop].pc
  <2>1. client.in_loop
    BY DEF IInv, ClientAt, Receive
  <2> QED BY <1>1, <1>6, <2>1, Held, Roles DEF Receive, IInv, Shapes, Alive, Settled, ThStep
<1>11. /\ d \in ClientShape /\ d.refs = client.refs + 1 /\ d.list = client.list
       /\ d.killed = client.killed /\ d.conns = client.conns /\ d.in_loop = client.in_loop /\ Settled(d)
  BY <1>10, ClientRefsIs
<1>12. ClientPart
  BY <1>10, <1>11 DEF ClientPart, IInv, ClientAt
<1>13. SessPart(NoSession) /\ RtpPart(t, NoRtp)
  BY <1>1, <1>6, <1>7, <1>8, SameSess, SameRtp DEF Receive
<1>14. RestPart
  BY <1>1, SessionAssumption DEF RestPart, Receive, Shapes
<1>15. SessionOwed(t, NoSession, NoRtp)
  BY <1>6, <1>7, <1>8, <1>10, <1>11, Roles DEF SessionOwed, Apart
<1>16. ClientOwed(t, NoSession, NoRtp)
  <2>1. InHand(th[t]) = 0 /\ InHand(th'[t]) = 1
    BY <1>1, <1>6, <1>7, <1>8 DEF InHand, One, Interleaves, NoTransport
  <2>2. rtp' = rtp /\ sess' = sess
    BY DEF Receive
  <2>3. /\ One(client'.conns) = One(client.conns) /\ One(client'.in_loop) = One(client.in_loop)
        /\ One(client.conns) \in Nat /\ One(client.in_loop) \in Nat
    BY <1>10, <1>11 DEF One
  <2>4. /\ One(NoRtp \in Rtps /\ LiveStage(rtp'[NoRtp]) /\ Interleaves(rtp'[NoRtp])) = 0
        /\ One(NoRtp \in Rtps /\ LiveStage(rtp[NoRtp]) /\ Interleaves(rtp[NoRtp])) = 0
        /\ One(NoSession \in Sessions /\ sess'[NoSession].stage = "live") = 0
        /\ One(NoSession \in Sessions /\ sess[NoSession].stage = "live") = 0
    BY Roles DEF One
  <2> QED BY <1>10, <1>11, <2>1, <2>3, <2>4 DEF ClientOwed, ClientDue
<1> QED BY <1>1, <1>9, <1>12, <1>13, <1>14, <1>15, <1>16, StepKeeps

\* Time that passes for a session that no request refreshes keeps the invariant,
LEMMA TimePassesKeeps ==
  ASSUME IInv, NEW s \in Sessions, TimePasses(s) PROVE IInv'
<1> PICK t : t = Loop
  OBVIOUS
<1>1. Shapes /\ Place(t, th[t]) /\ t \in Threads /\ th' = th /\ sess[s] \in SessShape
  BY Roles, AtThread DEF TimePasses, Shapes
<1> PICK x : x = [sess[s] EXCEPT !.session_timer = "expired"]
  OBVIOUS
<1>2. /\ x \in SessShape /\ x.refs = sess[s].refs /\ x.stage = sess[s].stage
      /\ sess' = [sess EXCEPT ![s] = x] /\ sess[s].stage # "unused"
  BY <1>1 DEF SessShape, TimePasses
<1>3. /\ SessPart(s)
      /\ \A q \in Sessions : sess'[q].refs = sess[q].refs /\ sess'[q].stage = sess[q].stage
  BY <1>2, SessMark
<1>4. RestPart /\ ThStep(t) /\ SameLoop
  BY <1>1, SameRest DEF TimePasses, ThStep, SameLoop, Shapes
<1> QED BY <1>1, <1>3, <1>4, ThOnly DEF TimePasses
\* and so does rtsp_session_kill, which marks a session before it goes on,
LEMMA KillMarkKeeps == ASSUME IInv, NEW t \in Threads, KillMark(t) PROVE IInv'
<1> PICK s : s = th[t].cur
  OBVIOUS
<1>1. /\ Shapes /\ Place(t, th[t]) /\ th[t].pc = "kill" /\ s \in Sessions /\ sess[s] \in SessShape
      /\ sess[s].stage = "live"
  BY AtThread DEF KillMark, Holding, Ending
<1> PICK x : x = [sess[s] EXCEPT !.killed = TRUE]
  OBVIOUS
<1>2. /\ x.refs = sess[s].refs /\ x.stage = sess[s].stage
      /\ sess' = [sess EXCEPT ![s] = x] /\ sess[s].stage # "unused"
  BY <1>1 DEF SessShape, KillMark
<1>3. x \in SessShape
  BY <1>1, Zenon DEF SessShape
<1>4. /\ SessPart(s)
      /\ \A q \in Sessions : sess'[q].refs = sess[q].refs /\ sess'[q].stage = sess[q].stage
  BY <1>1, <1>2, <1>3, SessMark
<1> PICK pc \in {"unref", "kill_rtps"} : pc = IF sess[s].killed THEN "unref" ELSE "kill_rtps"
  OBVIOUS
<1>5. Goto(t, pc) /\ UNCHANGED <<client, rtp, pool, requests>>
  BY DEF KillMark
<1>6. /\ pc \in LoopPcs \cup HandlerPcs /\ pc \in Holding /\ th[t].pc \in Holding /\ pc \in Ending
      /\ pc \in LoopPcs /\ pc \in HandlerPcs /\ pc \notin {"idle", "transport", "polling", "leave", "gone"}
  BY <1>1 DEF Holding, Ending, LoopPcs, HandlerPcs
<1> QED BY <1>1, <1>4, <1>5, <1>6, GotoOnly

\* and the start of the timer of PLAY.
LEMMA PlayTimerKeeps == ASSUME IInv, NEW t \in Handlers, PlayTimer(t) PROVE IInv'
<1> PICK s : s = th[t].cur
  OBVIOUS
<1>1. /\ Shapes /\ Place(t, th[t]) /\ th[t].pc = "play_timer" /\ s \in Sessions /\ sess[s] \in SessShape
      /\ sess[s].stage = "live" /\ t \in Threads /\ t # Loop
  BY AtThread, Roles DEF PlayTimer, Holding, Ending
<1> PICK x : x = [sess[s] EXCEPT !.session_timer = "off"]
  OBVIOUS
<1>2. /\ x \in SessShape /\ x.refs = sess[s].refs /\ x.stage = sess[s].stage
      /\ sess' = [sess EXCEPT ![s] = x] /\ sess[s].stage # "unused"
  BY <1>1 DEF SessShape, PlayTimer
<1>3. /\ SessPart(s)
      /\ \A q \in Sessions : sess'[q].refs = sess[q].refs /\ sess'[q].stage = sess[q].stage
  BY <1>1, <1>2, SessMark
<1>4. Goto(t, "play") /\ UNCHANGED <<client, rtp, pool, requests>>
  BY DEF PlayTimer
<1>5. "play" \in Holding /\ th[t].pc \in Holding /\ "play" \in HandlerPcs
  BY <1>1 DEF Holding, HandlerPcs
<1> QED BY <1>1, <1>3, <1>4, <1>5, GotoOnly

\* rtsp_session_ref by a thread that found session s on the list.
LEMMA HoldKeeps ==
  ASSUME IInv, NEW t \in Handlers, NEW s \in client.list, th[t].pc \in {"find", "dead"},
         NEW pc \in {"setup", "play_timer", "pause", "remove"}, NEW then \in {"finish", "dead"},
         Hold(t, s, pc, then), UNCHANGED <<client, rtp, pool, requests>>
  PROVE  IInv'
<1>1. /\ Shapes /\ Place(t, th[t]) /\ t \in Threads /\ th[t] \in ThShape /\ t # Loop
      /\ th[t].cur = NoSession /\ th[t].rtp = NoRtp
  <2>1. th[t].pc \notin Holding /\ th[t].pc # "kill_rtp"
    BY DEF Holding, Ending
  <2> QED BY <2>1, Roles, AtThread
<1>2. s \in Sessions /\ s # NoSession /\ sess[s].stage = "live" /\ sess \in [Sessions -> SessShape]
  BY Held, Roles DEF IInv, Shapes
<1> PICK x : x = [th[t] EXCEPT !.pc = pc, !.cur = s, !.then = then]
  OBVIOUS
<1>3. th' = [th EXCEPT ![t] = x] /\ th \in [Threads -> ThShape]
  BY <1>1 DEF Shapes, Hold
<1>4. /\ x \in ThShape /\ x.pc = pc /\ x.cur = s /\ x.then = then
      /\ x.rtp = th[t].rtp /\ x.transport = th[t].transport
  BY <1>1, <1>2 DEF ThShape, HandlerPcs, Holding
<1>5. ThStep(t) /\ th'[t] = x
  BY <1>1, <1>3, <1>4, Updated, Zenon DEF ThStep
<1>6. ThPart(t)
  <2>1. Place(t, x)
    BY <1>1, <1>2, <1>4 DEF Place, Holding, Ending, HandlerPcs
  <2> QED BY <1>1, <1>4, <1>5, <2>1, Roles DEF ThPart
<1> PICK y : y = [sess[s] EXCEPT !.refs = @ + 1]
  OBVIOUS
<1>7. sess' = [sess EXCEPT ![s] = y] /\ sess[s].refs \in Nat
  BY <1>2, RefsNat DEF Hold
<1>8. y \in SessShape /\ y.refs = sess[s].refs + 1 /\ y.stage = "live" /\ sess[s].refs \in Int
  BY <1>2, <1>7 DEF SessShape
<1>9. SessPart(s) /\ sess'[s] = y
  <2>1. SessStep(s) /\ sess'[s] = y
    BY <1>2, <1>7, <1>8, Updated, Zenon DEF SessStep
  <2>2. SoundSess(y)
    BY <1>7, <1>8 DEF SoundSess
  <2> QED BY <2>1, <2>2 DEF SessPart
<1>10. SameLoop /\ rtp' = rtp /\ client' = client /\ x.rtp = th[t].rtp
  BY <1>1, <1>4, <1>5, Roles DEF SameLoop, ThStep
<1>11. ClientPart /\ RtpPart(t, NoRtp) /\ RestPart
  BY <1>1, <1>5, <1>10, SameClient, SameRtp, SameRest
<1>12. SessionOwed(t, s, NoRtp)
  <2>1. Apart(t, s, NoRtp)
    BY <1>1, <1>2, <1>4, <1>5, <1>10, Roles DEF Apart
  <2>2. /\ One(s \in client'.list) = One(s \in client.list) /\ One(s \in client.list) \in Nat
        /\ One(th'[t].cur = s) = 1 /\ One(th[t].cur = s) = 0
    BY <1>1, <1>2, <1>4, <1>5, <1>10 DEF One
  <2>3. /\ One(NoRtp \in Rtps /\ LiveStage(rtp'[NoRtp]) /\ rtp'[NoRtp].owner = s) = 0
        /\ One(NoRtp \in Rtps /\ LiveStage(rtp[NoRtp]) /\ rtp[NoRtp].owner = s) = 0
    BY Roles DEF One
  <2>4. PICK a \in Nat : a = One(s \in client.list)
    BY <2>2
  <2>5. /\ SessionDue(s, t, NoRtp, client'.list, rtp', th') = a + 1
        /\ SessionDue(s, t, NoRtp, client.list, rtp, th) = a
    BY <2>2, <2>3, <2>4 DEF SessionDue
  <2>6. sess'[s].refs = sess[s].refs + 1
    BY <1>8, <1>9
  <2> QED BY <1>8, <2>1, <2>5, <2>6 DEF SessionOwed
<1>13. ClientOwed(t, s, NoRtp)
  <2>1. InHand(th'[t]) = InHand(th[t])
    BY <1>4, <1>5 DEF InHand, Interleaves
  <2>2. One(s \in Sessions /\ sess'[s].stage = "live") = One(s \in Sessions /\ sess[s].stage = "live")
    BY <1>2, <1>8, <1>9 DEF One
  <2>3. ClientDue(client', One(s \in Sessions /\ sess'[s].stage = "live"), NoRtp, t, rtp', th')
          = ClientDue(client, One(s \in Sessions /\ sess[s].stage = "live"), NoRtp, t, rtp, th)
    BY <1>10, <2>1, <2>2 DEF ClientDue
  <2> QED BY <1>10, <2>3 DEF ClientOwed
<1> QED BY <1>1, <1>6, <1>9, <1>11, <1>12, <1>13, StepKeeps

\* A request that looks for its session: found, and referenced ...
LEMMA FindKeeps == ASSUME IInv, NEW t \in Handlers, Find(t) PROVE IInv'
<1> PICK s : s = th[t].sid
  OBVIOUS
<1>1. Shapes /\ Place(t, th[t]) /\ th[t].pc = "find" /\ t \in Threads /\ t # Loop
  BY AtThread, Roles DEF Find
<1>2. UNCHANGED <<client, rtp, pool, requests>>
  BY DEF Find
<1>3. CASE client.killed \/ s \notin client.list
  <2>1. Goto(t, "finish") /\ sess' = sess
    BY <1>3 DEF Find
  <2>2. SessPart(NoSession)
    BY <2>1, SameSess
  <2>3. ~ ("finish" \in Holding) /\ ~ (th[t].pc \in Holding) /\ "finish" \in HandlerPcs
    BY <1>1 DEF Holding, Ending, HandlerPcs
  <2> QED BY <1>1, <1>2, <2>1, <2>2, <2>3, GotoOnly
<1>4. CASE ~ (client.killed \/ s \notin client.list)
  <2>1. PICK pc \in {"setup", "play_timer", "pause", "remove"} : Hold(t, s, pc, "finish")
    BY <1>4 DEF Find
  <2> QED BY <1>1, <1>2, <1>4, <2>1, HoldKeeps
<1> QED BY <1>3, <1>4

\* ... or found killed, or not at all.
LEMMA FindDeadKeeps == ASSUME IInv, NEW t \in Handlers, FindDead(t) PROVE IInv'
<1> PICK dead : dead = {s \in client.list : sess[s].session_timer = "expired"}
  OBVIOUS
<1>1. Shapes /\ Place(t, th[t]) /\ th[t].pc = "dead" /\ t \in Threads /\ t # Loop
  BY AtThread, Roles DEF FindDead
<1>2. UNCHANGED <<client, rtp, pool, requests>>
  BY DEF FindDead
<1>3. CASE client.killed \/ dead = {}
  <2>1. PICK pc \in {"create", "finish"} : Goto(t, pc) /\ sess' = sess
    BY <1>3 DEF FindDead
  <2>2. SessPart(NoSession)
    BY <2>1, SameSess
  <2>3. ~ (pc \in Holding) /\ ~ (th[t].pc \in Holding) /\ pc \in HandlerPcs
    BY <1>1 DEF Holding, Ending, HandlerPcs
  <2> QED BY <1>1, <1>2, <2>1, <2>2, <2>3, GotoOnly
<1>4. CASE ~ (client.killed \/ dead = {})
  <2>1. PICK s \in client.list : Hold(t, s, "remove", "dead")
    BY <1>4 DEF FindDead
  <2> QED BY <1>1, <1>2, <2>1, HoldKeeps
<1> QED BY <1>3, <1>4
\* A SETUP that gets no pair of ports ends at once.
LEMMA NoTransportLeftKeeps == ASSUME IInv, NEW t \in Handlers, NoTransportLeft(t) PROVE IInv'
<1>1. Shapes /\ Place(t, th[t]) /\ th[t].pc = "transport" /\ t \in Threads /\ t # Loop /\ th[t] \in ThShape
  BY AtThread, Roles DEF NoTransportLeft
<1> PICK x : x = [th[t] EXCEPT !.pc = "finish", !.transport = NoTransport]
  OBVIOUS
<1>2. th' = [th EXCEPT ![t] = x] /\ th \in [Threads -> ThShape]
  BY <1>1 DEF Shapes, NoTransportLeft
<1>3. NoTransport \in Transports /\ NoTransport.mode = "none"
  BY DEF NoTransport, Transports
<1>4. /\ x \in ThShape /\ x.pc = "finish" /\ x.cur = th[t].cur /\ x.then = th[t].then
      /\ x.rtp = th[t].rtp /\ x.transport = NoTransport
  BY <1>1, <1>3 DEF ThShape, HandlerPcs
<1>5. ThStep(t) /\ th'[t] = x
  BY <1>1, <1>2, <1>4, Updated, Zenon DEF ThStep
<1>6. Place(t, x)
  BY <1>1, <1>4 DEF Place, Holding, Ending, HandlerPcs
<1>7. InHand(x) = InHand(th[t])
  BY <1>1, <1>3, <1>4 DEF InHand, Interleaves, Place
<1>8. SameLoop
  BY <1>1, <1>5, Roles DEF SameLoop, ThStep
<1>9. SessPart(NoSession) /\ RestPart /\ UNCHANGED <<client, rtp, sess>>
  BY SameSess, SameRest DEF NoTransportLeft
<1> QED BY <1>1, <1>4, <1>5, <1>6, <1>7, <1>8, <1>9, ThOnly

\* Whatever the allocator gives, the thread has a pair, or tries again.
LEMMA TakePortsKeeps == ASSUME IInv, NEW t \in Handlers, TakePorts(t) PROVE IInv'
<1>1. Shapes /\ Place(t, th[t]) /\ th[t].pc = "transport" /\ t \in Threads /\ t # Loop /\ th[t] \in ThShape
  BY AtThread, Roles DEF TakePorts
<1> PICK got : got = GetPair(pool)
  OBVIOUS
<1>2. PICK low \in IF got.low # NoPort THEN {got.low} ELSE Leftovers(t) :
          \/ /\ pool' = got.pool
             /\ th' = [th EXCEPT ![t].pc = IF th[t].sid = NoSession THEN "dead" ELSE "find",
                                 ![t].transport = [mode |-> "udp", low |-> low], ![t].tries = 0]
          \/ /\ pool' = PutPair(got.pool, low, low + 1)
             /\ th' = [th EXCEPT ![t].transport.low = low, ![t].tries = @ - 1]
  BY DEF TakePorts
<1>3. PoolShape(got.pool) /\ got.low \in InRange(pool) \cup {NoPort}
  BY <1>1, GetPairShape DEF Shapes, PoolShape, SameRange
<1>4. low \in Ports
  <2>1. LowPort \in Nat /\ HighPort \in Nat /\ LowPort < HighPort
    BY SessionAssumption
  <2>2. InRange(pool) \subseteq Ports
    BY <1>1, <2>1 DEF InRange, Ports, Shapes, PoolShape
  <2>3. th[t].transport.low \in Ports \cup {NoPort}
    BY <1>1 DEF ThShape, Transports
  <2>4. {p \in LowPort - 2 .. HighPort : Even(p)} \subseteq Ports
    BY <2>1 DEF Ports
  <2>5. Leftovers(t) \subseteq Ports
    BY <2>3, <2>4 DEF Leftovers
  <2> QED BY <1>2, <1>3, <2>2, <2>5
<1>5. PoolShape(pool')
  <2>1. PICK q : q = PutOne(got.pool, low)
    OBVIOUS
  <2>2. Giving(got.pool, low, q)
    BY <1>3, <2>1, PutOneIs, Zenon DEF PoolShape
  <2>3. PICK f : f = PutOne(q, low + 1)
    OBVIOUS
  <2>4. Shaped(q)
    BY <2>2 DEF Giving
  <2>5. Giving(q, low + 1, f)
    BY <2>3, <2>4, PutOneIs, Zenon
  <2>6. PoolShape(f)
    BY <1>3, <2>2, <2>5 DEF Giving, SameRange, PoolShape
  <2> QED BY <1>2, <1>3, <2>1, <2>3, <2>6 DEF PutPair
<1>6. RestPart /\ UNCHANGED <<client, sess, rtp>> /\ th[t].tries - 1 \in Nat
  BY <1>1, <1>5 DEF RestPart, TakePorts, Shapes, ThShape
<1>7. SessPart(NoSession)
  BY <1>6, SameSess
<1>8. CASE th' = [th EXCEPT ![t].pc = IF th[t].sid = NoSession THEN "dead" ELSE "find",
                            ![t].transport = [mode |-> "udp", low |-> low], ![t].tries = 0]
  <2>1. PICK pc \in {"dead", "find"} : pc = IF th[t].sid = NoSession THEN "dead" ELSE "find"
    OBVIOUS
  <2>2. PICK tr \in Transports : tr = [mode |-> "udp", low |-> low]
    BY <1>4 DEF Transports
  <2>3. PICK x : x = [th[t] EXCEPT !.pc = pc, !.transport = tr, !.tries = 0]
    OBVIOUS
  <2>4. th' = [th EXCEPT ![t] = x] /\ th \in [Threads -> ThShape]
    BY <1>1, <1>8, <2>1, <2>2, <2>3 DEF Shapes
  <2>5. /\ x \in ThShape /\ x.pc = pc /\ x.cur = th[t].cur /\ x.then = th[t].then
        /\ x.rtp = th[t].rtp /\ x.transport = tr
    BY <1>1, <2>1, <2>2, <2>3 DEF ThShape, HandlerPcs
  <2>6. ThStep(t) /\ th'[t] = x
    BY <1>1, <2>4, <2>5, Updated, Zenon DEF ThStep
  <2>7. Place(t, x)
    BY <1>1, <2>1, <2>5 DEF Place, Holding, Ending, HandlerPcs
  <2>8. InHand(x) = InHand(th[t])
    BY <1>1, <2>1, <2>2, <2>5 DEF InHand, Interleaves, Place
  <2>9. SameLoop
    BY <1>1, <2>6, Roles DEF SameLoop, ThStep
  <2> QED BY <1>1, <1>6, <1>7, <2>5, <2>6, <2>7, <2>8, <2>9, ThOnly
<1>9. CASE th' = [th EXCEPT ![t].transport.low = low, ![t].tries = @ - 1]
  <2>1. PICK tr \in Transports : tr = [th[t].transport EXCEPT !.low = low] /\ tr.mode = th[t].transport.mode
    <3>1. th[t].transport \in Transports
      BY <1>1 DEF ThShape
    <3>2. PICK tr : tr = [th[t].transport EXCEPT !.low = low]
      OBVIOUS
    <3>3. low \in Ports \cup {NoPort}
      BY <1>4
    <3>4. tr \in Transports
      BY <3>1, <3>2, <3>3, Zenon DEF Transports
    <3>5. tr.mode = th[t].transport.mode
      BY <3>1, <3>2 DEF Transports
    <3> QED BY <3>2, <3>4, <3>5
  <2>2. PICK n \in Nat : n = th[t].tries - 1
    BY <1>6
  <2>3. PICK x : x = [th[t] EXCEPT !.transport = tr, !.tries = n]
    OBVIOUS
  <2>4. th' = [th EXCEPT ![t] = x] /\ th \in [Threads -> ThShape]
    BY <1>1, <1>9, <2>1, <2>2, <2>3 DEF Shapes
  <2>5. /\ x \in ThShape /\ x.pc = th[t].pc /\ x.cur = th[t].cur /\ x.then = th[t].then
        /\ x.rtp = th[t].rtp /\ x.transport = tr
    BY <1>1, <2>1, <2>2, <2>3 DEF ThShape
  <2>6. ThStep(t) /\ th'[t] = x
    BY <1>1, <2>4, <2>5, Updated, Zenon DEF ThStep
  <2>7. Place(t, x)
    BY <1>1, <2>1, <2>5 DEF Place, Holding, Ending, HandlerPcs
  <2>8. InHand(x) = InHand(th[t])
    BY <1>1, <2>1, <2>5 DEF InHand, Interleaves, Place
  <2>9. SameLoop
    BY <1>1, <2>6, Roles DEF SameLoop, ThStep
  <2> QED BY <1>1, <1>6, <1>7, <2>5, <2>6, <2>7, <2>8, <2>9, ThOnly
<1> QED BY <1>2, <1>8, <1>9

\* An interleaved transport is a reference to the client.
LEMMA InterleavedKeeps == ASSUME IInv, NEW t \in Handlers, Interleaved(t) PROVE IInv'
<1>1. Shapes /\ Place(t, th[t]) /\ th[t].pc = "transport" /\ t \in Threads /\ t # Loop /\ th[t] \in ThShape
  BY AtThread, Roles DEF Interleaved
<1>2. PICK pc \in {"dead", "find"} : pc = IF th[t].sid = NoSession THEN "dead" ELSE "find"
  OBVIOUS
<1>3. PICK tr \in Transports : tr = [mode |-> "interleaved", low |-> NoPort]
  BY DEF Transports
<1>4. PICK x : x = [th[t] EXCEPT !.pc = pc, !.transport = tr, !.tries = 0]
  OBVIOUS
<1>5. th' = [th EXCEPT ![t] = x] /\ th \in [Threads -> ThShape]
  BY <1>1, <1>2, <1>3, <1>4 DEF Shapes, Interleaved
<1>6. /\ x \in ThShape /\ x.pc = pc /\ x.cur = th[t].cur /\ x.then = th[t].then
      /\ x.rtp = th[t].rtp /\ x.transport = tr
  BY <1>1, <1>2, <1>3, <1>4 DEF ThShape, HandlerPcs
<1>7. ThStep(t) /\ th'[t] = x
  BY <1>1, <1>5, <1>6, Updated, Zenon DEF ThStep
<1>8. Place(t, x)
  BY <1>1, <1>2, <1>6 DEF Place, Holding, Ending, HandlerPcs
<1>9. th[t].rtp = NoRtp /\ th[t].transport.mode = "none" /\ rtp' = rtp /\ sess' = sess
  BY <1>1 DEF Place, Interleaved
<1>10. ThPart(t)
  BY <1>6, <1>7, <1>8, <1>9, Roles DEF ThPart
<1> PICK d : d = ClientRefs(client, 1)
  OBVIOUS
<1>11. /\ client' = d /\ client \in ClientShape /\ Settled(client)
       /\ client.refs \in Nat /\ client.refs # 0 /\ th'[Loop].pc = th[Loop].pc
  BY <1>1, <1>7, Held, Roles DEF Interleaved, IInv, Shapes, Alive, Settled, ThStep
<1>12. /\ d \in ClientShape /\ d.refs = client.refs + 1 /\ d.list = client.list
       /\ d.killed = client.killed /\ d.conns = client.conns /\ d.in_loop = client.in_loop /\ Settled(d)
  BY <1>11, ClientRefsIs
<1>13. ClientPart
  BY <1>11, <1>12 DEF ClientPart, IInv, ClientAt
<1>14. SessPart(NoSession) /\ RtpPart(t, NoRtp) /\ RestPart
  BY <1>1, <1>6, <1>7, <1>9, SameSess, SameRtp, SameRest DEF Interleaved
<1>15. SessionOwed(t, NoSession, NoRtp)
  BY <1>6, <1>7, <1>11, <1>12, Roles DEF SessionOwed, Apart
<1>16. ClientOwed(t, NoSession, NoRtp)
  <2>1. InHand(th[t]) = 1 /\ InHand(th'[t]) = 2
    BY <1>1, <1>2, <1>3, <1>6, <1>7, <1>9 DEF InHand, One, Interleaves
  <2>2. /\ One(client'.conns) = One(client.conns) /\ One(client'.in_loop) = One(client.in_loop)
        /\ One(client.conns) \in Nat /\ One(client.in_loop) \in Nat
    BY <1>11, <1>12 DEF One
  <2>3. /\ One(NoRtp \in Rtps /\ LiveStage(rtp'[NoRtp]) /\ Interleaves(rtp'[NoRtp])) = 0
        /\ One(NoRtp \in Rtps /\ LiveStage(rtp[NoRtp]) /\ Interleaves(rtp[NoRtp])) = 0
        /\ One(NoSession \in Sessions /\ sess'[NoSession].stage = "live") = 0
        /\ One(NoSession \in Sessions /\ sess[NoSession].stage = "live") = 0
    BY Roles DEF One
  <2> QED BY <1>11, <1>12, <2>1, <2>2, <2>3 DEF ClientOwed, ClientDue
<1> QED BY <1>1, <1>10, <1>13, <1>14, <1>15, <1>16, StepKeeps
\* A session that is live or, with its last reference, freed.
LEMMA LiveAfter ==
  ASSUME NEW x \in SessShape, NEW y, x.stage = "live", x.refs \in Nat \ {0}, Unreffed(x, y)
  PROVE  One(y.stage = "live") = 1 - One(x.refs = 1) /\ SoundSess(y) /\ One(x.refs = 1) \in {0, 1}
BY DEF Unreffed, One, SoundSess

\* The end of a handler's or a killer's use of a session drops the reference it holds; with the
\* last the session and its reference to the client go.
LEMMA UnrefKeeps == ASSUME IInv, NEW t \in Threads, Unref(t) PROVE IInv'
<1> PICK s : s = th[t].cur
  OBVIOUS
<1>1. /\ Shapes /\ Place(t, th[t]) /\ th[t].pc = "unref" /\ s \in Sessions /\ sess[s] \in SessShape
      /\ sess[s].stage = "live" /\ sess[s].refs \in Nat \ {0} /\ th[t] \in ThShape /\ th[t].then # "finish"
  BY AtThread DEF Unref, Holding, Ending
<1>2. PICK pc \in {"dead", "kill_sessions"} : pc = th[t].then /\ (pc = "dead" <=> t # Loop)
  BY <1>1 DEF Place, Holding, Ending
<1> PICK x : x = [th[t] EXCEPT !.pc = pc, !.cur = NoSession]
  OBVIOUS
<1>3. th' = [th EXCEPT ![t] = x] /\ th \in [Threads -> ThShape]
  BY <1>1, <1>2 DEF Shapes, Unref
<1>4. /\ x \in ThShape /\ x.pc = pc /\ x.cur = NoSession /\ x.then = th[t].then
      /\ x.rtp = th[t].rtp /\ x.transport = th[t].transport
  BY <1>1, <1>2 DEF ThShape, HandlerPcs, LoopPcs
<1>5. ThStep(t) /\ th'[t] = x
  BY <1>1, <1>3, <1>4, Updated, Zenon DEF ThStep
<1>6. Place(t, x) /\ th[t].rtp = NoRtp
  BY <1>1, <1>2, <1>4 DEF Place, Holding, Ending, HandlerPcs, LoopPcs
<1>7. ThPart(t)
  BY <1>4, <1>5, <1>6, Roles DEF ThPart
<1>8. client \in ClientShape /\ UnrefSession(s, client) /\ Settled(client) /\ rtp' = rtp
  BY <1>1 DEF Unref, Shapes, IInv, Alive, Settled
<1>9. SessStep(s) /\ Unreffed(sess[s], sess'[s]) /\ Drop(client, client', One(sess[s].refs = 1))
  BY <1>1, <1>8, UnrefIs
<1>10. /\ One(sess'[s].stage = "live") = 1 - One(sess[s].refs = 1) /\ SoundSess(sess'[s])
       /\ One(sess[s].refs = 1) \in {0, 1} /\ sess'[s].refs = sess[s].refs - 1
  BY <1>1, <1>9, LiveAfter DEF Unreffed
<1>11. SessPart(s)
  BY <1>9, <1>10 DEF SessPart
<1>12. ClientPart
  <2>1. SameLoop
    BY <1>1, <1>2, <1>4, <1>5, Roles DEF SameLoop, ThStep
  <2> QED BY <1>8, <1>9, <2>1 DEF ClientPart, Drop, IInv, ClientAt, SameLoop
<1>13. RtpPart(t, NoRtp) /\ RestPart
  BY <1>4, <1>5, <1>8, SameRtp, SameRest DEF Unref
<1>14. SessionOwed(t, s, NoRtp)
  <2>1. Apart(t, s, NoRtp)
    BY <1>4, <1>5, <1>9, Roles DEF Apart, Drop
  <2>2. /\ One(s \in client'.list) = One(s \in client.list) /\ One(s \in client.list) \in Nat
        /\ One(th'[t].cur = s) = 0 /\ One(th[t].cur = s) = 1
    BY <1>1, <1>4, <1>5, <1>9, Roles DEF One, Drop
  <2>3. /\ One(NoRtp \in Rtps /\ LiveStage(rtp'[NoRtp]) /\ rtp'[NoRtp].owner = s) = 0
        /\ One(NoRtp \in Rtps /\ LiveStage(rtp[NoRtp]) /\ rtp[NoRtp].owner = s) = 0
    BY Roles DEF One
  <2>4. PICK a \in Nat : a = One(s \in client.list)
    BY <2>2
  <2>5. /\ SessionDue(s, t, NoRtp, client'.list, rtp', th') = a
        /\ SessionDue(s, t, NoRtp, client.list, rtp, th) = a + 1
    BY <2>2, <2>3, <2>4 DEF SessionDue
  <2> QED BY <1>1, <1>10, <2>1, <2>5 DEF SessionOwed
<1>15. ClientOwed(t, s, NoRtp)
  <2>1. InHand(th'[t]) = InHand(th[t]) /\ InHand(th[t]) \in Nat
    BY <1>1, <1>2, <1>4, <1>5 DEF InHand, Interleaves, One
  <2>2. /\ One(s \in Sessions /\ sess'[s].stage = "live") = 1 - One(sess[s].refs = 1)
        /\ One(s \in Sessions /\ sess[s].stage = "live") = 1
    BY <1>1, <1>10 DEF One
  <2>3. /\ One(NoRtp \in Rtps /\ LiveStage(rtp'[NoRtp]) /\ Interleaves(rtp'[NoRtp])) = 0
        /\ One(NoRtp \in Rtps /\ LiveStage(rtp[NoRtp]) /\ Interleaves(rtp[NoRtp])) = 0
    BY Roles DEF One
  <2>4. /\ One(client'.conns) = One(client.conns) /\ One(client'.in_loop) = One(client.in_loop)
        /\ One(client.conns) \in Nat /\ One(client.in_loop) \in Nat
        /\ client'.refs = client.refs - One(sess[s].refs = 1) /\ client.refs \in Int
    BY <1>9 DEF One, Drop, ClientShape
  <2> QED BY <1>10, <2>1, <2>2, <2>3, <2>4 DEF ClientOwed, ClientDue
<1> QED BY <1>7, <1>11, <1>12, <1>13, <1>14, <1>15, StepKeeps

\* The reference of the list is dropped by the thread that takes the session off it.
LEMMA RemoveKeeps == ASSUME IInv, NEW t \in Handlers, Remove(t) PROVE IInv'
<1> PICK s : s = th[t].cur
  OBVIOUS
<1>1. /\ Shapes /\ Place(t, th[t]) /\ th[t].pc = "remove" /\ s \in Sessions /\ sess[s] \in SessShape
      /\ sess[s].stage = "live" /\ sess[s].refs \in Nat \ {0} /\ th[t] \in ThShape
      /\ t \in Threads /\ t # Loop
  BY AtThread, Roles DEF Remove, Holding, Ending
<1>2. Goto(t, "kill") /\ UNCHANGED <<rtp, pool, requests>>
  BY DEF Remove
<1>3. "kill" \in Holding /\ th[t].pc \in Holding /\ "kill" \in HandlerPcs
  BY <1>1 DEF Holding, Ending, HandlerPcs
<1>4. CASE client.killed \/ s \notin client.list
  <2>1. UNCHANGED <<client, sess>>
    BY <1>4 DEF Remove
  <2>2. SessPart(NoSession)
    BY <2>1, SameSess
  <2> QED BY <1>1, <1>2, <1>3, <2>1, <2>2, GotoOnly
<1>5. CASE ~ (client.killed \/ s \notin client.list)
  <2> PICK c : c = [client EXCEPT !.list = @ \ {s}]
    OBVIOUS
  <2>1. UnrefSession(s, c) /\ client \in ClientShape /\ s \in client.list
    BY <1>1, <1>5 DEF Remove, Shapes
  <2>2. /\ c \in ClientShape /\ c.refs = client.refs /\ c.freed = client.freed /\ c.list = client.list \ {s}
        /\ c.killed = client.killed /\ c.conns = client.conns /\ c.in_loop = client.in_loop
    BY <2>1 DEF ClientShape
  <2>3. SessStep(s) /\ Unreffed(sess[s], sess'[s]) /\ Drop(c, client', One(sess[s].refs = 1))
    BY <1>1, <2>1, <2>2, UnrefIs
  <2>4. Settled(c)
    BY <2>2 DEF Settled, IInv, Alive
  <2>5. /\ One(sess'[s].stage = "live") = 1 - One(sess[s].refs = 1) /\ SoundSess(sess'[s])
        /\ One(sess[s].refs = 1) \in {0, 1} /\ sess'[s].refs = sess[s].refs - 1
    BY <1>1, <2>3, LiveAfter DEF Unreffed
  <2>6. /\ ThStep(t) /\ th'[t].pc = "kill" /\ th'[t].cur = s /\ th'[t].rtp = th[t].rtp
        /\ th'[t].transport = th[t].transport /\ th'[t].then = th[t].then
    BY <1>1, <1>2, <1>3, GotoIs
  <2>7. Place(t, th'[t]) /\ th[t].rtp = NoRtp /\ SameLoop
    BY <1>1, <2>6, Roles DEF Place, Holding, Ending, HandlerPcs, SameLoop, ThStep
  <2>8. ThPart(t)
    BY <2>6, <2>7, Roles DEF ThPart
  <2>9. SessPart(s)
    BY <2>3, <2>5 DEF SessPart
  <2>10. ClientPart
    BY <2>2, <2>3, <2>4, <2>7 DEF ClientPart, Drop, IInv, ClientAt, SameLoop
  <2>11. RtpPart(t, NoRtp) /\ RestPart
    BY <1>1, <1>2, <2>6, SameRtp, SameRest
  <2>12. SessionOwed(t, s, NoRtp)
    <3>1. Apart(t, s, NoRtp)
      BY <2>2, <2>3, <2>6, Roles DEF Apart, Drop
    <3>2. /\ One(s \in client'.list) = 0 /\ One(s \in client.list) = 1
          /\ One(th'[t].cur = s) = 1 /\ One(th[t].cur = s) = 1
      BY <2>1, <2>2, <2>3, <2>6 DEF One, Drop
    <3>3. /\ One(NoRtp \in Rtps /\ LiveStage(rtp'[NoRtp]) /\ rtp'[NoRtp].owner = s) = 0
          /\ One(NoRtp \in Rtps /\ LiveStage(rtp[NoRtp]) /\ rtp[NoRtp].owner = s) = 0
      BY Roles DEF One
    <3>4. /\ SessionDue(s, t, NoRtp, client'.list, rtp', th') = 1
          /\ SessionDue(s, t, NoRtp, client.list, rtp, th) = 2
      BY <3>2, <3>3 DEF SessionDue
    <3> QED BY <1>1, <2>5, <3>1, <3>4 DEF SessionOwed
  <2>13. ClientOwed(t, s, NoRtp)
    <3>1. InHand(th'[t]) = InHand(th[t]) /\ InHand(th[t]) \in Nat
      BY <1>1, <2>6 DEF InHand, Interleaves, One
    <3>2. /\ One(s \in Sessions /\ sess'[s].stage = "live") = 1 - One(sess[s].refs = 1)
          /\ One(s \in Sessions /\ sess[s].stage = "live") = 1
      BY <1>1, <2>5 DEF One
    <3>3. /\ One(NoRtp \in Rtps /\ LiveStage(rtp'[NoRtp]) /\ Interleaves(rtp'[NoRtp])) = 0
          /\ One(NoRtp \in Rtps /\ LiveStage(rtp[NoRtp]) /\ Interleaves(rtp[NoRtp])) = 0
      BY Roles DEF One
    <3>4. /\ One(client'.conns) = One(client.conns) /\ One(client'.in_loop) = One(client.in_loop)
          /\ One(client.conns) \in Nat /\ One(client.in_loop) \in Nat
          /\ client'.refs = client.refs - One(sess[s].refs = 1) /\ client.refs \in Int
      BY <2>1, <2>2, <2>3 DEF One, Drop, ClientShape
    <3> QED BY <2>5, <3>1, <3>2, <3>3, <3>4 DEF ClientOwed, ClientDue
  <2> QED BY <1>1, <2>8, <2>9, <2>10, <2>11, <2>12, <2>13, StepKeeps
<1> QED BY <1>4, <1>5
\* rtp_session_ref by nobody: what no RTP session is counted for.
LEMMA NoRtpDue ==
  \A q : /\ One(NoRtp \in Rtps /\ LiveStage(rtp'[NoRtp]) /\ rtp'[NoRtp].owner = q) = 0
         /\ One(NoRtp \in Rtps /\ LiveStage(rtp[NoRtp]) /\ rtp[NoRtp].owner = q) = 0
         /\ One(NoRtp \in Rtps /\ LiveStage(rtp'[NoRtp]) /\ Interleaves(rtp'[NoRtp])) = 0
         /\ One(NoRtp \in Rtps /\ LiveStage(rtp[NoRtp]) /\ Interleaves(rtp[NoRtp])) = 0
BY Roles DEF One

\* A thread that drops its request drops the client and its transport's reference.
LEMMA FinishKeeps == ASSUME IInv, NEW t \in Handlers, Finish(t) PROVE IInv'
<1> PICK s : s = th[t].cur
  OBVIOUS
<1> PICK tr : tr = th[t].transport
  OBVIOUS
<1>1. /\ Shapes /\ Place(t, th[t]) /\ th[t] \in ThShape /\ t \in Threads /\ t # Loop
      /\ tr \in Transports /\ th[t].pc # "idle"
  BY AtThread, Roles DEF Finish
<1>2. Idle \in ThShape /\ Idle.pc = "idle" /\ Idle.cur = NoSession /\ Idle.rtp = NoRtp /\ Idle.transport.mode = "none"
  <2>1. NoTransport \in Transports /\ NoTransport.mode = "none"
    BY DEF NoTransport, Transports
  <2> QED BY <2>1 DEF Idle, ThShape, HandlerPcs, Methods
<1>3. ThStep(t) /\ th'[t] = Idle
  <2>1. th' = [th EXCEPT ![t] = Idle] /\ th \in [Threads -> ThShape]
    BY <1>1 DEF Finish, Shapes
  <2> QED BY <1>1, <1>2, <2>1, Updated, Zenon DEF ThStep
<1>4. ThPart(t) /\ SameLoop /\ th[t].rtp = NoRtp
  <2>1. Place(t, Idle)
    BY <1>1, <1>2 DEF Place, Holding, Ending, HandlerPcs
  <2>2. th[t].pc # "kill_rtp"
    BY DEF Finish
  <2> QED BY <1>1, <1>2, <1>3, <2>1, <2>2, Roles DEF ThPart, SameLoop, ThStep, Place
<1>5. Drop(client, ClientAfterClose(tr), One(tr.mode = "interleaved")) /\ PoolShape(PortsAfterClose(tr))
  BY <1>1, CloseIs
<1> PICK c : c = ClientRefs(ClientAfterClose(tr), -1)
  OBVIOUS
<1> PICK il \in {0, 1} : il = One(tr.mode = "interleaved")
  BY DEF One
<1>6. Drop(client, c, il + 1) /\ c \in ClientShape
  <2>1. ClientAfterClose(tr) \in ClientShape
    BY <1>5 DEF Drop
  <2>2. Drop(ClientAfterClose(tr), c, 1)
    BY <2>1, ClientRefsIs
  <2>3. Drop(client, c, il + 1)
    BY <1>5, <2>2, DropBoth
  <2> QED BY <2>3 DEF Drop
<1>7. RestPart /\ rtp' = rtp /\ Settled(client)
  BY <1>1, <1>5 DEF RestPart, Finish, Shapes, IInv, Alive, Settled
<1>8. RtpPart(t, NoRtp)
  BY <1>1, <1>2, <1>3, <1>4, <1>7, SameRtp
<1>9. InHand(th[t]) = il + 1 /\ InHand(th'[t]) = 0
  <2>1. One(th[t].pc # "idle") = 1 /\ One(Interleaves(th[t])) = il
    BY <1>1 DEF One, Interleaves
  <2>2. One(th'[t].pc # "idle") = 0 /\ One(Interleaves(th'[t])) = 0
    BY <1>2, <1>3 DEF One, Interleaves
  <2> QED BY <2>1, <2>2 DEF InHand
<1>10. CASE th[t].pc = "finish"
  <2>1. client' = c /\ sess' = sess
    BY <1>10 DEF Finish
  <2>2. SessPart(NoSession)
    BY <2>1, SameSess
  <2>3. ClientPart
    BY <1>4, <1>6, <1>7, <2>1 DEF ClientPart, Drop, IInv, ClientAt, SameLoop
  <2>4. th[t].cur = NoSession
    BY <1>1, <1>10 DEF Place, Holding, Ending
  <2>5. SessionOwed(t, NoSession, NoRtp)
    BY <1>2, <1>3, <1>6, <2>1, <2>4, Roles DEF SessionOwed, Apart, Drop
  <2>6. ClientOwed(t, NoSession, NoRtp)
    <3>1. /\ One(client'.conns) = One(client.conns) /\ One(client'.in_loop) = One(client.in_loop)
          /\ One(client.conns) \in Nat /\ One(client.in_loop) \in Nat
          /\ client'.refs = client.refs - (il + 1) /\ client.refs \in Int
      BY <1>6, <2>1 DEF One, Drop, ClientShape
    <3>2. /\ One(NoSession \in Sessions /\ sess'[NoSession].stage = "live") = 0
          /\ One(NoSession \in Sessions /\ sess[NoSession].stage = "live") = 0
      BY Roles DEF One
    <3> QED BY <1>9, <3>1, <3>2, NoRtpDue DEF ClientOwed, ClientDue
  <2> QED BY <1>1, <1>4, <1>7, <1>8, <2>2, <2>3, <2>5, <2>6, StepKeeps
<1>11. CASE th[t].pc = "unref"
  <2>1. UnrefSession(s, c)
    BY <1>11 DEF Finish
  <2>2. s \in Sessions /\ sess[s] \in SessShape /\ sess[s].stage = "live" /\ sess[s].refs \in Nat \ {0}
    BY <1>1, <1>11, AtThread DEF Holding, Ending
  <2>3. SessStep(s) /\ Unreffed(sess[s], sess'[s]) /\ Drop(c, client', One(sess[s].refs = 1))
    BY <1>1, <1>6, <2>1, <2>2, UnrefIs
  <2>4. /\ One(sess'[s].stage = "live") = 1 - One(sess[s].refs = 1) /\ SoundSess(sess'[s])
        /\ One(sess[s].refs = 1) \in {0, 1} /\ sess'[s].refs = sess[s].refs - 1
    BY <2>2, <2>3, LiveAfter DEF Unreffed
  <2> PICK n \in {0, 1} : n = One(sess[s].refs = 1)
    BY <2>4
  <2>5. Drop(client, client', (il + 1) + n)
    BY <1>6, <2>3, DropBoth
  <2>6. SessPart(s)
    BY <2>3, <2>4 DEF SessPart
  <2>7. ClientPart
    BY <1>4, <1>7, <2>5 DEF ClientPart, Drop, IInv, ClientAt, SameLoop
  <2>8. SessionOwed(t, s, NoRtp)
    <3>1. Apart(t, s, NoRtp)
      BY <1>2, <1>3, <2>5, Roles DEF Apart, Drop
    <3>2. /\ One(s \in client'.list) = One(s \in client.list) /\ One(s \in client.list) \in Nat
          /\ One(th'[t].cur = s) = 0 /\ One(th[t].cur = s) = 1
      BY <1>2, <1>3, <2>2, <2>5, Roles DEF One, Drop
    <3>3. PICK a \in Nat : a = One(s \in client.list)
      BY <3>2
    <3>4. /\ SessionDue(s, t, NoRtp, client'.list, rtp', th') = a
          /\ SessionDue(s, t, NoRtp, client.list, rtp, th) = a + 1
      BY <3>2, <3>3, NoRtpDue DEF SessionDue
    <3> QED BY <2>2, <2>4, <3>1, <3>4 DEF SessionOwed
  <2>9. ClientOwed(t, s, NoRtp)
    <3>1. /\ One(s \in Sessions /\ sess'[s].stage = "live") = 1 - n
          /\ One(s \in Sessions /\ sess[s].stage = "live") = 1
      BY <2>2, <2>4 DEF One
    <3>2. /\ One(client'.conns) = One(client.conns) /\ One(client'.in_loop) = One(client.in_loop)
          /\ One(client.conns) \in Nat /\ One(client.in_loop) \in Nat
          /\ client'.refs = client.refs - ((il + 1) + n) /\ client.refs \in Int
      BY <2>5 DEF One, Drop, ClientShape
    <3> QED BY <1>9, <3>1, <3>2, NoRtpDue DEF ClientOwed, ClientDue
  <2> QED BY <1>1, <1>4, <1>7, <1>8, <2>6, <2>7, <2>8, <2>9, StepKeeps
<1> QED BY <1>10, <1>11 DEF Finish

\* A session is made with a reference of the list and one of the request.
LEMMA CreateKeeps == ASSUME IInv, NEW t \in Handlers, Create(t) PROVE IInv'
<1>1. /\ Shapes /\ Place(t, th[t]) /\ th[t] \in ThShape /\ t \in Threads /\ t # Loop
      /\ th[t].pc = "create" /\ th[t].cur = NoSession /\ th[t].rtp = NoRtp
  <2>1. th[t].pc = "create" /\ th[t].pc \notin Holding
    BY DEF Create, Holding, Ending
  <2> QED BY <2>1, AtThread, Roles
<1>2. PICK s \in Sessions :
       /\ sess[s].stage = "unused"
       /\ sess' = [sess EXCEPT ![s].stage = "live", ![s].refs = 2, ![s].session_timer = "armed"]
       /\ client' = [ClientRefs(client, 1) EXCEPT !.list = @ \cup {s}]
       /\ th' = [th EXCEPT ![t].pc = "setup", ![t].cur = s, ![t].then = "finish"]
  BY DEF Create
<1>3. UNCHANGED <<rtp, pool, requests>> /\ s # NoSession /\ sess[s].refs = 0 /\ ~ sess[s].killed /\ s \notin client.list
  BY <1>2, Roles, Held DEF Create, IInv, Alive
<1> PICK x : x = [th[t] EXCEPT !.pc = "setup", !.cur = s, !.then = "finish"]
  OBVIOUS
<1>4. th' = [th EXCEPT ![t] = x] /\ th \in [Threads -> ThShape]
  BY <1>1, <1>2 DEF Shapes
<1>5. /\ x \in ThShape /\ x.pc = "setup" /\ x.cur = s /\ x.then = "finish"
      /\ x.rtp = th[t].rtp /\ x.transport = th[t].transport
  BY <1>1, <1>2 DEF ThShape, HandlerPcs, Holding
<1>6. ThStep(t) /\ th'[t] = x
  BY <1>1, <1>4, <1>5, Updated, Zenon DEF ThStep
<1>7. ThPart(t) /\ SameLoop
  <2>1. Place(t, x)
    BY <1>1, <1>3, <1>5 DEF Place, Holding, Ending, HandlerPcs
  <2> QED BY <1>1, <1>5, <1>6, <2>1, Roles DEF ThPart, SameLoop, ThStep
<1> PICK y : y = [sess[s] EXCEPT !.stage = "live", !.refs = 2, !.session_timer = "armed"]
  OBVIOUS
<1>8. sess' = [sess EXCEPT ![s] = y] /\ sess \in [Sessions -> SessShape] /\ sess[s] \in SessShape
  BY <1>1, <1>2 DEF Shapes
<1>9. y.stage = "live" /\ y.refs = 2 /\ y.killed = sess[s].killed
  BY <1>8 DEF SessShape
<1>10. y \in SessShape
  <2>1. y = [stage |-> "live", refs |-> 2, killed |-> sess[s].killed, cur_state |-> sess[s].cur_state,
             session_timer |-> "armed", told |-> sess[s].told]
    BY <1>8 DEF SessShape
  <2> QED BY <1>8, <2>1 DEF SessShape
<1>11. SessPart(s) /\ sess'[s] = y
  <2>1. SessStep(s) /\ sess'[s] = y
    BY <1>8, <1>10, Updated, Zenon DEF SessStep
  <2>2. SoundSess(y)
    BY <1>3, <1>9 DEF SoundSess
  <2> QED BY <2>1, <2>2 DEF SessPart
<1> PICK d : d = ClientRefs(client, 1)
  OBVIOUS
<1>12. client \in ClientShape /\ Settled(client) /\ client.refs \in Nat /\ client.refs # 0
  BY <1>1, Held DEF IInv, Shapes, Alive, Settled
<1>13. /\ d \in ClientShape /\ d.refs = client.refs + 1 /\ d.list = client.list
       /\ d.killed = client.killed /\ d.conns = client.conns /\ d.in_loop = client.in_loop /\ Settled(d)
  BY <1>12, ClientRefsIs
<1>14. client' = [d EXCEPT !.list = @ \cup {s}]
  BY <1>2
<1>15. /\ client' \in ClientShape /\ client'.refs = client.refs + 1 /\ client'.freed = d.freed
       /\ client'.killed = client.killed /\ client'.list = client.list \cup {s}
       /\ client'.conns = client.conns /\ client'.in_loop = client.in_loop
  BY <1>13, <1>14 DEF ClientShape
<1>16. ClientPart
  BY <1>7, <1>13, <1>15 DEF ClientPart, Settled, IInv, ClientAt, SameLoop
<1>17. RtpPart(t, NoRtp) /\ RestPart
  BY <1>1, <1>3, <1>5, <1>6, SameRtp, SameRest
<1>18. SessionOwed(t, s, NoRtp)
  <2>1. Apart(t, s, NoRtp)
    BY <1>1, <1>5, <1>6, <1>15, Roles DEF Apart
  <2>2. /\ One(s \in client'.list) = 1 /\ One(s \in client.list) = 0
        /\ One(th'[t].cur = s) = 1 /\ One(th[t].cur = s) = 0
    BY <1>1, <1>3, <1>5, <1>6, <1>15 DEF One
  <2>3. /\ SessionDue(s, t, NoRtp, client'.list, rtp', th') = 2
        /\ SessionDue(s, t, NoRtp, client.list, rtp, th) = 0
    BY <2>2, NoRtpDue DEF SessionDue
  <2> QED BY <1>3, <1>9, <1>11, <2>1, <2>3 DEF SessionOwed
<1>19. ClientOwed(t, s, NoRtp)
  <2>1. InHand(th'[t]) = InHand(th[t]) /\ InHand(th[t]) \in Nat
    BY <1>1, <1>5, <1>6 DEF InHand, Interleaves, One
  <2>2. /\ One(s \in Sessions /\ sess'[s].stage = "live") = 1
        /\ One(s \in Sessions /\ sess[s].stage = "live") = 0
    BY <1>2, <1>9, <1>11 DEF One
  <2>3. /\ One(client'.conns) = One(client.conns) /\ One(client'.in_loop) = One(client.in_loop)
        /\ One(client.conns) \in Nat /\ One(client.in_loop) \in Nat
    BY <1>15 DEF One
  <2> QED BY <1>12, <1>15, <2>1, <2>2, <2>3, NoRtpDue DEF ClientOwed, ClientDue
<1> QED BY <1>1, <1>7, <1>11, <1>16, <1>17, <1>18, <1>19, StepKeeps
\* RTP sessions that nobody changes but for RTP session r, which stays counted.
LEMMA RtpOne ==
  ASSUME IInv, NEW t \in Threads, NEW r \in Rtps, NEW y \in RtpShape, rtp' = [rtp EXCEPT ![r] = y],
         \A q \in Rtps : q # r => (th'[t].rtp = q <=> th[t].rtp = q),
         SoundRtp(y), LiveStage(rtp[r]) => y.owner = rtp[r].owner,
         y.refs - RtpDue(y, th'[t], r) = rtp[r].refs - RtpDue(rtp[r], th[t], r)
  PROVE  RtpPart(t, r) /\ rtp'[r] = y /\ RtpStep(r)
<1>1. rtp \in [Rtps -> RtpShape]
  BY DEF IInv, Shapes
<1>2. RtpStep(r) /\ rtp'[r] = y
  BY <1>1, Updated, Zenon DEF RtpStep
<1>3. ASSUME NEW q \in Rtps, q # r PROVE SoundRtp(rtp[q]) /\ RtpDue(rtp[q], th'[t], q) = RtpDue(rtp[q], th[t], q)
  <2>1. One(th'[t].rtp = q) = One(th[t].rtp = q)
    BY <1>3 DEF One
  <2> QED BY <2>1 DEF IInv, Alive, SoundRtp, RtpDue
<1>4. ASSUME NEW q \in Rtps
      PROVE  /\ SoundRtp(rtp'[q])
             /\ LiveStage(rtp[q]) => rtp'[q].owner = rtp[q].owner
             /\ q # r => SameStake(rtp[q], rtp'[q])
             /\ rtp'[q].refs - RtpDue(rtp'[q], th'[t], q) = rtp[q].refs - RtpDue(rtp[q], th[t], q)
  <2>1. CASE q = r
    BY <1>2, <2>1
  <2>2. CASE q # r
    <3>1. rtp'[q] = rtp[q]
      BY <1>2, <2>2 DEF RtpStep
    <3> QED BY <1>3, <2>2, <3>1 DEF SameStake
  <2> QED BY <2>1, <2>2
<1> QED BY <1>2, <1>4 DEF RtpPart, RtpStep

\* An RTP session takes the transport over.
LEMMA SetupKeeps == ASSUME IInv, NEW t \in Handlers, Setup(t) PROVE IInv'
<1> PICK s : s = th[t].cur
  OBVIOUS
<1>1. /\ Shapes /\ Place(t, th[t]) /\ th[t].pc = "setup" /\ s \in Sessions /\ sess[s] \in SessShape
      /\ sess[s].stage = "live" /\ sess[s].refs \in Nat \ {0} /\ th[t] \in ThShape
      /\ t \in Threads /\ t # Loop /\ th[t].rtp = NoRtp
  <2>1. th[t].pc = "setup" /\ th[t].pc \in Holding /\ th[t].pc # "kill_rtp"
    BY DEF Setup, Holding
  <2> QED BY <2>1, AtThread, Roles
<1>2. UNCHANGED <<client, pool, requests>>
  BY DEF Setup
<1>3. CASE Goto(t, "unref") /\ UNCHANGED <<sess, rtp>>
  <2>1. SessPart(NoSession)
    BY <1>3, SameSess
  <2>2. "unref" \in Holding /\ th[t].pc \in Holding /\ "unref" \in HandlerPcs
    BY <1>1 DEF Holding, Ending, HandlerPcs
  <2> QED BY <1>1, <1>2, <1>3, <2>1, <2>2, GotoOnly
<1>4. ASSUME NEW r \in Rtps, rtp[r].stage = "unused",
             rtp' = [rtp EXCEPT ![r] = [UnusedRtp EXCEPT !.stage = "listed", !.refs = 1,
                                                !.owner = s, !.transport = th[t].transport]],
             sess' = [sess EXCEPT ![s].refs = @ + 1, ![s].told = TRUE,
                         ![s].cur_state = IF @ = "INIT" THEN "READY" ELSE @],
             th' = [th EXCEPT ![t].pc = "unref", ![t].transport = NoTransport]
      PROVE  IInv'
  <2>1. NoTransport \in Transports /\ NoTransport.mode = "none" /\ th[t].transport \in Transports
    BY <1>1 DEF NoTransport, Transports, ThShape
  <2> PICK x : x = [th[t] EXCEPT !.pc = "unref", !.transport = NoTransport]
    OBVIOUS
  <2>2. th' = [th EXCEPT ![t] = x] /\ th \in [Threads -> ThShape]
    BY <1>1, <1>4 DEF Shapes
  <2>3. /\ x \in ThShape /\ x.pc = "unref" /\ x.cur = s /\ x.then = th[t].then
        /\ x.rtp = th[t].rtp /\ x.transport = NoTransport
    BY <1>1, <2>1 DEF ThShape, HandlerPcs, Holding, Ending
  <2>4. ThStep(t) /\ th'[t] = x
    BY <1>1, <2>2, <2>3, Updated, Zenon DEF ThStep
  <2>5. ThPart(t) /\ SameLoop
    <3>1. Place(t, x)
      BY <1>1, <2>1, <2>3 DEF Place, Holding, Ending, HandlerPcs
    <3> QED BY <1>1, <2>3, <2>4, <3>1, Roles DEF ThPart, SameLoop, ThStep
  <2>6. PICK st \in {"INIT", "READY", "PLAYING"} : st = IF sess[s].cur_state = "INIT" THEN "READY" ELSE sess[s].cur_state
    BY <1>1 DEF SessShape
  <2> PICK y : y = [sess[s] EXCEPT !.refs = @ + 1, !.told = TRUE, !.cur_state = st]
    OBVIOUS
  <2>7. sess' = [sess EXCEPT ![s] = y] /\ sess \in [Sessions -> SessShape]
    BY <1>1, <1>4, <2>6 DEF Shapes
  <2>8. y.stage = "live" /\ y.refs = sess[s].refs + 1 /\ y.killed = sess[s].killed
    BY <1>1 DEF SessShape
  <2>9. y \in SessShape
    <3>1. sess[s].refs + 1 \in Int
      BY <1>1
    <3> QED BY <1>1, <2>6, <3>1, Zenon DEF SessShape
  <2>10. SessPart(s) /\ sess'[s] = y
    <3>1. SessStep(s) /\ sess'[s] = y
      BY <1>1, <2>7, <2>9, Updated, Zenon DEF SessStep
    <3>2. SoundSess(y)
      BY <1>1, <2>8 DEF SoundSess
    <3> QED BY <3>1, <3>2 DEF SessPart
  <2>11. ClientPart /\ RestPart
    BY <1>2, <2>5, SameClient, SameRest
  <2>100. PICK z : z = [UnusedRtp EXCEPT !.stage = "listed", !.refs = 1, !.owner = s, !.transport = th[t].transport]
    OBVIOUS
  <2>12. /\ z.stage = "listed" /\ z.refs = 1 /\ z.owner = s /\ z.transport = th[t].transport
         /\ ~ z.playing /\ z.leaving = 0 /\ z \in RtpShape
    <3>1. z = [stage |-> "listed", refs |-> 1, owner |-> s, transport |-> th[t].transport,
               playing |-> FALSE, leaving |-> 0]
      BY <2>100 DEF UnusedRtp
    <3>2. 1 \in Int /\ 0 \in Nat /\ "listed" \in {"unused", "listed", "unlisted", "freed"}
          /\ s \in Sessions \cup {NoSession} /\ th[t].transport \in Transports
      BY <1>1, <2>1
    <3>3. z \in RtpShape
      BY <3>1, <3>2, Zenon DEF RtpShape
    <3>4. z.playing = FALSE
      BY <3>1, Zenon
    <3>5. z.stage = "listed" /\ z.refs = 1 /\ z.owner = s /\ z.transport = th[t].transport /\ z.leaving = 0
      BY <3>1
    <3> QED BY <3>3, <3>4, <3>5
  <2>13. ~ LiveStage(rtp[r]) /\ rtp[r].refs = 0 /\ ~ rtp[r].playing /\ rtp[r].leaving = 0
    <3>1. ~ LiveStage(rtp[r]) /\ rtp[r].leaving \in Nat
      BY <1>1, <1>4 DEF LiveStage, Shapes, RtpShape
    <3>2. rtp[r].refs = 0
      BY <3>1 DEF IInv, Alive
    <3> QED BY <3>1, <3>2, Held
  <2>14. rtp' = [rtp EXCEPT ![r] = z] /\ th'[t].rtp = NoRtp /\ th[t].rtp = NoRtp /\ r # NoRtp
    BY <1>1, <1>4, <2>3, <2>4, <2>100, Roles
  <2>15. /\ RtpDue(z, th'[t], r) = 1 /\ RtpDue(rtp[r], th[t], r) = 0
    <3>1. /\ One(z.stage = "listed") = 1 /\ One(rtp[r].stage = "listed") = 0 /\ One(z.playing) = 0
          /\ One(rtp[r].playing) = 0 /\ One(th'[t].rtp = r) = 0 /\ One(th[t].rtp = r) = 0
      BY <2>12, <2>13, <2>14 DEF One, LiveStage
    <3> QED BY <2>12, <2>13, <3>1 DEF RtpDue
  <2>16. RtpPart(t, r) /\ rtp'[r] = z
    <3>1. SoundRtp(z)
      BY <1>1, <2>12 DEF SoundRtp, LiveStage
    <3>2. z.refs - RtpDue(z, th'[t], r) = rtp[r].refs - RtpDue(rtp[r], th[t], r)
      BY <2>12, <2>13, <2>15
    <3>3. \A q \in Rtps : q # r => (th'[t].rtp = q <=> th[t].rtp = q)
      BY <2>14
    <3>4. LiveStage(rtp[r]) => z.owner = rtp[r].owner
      BY <2>13
    <3>5. z \in RtpShape /\ rtp' = [rtp EXCEPT ![r] = z]
      BY <2>12, <2>14
    <3> QED BY <1>1, <3>1, <3>2, <3>3, <3>4, <3>5, RtpOne
  <2>17. SessionOwed(t, s, r)
    <3>1. Apart(t, s, r)
      BY <1>2, <2>3, <2>4, <2>12, <2>13, <2>16 DEF Apart
    <3>2. /\ One(s \in client'.list) = One(s \in client.list) /\ One(s \in client.list) \in Nat
          /\ One(th'[t].cur = s) = 1 /\ One(th[t].cur = s) = 1
      BY <1>2, <2>3, <2>4 DEF One
    <3>3. /\ One(r \in Rtps /\ LiveStage(rtp'[r]) /\ rtp'[r].owner = s) = 1
          /\ One(r \in Rtps /\ LiveStage(rtp[r]) /\ rtp[r].owner = s) = 0
      BY <2>12, <2>13, <2>16 DEF One, LiveStage
    <3>4. PICK a \in Nat : a = One(s \in client.list)
      BY <3>2
    <3>5. /\ SessionDue(s, t, r, client'.list, rtp', th') = a + 2
          /\ SessionDue(s, t, r, client.list, rtp, th) = a + 1
      BY <3>2, <3>3, <3>4 DEF SessionDue
    <3> QED BY <1>1, <2>8, <2>10, <3>1, <3>5 DEF SessionOwed
  <2>18. ClientOwed(t, s, r)
    <3> PICK il \in {0, 1} : il = One(Interleaves(th[t]))
      BY DEF One
    <3>1. InHand(th'[t]) = 1 /\ InHand(th[t]) = il + 1
      <4>1. /\ One(th[t].pc # "idle") = 1 /\ One(th'[t].pc # "idle") = 1 /\ One(Interleaves(th'[t])) = 0
        BY <1>1, <2>1, <2>3, <2>4 DEF One, Interleaves
      <4> QED BY <4>1 DEF InHand
    <3>2. /\ One(s \in Sessions /\ sess'[s].stage = "live") = 1
          /\ One(s \in Sessions /\ sess[s].stage = "live") = 1
      BY <1>1, <2>8, <2>10 DEF One
    <3>3. /\ One(r \in Rtps /\ LiveStage(rtp'[r]) /\ Interleaves(rtp'[r])) = il
          /\ One(r \in Rtps /\ LiveStage(rtp[r]) /\ Interleaves(rtp[r])) = 0
      BY <2>12, <2>13, <2>16 DEF One, LiveStage, Interleaves
    <3>4. /\ One(client'.conns) = One(client.conns) /\ One(client'.in_loop) = One(client.in_loop)
          /\ One(client.conns) \in Nat /\ One(client.in_loop) \in Nat
          /\ client'.refs = client.refs /\ client.refs \in Int
      BY <1>1, <1>2 DEF One, Shapes, ClientShape
    <3> QED BY <3>1, <3>2, <3>3, <3>4 DEF ClientOwed, ClientDue
  <2> QED BY <1>1, <2>5, <2>10, <2>11, <2>16, <2>17, <2>18, StepKeeps
<1> QED BY <1>3, <1>4 DEF Setup

\* Several RTP sessions of one session get or lose their writer.
LEMMA RtpMany ==
  ASSUME IInv, NEW t \in Threads, rtp' \in [Rtps -> RtpShape], th'[t].rtp = th[t].rtp,
         \A q \in Rtps : \/ rtp'[q] = rtp[q]
                        \/ /\ LiveStage(rtp[q]) /\ SameStake(rtp[q], rtp'[q])
                           /\ rtp'[q].refs \in Nat => rtp'[q].refs # 0
                           /\ rtp'[q].refs - RtpDue(rtp'[q], th[t], q) = rtp[q].refs - RtpDue(rtp[q], th[t], q)
  PROVE  RtpPart(t, NoRtp)
<1>1. ASSUME NEW q \in Rtps
      PROVE  /\ SoundRtp(rtp'[q])
             /\ LiveStage(rtp[q]) => rtp'[q].owner = rtp[q].owner
             /\ SameStake(rtp[q], rtp'[q])
             /\ rtp'[q].refs - RtpDue(rtp'[q], th'[t], q) = rtp[q].refs - RtpDue(rtp[q], th[t], q)
  <2>1. SoundRtp(rtp[q]) /\ \A x : RtpDue(x, th'[t], q) = RtpDue(x, th[t], q)
    BY DEF IInv, Alive, SoundRtp, RtpDue
  <2>2. CASE rtp'[q] = rtp[q]
    BY <2>1, <2>2 DEF SameStake
  <2>3. CASE rtp'[q] # rtp[q]
    <3>1. /\ LiveStage(rtp[q]) /\ SameStake(rtp[q], rtp'[q]) /\ (rtp'[q].refs \in Nat => rtp'[q].refs # 0)
          /\ rtp'[q].refs - RtpDue(rtp'[q], th[t], q) = rtp[q].refs - RtpDue(rtp[q], th[t], q)
      BY <2>3
    <3> QED BY <2>1, <3>1 DEF SameStake, SoundRtp
  <2> QED BY <2>2, <2>3
<1> QED BY <1>1 DEF RtpPart

\* References of RTP sessions are natural numbers, and a live one has some.
LEMMA RtpRefsNat ==
  ASSUME IInv
  PROVE  \A r \in Rtps : rtp[r].refs \in Nat /\ (LiveStage(rtp[r]) => rtp[r].refs # 0)
<1> SUFFICES ASSUME NEW r \in Rtps PROVE rtp[r].refs \in Nat
  BY DEF IInv, Alive
<1>1. Cardinality(AtRtp(r)) \in Nat
  <2>1. AtRtp(r) \in SUBSET Threads
    BY DEF AtRtp
  <2> QED BY <2>1, AllFinite, CountSome
<1>2. /\ rtp[r].refs = One(rtp[r].stage = "listed") + Cardinality(AtRtp(r)) + One(rtp[r].playing) + rtp[r].leaving
      /\ rtp[r].leaving \in Nat
  BY DEF IInv, Counts, RtpHolders, AtRtp, Shapes, RtpShape
<1>3. One(rtp[r].stage = "listed") \in Nat /\ One(rtp[r].playing) \in Nat
  BY DEF One
<1> QED BY <1>1, <1>2, <1>3

\* What rtp_session_resume and rtp_session_pause make of an RTP session: as many are owed.
LEMMA ResumedIs ==
  ASSUME NEW x \in RtpShape, NEW w, NEW q
  PROVE  /\ Resumed(x) \in RtpShape /\ Resumed(x).stage = x.stage /\ SameStake(x, Resumed(x))
         /\ Resumed(x).refs \in {x.refs, x.refs + 1} /\ x.refs \in Int
         /\ Resumed(x).refs - RtpDue(Resumed(x), w, q) = x.refs - RtpDue(x, w, q)
         /\ x.playing => Resumed(x) = x
<1>0. x.refs \in Int /\ x.leaving \in Nat /\ x.playing \in BOOLEAN
  BY DEF RtpShape
<1>1. CASE x.playing
  BY <1>0, <1>1 DEF Resumed, SameStake
<1>2. CASE ~ x.playing
  <2> PICK y : y = [x EXCEPT !.playing = TRUE, !.refs = @ + 1]
    OBVIOUS
  <2>1. Resumed(x) = y
    BY <1>2 DEF Resumed
  <2>2. x.refs + 1 \in Int
    BY <1>0
  <2>3. y \in RtpShape
    BY <2>2, Zenon DEF RtpShape
  <2>4. /\ y.stage = x.stage /\ y.owner = x.owner /\ y.transport = x.transport
        /\ y.refs = x.refs + 1 /\ y.leaving = x.leaving
    BY DEF RtpShape
  <2>5. y.playing
    BY Zenon DEF RtpShape
  <2>6. One(y.playing) = 1 /\ One(x.playing) = 0 /\ One(y.stage = "listed") = One(x.stage = "listed")
    BY <1>2, <2>4, <2>5 DEF One
  <2>7. One(x.stage = "listed") \in Nat /\ One(w.rtp = q) \in Nat
    BY DEF One
  <2>8. y.refs - RtpDue(y, w, q) = x.refs - RtpDue(x, w, q)
    <3>1. PICK a \in Nat, b \in Nat : a = One(x.stage = "listed") /\ b = One(w.rtp = q)
      BY <2>7
    <3>2. RtpDue(y, w, q) = a + b + 1 + x.leaving /\ RtpDue(x, w, q) = a + b + 0 + x.leaving
      BY <2>4, <2>6, <3>1 DEF RtpDue
    <3> QED BY <1>0, <2>4, <3>2
  <2> QED BY <1>0, <1>2, <2>1, <2>3, <2>4, <2>8 DEF SameStake, LiveStage
<1> QED BY <1>0, <1>1, <1>2

\* What rtp_session_pause makes of it.
LEMMA PausedIs ==
  ASSUME NEW x \in RtpShape, NEW w, NEW q
  PROVE  /\ Paused(x) \in RtpShape /\ Paused(x).stage = x.stage /\ SameStake(x, Paused(x))
         /\ Paused(x).refs = x.refs /\ x.refs \in Int /\ ~ Paused(x).playing
         /\ RtpDue(Paused(x), w, q) = RtpDue(x, w, q)
<1>0. x.refs \in Int /\ x.leaving \in Nat /\ x.playing \in BOOLEAN
  BY DEF RtpShape
<1>1. CASE ~ x.playing
  BY <1>0, <1>1 DEF Paused, SameStake
<1>2. CASE x.playing
  <2> PICK y : y = [x EXCEPT !.playing = FALSE, !.leaving = @ + 1]
    OBVIOUS
  <2>1. Paused(x) = y
    BY <1>2 DEF Paused
  <2>2. x.leaving + 1 \in Nat
    BY <1>0
  <2>3. y \in RtpShape
    BY <2>2, Zenon DEF RtpShape
  <2>4. /\ y.stage = x.stage /\ y.owner = x.owner /\ y.transport = x.transport
        /\ y.refs = x.refs /\ y.leaving = x.leaving + 1
    BY DEF RtpShape
  <2>5. ~ y.playing
    BY Zenon DEF RtpShape
  <2>6. One(y.playing) = 0 /\ One(x.playing) = 1 /\ One(y.stage = "listed") = One(x.stage = "listed")
    BY <1>2, <2>4, <2>5 DEF One
  <2>7. One(x.stage = "listed") \in Nat /\ One(w.rtp = q) \in Nat
    BY DEF One
  <2>8. RtpDue(y, w, q) = RtpDue(x, w, q)
    <3>1. PICK a \in Nat, b \in Nat : a = One(x.stage = "listed") /\ b = One(w.rtp = q)
      BY <2>7
    <3>2. RtpDue(y, w, q) = a + b + 0 + (x.leaving + 1) /\ RtpDue(x, w, q) = a + b + 1 + x.leaving
      BY <2>4, <2>6, <3>1 DEF RtpDue
    <3> QED BY <1>0, <3>2
  <2> QED BY <1>0, <2>1, <2>3, <2>4, <2>5, <2>8 DEF SameStake, LiveStage
<1> QED BY <1>1, <1>2

\* PLAY and PAUSE, which change what session s is doing and RTP sessions that are on its list.
LEMMA StreamsKeep ==
  ASSUME IInv, NEW t \in Handlers, th[t].pc \in {"play", "pause"}, Goto(t, "unref"),
         UNCHANGED <<client, pool, requests>>, NEW s, SessPart(s),
         \A q \in Sessions : sess'[q].refs = sess[q].refs /\ sess'[q].stage = sess[q].stage,
         th'[t].rtp = th[t].rtp => RtpPart(t, NoRtp)
  PROVE  IInv'
<1>1. Shapes /\ Place(t, th[t]) /\ th[t] \in ThShape /\ t \in Threads /\ t # Loop
  BY AtThread, Roles
<1>2. /\ ThStep(t) /\ th'[t].pc = "unref" /\ th'[t].cur = th[t].cur /\ th'[t].rtp = th[t].rtp
      /\ th'[t].transport = th[t].transport /\ th'[t].then = th[t].then
  BY <1>1, GotoIs DEF Holding, Ending, HandlerPcs
<1>3. Place(t, th'[t]) /\ th[t].rtp = NoRtp /\ SameLoop
  BY <1>1, <1>2, Roles DEF Place, Holding, Ending, HandlerPcs, SameLoop, ThStep
<1>4. ThPart(t) /\ ClientPart /\ RestPart /\ RtpPart(t, NoRtp)
  BY <1>1, <1>2, <1>3, Roles, SameClient, SameRest DEF ThPart
<1>5. SessionOwed(t, s, NoRtp)
  <2>1. Apart(t, s, NoRtp)
    BY <1>2, Roles DEF Apart
  <2>2. SessionDue(s, t, NoRtp, client'.list, rtp', th') = SessionDue(s, t, NoRtp, client.list, rtp, th)
    BY <1>2, NoRtpDue DEF SessionDue
  <2> QED BY <2>1, <2>2 DEF SessionOwed
<1>6. ClientOwed(t, s, NoRtp)
  <2>1. InHand(th'[t]) = InHand(th[t])
    BY <1>1, <1>2 DEF InHand, Interleaves
  <2>2. One(s \in Sessions /\ sess'[s].stage = "live") = One(s \in Sessions /\ sess[s].stage = "live")
    BY DEF One
  <2>3. ClientDue(client', One(s \in Sessions /\ sess'[s].stage = "live"), NoRtp, t, rtp', th')
          = ClientDue(client, One(s \in Sessions /\ sess[s].stage = "live"), NoRtp, t, rtp, th)
    BY <2>1, <2>2, NoRtpDue DEF ClientDue
  <2> QED BY <2>3 DEF ClientOwed
<1> QED BY <1>1, <1>4, <1>5, <1>6, StepKeeps
\* PLAY and PAUSE resume and pause RTP sessions of the session of the request.
LEMMA PlayKeeps == ASSUME IInv, NEW t \in Handlers, Play(t) PROVE IInv'
<1>0. PICK s : s = th[t].cur
  OBVIOUS
<1>1. /\ Shapes /\ th[t].pc = "play" /\ s \in Sessions /\ sess[s] \in SessShape
      /\ sess[s].stage = "live" /\ t \in Threads
  <2>1. th[t].pc = "play" /\ th[t].pc \in Holding
    BY DEF Play, Holding
  <2> QED BY <1>0, <2>1, AtThread, Roles
<1>2. Goto(t, "unref") /\ UNCHANGED <<client, pool, requests>>
  BY DEF Play
<1>3. CASE UNCHANGED <<sess, rtp>>
  <2>1. SessPart(NoSession)
    BY <1>3, SameSess
  <2>2. th'[t].rtp = th[t].rtp => RtpPart(t, NoRtp)
    BY <1>1, <1>3, SameRtp
  <2> QED BY <1>1, <1>2, <1>3, <2>1, <2>2, StreamsKeep
<1>4. CASE /\ sess' = [sess EXCEPT ![s].cur_state = "PLAYING"]
           /\ rtp' = [r \in Rtps |-> IF r \in Listed(s) THEN Resumed(rtp[r]) ELSE rtp[r]]
  <2>1. PICK y : y = [sess[s] EXCEPT !.cur_state = "PLAYING"]
    OBVIOUS
  <2>2. y \in SessShape /\ y.refs = sess[s].refs /\ y.stage = sess[s].stage /\ sess' = [sess EXCEPT ![s] = y]
    BY <1>1, <1>4, <2>1 DEF SessShape
  <2>3. SessPart(s) /\ \A q \in Sessions : sess'[q].refs = sess[q].refs /\ sess'[q].stage = sess[q].stage
    BY <1>1, <2>2, SessMark
  <2>4. ASSUME NEW q \in Rtps
        PROVE  /\ rtp'[q] \in RtpShape
               /\ \/ rtp'[q] = rtp[q]
                  \/ /\ LiveStage(rtp[q]) /\ SameStake(rtp[q], rtp'[q])
                     /\ rtp'[q].refs \in Nat => rtp'[q].refs # 0
                     /\ rtp'[q].refs - RtpDue(rtp'[q], th[t], q) = rtp[q].refs - RtpDue(rtp[q], th[t], q)
    <3>1. rtp[q] \in RtpShape
      BY <1>1 DEF Shapes
    <3>2. CASE q \in Listed(s)
      <4>1. rtp'[q] = Resumed(rtp[q]) /\ LiveStage(rtp[q])
        BY <1>4, <3>2 DEF Listed, LiveStage
      <4>2. rtp[q].refs \in Nat /\ rtp[q].refs # 0
        BY <4>1, RtpRefsNat
      <4> QED BY <3>1, <4>1, <4>2, ResumedIs
    <3>3. CASE q \notin Listed(s)
      BY <1>4, <3>1, <3>3
    <3> QED BY <3>2, <3>3
  <2>5. rtp' \in [Rtps -> RtpShape]
    <3>1. rtp' = [q \in Rtps |-> rtp'[q]]
      BY <1>4
    <3> QED BY <2>4, <3>1
  <2>6. th'[t].rtp = th[t].rtp => RtpPart(t, NoRtp)
    BY <1>1, <2>4, <2>5, RtpMany
  <2> QED BY <1>1, <1>2, <2>3, <2>6, StreamsKeep
<1> QED BY <1>0, <1>3, <1>4 DEF Play

\* PAUSE, the same.
LEMMA PauseKeeps == ASSUME IInv, NEW t \in Handlers, Pause(t) PROVE IInv'
<1>0. PICK s : s = th[t].cur
  OBVIOUS
<1>1. /\ Shapes /\ th[t].pc = "pause" /\ s \in Sessions /\ sess[s] \in SessShape
      /\ sess[s].stage = "live" /\ t \in Threads
  <2>1. th[t].pc = "pause" /\ th[t].pc \in Holding
    BY DEF Pause, Holding
  <2> QED BY <1>0, <2>1, AtThread, Roles
<1>2. Goto(t, "unref") /\ UNCHANGED <<client, pool, requests>>
  BY DEF Pause
<1>3. CASE UNCHANGED <<sess, rtp>>
  <2>1. SessPart(NoSession)
    BY <1>3, SameSess
  <2>2. th'[t].rtp = th[t].rtp => RtpPart(t, NoRtp)
    BY <1>1, <1>3, SameRtp
  <2> QED BY <1>1, <1>2, <1>3, <2>1, <2>2, StreamsKeep
<1>4. CASE /\ sess' = [sess EXCEPT ![s].cur_state = "READY"]
           /\ rtp' = [r \in Rtps |-> IF r \in Listed(s) THEN Paused(rtp[r]) ELSE rtp[r]]
  <2>1. PICK y : y = [sess[s] EXCEPT !.cur_state = "READY"]
    OBVIOUS
  <2>2. y \in SessShape /\ y.refs = sess[s].refs /\ y.stage = sess[s].stage /\ sess' = [sess EXCEPT ![s] = y]
    BY <1>1, <1>4, <2>1 DEF SessShape
  <2>3. SessPart(s) /\ \A q \in Sessions : sess'[q].refs = sess[q].refs /\ sess'[q].stage = sess[q].stage
    BY <1>1, <2>2, SessMark
  <2>4. ASSUME NEW q \in Rtps
        PROVE  /\ rtp'[q] \in RtpShape
               /\ \/ rtp'[q] = rtp[q]
                  \/ /\ LiveStage(rtp[q]) /\ SameStake(rtp[q], rtp'[q])
                     /\ rtp'[q].refs \in Nat => rtp'[q].refs # 0
                     /\ rtp'[q].refs - RtpDue(rtp'[q], th[t], q) = rtp[q].refs - RtpDue(rtp[q], th[t], q)
    <3>1. rtp[q] \in RtpShape
      BY <1>1 DEF Shapes
    <3>2. CASE q \in Listed(s)
      <4>1. rtp'[q] = Paused(rtp[q]) /\ LiveStage(rtp[q])
        BY <1>4, <3>2 DEF Listed, LiveStage
      <4>2. rtp[q].refs \in Nat /\ rtp[q].refs # 0
        BY <4>1, RtpRefsNat
      <4>3. rtp'[q].refs = rtp[q].refs /\ RtpDue(rtp'[q], th[t], q) = RtpDue(rtp[q], th[t], q)
        BY <3>1, <4>1, PausedIs
      <4>4. rtp'[q] \in RtpShape /\ SameStake(rtp[q], rtp'[q])
        BY <3>1, <4>1, PausedIs
      <4> QED BY <4>1, <4>2, <4>3, <4>4
    <3>3. CASE q \notin Listed(s)
      BY <1>4, <3>1, <3>3
    <3> QED BY <3>2, <3>3
  <2>5. rtp' \in [Rtps -> RtpShape]
    <3>1. rtp' = [q \in Rtps |-> rtp'[q]]
      BY <1>4
    <3> QED BY <2>4, <3>1
  <2>6. th'[t].rtp = th[t].rtp => RtpPart(t, NoRtp)
    BY <1>1, <2>4, <2>5, RtpMany
  <2> QED BY <1>1, <1>2, <2>3, <2>6, StreamsKeep
<1> QED BY <1>0, <1>3, <1>4 DEF Pause

\* The reference of the list goes to the thread that takes the RTP session off it.
LEMMA KillRtpsKeeps == ASSUME IInv, NEW t \in Threads, KillRtps(t) PROVE IInv'
<1>0. PICK s : s = th[t].cur
  OBVIOUS
<1>1. /\ Shapes /\ Place(t, th[t]) /\ th[t].pc = "kill_rtps" /\ s \in Sessions /\ th[t] \in ThShape
      /\ th[t].rtp = NoRtp
  <2>1. th[t].pc = "kill_rtps" /\ th[t].pc \in Holding /\ th[t].pc # "kill_rtp"
    BY DEF KillRtps, Holding, Ending
  <2> QED BY <1>0, <2>1, AtThread
<1>2. UNCHANGED <<client, sess, pool, requests>>
  BY DEF KillRtps
<1>3. CASE Goto(t, "unref") /\ rtp' = rtp
  <2>1. SessPart(NoSession)
    BY <1>2, SameSess
  <2>2. /\ "unref" \in Holding /\ th[t].pc \in Holding /\ "unref" \in HandlerPcs /\ "unref" \in LoopPcs
        /\ "unref" \in LoopPcs \cup HandlerPcs
    BY <1>1 DEF Holding, Ending, HandlerPcs, LoopPcs
  <2> QED BY <1>1, <1>2, <1>3, <2>1, <2>2, GotoOnly
<1>4. ASSUME NEW r \in Listed(s), rtp' = [rtp EXCEPT ![r].stage = "unlisted"],
             th' = [th EXCEPT ![t].pc = "kill_rtp", ![t].rtp = r]
      PROVE  IInv'
  <2>1. r \in Rtps /\ rtp[r].stage = "listed" /\ rtp[r].owner = s /\ rtp[r] \in RtpShape /\ r # NoRtp
    BY <1>1, Roles DEF Listed, Shapes
  <2>2. PICK x : x = [th[t] EXCEPT !.pc = "kill_rtp", !.rtp = r]
    OBVIOUS
  <2>3. th' = [th EXCEPT ![t] = x] /\ th \in [Threads -> ThShape]
    BY <1>1, <1>4, <2>2 DEF Shapes
  <2>4. /\ x \in ThShape /\ x.pc = "kill_rtp" /\ x.cur = s /\ x.then = th[t].then
        /\ x.rtp = r /\ x.transport = th[t].transport
    BY <1>0, <1>1, <2>1, <2>2 DEF ThShape, HandlerPcs, Holding, Ending
  <2>5. ThStep(t) /\ th'[t] = x
    BY <1>1, <2>3, <2>4, Updated, Zenon DEF ThStep
  <2>6. Place(t, x) /\ SameLoop
    BY <1>1, <2>1, <2>4, <2>5, Roles DEF Place, Holding, Ending, HandlerPcs, LoopPcs, SameLoop, ThStep
  <2>7. PICK y : y = [rtp[r] EXCEPT !.stage = "unlisted"]
    OBVIOUS
  <2>8. /\ y \in RtpShape /\ y.stage = "unlisted" /\ y.refs = rtp[r].refs /\ y.owner = s
        /\ y.transport = rtp[r].transport /\ y.playing = rtp[r].playing /\ y.leaving = rtp[r].leaving
    BY <2>1, <2>7 DEF RtpShape
  <2>9. rtp' = [rtp EXCEPT ![r] = y]
    BY <1>4, <2>7
  <2>10. RtpDue(y, th'[t], r) = RtpDue(rtp[r], th[t], r)
    <3>1. /\ One(y.stage = "listed") = 0 /\ One(rtp[r].stage = "listed") = 1
          /\ One(th'[t].rtp = r) = 1 /\ One(th[t].rtp = r) = 0
      BY <1>1, <2>1, <2>4, <2>5, <2>8 DEF One
    <3>2. One(y.playing) = One(rtp[r].playing) /\ One(y.playing) \in Nat /\ y.leaving \in Nat
      BY <2>8 DEF One, RtpShape
    <3> QED BY <2>8, <3>1, <3>2 DEF RtpDue
  <2>11. RtpPart(t, r) /\ rtp'[r] = y
    <3>1. SoundRtp(y)
      <4>1. rtp[r].refs # 0
        BY <2>1, RtpRefsNat DEF LiveStage
      <4> QED BY <1>1, <2>1, <2>8, <4>1 DEF SoundRtp, LiveStage
    <3>2. \A q \in Rtps : q # r => (th'[t].rtp = q <=> th[t].rtp = q)
      BY <1>1, <2>4, <2>5, Roles
    <3>3. LiveStage(rtp[r]) => y.owner = rtp[r].owner
      BY <2>1, <2>8
    <3>4. y.refs - RtpDue(y, th'[t], r) = rtp[r].refs - RtpDue(rtp[r], th[t], r)
      BY <2>8, <2>10
    <3> QED BY <2>1, <2>8, <2>9, <3>1, <3>2, <3>3, <3>4, RtpOne
  <2>12. ThPart(t)
    BY <2>1, <2>4, <2>5, <2>6, <2>8, <2>11 DEF ThPart
  <2>13. SessPart(NoSession) /\ ClientPart /\ RestPart
    BY <1>2, <2>6, SameSess, SameClient, SameRest
  <2>14. LiveStage(rtp'[r]) /\ LiveStage(rtp[r]) /\ rtp'[r].owner = s /\ Interleaves(rtp'[r]) = Interleaves(rtp[r])
    BY <2>1, <2>8, <2>11 DEF LiveStage, Interleaves
  <2>15. SessionOwed(t, NoSession, r)
    BY <1>0, <1>2, <2>1, <2>4, <2>5, <2>14, Roles DEF SessionOwed, Apart
  <2>16. ClientOwed(t, NoSession, r)
    <3>1. InHand(th'[t]) = InHand(th[t])
      BY <1>1, <2>4, <2>5 DEF InHand, Interleaves
    <3>2. One(NoSession \in Sessions /\ sess'[NoSession].stage = "live") = One(NoSession \in Sessions /\ sess[NoSession].stage = "live")
      BY Roles DEF One
    <3>3. One(r \in Rtps /\ LiveStage(rtp'[r]) /\ Interleaves(rtp'[r])) = One(r \in Rtps /\ LiveStage(rtp[r]) /\ Interleaves(rtp[r]))
      BY <2>14 DEF One
    <3> QED BY <1>2, <3>1, <3>2, <3>3 DEF ClientOwed, ClientDue
  <2> QED BY <2>11, <2>12, <2>13, <2>15, <2>16, StepKeeps
<1> QED BY <1>0, <1>3, <1>4 DEF KillRtps
\* An RTP session on its list that a thread or a writer holds as well is not held once.
LEMMA ListedTwice ==
  ASSUME IInv, NEW r \in Rtps, rtp[r].stage = "listed",
         rtp[r].leaving > 0 \/ \E t \in Threads : th[t].rtp = r
  PROVE  rtp[r].refs # 1
<1>1. Cardinality(AtRtp(r)) \in Nat /\ \A t \in AtRtp(r) : Cardinality(AtRtp(r)) > 0
  <2>1. AtRtp(r) \in SUBSET Threads
    BY DEF AtRtp
  <2> QED BY <2>1, AllFinite, CountSome
<1>2. /\ rtp[r].refs = One(rtp[r].stage = "listed") + Cardinality(AtRtp(r)) + One(rtp[r].playing) + rtp[r].leaving
      /\ rtp[r].leaving \in Nat
  BY DEF IInv, Counts, RtpHolders, AtRtp, Shapes, RtpShape
<1>3. One(rtp[r].stage = "listed") = 1 /\ One(rtp[r].playing) \in Nat
  BY DEF One
<1>4. Cardinality(AtRtp(r)) > 0 \/ rtp[r].leaving > 0
  BY <1>1 DEF AtRtp
<1> QED BY <1>1, <1>2, <1>3, <1>4

\* rtp_session_unref: the last one finalizes the RTP session.
LEMMA RtpUnrefKeeps ==
  ASSUME IInv, NEW t \in Threads, NEW r \in Rtps, LiveStage(rtp[r]),
         NEW y \in RtpShape, rtp' = [rtp EXCEPT ![r] = y],
         y.refs = rtp[r].refs - 1, y.stage = (IF rtp[r].refs = 1 THEN "freed" ELSE rtp[r].stage),
         y.owner = rtp[r].owner, y.transport = rtp[r].transport,
         RtpDue(y, th'[t], r) = RtpDue(rtp[r], th[t], r) - 1,
         ThStep(t), Place(t, th'[t]), SameLoop, th'[t].cur = th[t].cur, InHand(th'[t]) = InHand(th[t]),
         \A q \in Rtps : q # r => (th'[t].rtp = q <=> th[t].rtp = q), th'[t].rtp \in {th[t].rtp, NoRtp},
         IF rtp[r].refs = 1 THEN FinalizeRtp(r) ELSE UNCHANGED <<sess, client, pool>>,
         requests' = requests
  PROVE  IInv'
<1>0. PICK s : s = rtp[r].owner
  OBVIOUS
<1>1. /\ Shapes /\ s \in Sessions /\ sess[s] \in SessShape /\ sess[s].stage = "live"
      /\ sess[s].refs \in Nat \ {0} /\ rtp[r].refs \in Nat \ {0}
  BY <1>0, Held, RefsNat, RtpRefsNat DEF IInv, Shapes
<1>2. SoundRtp(y)
  BY <1>0, <1>1 DEF SoundRtp, LiveStage
<1>3. RtpPart(t, r) /\ rtp'[r] = y
  <2>1. RtpDue(rtp[r], th[t], r) \in Int
    <3>1. /\ One(rtp[r].stage = "listed") \in Int /\ One(th[t].rtp = r) \in Int
          /\ One(rtp[r].playing) \in Int /\ rtp[r].leaving \in Int
      BY <1>1 DEF One, Shapes, RtpShape
    <3> QED BY <3>1 DEF RtpDue
  <2>2. y.refs - RtpDue(y, th'[t], r) = rtp[r].refs - RtpDue(rtp[r], th[t], r)
    BY <1>1, <2>1
  <2>3. LiveStage(rtp[r]) => y.owner = rtp[r].owner
    OBVIOUS
  <2> QED BY <1>2, <2>2, <2>3, RtpOne
<1>4. ThPart(t)
  <2>1. th[t].rtp \in Rtps => rtp[th[t].rtp].owner = th[t].cur
    BY DEF IInv, Paired
  <2>2. \A q \in Rtps : rtp'[q].owner = rtp[q].owner
    BY <1>3 DEF RtpPart, SameStake
  <2>3. th'[t].rtp \in Rtps => th'[t].rtp = th[t].rtp
    BY Roles
  <2> QED BY <2>1, <2>2, <2>3 DEF ThPart
<1>5. InHand(th[t]) \in Nat /\ Settled(client) /\ client \in ClientShape
  BY <1>1 DEF InHand, One, IInv, Alive, Settled, Shapes
<1>6. One(s \in Sessions /\ sess[s].stage = "live") = 1
  BY <1>1 DEF One
<1>7. PICK a \in Nat, b \in Nat : a = One(s \in client.list) /\ b = One(th[t].cur = s)
  BY DEF One
<1>8. One(r \in Rtps /\ LiveStage(rtp[r]) /\ rtp[r].owner = s) = 1
  BY <1>0 DEF One
<1>9. CASE rtp[r].refs = 1
  <2>1. /\ SessStep(s) /\ Unreffed(sess[s], sess'[s])
        /\ Drop(client, client', One(Interleaves(rtp[r])) + One(sess[s].refs = 1))
        /\ PoolShape(pool')
    BY <1>0, <1>1, <1>9, FinalizeIs
  <2>2. /\ One(sess'[s].stage = "live") = 1 - One(sess[s].refs = 1) /\ SoundSess(sess'[s])
        /\ One(sess[s].refs = 1) \in {0, 1} /\ sess'[s].refs = sess[s].refs - 1
    BY <1>1, <2>1, LiveAfter DEF Unreffed
  <2>3. PICK n \in {0, 1}, il \in {0, 1} : n = One(sess[s].refs = 1) /\ il = One(Interleaves(rtp[r]))
    BY <2>2 DEF One
  <2>4. Drop(client, client', il + n)
    BY <2>1, <2>3
  <2>5. SessPart(s) /\ RestPart
    BY <1>1, <2>1, <2>2 DEF SessPart, RestPart, Shapes
  <2>6. ClientPart
    BY <1>5, <2>4 DEF ClientPart, Drop, IInv, ClientAt, SameLoop
  <2>7. ~ LiveStage(rtp'[r])
    BY <1>3, <1>9 DEF LiveStage
  <2>8. SessionOwed(t, s, r)
    <3>1. Apart(t, s, r)
      BY <1>0, <2>4, <2>7 DEF Apart, Drop
    <3>2. One(s \in client'.list) = a /\ One(th'[t].cur = s) = b
      BY <1>7, <2>4 DEF One, Drop
    <3>3. One(r \in Rtps /\ LiveStage(rtp'[r]) /\ rtp'[r].owner = s) = 0
      BY <2>7 DEF One
    <3>4. /\ SessionDue(s, t, r, client'.list, rtp', th') = a + b + 0
          /\ SessionDue(s, t, r, client.list, rtp, th) = a + b + 1
      BY <1>7, <1>8, <3>2, <3>3 DEF SessionDue
    <3> QED BY <1>1, <1>7, <2>2, <3>1, <3>4 DEF SessionOwed
  <2>9. ClientOwed(t, s, r)
    <3>1. One(s \in Sessions /\ sess'[s].stage = "live") = 1 - n
      BY <1>1, <2>2, <2>3
    <3>2. /\ One(r \in Rtps /\ LiveStage(rtp'[r]) /\ Interleaves(rtp'[r])) = 0
          /\ One(r \in Rtps /\ LiveStage(rtp[r]) /\ Interleaves(rtp[r])) = il
      BY <2>3, <2>7 DEF One
    <3>3. /\ One(client'.conns) = One(client.conns) /\ One(client'.in_loop) = One(client.in_loop)
          /\ One(client.conns) \in Nat /\ One(client.in_loop) \in Nat
          /\ client'.refs = client.refs - (il + n) /\ client.refs \in Int
      BY <2>4 DEF One, Drop, ClientShape
    <3> QED BY <1>5, <1>6, <3>1, <3>2, <3>3 DEF ClientOwed, ClientDue
  <2> QED BY <1>3, <1>4, <2>5, <2>6, <2>8, <2>9, StepKeeps
<1>10. CASE rtp[r].refs # 1
  <2>1. UNCHANGED <<sess, client, pool>>
    BY <1>10
  <2>2. SessPart(s) /\ RestPart /\ ClientPart
    BY <2>1, SameSess, SameRest, SameClient
  <2>3. LiveStage(rtp'[r]) /\ Interleaves(rtp'[r]) = Interleaves(rtp[r]) /\ rtp'[r].owner = s
    BY <1>0, <1>3, <1>10 DEF LiveStage, Interleaves
  <2>4. SessionOwed(t, s, r)
    <3>1. Apart(t, s, r)
      BY <1>0, <2>1, <2>3 DEF Apart
    <3>2. One(r \in Rtps /\ LiveStage(rtp'[r]) /\ rtp'[r].owner = s) = 1
      BY <2>3 DEF One
    <3>3. SessionDue(s, t, r, client'.list, rtp', th') = SessionDue(s, t, r, client.list, rtp, th)
      BY <1>8, <2>1, <3>2 DEF SessionDue
    <3> QED BY <2>1, <3>1, <3>3 DEF SessionOwed
  <2>5. ClientOwed(t, s, r)
    <3>1. One(r \in Rtps /\ LiveStage(rtp'[r]) /\ Interleaves(rtp'[r])) = One(r \in Rtps /\ LiveStage(rtp[r]) /\ Interleaves(rtp[r]))
      BY <2>3 DEF One
    <3> QED BY <2>1, <3>1 DEF ClientOwed, ClientDue
  <2> QED BY <1>3, <1>4, <2>2, <2>4, <2>5, StepKeeps
<1> QED BY <1>9, <1>10

\* The destruction of a writer, later, drops the reference it was given.
LEMMA WriterDestroyedKeeps == ASSUME IInv, NEW r \in Rtps, WriterDestroyed(r) PROVE IInv'
<1>0. PICK t : t = Loop
  OBVIOUS
<1>1. /\ t \in Threads /\ th' = th /\ Shapes /\ Place(t, th[t]) /\ LiveStage(rtp[r])
      /\ rtp[r] \in RtpShape /\ rtp[r].leaving > 0 /\ requests' = requests
      /\ IF rtp[r].refs = 1 THEN FinalizeRtp(r) ELSE UNCHANGED <<sess, client, pool>>
  BY <1>0, Roles, AtThread, Held DEF WriterDestroyed, Shapes
<1>2. rtp[r].stage = "listed" => rtp[r].refs # 1
  BY <1>1, ListedTwice
<1>3. PICK stage \in {"listed", "unlisted", "freed"} : stage = IF rtp[r].refs = 1 THEN "freed" ELSE rtp[r].stage
  BY <1>1 DEF LiveStage
<1>4. PICK n \in Nat : n = rtp[r].leaving - 1
  BY <1>1 DEF RtpShape
<1>5. PICK k \in Int : k = rtp[r].refs - 1
  BY <1>1 DEF RtpShape
<1>6. PICK y : y = [rtp[r] EXCEPT !.leaving = n, !.refs = k, !.stage = stage]
  OBVIOUS
<1>7. rtp' = [rtp EXCEPT ![r] = y]
  BY <1>3, <1>4, <1>5, <1>6 DEF WriterDestroyed
<1>8. y \in RtpShape
  BY <1>1, <1>3, <1>6 DEF RtpShape
<1>9. /\ y.stage = stage /\ y.refs = k /\ y.leaving = n /\ y.owner = rtp[r].owner
      /\ y.transport = rtp[r].transport /\ y.playing = rtp[r].playing
  BY <1>1, <1>6 DEF RtpShape
<1>10. RtpDue(y, th'[t], r) = RtpDue(rtp[r], th[t], r) - 1
  <2>1. One(y.stage = "listed") = One(rtp[r].stage = "listed")
    BY <1>2, <1>3, <1>9 DEF One
  <2>2. PICK a \in Nat, b \in Nat, c \in Nat :
          a = One(rtp[r].stage = "listed") /\ b = One(th[t].rtp = r) /\ c = One(rtp[r].playing)
    BY DEF One
  <2>3. RtpDue(y, th'[t], r) = a + b + c + n /\ RtpDue(rtp[r], th[t], r) = a + b + c + rtp[r].leaving
    BY <1>1, <1>9, <2>1, <2>2 DEF RtpDue
  <2>4. rtp[r].leaving \in Nat
    BY <1>1 DEF RtpShape
  <2> QED BY <1>4, <2>3, <2>4
<1>11. ThStep(t) /\ SameLoop
  BY <1>1 DEF ThStep, SameLoop, Shapes
<1> QED BY <1>1, <1>3, <1>5, <1>7, <1>8, <1>9, <1>10, <1>11, RtpUnrefKeeps

\* rtp_session_kill pauses it first.
LEMMA KillRtpKeeps == ASSUME IInv, NEW t \in Threads, KillRtp(t) PROVE IInv'
<1>0. PICK r : r = th[t].rtp
  OBVIOUS
<1>1. /\ Shapes /\ Place(t, th[t]) /\ th[t] \in ThShape /\ th[t].pc = "kill_rtp" /\ r \in Rtps
      /\ LiveStage(rtp[r]) /\ rtp[r] \in RtpShape /\ requests' = requests
      /\ IF rtp[r].refs = 1 THEN FinalizeRtp(r) ELSE UNCHANGED <<sess, client, pool>>
  <2>1. Place(t, th[t]) /\ th[t].pc = "kill_rtp" /\ th[t].rtp \in Rtps \cup {NoRtp}
    BY AtThread DEF KillRtp
  <2>2. r \in Rtps
    BY <1>0, <2>1 DEF Place
  <2> QED BY <1>0, <2>1, <2>2, AtThread, Held DEF KillRtp, Shapes
<1>2. rtp[r].stage = "listed" => rtp[r].refs # 1
  BY <1>0, <1>1, ListedTwice
<1>3. PICK x : x = [th[t] EXCEPT !.pc = "kill_rtps", !.rtp = NoRtp]
  OBVIOUS
<1>4. th' = [th EXCEPT ![t] = x] /\ th \in [Threads -> ThShape]
  BY <1>1, <1>3 DEF Shapes, KillRtp
<1>5. /\ x \in ThShape /\ x.pc = "kill_rtps" /\ x.cur = th[t].cur /\ x.then = th[t].then
      /\ x.rtp = NoRtp /\ x.transport = th[t].transport
  BY <1>1, <1>3 DEF ThShape, HandlerPcs, Holding, Ending
<1>6. ThStep(t) /\ th'[t] = x
  BY <1>1, <1>4, <1>5, Updated, Zenon DEF ThStep
<1>7. Place(t, x) /\ SameLoop /\ InHand(x) = InHand(th[t])
  BY <1>1, <1>5, <1>6, Roles DEF Place, Holding, Ending, HandlerPcs, LoopPcs, SameLoop, ThStep, InHand, Interleaves
<1>8. PICK z \in RtpShape : z = Paused(rtp[r])
  BY <1>1, PausedIs
<1>9. /\ z.stage = rtp[r].stage /\ SameStake(rtp[r], z) /\ z.refs = rtp[r].refs
      /\ \A w : RtpDue(z, w, r) = RtpDue(rtp[r], w, r)
  BY <1>1, <1>8, PausedIs
<1>10. PICK stage \in {"listed", "unlisted", "freed"} : stage = IF rtp[r].refs = 1 THEN "freed" ELSE z.stage
  BY <1>1, <1>9 DEF LiveStage
<1>11. PICK k \in Int : k = z.refs - 1
  BY <1>8 DEF RtpShape
<1>12. PICK y : y = [z EXCEPT !.refs = k, !.stage = stage]
  OBVIOUS
<1>13. rtp' = [rtp EXCEPT ![r] = y]
  <2>1. rtp' = [rtp EXCEPT ![r] = [Paused(rtp[r]) EXCEPT !.refs = Paused(rtp[r]).refs - 1,
                                      !.stage = IF rtp[r].refs = 1 THEN "freed" ELSE Paused(rtp[r]).stage]]
    <3>1. /\ r = th[t].rtp
          /\ rtp' = [rtp EXCEPT ![th[t].rtp] = [Paused(rtp[th[t].rtp]) EXCEPT !.refs = Paused(rtp[th[t].rtp]).refs - 1,
                        !.stage = IF rtp[th[t].rtp].refs = 1 THEN "freed" ELSE Paused(rtp[th[t].rtp]).stage]]
      BY <1>0, Zenon DEF KillRtp
    <3> QED BY <3>1
  <2>2. rtp' = [rtp EXCEPT ![r] = [z EXCEPT !.refs = z.refs - 1,
                                      !.stage = IF rtp[r].refs = 1 THEN "freed" ELSE z.stage]]
    BY <1>8, <2>1, Zenon
  <2> QED BY <1>10, <1>11, <1>12, <2>2
<1>14. y \in RtpShape
  BY <1>8, <1>10, <1>12 DEF RtpShape
<1>15. /\ y.stage = stage /\ y.refs = k /\ y.leaving = z.leaving /\ y.owner = z.owner
       /\ y.transport = z.transport /\ y.playing = z.playing
  BY <1>8, <1>12 DEF RtpShape
<1>16. RtpDue(y, th'[t], r) = RtpDue(rtp[r], th[t], r) - 1
  <2>1. One(y.stage = "listed") = One(z.stage = "listed")
    BY <1>2, <1>9, <1>10, <1>15 DEF One
  <2>2. One(th'[t].rtp = r) = 0 /\ One(th[t].rtp = r) = 1
    BY <1>0, <1>1, <1>5, <1>6, Roles DEF One
  <2>3. PICK a \in Nat, c \in Nat, g \in Nat :
          a = One(z.stage = "listed") /\ c = One(z.playing) /\ g = z.leaving
    BY <1>8 DEF One, RtpShape
  <2>4. RtpDue(y, th'[t], r) = a + 0 + c + g /\ RtpDue(z, th[t], r) = a + 1 + c + g
    BY <1>15, <2>1, <2>2, <2>3 DEF RtpDue
  <2> QED BY <1>9, <2>4
<1>17. y.owner = rtp[r].owner /\ y.transport = rtp[r].transport
  BY <1>9, <1>15 DEF SameStake
<1>18. y.refs = rtp[r].refs - 1 /\ y.stage = (IF rtp[r].refs = 1 THEN "freed" ELSE rtp[r].stage)
  BY <1>9, <1>10, <1>11, <1>15
<1>19. /\ \A q \in Rtps : q # r => (th'[t].rtp = q <=> th[t].rtp = q)
       /\ th'[t].rtp \in {th[t].rtp, NoRtp} /\ th'[t].cur = th[t].cur
       /\ Place(t, th'[t]) /\ InHand(th'[t]) = InHand(th[t])
  BY <1>0, <1>5, <1>6, <1>7, Roles
<1> QED BY <1>1, <1>6, <1>7, <1>13, <1>14, <1>16, <1>17, <1>18, <1>19, RtpUnrefKeeps

-----------------------------------------------------------------------------
(* The invariant holds.                                                     *)

\* Every step keeps the invariant.
LEMMA IInvStep == ASSUME IInv, [Next]_vars PROVE IInv'
<1>1. CASE UNCHANGED vars
  BY <1>1 DEF vars, IInv, Shapes, Place, Paired, Alive, ClientAt, Counts, ClientHolders, SessionHolders,
              RtpHolders, LiveRtps, LiveStage, Interleaves
<1>2. ASSUME NEW h \in Handlers, NEW m \in Methods, NEW s \in Sessions \cup {NoSession}, Receive(h, m, s)
      PROVE  IInv'
  BY <1>2, ReceiveKeeps
<1>3. CASE PeerGone \/ KillSessions \/ Orphan \/ Leave
  BY <1>3, PeerGoneKeeps, KillSessionsKeeps, OrphanKeeps, LeaveKeeps
<1>4. ASSUME NEW r \in Rtps, WriterDestroyed(r) PROVE IInv'
  BY <1>4, WriterDestroyedKeeps
<1>5. ASSUME NEW s \in Sessions, TimePasses(s) PROVE IInv'
  BY <1>5, TimePassesKeeps
<1>6. ASSUME NEW t \in Handlers, Handle(t) PROVE IInv'
  BY <1>6, FindKeeps, FindDeadKeeps, RemoveKeeps, InterleavedKeeps, TakePortsKeeps, NoTransportLeftKeeps,
     CreateKeeps, SetupKeeps, PlayTimerKeeps, PlayKeeps, PauseKeeps, FinishKeeps DEF Handle
<1>7. ASSUME NEW t \in Threads, EndSession(t) PROVE IInv'
  BY <1>7, KillMarkKeeps, KillRtpsKeeps, KillRtpKeeps, UnrefKeeps DEF EndSession
<1> QED BY <1>1, <1>2, <1>3, <1>4, <1>5, <1>6, <1>7 DEF Next
\* jpf_media_ports_set_range, and a port that is reserved.
LEMMA NewPoolIs ==
  LET p == SetReserved(NewPool(LowPort, HighPort), Reserved)
  IN PoolShape(p) /\ Sane(p) /\ p.used = 0
<1>0. LowPort \in Nat /\ HighPort \in Nat /\ LowPort < HighPort
  BY SessionAssumption
<1>1. PICK n : n = NewPool(LowPort, HighPort)
  OBVIOUS
<1>2. /\ n.min = LowPort /\ n.max = HighPort /\ n.set = {} /\ n.used = 0 /\ n.reserved = 0 /\ n.next = LowPort
  BY <1>1 DEF NewPool
<1>3. n.bug = FALSE
  BY <1>1, Zenon DEF NewPool
<1>4. n \in Pools
  <2>1. LowPort \in Nat /\ HighPort \in Nat /\ {} \in SUBSET Nat /\ 0 \in Int /\ LowPort \in Int /\ 0 \in Nat
    BY <1>0
  <2> QED BY <1>0, <1>1, <2>1 DEF NewPool, Pools
<1>5. Shaped(n)
  BY <1>0, <1>2, <1>4 DEF Shaped, InRange
<1>6. Cardinality({}) = 0
  BY FS_EmptySet
<1>7. Sane(n)
  BY <1>2, <1>3, <1>5, <1>6 DEF Sane, Counted
<1>8. PICK p : p = SetReserved(n, Reserved)
  OBVIOUS
<1>9. CASE Reserved \notin InRange(n) \ n.set
  <2>1. p = n
    BY <1>8, <1>9 DEF SetReserved
  <2> QED BY <1>1, <1>2, <1>5, <1>7, <1>8, <2>1 DEF PoolShape
<1>10. CASE Reserved \in InRange(n) \ n.set
  <2>1. p = [n EXCEPT !.set = @ \cup {Reserved}, !.reserved = @ + 1]
    BY <1>8, <1>10 DEF SetReserved
  <2>2. /\ p.min = LowPort /\ p.max = HighPort /\ p.set = {Reserved} /\ p.used = 0 /\ p.reserved = 1
        /\ p.next = LowPort
    BY <1>2, <1>4, <2>1 DEF Pools
  <2>3. p.bug = FALSE
    BY <1>3, <1>4, <2>1, Zenon DEF Pools
  <2>4. Reserved \in Int /\ Reserved \in InRange(p) /\ Reserved \in InRange(n)
    BY <1>0, <1>2, <1>10, <2>2 DEF InRange
  <2>5. p \in Pools
    <3>1. Reserved \in Nat /\ n.set \cup {Reserved} = {Reserved} /\ {Reserved} \in SUBSET Nat
      BY <1>0, <1>2, <1>10 DEF InRange
    <3>2. n.reserved + 1 = 1 /\ 1 \in Int /\ 1 \in Nat
      BY <1>2
    <3>3. p = [n EXCEPT !.set = {Reserved}, !.reserved = 1]
      BY <2>1, <3>1, <3>2, Zenon
    <3> QED BY <1>4, <3>1, <3>2, <3>3, Zenon DEF Pools
  <2>6. Shaped(p)
    BY <1>0, <2>2, <2>4, <2>5 DEF Shaped, InRange
  <2>7. Cardinality(p.set) = 1
    BY <2>2, FS_Singleton
  <2> QED BY <1>1, <1>8, <2>2, <2>3, <2>6, <2>7 DEF PoolShape, Sane, Counted
<1> QED BY <1>9, <1>10

\* At the beginning the loop and the list of connections have the client and nothing else is held.
LEMMA IInvInit == ASSUME Init PROVE IInv
<1>1. /\ client = [refs |-> 2, killed |-> FALSE, list |-> {}, conns |-> TRUE, in_loop |-> TRUE, freed |-> FALSE]
      /\ sess = [s \in Sessions |-> Unused] /\ rtp = [r \in Rtps |-> UnusedRtp] /\ requests = 0
      /\ pool = SetReserved(NewPool(LowPort, HighPort), Reserved)
      /\ th = [t \in Threads |-> [Idle EXCEPT !.pc = IF t = Loop THEN "polling" ELSE "idle"]]
  BY DEF Init
<1>2. /\ client.refs = 2 /\ client.list = {} /\ client \in ClientShape
      /\ client.conns = TRUE /\ client.in_loop = TRUE /\ client.freed = FALSE /\ client.killed = FALSE
  <2>1. 2 \in Int /\ {} \in SUBSET Sessions
    OBVIOUS
  <2>2. client \in ClientShape
    BY <1>1, <2>1, Zenon DEF ClientShape
  <2>3. /\ client.refs = 2 /\ client.list = {}
    BY <1>1
  <2>4. /\ client.conns = TRUE /\ client.in_loop = TRUE /\ client.freed = FALSE /\ client.killed = FALSE
    BY <1>1, Zenon
  <2> QED BY <2>2, <2>3, <2>4
<1>3. \A s \in Sessions : /\ sess[s] \in SessShape /\ sess[s].stage = "unused" /\ sess[s].refs = 0
                          /\ sess[s].killed = FALSE
  <2>1. Unused.stage = "unused" /\ Unused.refs = 0
    BY DEF Unused
  <2>2. Unused.killed = FALSE
    BY Zenon DEF Unused
  <2>3. Unused \in SessShape
    <3>1. 0 \in Int
      OBVIOUS
    <3> QED BY <3>1, Zenon DEF Unused, SessShape
  <2> QED BY <1>1, <2>1, <2>2, <2>3
<1>4. \A r \in Rtps : /\ rtp[r] \in RtpShape /\ rtp[r].stage = "unused" /\ rtp[r].refs = 0
                      /\ rtp[r].playing = FALSE /\ rtp[r].leaving = 0
  <2>1. UnusedRtp.stage = "unused" /\ UnusedRtp.refs = 0 /\ UnusedRtp.leaving = 0
    BY DEF UnusedRtp
  <2>2. UnusedRtp.playing = FALSE
    BY Zenon DEF UnusedRtp
  <2>3. UnusedRtp \in RtpShape
    <3>1. 0 \in Int /\ 0 \in Nat /\ NoTransport \in Transports
      BY DEF NoTransport, Transports
    <3> QED BY <3>1, Zenon DEF UnusedRtp, RtpShape
  <2> QED BY <1>1, <2>1, <2>2, <2>3
<1>5. ASSUME NEW t \in Threads
      PROVE  /\ th[t] \in ThShape /\ th[t].pc = (IF t = Loop THEN "polling" ELSE "idle")
             /\ th[t].cur = NoSession /\ th[t].rtp = NoRtp /\ th[t].transport.mode = "none"
  <2>1. Idle \in ThShape /\ Idle.cur = NoSession /\ Idle.rtp = NoRtp /\ Idle.transport.mode = "none"
    <3>1. NoTransport \in Transports /\ NoTransport.mode = "none"
      BY DEF NoTransport, Transports
    <3> QED BY <3>1 DEF Idle, ThShape, HandlerPcs, Methods
  <2>2. PICK pc \in {"polling", "idle"} : pc = IF t = Loop THEN "polling" ELSE "idle"
    OBVIOUS
  <2>3. th[t] = [Idle EXCEPT !.pc = pc]
    BY <1>1, <2>2
  <2>4. th[t] \in ThShape /\ th[t].pc = pc /\ th[t].cur = Idle.cur /\ th[t].rtp = Idle.rtp
        /\ th[t].transport = Idle.transport
    BY <2>1, <2>3 DEF ThShape, LoopPcs, HandlerPcs
  <2> QED BY <2>1, <2>2, <2>4
<1>6. PoolShape(pool)
  BY <1>1, NewPoolIs DEF Shapes
<1>7. Shapes
  <2>1. sess \in [Sessions -> SessShape] /\ rtp \in [Rtps -> RtpShape] /\ th \in [Threads -> ThShape]
    BY <1>1, <1>3, <1>4, <1>5
  <2>2. requests \in 0 .. MaxRequests
    BY <1>1, SessionAssumption
  <2> QED BY <1>2, <1>6, <2>1, <2>2 DEF Shapes
<1>8. \A t \in Threads : Place(t, th[t]) /\ Paired(t)
  BY <1>5, Roles DEF Place, Paired, Holding, Ending, LoopPcs, HandlerPcs
<1>9. Alive /\ ClientAt
  BY <1>2, <1>3, <1>4, <1>5, Roles DEF Alive, ClientAt, LiveStage
<1>10. /\ {s \in Sessions : sess[s].stage = "live"} = {} /\ {t \in Handlers : th[t].pc # "idle"} = {}
       /\ LiveRtps = {} /\ {t \in Handlers : Interleaves(th[t])} = {}
       /\ {r \in LiveRtps : Interleaves(rtp[r])} = {}
       /\ \A s \in Sessions : {t \in Threads : th[t].cur = s} = {} /\ {r \in LiveRtps : rtp[r].owner = s} = {}
       /\ \A r \in Rtps : {t \in Threads : th[t].rtp = r} = {}
  BY <1>3, <1>4, <1>5, Roles DEF LiveRtps, Interleaves
<1>11. Cardinality({}) = 0
  BY FS_EmptySet
<1>12. client.refs = ClientHolders
  <2>1. One(client.conns) = 1 /\ One(client.in_loop) = 1
    BY <1>2 DEF One
  <2>2. ClientHolders = 1 + 1 + Cardinality({}) + Cardinality({}) + Cardinality({}) + Cardinality({})
    BY <1>10, <2>1, Zenon DEF ClientHolders
  <2> QED BY <1>2, <1>11, <2>2
<1>13. ASSUME NEW s \in Sessions PROVE sess[s].refs = SessionHolders(s)
  <2>1. One(s \in client.list) = 0
    BY <1>2 DEF One
  <2>2. SessionHolders(s) = 0 + Cardinality({}) + Cardinality({})
    BY <1>10, <2>1, Zenon DEF SessionHolders
  <2> QED BY <1>3, <1>11, <2>2
<1>14. ASSUME NEW r \in Rtps PROVE rtp[r].refs = RtpHolders(r)
  <2>1. One(rtp[r].stage = "listed") = 0 /\ One(rtp[r].playing) = 0
    BY <1>4 DEF One
  <2>2. RtpHolders(r) = 0 + Cardinality({}) + 0 + 0
    BY <1>4, <1>10, <2>1, Zenon DEF RtpHolders
  <2> QED BY <1>4, <1>11, <2>2
<1> QED BY <1>7, <1>8, <1>9, <1>12, <1>13, <1>14 DEF IInv, Counts

\* However requests, the end of the connection, dead sessions and leaving writers interleave, the
\* places and the counted references of rtsp.c and rtsp_method_*.c agree.
THEOREM InvariantHolds == Spec => []IInv
<1>1. Init => IInv
  BY IInvInit
<1>2. IInv /\ [Next]_vars => IInv'
  BY IInvStep
<1> QED BY <1>1, <1>2, PTL DEF Spec

\* Every reference count is the number of those who hold the object, and nothing in anyone's hands
\* is freed (rtsp_client_unref, rtsp_session_unref, rtp_session_unref), whatever the number of
\* handler threads, sessions and requests.
THEOREM CountsAreExact == Spec => []RefsExact
<1>1. ASSUME IInv PROVE RefsExact
  <2>1. TypeOK
    <3>1. client.refs \in Nat
      BY <1>1, Held
    <3>2. \A s \in Sessions : sess[s].refs \in Nat
      BY <1>1, RefsNat
    <3>3. \A r \in Rtps : rtp[r].refs \in Nat
      BY <1>1, RtpRefsNat
    <3> DEFINE S == [stage : {"unused", "live", "freed"}, refs : Nat, killed : BOOLEAN,
                             cur_state : {"INIT", "READY", "PLAYING"},
                             session_timer : {"off", "armed", "expired"}, told : BOOLEAN]
               R == [stage : {"unused", "listed", "unlisted", "freed"}, refs : Nat,
                        owner : Sessions \cup {NoSession}, transport : Transports,
                        playing : BOOLEAN, leaving : Nat]
    <3>4. client \in [refs : Nat, killed : BOOLEAN, list : SUBSET Sessions, conns : BOOLEAN,
                  in_loop : BOOLEAN, freed : BOOLEAN]
      BY <1>1, <3>1 DEF IInv, Shapes, ClientShape
    <3>5. sess \in [Sessions -> S]
      BY <1>1, <3>2 DEF IInv, Shapes, SessShape
    <3>6. rtp \in [Rtps -> R]
      BY <1>1, <3>3 DEF IInv, Shapes, RtpShape
    <3>7. \A t \in Threads : /\ th[t].cur \in Sessions \cup {NoSession}
                             /\ th[t].rtp \in Rtps \cup {NoRtp} /\ th[t].transport \in Transports
      BY <1>1, AtThread
    <3>8. requests \in 0 .. MaxRequests
      BY <1>1 DEF IInv, Shapes
    <3> QED BY <3>4, <3>5, <3>6, <3>7, <3>8 DEF TypeOK
  <2>2. client.refs = ClientHolders /\ (client.freed <=> client.refs = 0)
    BY <1>1 DEF IInv, Counts, Alive
  <2>3. \A s \in Sessions : sess[s].refs = SessionHolders(s) /\ (sess[s].stage = "freed" => sess[s].refs = 0)
    BY <1>1 DEF IInv, Counts, Alive
  <2>4. \A r \in LiveRtps : rtp[r].refs = RtpHolders(r) /\ rtp[r].refs > 0
    BY <1>1, RtpRefsNat DEF IInv, Counts, LiveRtps, LiveStage
  <2>5. client.freed => client.list = {}
    BY <1>1, <2>2, Held
  <2> QED BY <2>1, <2>2, <2>3, <2>4, <2>5 DEF RefsExact
<1>2. IInv => RefsExact
  BY <1>1
<1> QED BY <1>2, InvariantHolds, PTL

-----------------------------------------------------------------------------
(* Who ends a session.                                                      *)

\* In a step thread t comes to pc, with session c and RTP session k in its hands.
Moves(t, pc, c, k) ==
  /\ \A u \in Threads : u # t => th'[u] = th[u]
  /\ th'[t].pc = pc /\ th'[t].cur = c /\ th'[t].rtp = k

\* What such a step has to show, of each session and RTP session.
Emptying == {"kill_rtps", "kill_rtp"}
Past == {"orphan", "leave", "gone"}
KeptOn(t, q, pc, c) ==
  sess'[q].stage = "live" /\ ~ sess'[q].killed =>
    \/ q \in client'.list
    \/ c = q /\ pc = "kill"
    \/ /\ sess[q].stage = "live" /\ ~ sess[q].killed /\ q \notin client.list
       /\ ~ (th[t].cur = q /\ th[t].pc = "kill")
EmptiedOn(t, q, pc, c) ==
  sess'[q].killed =>
    \/ c = q /\ pc \in Emptying
    \/ Listed(q)' = {}
    \/ /\ sess[q].killed /\ Listed(q)' \subseteq Listed(q)
       /\ ~ (th[t].cur = q /\ th[t].pc \in Emptying)
LateOn(t, q, pc, c) ==
  th'[Loop].pc \in Past /\ q \in client'.list =>
    /\ ~ sess'[q].killed /\ (c = q => pc \in {"setup", "unref"})
    /\ \A u \in Threads : u # t /\ th[u].cur = q => th[u].pc \in {"setup", "unref"}
StoppedOn(t, r, k) ==
  rtp'[r].stage = "unlisted" /\ rtp'[r].playing =>
    k = r \/ (rtp[r].stage = "unlisted" /\ rtp[r].playing /\ th[t].rtp # r)

\* A step that shows it leaves every session that must end to someone.
LEMMA EndStep ==
  ASSUME EndInv, NEW t \in Threads, NEW pc, NEW c, NEW k, Moves(t, pc, c, k),
         \A q \in Sessions : KeptOn(t, q, pc, c) /\ EmptiedOn(t, q, pc, c) /\ LateOn(t, q, pc, c),
         \A r \in Rtps : StoppedOn(t, r, k)
  PROVE  EndInv'
<1>1. ASSUME NEW q \in Sessions PROVE Kept(q)' /\ Emptied(q)' /\ Late(q)'
  <2>1. /\ KeptOn(t, q, pc, c) /\ EmptiedOn(t, q, pc, c) /\ LateOn(t, q, pc, c)
        /\ Kept(q) /\ Emptied(q) /\ Late(q)
    BY DEF EndInv
  <2>2. Kept(q)'
    BY <2>1 DEF Kept, KeptOn, Moves
  <2>3. Emptied(q)'
    BY <2>1 DEF Emptied, EmptiedOn, Moves, Emptying
  <2>4. Late(q)'
    BY <2>1 DEF Late, LateOn, Moves, Past
  <2> QED BY <2>2, <2>3, <2>4
<1>2. ASSUME NEW r \in Rtps PROVE Stopped(r)'
  <2>1. StoppedOn(t, r, k) /\ Stopped(r)
    BY DEF EndInv
  <2> QED BY <2>1 DEF Stopped, StoppedOn, Moves
<1> QED BY <1>1, <1>2 DEF EndInv

\* A step that ends no session and takes none off its list;
QuietSess ==
  \A q \in Sessions : /\ sess'[q].killed = sess[q].killed
                      /\ sess'[q].stage = "live" => sess[q].stage = "live"
QuietRtp ==
  \A r \in Rtps : /\ rtp'[r].stage = "listed" => rtp[r].stage = "listed" /\ rtp'[r].owner = rtp[r].owner
                  /\ rtp'[r].stage = "unlisted" /\ rtp'[r].playing => rtp[r].stage = "unlisted" /\ rtp[r].playing
\* after the loop has gone through the list, no thread gets at a session in another way.
Harmless(t, pc, c) ==
  /\ t = Loop /\ pc \in Past => th[t].pc \in Past
  /\ c \in Sessions => \/ pc \in {"setup", "unref"}
                       \/ ~ client.killed
                       \/ c = th[t].cur /\ th[t].pc \notin {"setup", "unref"}
\* A step that makes no session, ends none and moves one thread where it owes nothing to the end of
\* a session keeps who ends it.
LEMMA QuietStep ==
  ASSUME IInv, EndInv, NEW t \in Threads, NEW pc, NEW c, NEW k, Moves(t, pc, c, k), QuietSess, QuietRtp,
         client'.list = client.list, k = th[t].rtp, th[t].pc \notin Emptying \cup {"kill"},
         Harmless(t, pc, c)
  PROVE  EndInv'
<1>1. ASSUME NEW q \in Sessions
      PROVE  KeptOn(t, q, pc, c) /\ EmptiedOn(t, q, pc, c) /\ LateOn(t, q, pc, c)
  <2>1. Kept(q) /\ Late(q) /\ Emptied(q)
    BY DEF EndInv
  <2>2. KeptOn(t, q, pc, c)
    BY DEF KeptOn, QuietSess
  <2>3. EmptiedOn(t, q, pc, c)
    BY DEF EmptiedOn, QuietSess, QuietRtp, Listed
  <2>4. ASSUME th'[Loop].pc \in Past PROVE th[Loop].pc \in Past /\ client.killed
    <3>1. th[Loop].pc \in Past
      BY <2>4, Roles DEF Moves, Harmless
    <3> QED BY <3>1 DEF Past, IInv, ClientAt
  <2>5. LateOn(t, q, pc, c)
    BY <2>1, <2>4 DEF LateOn, Late, QuietSess, Harmless, Past
  <2> QED BY <2>2, <2>3, <2>5
<1>2. th[t].rtp = NoRtp
  BY AtThread DEF Emptying
<1>3. \A r \in Rtps : StoppedOn(t, r, k)
  BY <1>2, Roles DEF StoppedOn, QuietRtp
<1> QED BY <1>1, <1>3, EndStep

\* What is left alone is quiet.
LEMMA QuietSame ==
  /\ sess' = sess => QuietSess
  /\ rtp' = rtp => QuietRtp
BY DEF QuietSess, QuietRtp

\* A session that one reference is dropped of is quiet.
LEMMA QuietUnref ==
  ASSUME IInv, NEW s \in Sessions, SessStep(s), Unreffed(sess[s], sess'[s])
  PROVE  QuietSess
BY DEF QuietSess, SessStep, Unreffed

\* Where a thread is after the parts of its record were changed.
LEMMA GotoMoves ==
  ASSUME IInv, NEW t \in Threads, NEW pc \in LoopPcs \cup HandlerPcs, Goto(t, pc)
  PROVE  Moves(t, pc, th[t].cur, th[t].rtp)
BY GotoIs DEF IInv, Moves, ThStep

\* A step that no thread takes and that is quiet.
LEMMA StillStep ==
  ASSUME EndInv, th' = th, QuietSess, QuietRtp, client'.list = client.list
  PROVE  EndInv'
<1>1. ASSUME NEW q \in Sessions PROVE Kept(q)' /\ Emptied(q)' /\ Late(q)'
  <2>1. Kept(q) /\ Emptied(q) /\ Late(q)
    BY DEF EndInv
  <2>2. Listed(q)' \subseteq Listed(q)
    BY DEF QuietRtp, Listed
  <2> QED BY <2>1, <2>2 DEF Kept, Emptied, Late, QuietSess
<1>2. ASSUME NEW r \in Rtps PROVE Stopped(r)'
  BY DEF EndInv, Stopped, QuietRtp
<1> QED BY <1>1, <1>2 DEF EndInv

\* The loop: the connection ends, and the client is let go of.
LEMMA LoopEnds ==
  ASSUME IInv, EndInv, PeerGone \/ Orphan \/ Leave
  PROVE  EndInv'
<1>1. /\ sess' = sess /\ rtp' = rtp /\ Loop \in Threads /\ client \in ClientShape
      /\ th[Loop].pc \in {"polling", "orphan", "leave"}
      /\ \E pc \in {"kill_sessions", "leave", "gone"} :
           Goto(Loop, pc) /\ (pc = "kill_sessions" \/ th[Loop].pc \in Past)
  BY Roles DEF PeerGone, Orphan, Leave, IInv, Shapes, Past
<1>2. client'.list = client.list
  <2>1. CASE PeerGone
    BY <1>1, <2>1 DEF PeerGone, ClientShape
  <2>2. CASE Orphan \/ Leave
    <3>1. PICK c : c = ClientRefs(client, -1)
      OBVIOUS
    <3>2. c \in ClientShape /\ c.list = client.list
      BY <1>1, <3>1, ClientRefsIs DEF Drop
    <3> QED BY <2>2, <3>1, <3>2 DEF Orphan, Leave, ClientShape
  <2> QED BY <2>1, <2>2
<1>3. PICK pc \in {"kill_sessions", "leave", "gone"} : Goto(Loop, pc) /\ (pc = "kill_sessions" \/ th[Loop].pc \in Past)
  BY <1>1
<1>4. Moves(Loop, pc, th[Loop].cur, th[Loop].rtp) /\ th[Loop].cur = NoSession
  <2>1. Moves(Loop, pc, th[Loop].cur, th[Loop].rtp)
    BY <1>1, <1>3, GotoMoves DEF LoopPcs
  <2>2. th[Loop].cur = NoSession
    BY <1>1, AtThread DEF Holding, Ending
  <2> QED BY <2>1, <2>2
<1>5. Harmless(Loop, pc, th[Loop].cur) /\ th[Loop].pc \notin Emptying \cup {"kill"}
  BY <1>1, <1>3, <1>4, Roles DEF Harmless, Past, Emptying
<1> QED BY <1>1, <1>2, <1>4, <1>5, QuietSame, QuietStep

\* A request is read.
LEMMA ReceiveEnds ==
  ASSUME IInv, EndInv, NEW h \in Handlers, NEW m \in Methods, NEW i \in Sessions \cup {NoSession},
         Receive(h, m, i)
  PROVE  EndInv'
<1>1. /\ sess' = sess /\ rtp' = rtp /\ h \in Threads /\ h # Loop /\ client \in ClientShape
      /\ th[h].pc = "idle" /\ client' = ClientRefs(client, 1) /\ th \in [Threads -> ThShape]
  BY Roles DEF Receive, IInv, Shapes
<1>2. client'.list = client.list
  BY <1>1, ClientRefsIs
<1>3. PICK x : /\ th' = [th EXCEPT ![h] = x] /\ x.cur = NoSession /\ x.rtp = NoRtp
               /\ x.pc \in {"transport", "dead", "find"}
  <2>1. PICK pc \in {"transport", "dead", "find"} :
          pc = CASE m = "SETUP" -> "transport" [] m = "OPTIONS" -> "dead" [] OTHER -> "find"
    OBVIOUS
  <2>2. PICK x : x = [Idle EXCEPT !.pc = pc, !.method = m, !.sid = i, !.tries = MaxTries, !.then = "finish"]
    OBVIOUS
  <2>3. th' = [th EXCEPT ![h] = x]
    BY <2>1, <2>2 DEF Receive
  <2>4. x.cur = NoSession /\ x.rtp = NoRtp /\ x.pc = pc
    BY <2>2 DEF Idle
  <2> QED BY <2>3, <2>4
<1>4. Moves(h, x.pc, NoSession, NoRtp)
  BY <1>1, <1>3 DEF Moves
<1>5. th[h].rtp = NoRtp /\ Harmless(h, x.pc, NoSession) /\ th[h].pc \notin Emptying \cup {"kill"}
  BY <1>1, <1>3, AtThread, Roles DEF Harmless, Emptying
<1> QED BY <1>1, <1>2, <1>4, <1>5, QuietSame, QuietStep

\* Time passes and a timer runs out; a writer has left and drops its RTP session.
LEMMA TimeEnds == ASSUME IInv, EndInv, NEW s \in Sessions, TimePasses(s) PROVE EndInv'
<1>1. sess \in [Sessions -> SessShape] /\ sess' = [sess EXCEPT ![s].session_timer = "expired"]
  BY DEF IInv, Shapes, TimePasses
<1>2. QuietSess
  BY <1>1 DEF QuietSess, SessShape
<1> QED BY <1>2, QuietSame, StillStep DEF TimePasses

\* The destruction of a writer ends no session.
LEMMA WriterEnds == ASSUME IInv, EndInv, NEW r \in Rtps, WriterDestroyed(r) PROVE EndInv'
<1>1. rtp \in [Rtps -> RtpShape] /\ Shapes /\ client \in ClientShape /\ LiveStage(rtp[r])
  <2>1. rtp[r].leaving > 0
    BY DEF WriterDestroyed
  <2> QED BY <2>1, Held DEF IInv, Shapes
<1>2. QuietRtp
  <2>1. PICK x : x = [rtp[r] EXCEPT !.leaving = @ - 1, !.refs = @ - 1, !.stage = IF rtp[r].refs = 1 THEN "freed" ELSE @]
    OBVIOUS
  <2>2. rtp' = [rtp EXCEPT ![r] = x]
    BY <1>1, <2>1 DEF WriterDestroyed
  <2>3. x.stage \in {rtp[r].stage, "freed"} /\ x.owner = rtp[r].owner
    BY <1>1, <2>1 DEF RtpShape
  <2>4. x.playing = rtp[r].playing
    BY <1>1, <2>1, Zenon DEF RtpShape
  <2> QED BY <1>1, <2>2, <2>3, <2>4 DEF QuietRtp
<1>3. CASE rtp[r].refs = 1
  <2>1. FinalizeRtp(r) /\ rtp[r].owner \in Sessions
    BY <1>1, <1>3, Held DEF WriterDestroyed
  <2>2. /\ SessStep(rtp[r].owner) /\ Unreffed(sess[rtp[r].owner], sess'[rtp[r].owner])
        /\ Drop(client, client', One(Interleaves(rtp[r])) + One(sess[rtp[r].owner].refs = 1))
    BY <1>1, <2>1, FinalizeIs
  <2>3. QuietSess /\ client'.list = client.list
    BY <2>1, <2>2, QuietUnref DEF Drop
  <2> QED BY <1>2, <2>3, StillStep DEF WriterDestroyed
<1>4. CASE rtp[r].refs # 1
  BY <1>2, <1>4, QuietSame, StillStep DEF WriterDestroyed
<1> QED BY <1>3, <1>4

\* A thread with no session in its hands goes on, and gets none.
LEMMA EmptyHanded ==
  ASSUME IInv, EndInv, NEW t \in Handlers, th[t].pc \notin Holding, NEW pc,
         Moves(t, pc, NoSession, NoRtp), UNCHANGED <<sess, rtp>>, client'.list = client.list
  PROVE  EndInv'
<1>1. t \in Threads /\ t # Loop /\ th[t].rtp = NoRtp /\ th[t].pc \notin Emptying \cup {"kill"}
  BY AtThread, Roles DEF Holding, Ending, Emptying
<1>2. Harmless(t, pc, NoSession)
  BY <1>1, Roles DEF Harmless
<1> QED BY <1>1, <1>2, QuietSame, QuietStep

\* SETUP gets a transport, or none.
LEMMA TransportEnds ==
  ASSUME IInv, EndInv, NEW t \in Handlers, Interleaved(t) \/ TakePorts(t) \/ NoTransportLeft(t)
  PROVE  EndInv'
<1>1. /\ UNCHANGED <<sess, rtp>> /\ th[t].pc = "transport" /\ t \in Threads /\ th \in [Threads -> ThShape]
      /\ th[t].cur = NoSession /\ th[t].rtp = NoRtp /\ client \in ClientShape
  BY AtThread, Roles DEF Interleaved, TakePorts, NoTransportLeft, Holding, Ending, IInv, Shapes
<1>2. client'.list = client.list
  BY <1>1, ClientRefsIs DEF Interleaved, TakePorts, NoTransportLeft
<1>3. \E pc : Moves(t, pc, NoSession, NoRtp)
  <2>1. CASE Interleaved(t)
    BY <1>1, <2>1 DEF Interleaved, Moves, ThShape
  <2>2. CASE NoTransportLeft(t)
    BY <1>1, <2>2 DEF NoTransportLeft, Moves, ThShape
  <2>3. CASE TakePorts(t)
    <3>1. PICK low : \/ th' = [th EXCEPT ![t].pc = IF th[t].sid = NoSession THEN "dead" ELSE "find",
                                         ![t].transport = [mode |-> "udp", low |-> low], ![t].tries = 0]
                     \/ th' = [th EXCEPT ![t].transport.low = low, ![t].tries = @ - 1]
      BY <2>3 DEF TakePorts
    <3>2. CASE th' = [th EXCEPT ![t].pc = IF th[t].sid = NoSession THEN "dead" ELSE "find",
                                ![t].transport = [mode |-> "udp", low |-> low], ![t].tries = 0]
      BY <1>1, <3>2 DEF Moves, ThShape
    <3>3. CASE th' = [th EXCEPT ![t].transport.low = low, ![t].tries = @ - 1]
      BY <1>1, <3>3 DEF Moves, ThShape, Transports
    <3> QED BY <3>1, <3>2, <3>3
  <2> QED BY <2>1, <2>2, <2>3
<1> QED BY <1>1, <1>2, <1>3, EmptyHanded DEF Holding, Ending

\* A thread gets a session of the list while the client is alive, or finds none.
LEMMA HoldEnds ==
  ASSUME IInv, EndInv, NEW t \in Handlers, th[t].pc \notin Holding, ~ client.killed, NEW s \in Sessions,
         NEW pc, NEW then, Hold(t, s, pc, then), UNCHANGED <<client, rtp>>
  PROVE  EndInv'
<1>1. /\ t \in Threads /\ t # Loop /\ th[t].rtp = NoRtp /\ th[t].pc \notin Emptying \cup {"kill"}
      /\ th \in [Threads -> ThShape] /\ sess \in [Sessions -> SessShape]
  BY AtThread, Roles DEF Holding, Ending, Emptying, IInv, Shapes
<1>2. Moves(t, pc, s, NoRtp)
  BY <1>1 DEF Hold, Moves, ThShape
<1>3. QuietSess
  BY <1>1 DEF Hold, QuietSess, SessShape
<1>4. Harmless(t, pc, s)
  BY <1>1 DEF Harmless
<1> QED BY <1>1, <1>2, <1>3, <1>4, QuietSame, QuietStep

\* A request that looks for its session, and finds it, finds it killed, or not at all.
LEMMA FindEnds == ASSUME IInv, EndInv, NEW t \in Handlers, Find(t) \/ FindDead(t) PROVE EndInv'
<1>1. /\ th[t].pc \notin Holding /\ UNCHANGED <<client, rtp>> /\ client.list \subseteq Sessions
      /\ t \in Threads /\ th[t].cur = NoSession /\ th[t].rtp = NoRtp
  BY AtThread, Roles DEF Find, FindDead, Holding, Ending, IInv, Shapes, ClientShape
<1>2. \/ \E pc \in {"finish", "create"} : Goto(t, pc) /\ sess' = sess
      \/ ~ client.killed /\ \E s \in Sessions, pc \in HandlerPcs, then \in {"finish", "dead"} : Hold(t, s, pc, then)
  BY <1>1 DEF Find, FindDead, HandlerPcs, Holding
<1>3. CASE \E pc \in {"finish", "create"} : Goto(t, pc) /\ sess' = sess
  <2>1. PICK pc \in {"finish", "create"} : Goto(t, pc) /\ sess' = sess
    BY <1>3
  <2>2. Moves(t, pc, NoSession, NoRtp)
    BY <1>1, <2>1, GotoMoves DEF HandlerPcs
  <2> QED BY <1>1, <2>1, <2>2, EmptyHanded
<1> QED BY <1>1, <1>2, <1>3, HoldEnds

\* PLAY and PAUSE.
LEMMA PlayTimerEnds == ASSUME IInv, EndInv, NEW t \in Handlers, PlayTimer(t) PROVE EndInv'
<1>1. /\ t \in Threads /\ t # Loop /\ th[t].pc = "play_timer" /\ Goto(t, "play")
      /\ UNCHANGED <<client, rtp>> /\ sess \in [Sessions -> SessShape]
      /\ sess' = [sess EXCEPT ![th[t].cur].session_timer = "off"]
  BY Roles DEF PlayTimer, IInv, Shapes
<1>2. QuietSess
  BY <1>1 DEF QuietSess, SessShape
<1>3. Moves(t, "play", th[t].cur, th[t].rtp)
  BY <1>1, GotoMoves DEF HandlerPcs, Holding
<1>4. Harmless(t, "play", th[t].cur) /\ th[t].pc \notin Emptying \cup {"kill"}
  BY <1>1 DEF Harmless, Emptying
<1> QED BY <1>1, <1>2, <1>3, <1>4, QuietSame, QuietStep

\* PLAY and PAUSE: what they resume is listed.
LEMMA StreamsEnd == ASSUME IInv, EndInv, NEW t \in Handlers, Play(t) \/ Pause(t) PROVE EndInv'
<1>1. /\ t \in Threads /\ t # Loop /\ th[t].pc \in {"play", "pause"} /\ Goto(t, "unref") /\ client' = client
      /\ sess \in [Sessions -> SessShape] /\ rtp \in [Rtps -> RtpShape]
  BY Roles DEF Play, Pause, IInv, Shapes
<1>2. QuietSess
  <2>1. PICK v : sess' \in {sess, [sess EXCEPT ![th[t].cur].cur_state = v]}
    BY DEF Play, Pause
  <2> QED BY <1>1, <2>1 DEF QuietSess, SessShape
<1>3. QuietRtp
  <2>1. ASSUME NEW r \in Rtps
        PROVE  rtp'[r] = rtp[r] \/ (rtp[r].stage = "listed" /\ rtp'[r] \in {Resumed(rtp[r]), Paused(rtp[r])})
    BY <1>1 DEF Play, Pause, Listed
  <2>2. ASSUME NEW r \in Rtps
        PROVE  /\ Resumed(rtp[r]).stage = rtp[r].stage /\ Resumed(rtp[r]).owner = rtp[r].owner
               /\ Paused(rtp[r]).stage = rtp[r].stage /\ Paused(rtp[r]).owner = rtp[r].owner
    BY <1>1, ResumedIs, PausedIs DEF SameStake
  <2>3. ASSUME NEW r \in Rtps
        PROVE  rtp'[r] = rtp[r] \/ (rtp[r].stage = "listed" /\ rtp'[r].stage = "listed" /\ rtp'[r].owner = rtp[r].owner)
    BY <2>1, <2>2
  <2> QED BY <2>3 DEF QuietRtp
<1>4. Moves(t, "unref", th[t].cur, th[t].rtp)
  BY <1>1, GotoMoves DEF HandlerPcs, Holding, Ending
<1>5. Harmless(t, "unref", th[t].cur) /\ th[t].pc \notin Emptying \cup {"kill"}
  BY <1>1 DEF Harmless, Emptying
<1> QED BY <1>1, <1>2, <1>3, <1>4, <1>5, QuietStep

\* A reference to a session is dropped, in a loop over sessions or at the end of a request.
LEMMA UnrefEnds == ASSUME IInv, EndInv, NEW t \in Threads, Unref(t) PROVE EndInv'
<1>1. /\ Shapes /\ th[t].pc = "unref" /\ th[t].cur \in Sessions /\ sess[th[t].cur] \in SessShape
      /\ sess[th[t].cur].refs \in Nat \ {0} /\ th \in [Threads -> ThShape] /\ th[t].rtp = NoRtp
      /\ sess[th[t].cur].stage = "live" /\ client \in ClientShape /\ rtp' = rtp
      /\ UnrefSession(th[t].cur, client)
  BY AtThread DEF Unref, Holding, Ending, Shapes
<1>2. /\ SessStep(th[t].cur) /\ Unreffed(sess[th[t].cur], sess'[th[t].cur])
      /\ Drop(client, client', One(sess[th[t].cur].refs = 1))
  BY <1>1, UnrefIs
<1>3. QuietSess /\ client'.list = client.list
  BY <1>1, <1>2, QuietUnref DEF Drop
<1>4. Moves(t, th[t].then, NoSession, NoRtp)
  BY <1>1 DEF Unref, Moves, ThShape
<1>5. Harmless(t, th[t].then, NoSession) /\ th[t].pc \notin Emptying \cup {"kill"}
  <2>1. t = Loop => th[t].then = "kill_sessions"
    BY <1>1, AtThread DEF Place, Ending
  <2> QED BY <1>1, <2>1, Roles DEF Harmless, Emptying, Past
<1> QED BY <1>1, <1>3, <1>4, <1>5, QuietSame, QuietStep

\* The end of a request.
LEMMA FinishEnds == ASSUME IInv, EndInv, NEW t \in Handlers, Finish(t) PROVE EndInv'
<1>1. /\ Shapes /\ t \in Threads /\ t # Loop /\ th \in [Threads -> ThShape] /\ th[t].rtp = NoRtp
      /\ th[t].transport \in Transports /\ rtp' = rtp /\ th[t].pc \in {"finish", "unref"}
      /\ th' = [th EXCEPT ![t] = Idle]
  BY AtThread, Roles DEF Finish, Shapes
<1>2. Moves(t, "idle", NoSession, NoRtp)
  BY <1>1 DEF Moves, Idle
<1> PICK c : c = ClientRefs(ClientAfterClose(th[t].transport), -1)
  OBVIOUS
<1>3. c \in ClientShape /\ c.list = client.list
  <2>1. Drop(client, ClientAfterClose(th[t].transport), One(th[t].transport.mode = "interleaved"))
    BY <1>1, CloseIs
  <2>2. ClientAfterClose(th[t].transport) \in ClientShape
    BY <2>1 DEF Drop
  <2>3. Drop(ClientAfterClose(th[t].transport), c, 1)
    BY <2>2, ClientRefsIs
  <2> QED BY <2>1, <2>3 DEF Drop
<1>4. QuietSess /\ client'.list = client.list
  <2>1. CASE th[t].pc = "finish"
    BY <1>3, <2>1, QuietSame DEF Finish
  <2>2. CASE th[t].pc = "unref"
    <3>1. /\ UnrefSession(th[t].cur, c) /\ th[t].cur \in Sessions /\ sess[th[t].cur] \in SessShape
          /\ sess[th[t].cur].refs \in Nat \ {0} /\ sess[th[t].cur].stage = "live"
      BY <1>1, <2>2, AtThread DEF Finish, Holding, Ending
    <3>2. SessStep(th[t].cur) /\ Unreffed(sess[th[t].cur], sess'[th[t].cur]) /\ Drop(c, client', One(sess[th[t].cur].refs = 1))
      BY <1>1, <1>3, <3>1, UnrefIs
    <3> QED BY <1>3, <3>1, <3>2, QuietUnref DEF Drop
  <2> QED BY <1>1, <2>1, <2>2
<1>5. Harmless(t, "idle", NoSession) /\ th[t].pc \notin Emptying \cup {"kill"}
  BY <1>1, Roles DEF Harmless, Emptying
<1> QED BY <1>1, <1>2, <1>4, <1>5, QuietSame, QuietStep

\* The loop takes a session off the list, or has gone through it.
LEMMA KillSessionsEnds == ASSUME IInv, EndInv, KillSessions PROVE EndInv'
<1>1. /\ Loop \in Threads /\ th[Loop].pc = "kill_sessions" /\ th \in [Threads -> ThShape]
      /\ client \in ClientShape /\ UNCHANGED <<sess, rtp>> /\ th[Loop].rtp = NoRtp /\ th[Loop].cur = NoSession
  BY AtThread, Roles DEF KillSessions, IInv, Shapes, Holding, Ending
<1>2. ASSUME NEW r \in Rtps, NEW k, k = th[Loop].rtp PROVE StoppedOn(Loop, r, k)
  BY <1>1, <1>2, Roles DEF StoppedOn
<1>3. CASE client.list = {}
  <2>1. Goto(Loop, "orphan") /\ client' = client
    BY <1>3 DEF KillSessions
  <2>2. Moves(Loop, "orphan", NoSession, NoRtp)
    BY <1>1, <2>1, GotoMoves DEF LoopPcs
  <2>3. ASSUME NEW q \in Sessions
        PROVE  /\ KeptOn(Loop, q, "orphan", NoSession) /\ EmptiedOn(Loop, q, "orphan", NoSession)
               /\ LateOn(Loop, q, "orphan", NoSession)
    BY <1>1, <1>3, <2>1 DEF KeptOn, EmptiedOn, LateOn, Listed, Emptying
  <2> QED BY <1>1, <1>2, <2>2, <2>3, EndStep
<1>4. CASE client.list # {}
  <2>1. PICK s \in Sessions :
          /\ client' = [client EXCEPT !.list = @ \ {s}]
          /\ th' = [th EXCEPT ![Loop].pc = "kill", ![Loop].cur = s, ![Loop].then = "kill_sessions"]
    BY <1>1, <1>4 DEF KillSessions, ClientShape
  <2>2. Moves(Loop, "kill", s, NoRtp)
    BY <1>1, <2>1 DEF Moves, ThShape
  <2>3. client'.list = client.list \ {s} /\ th'[Loop].pc = "kill"
    BY <1>1, <2>1, <2>2 DEF ClientShape, Moves
  <2>4. ASSUME NEW q \in Sessions
        PROVE  KeptOn(Loop, q, "kill", s) /\ EmptiedOn(Loop, q, "kill", s) /\ LateOn(Loop, q, "kill", s)
    <3>1. Kept(q)
      BY DEF EndInv
    <3> QED BY <1>1, <2>3, <3>1 DEF KeptOn, EmptiedOn, LateOn, Listed, Emptying, Past
  <2> QED BY <1>1, <1>2, <2>2, <2>4, EndStep
<1> QED BY <1>3, <1>4

\* A thread that ends a session cannot be at one that is on the list after the loop went through it.
LEMMA NotPast ==
  ASSUME IInv, EndInv, NEW t \in Threads, th[t].pc \in Holding \ {"setup", "unref"}
  PROVE  th[Loop].pc \in Past => th[t].cur \notin client.list
<1>1. th[t].cur \in Sessions
  BY AtThread
<1> QED BY <1>1 DEF EndInv, Late, Past

\* rtsp_session_kill: the thread that marks a session is the one that has its RTP sessions to end,
LEMMA KillMarkEnds == ASSUME IInv, EndInv, NEW t \in Threads, KillMark(t) PROVE EndInv'
<1> PICK s : s = th[t].cur
  OBVIOUS
<1>1. /\ th[t].pc = "kill" /\ s \in Sessions /\ th[t].rtp = NoRtp /\ UNCHANGED <<client, rtp>>
      /\ sess \in [Sessions -> SessShape] /\ sess' = [sess EXCEPT ![s].killed = TRUE]
      /\ Goto(t, IF sess[s].killed THEN "unref" ELSE "kill_rtps")
  BY AtThread DEF KillMark, IInv, Shapes, Holding, Ending
<1>2. PICK pc \in {"unref", "kill_rtps"} : pc = IF sess[s].killed THEN "unref" ELSE "kill_rtps"
  OBVIOUS
<1>3. Moves(t, pc, s, NoRtp)
  BY <1>1, <1>2, GotoMoves DEF LoopPcs, Ending
<1>4. /\ sess'[s].killed /\ \A q \in Sessions : q # s => sess'[q] = sess[q]
  <2>1. sess'[s] = [sess[s] EXCEPT !.killed = TRUE] /\ \A q \in Sessions : q # s => sess'[q] = sess[q]
    BY <1>1
  <2>2. PICK k : k = sess[s]
    OBVIOUS
  <2>3. k \in SessShape
    BY <1>1, <2>2
  <2>4. [k EXCEPT !.killed = TRUE].killed
    BY <2>3, ZenonT(30) DEF SessShape
  <2> QED BY <2>1, <2>2, <2>4
<1>5. th[Loop].pc \in Past => s \notin client.list
  BY <1>1, NotPast DEF Holding, Ending
<1>6. th'[Loop].pc \in Past => th[Loop].pc \in Past
  BY <1>1, <1>2, <1>3, Roles DEF Moves, Past
<1>7. ASSUME NEW q \in Sessions PROVE KeptOn(t, q, pc, s) /\ EmptiedOn(t, q, pc, s) /\ LateOn(t, q, pc, s)
  <2>1. Kept(q) /\ Emptied(q) /\ Late(q)
    BY DEF EndInv
  <2>2. KeptOn(t, q, pc, s)
    BY <1>1, <1>4 DEF KeptOn
  <2>3. EmptiedOn(t, q, pc, s)
    BY <1>1, <1>2, <1>4 DEF EmptiedOn, Listed, Emptying
  <2>4. LateOn(t, q, pc, s)
    BY <1>1, <1>2, <1>4, <1>5, <1>6, <2>1 DEF LateOn, Late, Past
  <2> QED BY <2>2, <2>3, <2>4
<1>8. ASSUME NEW r \in Rtps PROVE StoppedOn(t, r, NoRtp)
  BY <1>1, Roles DEF StoppedOn
<1> QED BY <1>3, <1>7, <1>8, EndStep

\* goes on until its list is empty,
LEMMA KillRtpsEnds == ASSUME IInv, EndInv, NEW t \in Threads, KillRtps(t) PROVE EndInv'
<1> PICK s : s = th[t].cur
  OBVIOUS
<1>1. /\ th[t].pc = "kill_rtps" /\ s \in Sessions /\ th[t].rtp = NoRtp /\ UNCHANGED <<client, sess>>
      /\ rtp \in [Rtps -> RtpShape] /\ th \in [Threads -> ThShape]
  BY AtThread DEF KillRtps, IInv, Shapes, Holding, Ending
<1>2. th[Loop].pc \in Past => s \notin client.list
  BY <1>1, NotPast DEF Holding, Ending
<1>3. CASE Listed(s) = {}
  <2>1. Goto(t, "unref") /\ rtp' = rtp
    BY <1>3 DEF KillRtps
  <2>2. Moves(t, "unref", s, NoRtp)
    BY <1>1, <2>1, GotoMoves DEF LoopPcs, Ending
  <2>3. ASSUME NEW q \in Sessions
        PROVE  KeptOn(t, q, "unref", s) /\ EmptiedOn(t, q, "unref", s) /\ LateOn(t, q, "unref", s)
    <3>1. Late(q)
      BY DEF EndInv
    <3>2. Listed(q)' = Listed(q)
      BY <2>1 DEF Listed
    <3>3. th'[Loop].pc \in Past => th[Loop].pc \in Past
      BY <2>2, Roles DEF Moves, Past
    <3> QED BY <1>1, <1>3, <3>1, <3>2, <3>3 DEF KeptOn, EmptiedOn, LateOn, Late, Past
  <2>4. \A r \in Rtps : StoppedOn(t, r, NoRtp)
    BY <1>1, <2>1, Roles DEF StoppedOn
  <2> QED BY <2>2, <2>3, <2>4, EndStep
<1>4. CASE Listed(s) # {}
  <2>1. PICK r \in Listed(s) : /\ rtp' = [rtp EXCEPT ![r].stage = "unlisted"]
                               /\ th' = [th EXCEPT ![t].pc = "kill_rtp", ![t].rtp = r]
    BY <1>4 DEF KillRtps
  <2>2. Moves(t, "kill_rtp", s, r)
    BY <1>1, <2>1 DEF Moves, ThShape
  <2>3. /\ r \in Rtps /\ rtp[r].owner = s /\ rtp[r].stage = "listed" /\ rtp'[r].stage = "unlisted"
        /\ \A q \in Rtps : q # r => rtp'[q] = rtp[q]
    BY <1>1, <2>1 DEF Listed, RtpShape
  <2>4. ASSUME NEW q \in Sessions
        PROVE  KeptOn(t, q, "kill_rtp", s) /\ EmptiedOn(t, q, "kill_rtp", s) /\ LateOn(t, q, "kill_rtp", s)
    <3>1. Late(q)
      BY DEF EndInv
    <3>2. Listed(q)' \subseteq Listed(q)
      BY <2>3 DEF Listed
    <3>3. th'[Loop].pc \in Past => th[Loop].pc \in Past
      BY <2>2, Roles DEF Moves, Past
    <3> QED BY <1>1, <1>2, <3>1, <3>2, <3>3 DEF KeptOn, EmptiedOn, LateOn, Late, Past, Emptying
  <2>5. ASSUME NEW q \in Rtps PROVE StoppedOn(t, q, r)
    BY <1>1, <2>3, Roles DEF StoppedOn
  <2> QED BY <2>2, <2>4, <2>5, EndStep
<1> QED BY <1>3, <1>4

\* and pauses each before it lets it go.
LEMMA KillRtpEnds == ASSUME IInv, EndInv, NEW t \in Threads, KillRtp(t) PROVE EndInv'
<1> PICK s : s = th[t].cur
  OBVIOUS
<1> PICK r : r = th[t].rtp
  OBVIOUS
<1>1. /\ Shapes /\ th[t].pc = "kill_rtp" /\ s \in Sessions /\ r \in Rtps /\ LiveStage(rtp[r])
      /\ rtp \in [Rtps -> RtpShape] /\ th \in [Threads -> ThShape]
  <2>1. Place(t, th[t]) /\ th[t].pc = "kill_rtp" /\ th[t].rtp \in Rtps \cup {NoRtp}
    BY AtThread DEF KillRtp
  <2>2. r \in Rtps
    BY <2>1 DEF Place
  <2> QED BY <2>1, <2>2, AtThread, Held DEF Shapes, Holding, Ending
<1>2. th[Loop].pc \in Past => s \notin client.list
  BY <1>1, NotPast DEF Holding, Ending
<1>3. Moves(t, "kill_rtps", s, NoRtp)
  BY <1>1 DEF KillRtp, Moves, ThShape
<1>4. /\ \A q \in Rtps : q # r => rtp'[q] = rtp[q]
      /\ rtp'[r].stage \in {rtp[r].stage, "freed"} /\ rtp'[r].owner = rtp[r].owner /\ ~ rtp'[r].playing
  <2>1. PICK x \in RtpShape : x = Paused(rtp[r])
    BY <1>1, PausedIs
  <2>2. x.stage = rtp[r].stage /\ x.owner = rtp[r].owner /\ ~ x.playing
    BY <1>1, <2>1, PausedIs DEF SameStake
  <2>3. PICK y : y = [x EXCEPT !.refs = @ - 1, !.stage = IF rtp[r].refs = 1 THEN "freed" ELSE @]
    OBVIOUS
  <2>4. rtp' = [rtp EXCEPT ![r] = y]
    BY <2>1, <2>3 DEF KillRtp
  <2>5. y.stage \in {x.stage, "freed"} /\ y.owner = x.owner
    BY <2>3 DEF RtpShape
  <2>6. y.playing = x.playing
    BY <2>3, Zenon DEF RtpShape
  <2> QED BY <1>1, <2>2, <2>4, <2>5, <2>6
<1>5. QuietSess /\ client'.list = client.list
  <2>1. CASE rtp[r].refs = 1
    <3>1. FinalizeRtp(r) /\ rtp[r].owner \in Sessions
      BY <1>1, <2>1, Held DEF KillRtp
    <3>2. /\ SessStep(rtp[r].owner) /\ Unreffed(sess[rtp[r].owner], sess'[rtp[r].owner])
          /\ Drop(client, client', One(Interleaves(rtp[r])) + One(sess[rtp[r].owner].refs = 1))
      BY <1>1, <3>1, FinalizeIs
    <3> QED BY <3>1, <3>2, QuietUnref DEF Drop
  <2>2. CASE rtp[r].refs # 1
    BY <2>2, QuietSame DEF KillRtp
  <2> QED BY <2>1, <2>2
<1>6. ASSUME NEW q \in Sessions
      PROVE  KeptOn(t, q, "kill_rtps", s) /\ EmptiedOn(t, q, "kill_rtps", s) /\ LateOn(t, q, "kill_rtps", s)
  <2>1. Late(q)
    BY DEF EndInv
  <2>2. Listed(q)' \subseteq Listed(q)
    BY <1>1, <1>4 DEF Listed
  <2>3. th'[Loop].pc \in Past => th[Loop].pc \in Past
    BY <1>3, Roles DEF Moves, Past
  <2>4. KeptOn(t, q, "kill_rtps", s)
    BY <1>1, <1>5 DEF KeptOn, QuietSess
  <2>5. EmptiedOn(t, q, "kill_rtps", s)
    BY <1>1, <1>5, <2>2 DEF EmptiedOn, QuietSess, Emptying
  <2>6. LateOn(t, q, "kill_rtps", s)
    BY <1>1, <1>2, <1>5, <2>1, <2>3 DEF LateOn, Late, QuietSess, Past
  <2> QED BY <2>4, <2>5, <2>6
<1>7. ASSUME NEW q \in Rtps PROVE StoppedOn(t, q, NoRtp)
  BY <1>1, <1>4 DEF StoppedOn
<1> QED BY <1>3, <1>6, <1>7, EndStep

\* The session is off the list when the thread begins to kill it.
LEMMA RemoveEnds == ASSUME IInv, EndInv, NEW t \in Handlers, Remove(t) PROVE EndInv'
<1> PICK s : s = th[t].cur
  OBVIOUS
<1>1. /\ t \in Threads /\ t # Loop /\ th[t].pc = "remove" /\ s \in Sessions /\ th[t].rtp = NoRtp /\ rtp' = rtp
      /\ Goto(t, "kill") /\ client \in ClientShape /\ Shapes
      /\ sess[s] \in SessShape /\ sess[s].stage = "live" /\ sess[s].refs \in Nat \ {0}
  BY AtThread, Roles DEF Remove, IInv, Shapes, Holding, Ending
<1>2. Moves(t, "kill", s, NoRtp)
  BY <1>1, GotoMoves DEF LoopPcs, Ending
<1>3. th[Loop].pc \in Past => s \notin client.list
  BY <1>1, NotPast DEF Holding, Ending
<1>4. QuietSess /\ client'.list \subseteq client.list /\ client.list \subseteq client'.list \cup {s}
  <2>1. CASE client.killed \/ s \notin client.list
    BY <2>1, QuietSame DEF Remove
  <2>2. CASE ~ (client.killed \/ s \notin client.list)
    <3>1. PICK c : c = [client EXCEPT !.list = @ \ {s}]
      OBVIOUS
    <3>2. UnrefSession(s, c) /\ c \in ClientShape /\ c.list = client.list \ {s}
      BY <1>1, <2>2, <3>1 DEF Remove, ClientShape
    <3>3. SessStep(s) /\ Unreffed(sess[s], sess'[s]) /\ Drop(c, client', One(sess[s].refs = 1))
      BY <1>1, <3>2, UnrefIs
    <3> QED BY <1>1, <3>2, <3>3, QuietUnref DEF Drop
  <2> QED BY <2>1, <2>2
<1>5. ASSUME NEW q \in Sessions PROVE KeptOn(t, q, "kill", s) /\ EmptiedOn(t, q, "kill", s) /\ LateOn(t, q, "kill", s)
  <2>1. Late(q)
    BY DEF EndInv
  <2>2. Listed(q)' = Listed(q)
    BY <1>1 DEF Listed
  <2>3. th'[Loop].pc \in Past => th[Loop].pc \in Past
    BY <1>1, <1>2, Roles DEF Moves
  <2>4. KeptOn(t, q, "kill", s)
    BY <1>1, <1>4 DEF KeptOn, QuietSess
  <2>5. EmptiedOn(t, q, "kill", s)
    BY <1>1, <1>4, <2>2 DEF EmptiedOn, QuietSess, Emptying
  <2>6. LateOn(t, q, "kill", s)
    BY <1>1, <1>3, <1>4, <2>1, <2>3 DEF LateOn, Late, QuietSess, Past
  <2> QED BY <2>4, <2>5, <2>6
<1>6. ASSUME NEW q \in Rtps PROVE StoppedOn(t, q, NoRtp)
  BY <1>1, Roles DEF StoppedOn
<1> QED BY <1>1, <1>2, <1>5, <1>6, EndStep

\* A new session is on the list, also after the loop has gone through it.
LEMMA CreateEnds == ASSUME IInv, EndInv, NEW t \in Handlers, Create(t) PROVE EndInv'
<1>1. /\ t \in Threads /\ t # Loop /\ th[t].pc = "create" /\ th[t].cur = NoSession /\ th[t].rtp = NoRtp /\ rtp' = rtp
      /\ client \in ClientShape /\ sess \in [Sessions -> SessShape] /\ th \in [Threads -> ThShape]
  BY AtThread, Roles DEF Create, IInv, Shapes, Holding, Ending
<1>2. PICK s \in Sessions :
        /\ sess[s].stage = "unused"
        /\ sess' = [sess EXCEPT ![s].stage = "live", ![s].refs = 2, ![s].session_timer = "armed"]
        /\ client' = [ClientRefs(client, 1) EXCEPT !.list = @ \cup {s}]
        /\ th' = [th EXCEPT ![t].pc = "setup", ![t].cur = s, ![t].then = "finish"]
  BY DEF Create
<1>3. Moves(t, "setup", s, NoRtp)
  BY <1>1, <1>2 DEF Moves, ThShape
<1>4. client'.list = client.list \cup {s}
  <2>1. PICK c : c = ClientRefs(client, 1)
    OBVIOUS
  <2>2. c \in ClientShape /\ c.list = client.list
    BY <1>1, <2>1, ClientRefsIs
  <2> QED BY <1>2, <2>1, <2>2 DEF ClientShape
<1>5. /\ \A q \in Sessions : q # s => sess'[q] = sess[q]
      /\ sess'[s].killed = sess[s].killed /\ ~ sess[s].killed
  <2>1. ~ sess[s].killed
    BY <1>2 DEF IInv, Alive
  <2> QED BY <1>1, <1>2, <2>1 DEF SessShape
<1>6. \A u \in Threads : th[u].cur # s
  BY <1>2, Held
<1>7. ASSUME NEW q \in Sessions
      PROVE  KeptOn(t, q, "setup", s) /\ EmptiedOn(t, q, "setup", s) /\ LateOn(t, q, "setup", s)
  <2>1. Late(q)
    BY DEF EndInv
  <2>2. Listed(q)' = Listed(q)
    BY <1>1 DEF Listed
  <2>3. th'[Loop].pc \in Past => th[Loop].pc \in Past
    BY <1>1, <1>3, Roles DEF Moves
  <2>4. KeptOn(t, q, "setup", s)
    BY <1>1, <1>4, <1>5 DEF KeptOn
  <2>5. EmptiedOn(t, q, "setup", s)
    BY <1>1, <1>5, <2>2 DEF EmptiedOn, Emptying
  <2>6. LateOn(t, q, "setup", s)
    BY <1>4, <1>5, <1>6, <2>1, <2>3 DEF LateOn, Late, Past
  <2> QED BY <2>4, <2>5, <2>6
<1>8. ASSUME NEW q \in Rtps PROVE StoppedOn(t, q, NoRtp)
  BY <1>1, Roles DEF StoppedOn
<1> QED BY <1>1, <1>3, <1>7, <1>8, EndStep

\* An RTP session is made for a session that was not killed.
LEMMA SetupEnds == ASSUME IInv, EndInv, NEW t \in Handlers, Setup(t) PROVE EndInv'
<1> PICK s : s = th[t].cur
  OBVIOUS
<1>1. /\ t \in Threads /\ t # Loop /\ th[t].pc = "setup" /\ s \in Sessions /\ th[t].rtp = NoRtp /\ client' = client
      /\ sess \in [Sessions -> SessShape] /\ th \in [Threads -> ThShape] /\ rtp \in [Rtps -> RtpShape]
  BY AtThread, Roles DEF Setup, IInv, Shapes, Holding, Ending
<1>2. CASE UNCHANGED <<sess, rtp>> /\ Goto(t, "unref")
  <2>1. Moves(t, "unref", s, NoRtp)
    BY <1>1, <1>2, GotoMoves DEF LoopPcs, Ending
  <2>2. Harmless(t, "unref", s) /\ th[t].pc \notin Emptying \cup {"kill"}
    BY <1>1 DEF Harmless, Emptying
  <2> QED BY <1>1, <1>2, <2>1, <2>2, QuietSame, QuietStep
<1>3. ASSUME ~ sess[s].killed, NEW r \in Rtps, rtp[r].stage = "unused",
             rtp' = [rtp EXCEPT ![r] = [UnusedRtp EXCEPT !.stage = "listed", !.refs = 1,
                                          !.owner = s, !.transport = th[t].transport]],
             sess' = [sess EXCEPT ![s].refs = @ + 1, ![s].told = TRUE,
                                  ![s].cur_state = IF @ = "INIT" THEN "READY" ELSE @],
             th' = [th EXCEPT ![t].pc = "unref", ![t].transport = NoTransport]
      PROVE  EndInv'
  <2>1. Moves(t, "unref", s, NoRtp)
    BY <1>1, <1>3 DEF Moves, ThShape
  <2>2. QuietSess
    BY <1>1, <1>3 DEF QuietSess, SessShape
  <2>3. /\ rtp'[r].stage = "listed" /\ rtp'[r].owner = s /\ \A q \in Rtps : q # r => rtp'[q] = rtp[q]
    BY <1>1, <1>3 DEF UnusedRtp
  <2>4. ASSUME NEW q \in Sessions
        PROVE  KeptOn(t, q, "unref", s) /\ EmptiedOn(t, q, "unref", s) /\ LateOn(t, q, "unref", s)
    <3>1. Late(q)
      BY DEF EndInv
    <3>2. q # s => Listed(q)' \subseteq Listed(q)
      BY <2>3 DEF Listed
    <3>3. th'[Loop].pc \in Past => th[Loop].pc \in Past
      BY <1>1, <2>1, Roles DEF Moves
    <3>4. KeptOn(t, q, "unref", s)
      BY <1>1, <2>2 DEF KeptOn, QuietSess
    <3>5. EmptiedOn(t, q, "unref", s)
      BY <1>1, <1>3, <2>2, <3>2 DEF EmptiedOn, QuietSess, Emptying
    <3>6. LateOn(t, q, "unref", s)
      BY <1>1, <2>2, <3>1, <3>3 DEF LateOn, Late, QuietSess, Past
    <3> QED BY <3>4, <3>5, <3>6
  <2>5. ASSUME NEW q \in Rtps PROVE StoppedOn(t, q, NoRtp)
    BY <1>1, <2>3, Roles DEF StoppedOn
  <2> QED BY <1>1, <2>1, <2>4, <2>5, EndStep
<1> QED BY <1>2, <1>3 DEF Setup

\* Every step keeps who ends a session.
LEMMA EndInvStep == ASSUME IInv, EndInv, [Next]_vars PROVE EndInv'
<1>1. CASE UNCHANGED vars
  <2>1. UNCHANGED <<client, sess, rtp, th>>
    BY <1>1 DEF vars
  <2> QED BY <2>1, QuietSame, StillStep
<1>2. CASE \E h \in Handlers, m \in Methods, s \in Sessions \cup {NoSession} : Receive(h, m, s)
  BY <1>2, ReceiveEnds
<1>3. CASE PeerGone \/ KillSessions \/ Orphan \/ Leave
  BY <1>3, LoopEnds, KillSessionsEnds
<1>4. CASE \E r \in Rtps : WriterDestroyed(r)
  BY <1>4, WriterEnds
<1>5. CASE \E s \in Sessions : TimePasses(s)
  BY <1>5, TimeEnds
<1>6. CASE \E t \in Handlers : Handle(t)
  BY <1>6, FindEnds, RemoveEnds, TransportEnds, CreateEnds, SetupEnds, PlayTimerEnds, StreamsEnd, FinishEnds DEF Handle
<1>7. CASE \E t \in Threads : EndSession(t)
  BY <1>7, KillMarkEnds, KillRtpsEnds, KillRtpEnds, UnrefEnds DEF EndSession
<1> QED BY <1>1, <1>2, <1>3, <1>4, <1>5, <1>6, <1>7 DEF Next

\* It holds before there is one.
LEMMA EndInvInit == ASSUME Init PROVE EndInv
<1>1. \A s \in Sessions : sess[s].stage = "unused" /\ sess[s].killed = FALSE
  <2>1. Unused.stage = "unused"
    BY DEF Unused
  <2>2. Unused.killed = FALSE
    BY Zenon DEF Unused
  <2> QED BY <2>1, <2>2 DEF Init
<1>2. \A r \in Rtps : rtp[r].stage = "unused"
  BY DEF Init, UnusedRtp
<1>3. client.list = {}
  BY DEF Init
<1> QED BY <1>1, <1>2, <1>3 DEF EndInv, Kept, Emptied, Late, Stopped

\* A session that was not killed is on the list or about to be killed, what was killed loses its RTP
\* sessions, and what the loop leaves on the list is never killed (rtsp_session_kill, rtsp_client_kill).
THEOREM EndsHold == Spec => []EndInv
<1>1. Init => EndInv
  BY EndInvInit
<1>2. IInv /\ EndInv /\ [Next]_vars => EndInv'
  BY EndInvStep
<1> QED BY <1>1, <1>2, InvariantHolds, PTL DEF Spec

\* When the connection has ended and every thread is done: the sessions still in the list were made
\* after the loop had gone through it, and no other is alive nor in a thread's hands.
LEMMA OverIs ==
  ASSUME IInv, EndInv, Over
  PROVE  /\ \A s \in client.list : ~ sess[s].killed
         /\ \A s \in Sessions \ client.list : sess[s].stage # "live"
         /\ \A t \in Threads : th[t].cur = NoSession /\ th[t].rtp = NoRtp
<1>1. ASSUME NEW t \in Threads PROVE th[t].cur = NoSession /\ th[t].rtp = NoRtp /\ th[t].pc \in {"gone", "idle"}
  <2>1. th[t].pc \in {"gone", "idle"}
    BY Roles DEF Over
  <2> QED BY <2>1, AtThread DEF Holding, Ending
<1>2. ASSUME NEW s \in client.list PROVE ~ sess[s].killed
  BY Held DEF EndInv, Late, Over
<1>3. ASSUME NEW s \in Sessions, s \notin client.list, sess[s].stage = "live" PROVE FALSE
  <2>1. sess[s].killed
    BY <1>1, <1>3, Roles DEF EndInv, Kept
  <2>2. Listed(s) = {}
    BY <1>1, <2>1, Roles DEF EndInv, Emptied
  <2>3. sess[s].refs = One(s \in client.list) + Cardinality(AtSession(s)) + Cardinality(RtpsOf(s)) /\ sess[s].refs # 0
    BY <1>3, RefsNat DEF IInv, Counts, SessionHolders, AtSession, RtpsOf
  <2>4. One(s \in client.list) = 0 /\ Cardinality(AtSession(s)) = 0
    <3>1. AtSession(s) = {}
      BY <1>1, Roles DEF AtSession
    <3> QED BY <1>3, <3>1, FS_EmptySet DEF One
  <2>5. Cardinality(RtpsOf(s)) \in Nat /\ (RtpsOf(s) = {} => Cardinality(RtpsOf(s)) = 0)
    <3>1. RtpsOf(s) \in SUBSET Rtps
      BY DEF RtpsOf, LiveRtps
    <3> QED BY <3>1, AllFinite, CountSome, FS_EmptySet
  <2>6. PICK r \in Rtps : LiveStage(rtp[r]) /\ rtp[r].owner = s
    BY <2>3, <2>4, <2>5 DEF RtpsOf, LiveRtps, LiveStage
  <2>7. rtp[r].stage = "unlisted"
    BY <2>2, <2>6 DEF Listed, LiveStage
  <2>8. ~ rtp[r].playing
    BY <1>1, <2>6, <2>7, Roles DEF EndInv, Stopped
  <2>9. rtp[r].refs = One(rtp[r].stage = "listed") + Cardinality(AtRtp(r)) + One(rtp[r].playing) + rtp[r].leaving
        /\ rtp[r].refs # 0
    BY <2>6, RtpRefsNat DEF IInv, Counts, RtpHolders, AtRtp
  <2>10. One(rtp[r].stage = "listed") = 0 /\ One(rtp[r].playing) = 0 /\ rtp[r].leaving = 0
    BY <2>6, <2>7, <2>8 DEF One, Over
  <2>11. Cardinality(AtRtp(r)) = 0
    <3>1. AtRtp(r) = {}
      BY <1>1, Roles DEF AtRtp
    <3> QED BY <3>1, FS_EmptySet
  <2> QED BY <2>9, <2>10, <2>11
<1> QED BY <1>1, <1>2, <1>3

\* NothingLeft, for any number of handlers, sessions and requests: what is not killed by the loop
\* or its own end is only what a SETUP made after the loop had gone through the list.
THEOREM NothingIsLeft == Spec => []NothingLeft
<1>1. ASSUME IInv, EndInv PROVE NothingLeft
  <2> SUFFICES ASSUME Over
      PROVE  LET late == {s \in client.list : ~ sess[s].killed}
             IN /\ \A s \in Sessions \ late : sess[s].stage # "live"
                /\ \A r \in LiveRtps : rtp[r].owner \in late
                /\ client.list = late
                /\ client.freed <=> late = {}
    BY DEF NothingLeft
  <2> DEFINE late == {s \in client.list : ~ sess[s].killed}
  <2>1. late = client.list /\ \A s \in Sessions \ late : sess[s].stage # "live"
    BY <1>1, OverIs
  <2>2. ASSUME NEW r \in LiveRtps PROVE rtp[r].owner \in late
    BY <1>1, <2>1, Held DEF LiveRtps, LiveStage
  <2>3. client.freed <=> client.refs = 0
    BY <1>1 DEF IInv, Alive
  <2>4. late # {} => client.refs # 0
    BY <1>1, <2>1, Held
  <2>5. ASSUME late = {} PROVE client.refs = 0
    <3>1. LiveSessions = {} /\ RtpInterleaves = {}
      BY <2>1, <2>2, <2>5 DEF LiveSessions, RtpInterleaves
    <3>2. Busy = {} /\ ThInterleaves = {}
      <4>1. \A h \in Handlers : th[h].pc = "idle" /\ Place(h, th[h])
        BY <1>1, Roles DEF Over, IInv
      <4> QED BY <4>1 DEF Busy, ThInterleaves, Place, Interleaves
    <3>3. ~ client.conns /\ ~ client.in_loop
      BY <1>1 DEF IInv, ClientAt, Over
    <3>4. client.refs = One(client.conns) + One(client.in_loop) + Cardinality(LiveSessions)
                          + Cardinality(Busy) + Cardinality(RtpInterleaves) + Cardinality(ThInterleaves)
      BY <1>1 DEF IInv, Counts, ClientHolders, LiveSessions, Busy, RtpInterleaves, ThInterleaves
    <3>5. One(client.conns) = 0 /\ One(client.in_loop) = 0
      BY <3>3 DEF One
    <3>6. Cardinality({}) = 0
      BY FS_EmptySet
    <3> QED BY <3>1, <3>2, <3>4, <3>5, <3>6
  <2> QED BY <2>1, <2>2, <2>3, <2>4, <2>5
<1>2. IInv /\ EndInv => NothingLeft
  BY <1>1
<1> QED BY <1>2, InvariantHolds, EndsHold, PTL

-----------------------------------------------------------------------------
(* Who owns the ports.                                                      *)

\* RTP sessions and requests that have a UDP transport, and its even port.
Users == Rtps \cup Handlers
Has(x) == IF x \in Rtps THEN rtp[x].transport ELSE th[x].transport
UdpUsers == {x \in Users : Has(x).mode = "udp" /\ (x \in Rtps => LiveStage(rtp[x]))}
Lows == [x \in UdpUsers |-> Has(x).low]

\* The ports of allocator p that are taken are the reserved one and the pairs that H have.
Owned(p, H, low) ==
  /\ Counted(p) /\ p.used = 2 * Cardinality(H)
  /\ \A x \in H : low[x] \in Int /\ Even(low[x]) /\ {low[x], low[x] + 1} \subseteq p.set
  /\ \A x, y \in H : low[x] = low[y] => x = y
  /\ \A a \in p.set : a = Reserved \/ \E x \in H : a \in {low[x], low[x] + 1}
PairsOwned == Owned(pool, UdpUsers, Lows)

\* Whoever looks for a pair finds one free.
PairsLeft ==
  \A t \in Handlers : th[t].pc = "transport" /\ th[t].tries > 0 => FreePairs(pool) # {}

\* Pairs of an even port and its successor are the same or have nothing in common.
LEMMA Parity ==
  ASSUME NEW a \in Int, NEW b \in Int, Even(a), Even(b)
  PROVE  a + 1 # b /\ b + 1 # a /\ ~ Even(a + 1)
BY DEF Even

\* One who has a pair gives it back;
LEMMA OwnedGive ==
  ASSUME NEW p, Shaped(p), NEW H, IsFiniteSet(H), NEW low, Owned(p, H, low), NEW x \in H,
         NEW l, \A y \in H \ {x} : l[y] = low[y]
  PROVE  Owned(PutPair(p, low[x], low[x] + 1), H \ {x}, l)
<1> PICK a : a = low[x]
  OBVIOUS
<1>1. a \in Int /\ Even(a) /\ a \in p.set /\ a + 1 \in p.set /\ a + 1 # a
  BY DEF Owned
<1>2. PICK f : f = PutOne(p, a)
  OBVIOUS
<1>3. Giving(p, a, f)
  BY <1>2, PutOneIs, Zenon
<1>4. Shaped(f)
  BY <1>3 DEF Giving
<1>5. PICK g : g = PutOne(f, a + 1)
  OBVIOUS
<1>6. Giving(f, a + 1, g)
  BY <1>4, <1>5, PutOneIs, Zenon
<1>7. /\ f.set = p.set \ {a} /\ g.set = f.set \ {a + 1} /\ f.used = p.used - 1 /\ g.used = f.used - 1
      /\ g.reserved = p.reserved /\ Shaped(g) /\ p.used \in Int /\ p.reserved \in Int
  BY <1>3, <1>6 DEF Giving, SameRange, Shaped, Pools
<1>8. ~ g.bug
  <2>1. f.bug = (p.bug \/ a \notin p.set) /\ g.bug = (f.bug \/ a + 1 \notin f.set) /\ ~ p.bug
    BY <1>3, <1>6, Zenon DEF Giving, Owned, Counted
  <2>2. a + 1 \in f.set
    BY <1>1, <1>7
  <2> QED BY <1>1, <2>1, <2>2
<1>9. /\ Cardinality(f.set) = Cardinality(p.set) - 1 /\ Cardinality(g.set) = Cardinality(f.set) - 1
      /\ Cardinality(p.set) \in Nat /\ Cardinality(f.set) \in Nat
  <2>1. IsFiniteSet(p.set) /\ IsFiniteSet(f.set) /\ Cardinality(p.set) \in Nat /\ Cardinality(f.set) \in Nat
    BY <1>4, RangeFinite
  <2>2. Cardinality(f.set) = Cardinality(p.set) - 1
    BY <1>1, <1>7, <2>1, FS_RemoveElement
  <2>3. a + 1 \in f.set
    BY <1>1, <1>7
  <2>4. Cardinality(g.set) = Cardinality(f.set) - 1
    BY <1>7, <2>1, <2>3, FS_RemoveElement, ZenonT(30)
  <2> QED BY <2>1, <2>2, <2>4
<1>10. Cardinality(H \ {x}) = Cardinality(H) - 1 /\ Cardinality(H \ {x}) \in Nat /\ Cardinality(H) \in Nat
  BY FS_RemoveElement, FS_CardinalityType
<1>11. Counted(g) /\ g.used = 2 * Cardinality(H \ {x})
  <2>1. p.used + p.reserved = Cardinality(p.set) /\ p.used = 2 * Cardinality(H)
    BY DEF Owned, Counted
  <2> QED BY <1>7, <1>8, <1>9, <1>10, <2>1 DEF Counted
<1>12. ASSUME NEW y \in H \ {x}
       PROVE  l[y] = low[y] /\ l[y] \in Int /\ Even(l[y]) /\ {l[y], l[y] + 1} \subseteq g.set
  <2>1. /\ l[y] = low[y] /\ low[y] \in Int /\ Even(low[y]) /\ {low[y], low[y] + 1} \subseteq p.set /\ low[y] # a
    BY DEF Owned
  <2> QED BY <1>1, <1>7, <2>1, Parity
<1>13. ASSUME NEW b \in g.set PROVE b = Reserved \/ \E y \in H \ {x} : b \in {l[y], l[y] + 1}
  <2>1. b \in p.set /\ b # a /\ b # a + 1
    BY <1>7
  <2> QED BY <1>12, <2>1 DEF Owned
<1>14. \A y, z \in H \ {x} : l[y] = l[z] => y = z
  BY <1>12 DEF Owned
<1>15. PutPair(p, low[x], low[x] + 1) = g
  BY <1>2, <1>5 DEF PutPair
<1> QED BY <1>11, <1>12, <1>13, <1>14, <1>15 DEF Owned

\* one who has none gets one that was free;
LEMMA OwnedTake ==
  ASSUME NEW p, Shaped(p), NEW H, IsFiniteSet(H), NEW low, Owned(p, H, low), NEW x, x \notin H,
         NEW q, Shaped(q), Counted(q), SameRange(p, q), NEW a \in FreePairs(p), q.set = p.set \cup {a, a + 1},
         NEW l, l[x] = a, \A y \in H : l[y] = low[y]
  PROVE  Owned(q, H \cup {x}, l)
<1>1. a \in Int /\ Even(a) /\ a \notin p.set /\ a + 1 \notin p.set /\ a + 1 # a
  BY DEF FreePairs, InRange, Shaped, Pools
<1>2. /\ Cardinality(q.set) = Cardinality(p.set) + 2 /\ Cardinality(p.set) \in Nat
  <2>1. IsFiniteSet(p.set) /\ Cardinality(p.set) \in Nat
    BY RangeFinite
  <2>2. IsFiniteSet(p.set \cup {a}) /\ Cardinality(p.set \cup {a}) = Cardinality(p.set) + 1
    BY <1>1, <2>1, FS_AddElement
  <2>3. PICK c : c = a + 1
    OBVIOUS
  <2>4. q.set = (p.set \cup {a}) \cup {c} /\ c \notin p.set \cup {a}
    BY <1>1, <2>3
  <2>5. Cardinality((p.set \cup {a}) \cup {c}) = Cardinality(p.set \cup {a}) + 1
    BY <2>2, <2>4, FS_AddElement, Zenon
  <2> QED BY <2>1, <2>2, <2>4, <2>5
<1>3. Cardinality(H \cup {x}) = Cardinality(H) + 1 /\ Cardinality(H) \in Nat
  BY FS_AddElement, FS_CardinalityType
<1>4. q.used = 2 * Cardinality(H \cup {x})
  <2>1. p.used + p.reserved = Cardinality(p.set) /\ p.used = 2 * Cardinality(H)
    BY DEF Owned, Counted
  <2>2. PICK u \in Int, v \in Int, w \in Int : u = q.used /\ v = p.reserved /\ w = p.used
    BY DEF Shaped, Pools
  <2>3. u + v = Cardinality(q.set)
    BY <2>2 DEF Counted, SameRange
  <2>4. PICK m \in Nat, n \in Nat : m = Cardinality(p.set) /\ n = Cardinality(H)
    BY <1>2, <1>3
  <2>5. u + v = m + 2 /\ w + v = m /\ w = 2 * n
    BY <1>2, <2>1, <2>2, <2>3, <2>4
  <2>6. u = 2 * (n + 1)
    BY <2>5
  <2> QED BY <1>3, <2>2, <2>4, <2>6
<1>5. ASSUME NEW y \in H
      PROVE  l[y] = low[y] /\ l[y] \in Int /\ Even(l[y]) /\ {l[y], l[y] + 1} \subseteq p.set /\ l[y] # a
  BY <1>1 DEF Owned
<1>6. \A y, z \in H \cup {x} : l[y] = l[z] => y = z
  BY <1>5 DEF Owned
<1>7. ASSUME NEW b \in q.set PROVE b = Reserved \/ \E y \in H \cup {x} : b \in {l[y], l[y] + 1}
  BY <1>5 DEF Owned
<1>8. \A y \in H \cup {x} : l[y] \in Int /\ Even(l[y]) /\ {l[y], l[y] + 1} \subseteq q.set
  BY <1>1, <1>5
<1> QED BY <1>4, <1>6, <1>7, <1>8 DEF Owned

\* one gives its pair to another;
LEMMA OwnedMove ==
  ASSUME NEW p, NEW H, IsFiniteSet(H), NEW low, Owned(p, H, low), NEW x \in H, NEW z, z \notin H,
         NEW l, l[z] = low[x], \A y \in H \ {x} : l[y] = low[y]
  PROVE  Owned(p, (H \ {x}) \cup {z}, l)
<1> PICK G : G = (H \ {x}) \cup {z}
  OBVIOUS
<1>1. Cardinality(G) = Cardinality(H)
  <2>1. IsFiniteSet(H \ {x}) /\ Cardinality(H \ {x}) = Cardinality(H) - 1 /\ Cardinality(H) \in Nat
    BY FS_RemoveElement, FS_CardinalityType
  <2>2. Cardinality(G) = Cardinality(H \ {x}) + 1
    BY <2>1, FS_AddElement
  <2> QED BY <2>1, <2>2
<1>2. \A y \in G : l[y] \in Int /\ Even(l[y]) /\ {l[y], l[y] + 1} \subseteq p.set
  BY DEF Owned
<1>3. \A y, w \in G : l[y] = l[w] => y = w
  BY DEF Owned
<1>4. ASSUME NEW b \in p.set PROVE b = Reserved \/ \E y \in G : b \in {l[y], l[y] + 1}
  <2>1. CASE b = Reserved
    BY <2>1
  <2>2. CASE b # Reserved
    <3>1. PICK y \in H : b \in {low[y], low[y] + 1}
      BY <2>2 DEF Owned
    <3> QED BY <3>1
  <2> QED BY <2>1, <2>2
<1> QED BY <1>1, <1>2, <1>3, <1>4 DEF Owned

\* or nothing changes but where the next search begins.
LEMMA OwnedSame ==
  ASSUME NEW p, NEW q, q.set = p.set, q.used = p.used, q.reserved = p.reserved, q.bug = p.bug,
         NEW H, NEW low, NEW l, \A y \in H : l[y] = low[y], Owned(p, H, low)
  PROVE  Owned(q, H, l)
BY DEF Owned, Counted

\* A step after which x has what it had.
Stays(x) == (x \in UdpUsers' <=> x \in UdpUsers) /\ (x \in UdpUsers => Has(x)'.low = Has(x).low)

\* Those with a UDP transport are finitely many, before and after a step.
LEMMA UdpFinite == UdpUsers \subseteq Users /\ UdpUsers' \subseteq Users /\ IsFiniteSet(UdpUsers) /\ Handlers \cap Rtps = {}
<1>1. IsFiniteSet(Users)
  <2>1. IsFiniteSet(Rtps) /\ IsFiniteSet(Handlers)
    BY AllFinite
  <2> QED BY <2>1, FS_Union DEF Users
<1>2. UdpUsers \subseteq Users /\ UdpUsers' \subseteq Users
  BY DEF UdpUsers, Users
<1> QED BY <1>1, <1>2, FS_Subset, SessionAssumption

\* A step that changes nobody's transport nor the ports keeps their owners;
LEMMA PortsStay ==
  ASSUME PairsOwned, \A x \in Users : Stays(x),
         pool'.set = pool.set, pool'.used = pool.used, pool'.reserved = pool.reserved, pool'.bug = pool.bug
  PROVE  PairsOwned'
<1>1. UdpUsers' = UdpUsers
  BY UdpFinite DEF Stays
<1>2. \A x \in UdpUsers : Lows'[x] = Lows[x]
  BY <1>1, UdpFinite DEF Stays, Lows
<1>3. Owned(pool, UdpUsers, Lows)
  BY DEF PairsOwned
<1>4. Owned(pool', UdpUsers, Lows')
  BY <1>2, <1>3, OwnedSame
<1> QED BY <1>1, <1>4 DEF PairsOwned

\* one that closes the transport of x and gives its pair back keeps the others';
LEMMA PortsGive ==
  ASSUME Shapes, PairsOwned, NEW x \in UdpUsers, x \notin UdpUsers', \A y \in Users \ {x} : Stays(y),
         pool' = PutPair(pool, Has(x).low, Has(x).low + 1)
  PROVE  PairsOwned'
<1>1. UdpUsers' = UdpUsers \ {x}
  BY UdpFinite DEF Stays
<1>2. Lows[x] = Has(x).low /\ \A y \in UdpUsers \ {x} : Lows'[y] = Lows[y]
  BY <1>1, UdpFinite DEF Stays, Lows
<1>3. Owned(pool, UdpUsers, Lows) /\ Shaped(pool) /\ IsFiniteSet(UdpUsers)
  BY UdpFinite DEF PairsOwned, Shapes, PoolShape
<1>4. Owned(PutPair(pool, Lows[x], Lows[x] + 1), UdpUsers \ {x}, Lows')
  BY <1>2, <1>3, OwnedGive
<1> QED BY <1>1, <1>2, <1>4 DEF PairsOwned

\* one that takes a free pair for x gives it to nobody else;
LEMMA PortsTake ==
  ASSUME Shapes, PairsOwned, NEW x \in Users, x \notin UdpUsers, x \in UdpUsers', \A y \in Users \ {x} : Stays(y),
         Shaped(pool'), Counted(pool'), SameRange(pool, pool'), NEW a \in FreePairs(pool), Has(x)'.low = a,
         pool'.set = pool.set \cup {a, a + 1}
  PROVE  PairsOwned'
<1>1. UdpUsers' = UdpUsers \cup {x}
  BY UdpFinite DEF Stays
<1>2. Lows'[x] = a /\ \A y \in UdpUsers : Lows'[y] = Lows[y]
  BY <1>1, UdpFinite DEF Stays, Lows
<1>3. Owned(pool, UdpUsers, Lows) /\ Shaped(pool) /\ IsFiniteSet(UdpUsers)
  BY UdpFinite DEF PairsOwned, Shapes, PoolShape
<1>4. Owned(pool', UdpUsers \cup {x}, Lows')
  BY <1>2, <1>3, OwnedTake
<1> QED BY <1>1, <1>4 DEF PairsOwned

\* and one that hands the pair of x on to z takes it from x.
LEMMA PortsMove ==
  ASSUME PairsOwned, NEW x \in UdpUsers, NEW z \in Users, z \notin UdpUsers, x \notin UdpUsers', z \in UdpUsers',
         \A y \in Users \ {x, z} : Stays(y), Has(z)'.low = Has(x).low, pool' = pool
  PROVE  PairsOwned'
<1>1. UdpUsers' = (UdpUsers \ {x}) \cup {z}
  BY UdpFinite DEF Stays
<1>2. Lows'[z] = Lows[x] /\ \A y \in UdpUsers \ {x} : Lows'[y] = Lows[y]
  BY <1>1, UdpFinite DEF Stays, Lows
<1>3. Owned(pool, UdpUsers, Lows) /\ IsFiniteSet(UdpUsers)
  BY UdpFinite DEF PairsOwned
<1>4. Owned(pool, (UdpUsers \ {x}) \cup {z}, Lows')
  BY <1>2, <1>3, OwnedMove
<1> QED BY <1>1, <1>4 DEF PairsOwned

\* Steps that leave each transport where it is.
Carries(h) ==
  \/ th'[h].transport = th[h].transport
  \/ th[h].transport.mode # "udp" /\ th'[h].transport.mode # "udp"
RtpStays(r) ==
  \/ SameStake(rtp[r], rtp'[r])
  \/ /\ ~ (LiveStage(rtp[r]) /\ rtp[r].transport.mode = "udp")
     /\ ~ (LiveStage(rtp'[r]) /\ rtp'[r].transport.mode = "udp")

\* A request that carries its transport along, and an RTP session whose stage and transport stay,
\* keep what they have.
LEMMA StaysIs ==
  /\ \A h \in Handlers : Carries(h) => Stays(h)
  /\ \A r \in Rtps : RtpStays(r) => Stays(r)
<1>1. ASSUME NEW h \in Handlers, Carries(h) PROVE Stays(h)
  BY <1>1, SessionAssumption DEF Carries, Stays, UdpUsers, Users, Has
<1>2. ASSUME NEW r \in Rtps, RtpStays(r) PROVE Stays(r)
  BY <1>2 DEF RtpStays, SameStake, Stays, UdpUsers, Users, Has
<1> QED BY <1>1, <1>2

\* A step of such requests and RTP sessions that leaves the allocator alone keeps the owners.
LEMMA PortsQuiet ==
  ASSUME PairsOwned, pool' = pool, \A h \in Handlers : Carries(h), \A r \in Rtps : RtpStays(r)
  PROVE  PairsOwned'
<1>1. \A x \in Users : Stays(x)
  BY StaysIs DEF Users
<1> QED BY <1>1, PortsStay

\* The loop, and what ends a session, up to an RTP session's last reference.
LEMMA LoopQuiet ==
  ASSUME IInv, PairsOwned, PeerGone \/ KillSessions \/ Orphan \/ Leave
  PROVE  PairsOwned'
<1>1. /\ rtp' = rtp /\ pool' = pool /\ \A h \in Handlers : th'[h] = th[h]
  BY Roles DEF PeerGone, KillSessions, Orphan, Leave, Goto, IInv, Shapes
<1>2. \A h \in Handlers : Carries(h)
  BY <1>1 DEF Carries
<1>3. \A r \in Rtps : RtpStays(r)
  BY <1>1 DEF RtpStays, SameStake
<1> QED BY <1>1, <1>2, <1>3, PortsQuiet

\* A thread that only goes on.
LEMMA GotoQuiet ==
  ASSUME IInv, PairsOwned, NEW t \in Threads, NEW pc \in LoopPcs \cup HandlerPcs, Goto(t, pc), pool' = pool,
         \A r \in Rtps : SameStake(rtp[r], rtp'[r])
  PROVE  PairsOwned'
<1>1. \A u \in Threads : th'[u].transport = th[u].transport
  BY GotoIs DEF IInv, ThStep
<1>2. \A h \in Handlers : Carries(h)
  BY <1>1, Roles DEF Carries
<1> QED BY <1>2, PortsQuiet DEF RtpStays

\* The end of a session: its mark, its list of RTP sessions, its last reference.
LEMMA EndQuiet ==
  ASSUME IInv, PairsOwned, NEW t \in Threads, KillMark(t) \/ KillRtps(t) \/ Unref(t)
  PROVE  PairsOwned'
<1>1. th \in [Threads -> ThShape] /\ rtp \in [Rtps -> RtpShape] /\ pool' = pool
  BY DEF IInv, Shapes, KillMark, KillRtps, Unref
<1>2. \A u \in Threads : th'[u].transport = th[u].transport
  <2>1. CASE KillMark(t)
    <3>1. PICK pc : th' = [th EXCEPT ![t].pc = pc]
      BY <2>1 DEF KillMark, Goto
    <3> QED BY <1>1, <3>1 DEF ThShape
  <2>2. CASE KillRtps(t)
    <3>1. PICK pc, r : th' \in {[th EXCEPT ![t].pc = pc], [th EXCEPT ![t].pc = pc, ![t].rtp = r]}
      BY <2>2 DEF KillRtps, Goto
    <3> QED BY <1>1, <3>1 DEF ThShape
  <2>3. CASE Unref(t)
    BY <1>1, <2>3 DEF Unref, ThShape
  <2> QED BY <2>1, <2>2, <2>3
<1>3. \A h \in Handlers : Carries(h)
  BY <1>2, Roles DEF Carries
<1>4. \A r \in Rtps : SameStake(rtp[r], rtp'[r])
  <2>1. \/ rtp' = rtp
        \/ \E r \in Rtps : rtp[r].stage = "listed" /\ rtp' = [rtp EXCEPT ![r].stage = "unlisted"]
    BY DEF KillMark, KillRtps, Unref, Listed
  <2> QED BY <1>1, <2>1 DEF SameStake, LiveStage, RtpShape
<1> QED BY <1>1, <1>3, <1>4, PortsQuiet DEF RtpStays

\* Time that passes takes no port.
LEMMA TimeQuiet == ASSUME IInv, PairsOwned, NEW s \in Sessions, TimePasses(s) PROVE PairsOwned'
<1>1. UNCHANGED <<rtp, pool, th>>
  BY DEF TimePasses
<1> QED BY <1>1, PortsQuiet DEF Carries, RtpStays, SameStake

\* Handlers that look for sessions, make one or play it.
LEMMA FindQuiet ==
  ASSUME IInv, PairsOwned, NEW t \in Handlers, Find(t) \/ FindDead(t) \/ Create(t)
  PROVE  PairsOwned'
<1>1. UNCHANGED <<rtp, pool>> /\ th \in [Threads -> ThShape]
  BY DEF IInv, Shapes, Find, FindDead, Create
<1>2. \A u \in Threads : th'[u].transport = th[u].transport
  <2>1. (\E pc : Goto(t, pc)) \/ (\E s, pc, then : Hold(t, s, pc, then)) \/ Create(t)
    BY DEF Find, FindDead
  <2>2. ASSUME NEW pc, Goto(t, pc) PROVE \A u \in Threads : th'[u].transport = th[u].transport
    BY <1>1, <2>2 DEF Goto, ThShape
  <2>3. ASSUME NEW s, NEW pc, NEW then, Hold(t, s, pc, then)
        PROVE  \A u \in Threads : th'[u].transport = th[u].transport
    BY <1>1, <2>3 DEF Hold, ThShape
  <2>4. ASSUME Create(t) PROVE \A u \in Threads : th'[u].transport = th[u].transport
    <3>1. PICK s : th' = [th EXCEPT ![t].pc = "setup", ![t].cur = s, ![t].then = "finish"]
      BY <2>4 DEF Create
    <3> QED BY <1>1, <3>1 DEF ThShape
  <2> QED BY <2>1, <2>2, <2>3, <2>4
<1> QED BY <1>1, <1>2, Roles, PortsQuiet DEF Carries, RtpStays, SameStake

\* TEARDOWN out of the list, the timer, PLAY and PAUSE open no transport and close none.
LEMMA StreamsQuiet ==
  ASSUME IInv, PairsOwned, NEW t \in Handlers, Remove(t) \/ PlayTimer(t) \/ Play(t) \/ Pause(t)
  PROVE  PairsOwned'
<1>1. pool' = pool /\ t \in Threads /\ rtp \in [Rtps -> RtpShape]
  BY Roles DEF Remove, PlayTimer, Play, Pause, IInv, Shapes
<1>2. PICK pc \in {"kill", "play", "unref"} : Goto(t, pc)
  BY DEF Remove, PlayTimer, Play, Pause
<1>3. ASSUME NEW r \in Rtps PROVE SameStake(rtp[r], rtp'[r])
  <2>1. rtp'[r] \in {rtp[r], Resumed(rtp[r]), Paused(rtp[r])}
    BY <1>1 DEF Remove, PlayTimer, Play, Pause
  <2> QED BY <1>1, <2>1, ResumedIs, PausedIs DEF SameStake
<1>4. pc \in LoopPcs \cup HandlerPcs
  BY DEF HandlerPcs, Holding, Ending
<1> QED BY <1>1, <1>2, <1>3, <1>4, GotoQuiet

\* A request begins; its transport is interleaved, or there is none.
LEMMA RequestQuiet ==
  ASSUME IInv, PairsOwned, NEW t \in Handlers, NoTransportLeft(t) \/ Interleaved(t)
  PROVE  PairsOwned'
<1>1. UNCHANGED <<rtp, pool>> /\ th \in [Threads -> ThShape] /\ th[t].pc = "transport" /\ t \in Threads
  BY Roles DEF IInv, Shapes, NoTransportLeft, Interleaved
<1>2. th[t].transport.mode # "udp"
  BY <1>1, AtThread DEF Place
<1>3. th'[t].transport.mode # "udp" /\ \A u \in Handlers : u # t => th'[u] = th[u]
  BY <1>1, Roles DEF NoTransportLeft, Interleaved, ThShape, NoTransport
<1>4. \A h \in Handlers : Carries(h)
  BY <1>2, <1>3 DEF Carries
<1> QED BY <1>1, <1>4, PortsQuiet DEF RtpStays, SameStake

\* A request that arrives has no transport yet.
LEMMA ReceiveQuiet ==
  ASSUME IInv, PairsOwned, NEW h \in Handlers, NEW m \in Methods, NEW i \in Sessions \cup {NoSession},
         Receive(h, m, i)
  PROVE  PairsOwned'
<1>1. UNCHANGED <<rtp, pool>> /\ th \in [Threads -> ThShape] /\ th[h].pc = "idle" /\ h \in Threads
  BY Roles DEF IInv, Shapes, Receive
<1>2. th[h].transport.mode # "udp"
  BY <1>1, AtThread DEF Place
<1>3. th'[h].transport.mode # "udp" /\ \A u \in Handlers : u # h => th'[u] = th[u]
  <2>1. PICK pc \in {"transport", "dead", "find"} :
          pc = CASE m = "SETUP" -> "transport" [] m = "OPTIONS" -> "dead" [] OTHER -> "find"
    OBVIOUS
  <2>2. PICK x : x = [Idle EXCEPT !.pc = pc, !.method = m, !.sid = i, !.tries = MaxTries, !.then = "finish"]
    OBVIOUS
  <2>3. th' = [th EXCEPT ![h] = x]
    BY <2>1, <2>2 DEF Receive
  <2>4. x.transport.mode # "udp"
    BY <2>2 DEF Idle, NoTransport
  <2> QED BY <1>1, <2>3, <2>4, Roles
<1>4. \A u \in Handlers : Carries(u)
  BY <1>2, <1>3 DEF Carries
<1> QED BY <1>1, <1>4, PortsQuiet DEF RtpStays, SameStake

\* An RTP session takes the transport of the request over.
LEMMA SetupPorts == ASSUME IInv, PairsOwned, NEW t \in Handlers, Setup(t) PROVE PairsOwned'
<1>1. /\ t \in Threads /\ th \in [Threads -> ThShape] /\ rtp \in [Rtps -> RtpShape] /\ pool' = pool
  BY Roles DEF Setup, IInv, Shapes
<1>2. CASE UNCHANGED <<sess, rtp>> /\ Goto(t, "unref")
  BY <1>1, <1>2, GotoQuiet DEF SameStake, HandlerPcs, Holding, Ending
<1>3. ASSUME NEW r \in Rtps, rtp[r].stage = "unused", NEW s,
             rtp' = [rtp EXCEPT ![r] = [UnusedRtp EXCEPT !.stage = "listed", !.refs = 1,
                                          !.owner = s, !.transport = th[t].transport]],
             th' = [th EXCEPT ![t].pc = "unref", ![t].transport = NoTransport]
      PROVE  PairsOwned'
  <2>1. /\ LiveStage(rtp'[r]) /\ rtp'[r].transport = th[t].transport /\ ~ LiveStage(rtp[r])
        /\ \A q \in Rtps : q # r => rtp'[q] = rtp[q]
    BY <1>1, <1>3 DEF UnusedRtp, LiveStage
  <2>2. th'[t].transport = NoTransport /\ \A u \in Handlers : u # t => th'[u] = th[u]
    BY <1>1, <1>3, Roles DEF ThShape
  <2>3. /\ \A h \in Handlers : h # t => Stays(h)
        /\ \A q \in Rtps : q # r => Stays(q)
    BY <2>1, <2>2, StaysIs DEF Carries, RtpStays, SameStake
  <2>4. CASE th[t].transport.mode = "udp"
    <3>1. t \in UdpUsers /\ t \notin UdpUsers' /\ r \notin UdpUsers /\ r \in UdpUsers' /\ Has(r)'.low = Has(t).low
          /\ t # r /\ r \in Users
      BY <2>1, <2>2, <2>4, UdpFinite DEF UdpUsers, Has, Users, NoTransport
    <3>2. \A y \in Users \ {t, r} : Stays(y)
      BY <2>3 DEF Users
    <3> QED BY <1>1, <3>1, <3>2, PortsMove
  <2>5. CASE th[t].transport.mode # "udp"
    <3>1. Carries(t) /\ RtpStays(r)
      BY <2>1, <2>2, <2>5 DEF Carries, RtpStays, NoTransport
    <3>2. \A x \in Users : Stays(x)
      BY <2>3, <3>1, StaysIs DEF Users
    <3> QED BY <1>1, <3>2, PortsStay
  <2> QED BY <2>4, <2>5
<1> QED BY <1>2, <1>3 DEF Setup

\* The request is over: the transport it still has is closed.
LEMMA FinishPorts == ASSUME IInv, PairsOwned, NEW t \in Handlers, Finish(t) PROVE PairsOwned'
<1>1. /\ t \in Threads /\ th \in [Threads -> ThShape] /\ rtp' = rtp /\ Shapes
      /\ pool' = PortsAfterClose(th[t].transport) /\ th' = [th EXCEPT ![t] = Idle]
  BY Roles DEF Finish, IInv, Shapes
<1>2. /\ th'[t].transport = NoTransport /\ \A u \in Handlers : u # t => th'[u] = th[u]
  BY <1>1, Roles DEF Idle
<1>3. \A h \in Handlers : h # t => Stays(h)
  BY <1>2, StaysIs DEF Carries
<1>4. \A q \in Rtps : Stays(q)
  BY <1>1, StaysIs DEF RtpStays, SameStake
<1>5. CASE th[t].transport.mode = "udp"
  <2>1. t \in UdpUsers /\ t \notin UdpUsers' /\ Has(t) = th[t].transport
    BY <1>2, <1>5, UdpFinite DEF UdpUsers, Has, Users, NoTransport
  <2>2. \A y \in Users \ {t} : Stays(y)
    BY <1>3, <1>4 DEF Users
  <2>3. pool' = PutPair(pool, Has(t).low, Has(t).low + 1)
    BY <1>1, <1>5, <2>1 DEF PortsAfterClose
  <2> QED BY <1>1, <2>1, <2>2, <2>3, PortsGive
<1>6. CASE th[t].transport.mode # "udp"
  <2>1. Carries(t) /\ pool' = pool
    BY <1>1, <1>2, <1>6 DEF Carries, NoTransport, PortsAfterClose
  <2>2. \A x \in Users : Stays(x)
    BY <1>3, <1>4, <2>1, StaysIs DEF Users
  <2> QED BY <2>1, <2>2, PortsStay
<1> QED BY <1>5, <1>6

\* One reference to an RTP session is dropped; with the last its transport is closed.
LEMMA RtpPorts ==
  ASSUME IInv, PairsOwned, NEW r \in Rtps, LiveStage(rtp[r]),
         \A q \in Rtps : q # r => rtp'[q] = rtp[q],
         rtp'[r].stage = (IF rtp[r].refs = 1 THEN "freed" ELSE rtp[r].stage),
         rtp'[r].owner = rtp[r].owner, rtp'[r].transport = rtp[r].transport,
         IF rtp[r].refs = 1 THEN FinalizeRtp(r) ELSE UNCHANGED <<sess, client, pool>>,
         \A h \in Handlers : th'[h].transport = th[h].transport
  PROVE  PairsOwned'
<1>1. /\ \A h \in Handlers : Stays(h)
      /\ \A q \in Rtps : q # r => Stays(q)
  BY StaysIs DEF Carries, RtpStays, SameStake
<1>2. CASE rtp[r].refs # 1
  <2>1. RtpStays(r) /\ pool' = pool
    BY <1>2 DEF RtpStays, SameStake, LiveStage
  <2>2. \A x \in Users : Stays(x)
    BY <1>1, <2>1, StaysIs DEF Users
  <2> QED BY <2>1, <2>2, PortsStay
<1>3. CASE rtp[r].refs = 1 /\ rtp[r].transport.mode # "udp"
  <2>1. RtpStays(r) /\ pool' = pool
    BY <1>3 DEF RtpStays, FinalizeRtp, PortsAfterClose
  <2>2. \A x \in Users : Stays(x)
    BY <1>1, <2>1, StaysIs DEF Users
  <2> QED BY <2>1, <2>2, PortsStay
<1>4. CASE rtp[r].refs = 1 /\ rtp[r].transport.mode = "udp"
  <2>1. r \in UdpUsers /\ r \notin UdpUsers' /\ Has(r) = rtp[r].transport
    BY <1>4 DEF UdpUsers, Has, Users, LiveStage
  <2>2. \A y \in Users \ {r} : Stays(y)
    BY <1>1 DEF Users
  <2>3. pool' = PutPair(pool, Has(r).low, Has(r).low + 1)
    BY <1>4, <2>1 DEF FinalizeRtp, PortsAfterClose
  <2>4. Shapes
    BY DEF IInv
  <2> QED BY <2>1, <2>2, <2>3, <2>4, PortsGive
<1> QED BY <1>2, <1>3, <1>4

\* The last reference may be the writer's ...
LEMMA WriterPorts == ASSUME IInv, PairsOwned, NEW r \in Rtps, WriterDestroyed(r) PROVE PairsOwned'
<1>1. rtp \in [Rtps -> RtpShape] /\ LiveStage(rtp[r]) /\ th' = th
  <2>1. rtp[r].leaving > 0
    BY DEF WriterDestroyed
  <2> QED BY <2>1, Held DEF IInv, Shapes, WriterDestroyed
<1>2. PICK x : x = [rtp[r] EXCEPT !.leaving = @ - 1, !.refs = @ - 1, !.stage = IF rtp[r].refs = 1 THEN "freed" ELSE @]
  OBVIOUS
<1>3. rtp' = [rtp EXCEPT ![r] = x]
  BY <1>1, <1>2 DEF WriterDestroyed
<1>4. /\ x.stage = (IF rtp[r].refs = 1 THEN "freed" ELSE rtp[r].stage)
      /\ x.owner = rtp[r].owner /\ x.transport = rtp[r].transport
  BY <1>1, <1>2 DEF RtpShape
<1>5. rtp'[r] = x /\ \A q \in Rtps : q # r => rtp'[q] = rtp[q]
  BY <1>1, <1>3
<1>6. IF rtp[r].refs = 1 THEN FinalizeRtp(r) ELSE UNCHANGED <<sess, client, pool>>
  BY DEF WriterDestroyed
<1> QED BY <1>1, <1>4, <1>5, <1>6, RtpPorts

\* ... or the one of the list, when the session is killed.
LEMMA KillRtpPorts == ASSUME IInv, PairsOwned, NEW t \in Threads, KillRtp(t) PROVE PairsOwned'
<1> PICK r : r = th[t].rtp
  OBVIOUS
<1>1. /\ r \in Rtps /\ LiveStage(rtp[r]) /\ rtp \in [Rtps -> RtpShape] /\ th \in [Threads -> ThShape]
  <2>1. Place(t, th[t]) /\ th[t].pc = "kill_rtp" /\ th[t].rtp \in Rtps \cup {NoRtp}
    BY AtThread DEF KillRtp
  <2>2. r \in Rtps
    BY <2>1 DEF Place
  <2> QED BY <2>1, <2>2, Held DEF IInv, Shapes
<1>2. PICK x \in RtpShape : x = Paused(rtp[r])
  BY <1>1, PausedIs
<1>3. x.stage = rtp[r].stage /\ x.owner = rtp[r].owner /\ x.transport = rtp[r].transport
  BY <1>1, <1>2, PausedIs DEF SameStake
<1>4. PICK y : y = [x EXCEPT !.refs = @ - 1, !.stage = IF rtp[r].refs = 1 THEN "freed" ELSE @]
  OBVIOUS
<1>5. rtp' = [rtp EXCEPT ![r] = y]
  BY <1>2, <1>4 DEF KillRtp
<1>6. /\ y.stage = (IF rtp[r].refs = 1 THEN "freed" ELSE rtp[r].stage)
      /\ y.owner = rtp[r].owner /\ y.transport = rtp[r].transport
  BY <1>3, <1>4 DEF RtpShape
<1>7. rtp'[r] = y /\ \A q \in Rtps : q # r => rtp'[q] = rtp[q]
  BY <1>1, <1>5
<1>8. IF rtp[r].refs = 1 THEN FinalizeRtp(r) ELSE UNCHANGED <<sess, client, pool>>
  BY DEF KillRtp
<1>9. \A h \in Handlers : th'[h].transport = th[h].transport
  BY <1>1, Roles DEF KillRtp, ThShape
<1> QED BY <1>1, <1>6, <1>7, <1>8, <1>9, RtpPorts

\* A pair is taken, and given back when it cannot be bound.
LEMMA TakePortsPorts ==
  ASSUME IInv, PairsOwned, PairsLeft, NEW t \in Handlers, TakePorts(t)
  PROVE  PairsOwned'
<1>1. /\ t \in Threads /\ th[t].pc = "transport" /\ th[t].tries > 0 /\ rtp' = rtp /\ th \in [Threads -> ThShape]
      /\ th[t].transport.mode # "udp" /\ Shapes /\ Shaped(pool) /\ th[t].transport \in Transports
  <2>1. th[t].pc = "transport" /\ th[t].tries > 0 /\ rtp' = rtp
    BY DEF TakePorts
  <2> QED BY <2>1, Roles, AtThread DEF Place, Shapes, PoolShape
<1>2. Sane(pool)
  BY <1>1 DEF Sane, PairsOwned, Owned
<1>3. PICK got : got = GetPair(pool)
  OBVIOUS
<1>4. /\ Counted(got.pool) /\ got.low \in FreePairs(pool) /\ got.low # NoPort
      /\ got.pool.set = pool.set \cup {got.low, got.low + 1}
  <2>1. SearchSound(pool)
    BY <1>2, PairSearchIsSound
  <2>2. FreePairs(pool) # {}
    BY <1>1 DEF PairsLeft
  <2> QED BY <1>3, <2>1, <2>2 DEF SearchSound
<1>5. Shaped(got.pool) /\ SameRange(pool, got.pool)
  BY <1>1, <1>3, GetPairShape
<1> PICK low : low = got.low
  OBVIOUS
<1>6. \/ /\ pool' = got.pool
         /\ th' = [th EXCEPT ![t].pc = IF th[t].sid = NoSession THEN "dead" ELSE "find",
                             ![t].transport = [mode |-> "udp", low |-> low], ![t].tries = 0]
      \/ /\ pool' = PutPair(got.pool, low, low + 1)
         /\ th' = [th EXCEPT ![t].transport.low = low, ![t].tries = @ - 1]
  BY <1>3, <1>4 DEF TakePorts
<1>7. t \in Users /\ t \notin UdpUsers /\ \A q \in Rtps : Stays(q)
  BY <1>1, UdpFinite, StaysIs DEF Users, UdpUsers, Has, RtpStays, SameStake
<1>8. ASSUME pool' = got.pool,
             th' = [th EXCEPT ![t].pc = IF th[t].sid = NoSession THEN "dead" ELSE "find",
                              ![t].transport = [mode |-> "udp", low |-> low], ![t].tries = 0]
      PROVE  PairsOwned'
  <2>1. /\ th'[t].transport = [mode |-> "udp", low |-> low] /\ \A u \in Handlers : u # t => th'[u] = th[u]
    BY <1>1, <1>8, Roles DEF ThShape
  <2>2. \A h \in Handlers : h # t => Stays(h)
    BY <2>1, StaysIs DEF Carries
  <2>3. t \in UdpUsers' /\ Has(t)'.low = low
    BY <2>1, UdpFinite DEF UdpUsers, Has, Users
  <2>4. \A y \in Users \ {t} : Stays(y)
    BY <1>7, <2>2 DEF Users
  <2> QED BY <1>1, <1>4, <1>5, <1>7, <1>8, <2>3, <2>4, PortsTake
<1>9. ASSUME pool' = PutPair(got.pool, low, low + 1),
             th' = [th EXCEPT ![t].transport.low = low, ![t].tries = @ - 1]
      PROVE  PairsOwned'
  <2>1. /\ th'[t].transport.mode = th[t].transport.mode /\ \A u \in Handlers : u # t => th'[u] = th[u]
    BY <1>1, <1>9, Roles DEF ThShape, Transports
  <2>2. \A x \in Users : Stays(x)
    BY <1>1, <1>7, <2>1, StaysIs DEF Users, Carries
  <2>3. PICK q : q = PutOne(got.pool, low)
    OBVIOUS
  <2>4. Giving(got.pool, low, q)
    BY <1>5, <2>3, PutOneIs, Zenon
  <2>5. Shaped(q)
    BY <2>4 DEF Giving
  <2>6. PICK f : f = PutOne(q, low + 1)
    OBVIOUS
  <2>7. Giving(q, low + 1, f)
    BY <2>5, <2>6, PutOneIs, Zenon
  <2>8. low \in Int /\ low + 1 # low /\ low \notin pool.set /\ low + 1 \notin pool.set
    BY <1>1, <1>4 DEF FreePairs, InRange, Shaped, Pools
  <2>9. q.set = got.pool.set \ {low} /\ f.set = q.set \ {low + 1}
    BY <2>4, <2>7 DEF Giving
  <2>10. f.set = pool.set
    BY <1>4, <2>8, <2>9
  <2>11. f.used = pool.used /\ f.reserved = pool.reserved
    <3>1. /\ q.used = got.pool.used - 1 /\ f.used = q.used - 1 /\ f.reserved = got.pool.reserved
          /\ got.pool.reserved = pool.reserved
      BY <1>5, <2>4, <2>7 DEF Giving, SameRange
    <3>2. PICK c : c = low + 1
      OBVIOUS
    <3>3. /\ IsFiniteSet(pool.set) /\ Cardinality(pool.set) \in Nat
      BY <1>1, RangeFinite
    <3>4. /\ IsFiniteSet(pool.set \cup {low}) /\ Cardinality(pool.set \cup {low}) = Cardinality(pool.set) + 1
      BY <2>8, <3>3, FS_AddElement
    <3>5. got.pool.set = (pool.set \cup {low}) \cup {c} /\ c \notin pool.set \cup {low}
      BY <1>4, <2>8, <3>2
    <3>6. Cardinality(got.pool.set) = Cardinality(pool.set \cup {low}) + 1
      BY <3>4, <3>5, FS_AddElement, ZenonT(30)
    <3>7. /\ got.pool.used + got.pool.reserved = Cardinality(got.pool.set)
          /\ pool.used + pool.reserved = Cardinality(pool.set)
      BY <1>2, <1>4 DEF Sane, Counted
    <3>8. got.pool.used \in Int /\ pool.used \in Int /\ pool.reserved \in Int
      BY <1>1, <1>5 DEF Shaped, Pools
    <3>9. PICK a \in Int, b \in Int, r \in Int, m \in Nat :
            a = got.pool.used /\ b = pool.used /\ r = pool.reserved /\ m = Cardinality(pool.set)
      BY <3>3, <3>8
    <3>10. a + r = m + 1 + 1 /\ b + r = m
      BY <3>1, <3>4, <3>6, <3>7, <3>9
    <3> QED BY <3>1, <3>9, <3>10
  <2>12. f.bug = pool.bug
    <3>1. low \in got.pool.set /\ low + 1 \in q.set
      BY <1>4, <2>8, <2>9
    <3>2. q.bug = (got.pool.bug \/ low \notin got.pool.set) /\ f.bug = (q.bug \/ low + 1 \notin q.set)
      BY <2>4, <2>7, Zenon DEF Giving
    <3>3. ~ got.pool.bug /\ ~ pool.bug /\ pool.bug \in BOOLEAN /\ f.bug \in BOOLEAN
      BY <1>1, <1>2, <1>4, <2>7 DEF Sane, Counted, Shaped, Pools, Giving
    <3> QED BY <3>1, <3>2, <3>3
  <2>13. pool' = f
    BY <1>9, <2>3, <2>6 DEF PutPair
  <2> QED BY <2>2, <2>10, <2>11, <2>12, <2>13, PortsStay
<1> QED BY <1>6, <1>8, <1>9

\* Every step in which whoever looks for a pair finds one left keeps the owners of the ports.
LEMMA PairsOwnedStep == ASSUME IInv, PairsOwned, PairsLeft, [Next]_vars PROVE PairsOwned'
<1>1. CASE UNCHANGED vars
  BY <1>1, PortsQuiet DEF vars, Carries, RtpStays, SameStake
<1>2. CASE \E h \in Handlers, m \in Methods, s \in Sessions \cup {NoSession} : Receive(h, m, s)
  BY <1>2, ReceiveQuiet
<1>3. CASE PeerGone \/ KillSessions \/ Orphan \/ Leave
  BY <1>3, LoopQuiet
<1>4. CASE \E r \in Rtps : WriterDestroyed(r)
  BY <1>4, WriterPorts
<1>5. CASE \E s \in Sessions : TimePasses(s)
  BY <1>5, TimeQuiet
<1>6. CASE \E t \in Handlers : Handle(t)
  BY <1>6, FindQuiet, StreamsQuiet, RequestQuiet, TakePortsPorts, SetupPorts, FinishPorts DEF Handle
<1>7. CASE \E t \in Threads : EndSession(t)
  BY <1>7, EndQuiet, KillRtpPorts DEF EndSession
<1> QED BY <1>1, <1>2, <1>3, <1>4, <1>5, <1>6, <1>7 DEF Next

\* At first nobody has one.
LEMMA PairsOwnedInit == ASSUME Init PROVE PairsOwned
<1>1. UdpUsers = {}
  <2>1. \A r \in Rtps : ~ LiveStage(rtp[r])
    BY DEF Init, UnusedRtp, LiveStage
  <2>2. \A t \in Handlers : th[t].transport.mode # "udp"
    BY Roles DEF Init, Idle, NoTransport
  <2> QED BY <2>1, <2>2, UdpFinite DEF UdpUsers, Users, Has
<1>2. Shaped(pool) /\ Counted(pool) /\ pool.used = 0 /\ pool.set \subseteq {Reserved}
  <2>1. pool = SetReserved(NewPool(LowPort, HighPort), Reserved)
    BY DEF Init
  <2>2. Sane(pool)
    BY <2>1, NewPoolIs
  <2>3. pool.used = 0 /\ pool.set \subseteq {Reserved}
    BY <2>1 DEF SetReserved, NewPool
  <2> QED BY <2>2, <2>3 DEF Sane
<1>3. Cardinality(UdpUsers) = 0
  BY <1>1, FS_EmptySet
<1> QED BY <1>1, <1>2, <1>3 DEF PairsOwned, Owned

\* As long as whoever looks for a pair of ports finds one free, each pair that is taken belongs to one
\* transport, which gives it back once (rtsp_transport_unicast, rtp_transport_close, ports.c).
LEMMA OwnedIs == ASSUME IInv, PairsOwned PROVE PortsOwned
<1>1. Owned(pool, UdpUsers, Lows)
  BY DEF PairsOwned
<1>2. DOMAIN Open = UdpUsers /\ \A x \in UdpUsers : Open[x] = Lows[x]
  <2> DEFINE R == {r \in LiveRtps : rtp[r].transport.mode = "udp"}
             T == {t \in Handlers : th[t].transport.mode = "udp"}
  <2>1. R \subseteq Rtps /\ T \cap Rtps = {} /\ UdpUsers = R \cup T
    BY UdpFinite DEF UdpUsers, Users, Has, LiveRtps, LiveStage
  <2>2. Open = [x \in R \cup T |-> IF x \in Rtps THEN rtp[x].transport.low ELSE th[x].transport.low]
    BY DEF Open
  <2> HIDE DEF R, T
  <2> QED BY <2>1, <2>2 DEF Lows, Has
<1> QED BY <1>1, <1>2 DEF Owned, PortsOwned

\* The ports that are taken are the pairs of open transports, in every execution in which whoever
\* looks for a pair finds one left (get_port_pair, jpf_media_ports_get_pair).
THEOREM PairsStayOwned == Spec /\ []PairsLeft => []PairsOwned
<1>1. Init => PairsOwned
  BY PairsOwnedInit
<1>2. IInv /\ PairsOwned /\ PairsLeft /\ [Next]_vars => PairsOwned'
  BY PairsOwnedStep
<1> QED BY <1>1, <1>2, InvariantHolds, PTL DEF Spec

\* PortsOwned, under the same condition: no path that fails loses a pair, and none is given back
\* twice or while it is in use.
THEOREM PortsAreOwned == Spec /\ []PairsLeft => []PortsOwned
<1>1. IInv /\ PairsOwned => PortsOwned
  BY OwnedIs
<1> QED BY <1>1, PairsStayOwned, InvariantHolds, PTL

\* ... and the search of the allocator is right in whatever state the sessions leave it.
THEOREM PairsAreFound == Spec /\ []PairsLeft => []PairFound
<1>1. ASSUME IInv, PairsOwned PROVE PairFound
  <2>1. Sane(pool)
    BY <1>1 DEF IInv, Shapes, PoolShape, Sane, PairsOwned, Owned
  <2> QED BY <2>1, PairSearchIsSound DEF PairFound
<1>2. IInv /\ PairsOwned => PairFound
  BY <1>1
<1> QED BY <1>2, PairsStayOwned, InvariantHolds, PTL

\* The pairs of the range of an allocator that has handed none out.
PairsAtFirst ==
  {low \in LowPort .. HighPort - 1 : Even(low) /\ {low, low + 1} \subseteq (LowPort .. HighPort - 1) \ {Reserved}}
EnoughPairs == Cardinality(PairsAtFirst) >= Cardinality(Rtps) + Cardinality(Handlers)

\* A range with a pair for each RTP session and each request there may be has always one left.
LEMMA EnoughIsLeft == ASSUME EnoughPairs, IInv, PairsOwned PROVE PairsLeft
<1> SUFFICES ASSUME NEW t \in Handlers, th[t].pc = "transport", FreePairs(pool) = {}
    PROVE  FALSE
  BY DEF PairsLeft
<1>1. /\ t \in Users /\ t \notin UdpUsers /\ UdpUsers \subseteq Users \ {t} /\ IsFiniteSet(UdpUsers)
      /\ Handlers \cap Rtps = {}
  <2>1. th[t].transport.mode # "udp"
    BY Roles, AtThread DEF Place
  <2> QED BY <2>1, UdpFinite DEF Users, UdpUsers, Has
<1>2. Cardinality(UdpUsers) < Cardinality(PairsAtFirst)
  <2>1. /\ IsFiniteSet(Users) /\ Cardinality(Users) = Cardinality(Rtps) + Cardinality(Handlers)
        /\ Cardinality(Rtps) \in Nat /\ Cardinality(Handlers) \in Nat
    <3>1. Cardinality(Users) = Cardinality(Rtps) + Cardinality(Handlers) - Cardinality(Rtps \cap Handlers)
          /\ IsFiniteSet(Users)
      BY AllFinite, FS_Union DEF Users
    <3>2. Cardinality(Rtps \cap Handlers) = 0
      <4>1. Rtps \cap Handlers = {}
        BY <1>1
      <4> QED BY <4>1, FS_EmptySet
    <3>3. Cardinality(Rtps) \in Nat /\ Cardinality(Handlers) \in Nat
      BY AllFinite, FS_CardinalityType
    <3> QED BY <3>1, <3>2, <3>3
  <2>2. IsFiniteSet(Users \ {t}) /\ Cardinality(Users \ {t}) = Cardinality(Users) - 1
    BY <1>1, <2>1, FS_RemoveElement
  <2>3. Cardinality(UdpUsers) <= Cardinality(Users \ {t}) /\ Cardinality(UdpUsers) \in Nat
    BY <1>1, <2>2, FS_Subset, FS_CardinalityType
  <2>4. Cardinality(PairsAtFirst) \in Nat
    <3>1. IsFiniteSet(LowPort .. HighPort - 1)
      BY SessionAssumption, FS_Interval
    <3>2. PairsAtFirst \in SUBSET (LowPort .. HighPort - 1)
      BY DEF PairsAtFirst
    <3> QED BY <3>1, <3>2, FS_Subset, FS_CardinalityType
  <2> QED BY <2>1, <2>2, <2>3, <2>4 DEF EnoughPairs
<1>3. IsFiniteSet(PairsAtFirst)
  <2>1. IsFiniteSet(LowPort .. HighPort - 1)
    BY SessionAssumption, FS_Interval
  <2>2. PairsAtFirst \in SUBSET (LowPort .. HighPort - 1)
    BY DEF PairsAtFirst
  <2> QED BY <2>1, <2>2, FS_Subset
<1>4. ASSUME NEW a \in PairsAtFirst PROVE \E x \in UdpUsers : Lows[x] = a
  <2>1. InRange(pool) = LowPort .. HighPort - 1
    BY DEF IInv, Shapes, PoolShape, InRange
  <2>2. /\ a \in Int /\ Even(a) /\ a \in InRange(pool) /\ a + 1 \in InRange(pool)
        /\ a # Reserved /\ a + 1 # Reserved
    BY <2>1, SessionAssumption DEF PairsAtFirst
  <2>3. a \in pool.set \/ a + 1 \in pool.set
    BY <2>2 DEF FreePairs
  <2>4. PICK x \in UdpUsers : a \in {Lows[x], Lows[x] + 1} \/ a + 1 \in {Lows[x], Lows[x] + 1}
    BY <2>2, <2>3 DEF PairsOwned, Owned
  <2>5. Lows[x] \in Int /\ Even(Lows[x])
    BY DEF PairsOwned, Owned
  <2> QED BY <2>2, <2>4, <2>5, Parity
<1>5. PICK f \in [PairsAtFirst -> UdpUsers] : \A a \in PairsAtFirst : Lows[f[a]] = a
  <2> DEFINE f == [a \in PairsAtFirst |-> CHOOSE x \in UdpUsers : Lows[x] = a]
  <2>1. f \in [PairsAtFirst -> UdpUsers] /\ \A a \in PairsAtFirst : Lows[f[a]] = a
    BY <1>4
  <2> QED BY <2>1
<1>6. \E a, b \in PairsAtFirst : a # b /\ f[a] = f[b]
  BY <1>1, <1>2, <1>3, FS_PigeonHole
<1> QED BY <1>5, <1>6

\* So the condition holds whenever the range has a pair for each RTP session and each request.
THEOREM PairsSuffice == ASSUME EnoughPairs PROVE Spec => []PairsLeft
<1>1. Init => PairsOwned
  BY PairsOwnedInit
<1>2. IInv /\ PairsOwned => PairsLeft
  BY EnoughIsLeft
<1>3. IInv /\ PairsOwned /\ PairsLeft /\ [Next]_vars => PairsOwned'
  BY PairsOwnedStep
<1> QED BY <1>1, <1>2, <1>3, InvariantHolds, PTL DEF Spec

\* With such a range no pair is ever lost, given back twice or handed out twice, and none is overlooked.
THEOREM NoPortIsLost == ASSUME EnoughPairs PROVE Spec => [](PortsOwned /\ PairFound)
BY PairsSuffice, PortsAreOwned, PairsAreFound, PTL
=================================================================================
