---------------------------- MODULE LiveStreamProofs ----------------------------
(***************************************************************************)
(* Proofs about LiveStream for every number of plays, packets and requests,*)
(* all sizes of messages, of the output and of what the socket takes.      *)
(*                                                                         *)
(* PipeInv: whoever holds an end of a pipe follows from where the handler  *)
(* is and where the loop has the writer.  Only the last pipe belongs to    *)
(* the session; the end that is read is open exactly as long as the        *)
(* session or the loop has its writer, and each open end is a reference    *)
(* of the session.  PipesOwned alone is not inductive: it does not say     *)
(* that the writer is still on its way to the loop when PLAY gives it to   *)
(* the loop, or that the loop still has the writer that it runs.           *)
(*                                                                         *)
(* OutInv: what was sent, then the rest of the message that is being       *)
(* written, then the queue, are the messages that were accepted, unit for  *)
(* unit.  It rests on lemmas about sequences: FlattenSeq is a recursive    *)
(* function, and what is said of it rests on induction over its length,    *)
(* from the least number for which a claim would fail, as in               *)
(* NetWatchProofs.                                                         *)
(***************************************************************************)
EXTENDS LiveStream, SequenceTheorems, FiniteSetTheorems, WellFoundedInduction, TLAPS

--------------------------------------------------------------------------------
(* Sequences of units.                                                      *)

\* A unit is the id of its message.
Stream == Seq(Int)

\* A set of naturals that is not empty has a least member.
LEMMA LeastIs ==
  ASSUME NEW T, T \subseteq Nat, T # {}
  PROVE  \E x \in T : \A y \in T : x <= y
<1> DEFINE R == OpToRel(<, Nat)
<1>1. IsWellFoundedOn(R, Nat)
  BY NatLessThanWellFounded
<1>2. R = {ss \in Nat \X Nat : ss[1] < ss[2]}
  BY DEF OpToRel
<1> HIDE DEF R
<1>3. PICK x \in T : \A y \in T : ~ (<<y, x>> \in R)
  BY <1>1, WFMin
<1>4. ASSUME NEW y \in T PROVE x <= y
  <2>1. x \in Nat /\ y \in Nat
    OBVIOUS
  <2>2. SUFFICES ASSUME y < x PROVE FALSE
    BY <2>1
  <2>3. <<y, x>> \in {ss \in Nat \X Nat : ss[1] < ss[2]}
    BY <2>1, <2>2
  <2>4. <<y, x>> \in R
    BY <2>3, <1>2, Zenon
  <2> QED BY <2>4, <1>3, Zenon
<1> QED BY <1>4

\* Induction on a set up to a number, from the least number that is not in the set.
LEMMA Induct ==
  ASSUME NEW S, NEW m \in Nat, 0 \in S, \A n \in 0 .. m - 1 : n \in S => n + 1 \in S
  PROVE  \A n \in 0 .. m : n \in S
<1> SUFFICES ASSUME NEW n0 \in 0 .. m, n0 \notin S PROVE FALSE
  OBVIOUS
<1> DEFINE T == {n \in 0 .. m : n \notin S}
<1>1. T \subseteq Nat /\ T # {}
  OBVIOUS
<1>2. PICK x \in T : \A y \in T : x <= y
  BY <1>1, LeastIs
<1>3. x # 0
  BY <1>2
<1>4. x - 1 \in 0 .. m - 1 /\ x - 1 \notin T
  BY <1>2, <1>3
<1> QED BY <1>2, <1>4

\* Units put behind units are units, and as many.
LEMMA StreamConcat ==
  /\ <<>> \in Stream
  /\ \A x \in Stream : x \o <<>> = x /\ <<>> \o x = x /\ Len(x) \in Nat
  /\ \A x, y \in Stream : x \o y \in Stream /\ Len(x \o y) = Len(x) + Len(y)
BY ConcatProperties, ConcatEmptySeq, EmptySeq, LenProperties DEF Stream

\* The units of two sequences put together.
LEMMA StreamElements ==
  \A x, y \in Stream :
    /\ Len(x \o y) = Len(x) + Len(y)
    /\ \A i \in 1 .. Len(x) + Len(y) : (x \o y)[i] = IF i <= Len(x) THEN x[i] ELSE y[i - Len(x)]
BY ConcatProperties DEF Stream

\* Sequences of the same units are the same.
LEMMA StreamEqual ==
  \A x, y \in Stream : Len(x) = Len(y) /\ (\A i \in 1 .. Len(x) : x[i] = y[i]) => x = y
BY SeqEqual DEF Stream

\* It is of no account in which order sequences are put together.
LEMMA Associative == \A x, y, z \in Stream : (x \o y) \o z = x \o (y \o z)
<1> DEFINE A(T) == \A x, y, z \in Seq(T) : (x \o y) \o z = x \o (y \o z)
<1>1. \A T : A(T)
  BY ConcatAssociative
<1>2. A(Int)
  <2> HIDE DEF A
  <2> QED BY <1>1
<1> QED BY <1>2, Zenon DEF Stream

\* The first messages of a sequence put together, and all of them.
First(ss) == CHOOSE f : f = [n \in 0 .. Len(ss) |-> IF n = 0 THEN <<>> ELSE f[n - 1] \o ss[n]]

Joined(ss) == First(ss)[Len(ss)]

\* The first n + 1 messages are the first n and the one behind them.
LEMMA FirstDef ==
  ASSUME NEW ss, NEW N \in Nat, Len(ss) = N
  PROVE  /\ First(ss)[0] = <<>>
         /\ \A n \in 0 .. N - 1 : First(ss)[n + 1] = First(ss)[n] \o ss[n + 1]
<1> DEFINE Some(f, m) ==
      /\ f = [n \in 0 .. m |-> f[n]] /\ f[0] = <<>>
      /\ \A n \in 1 .. m : f[n] = f[n - 1] \o ss[n]
<1> DEFINE S == {m \in 0 .. N : \E f : Some(f, m)}
<1>1. 0 \in S
  <2>1. Some([n \in 0 .. 0 |-> <<>>], 0)
    OBVIOUS
  <2>2. 0 \in 0 .. N
    OBVIOUS
  <2> HIDE DEF Some
  <2> QED BY <2>1, <2>2
<1>2. ASSUME NEW m \in 0 .. N - 1, m \in S PROVE m + 1 \in S
  <2>1. PICK f : Some(f, m)
    BY <1>2
  <2>2. PICK g : g = [n \in 0 .. m + 1 |-> IF n = m + 1 THEN f[m] \o ss[n] ELSE f[n]]
    OBVIOUS
  <2>3. g = [n \in 0 .. m + 1 |-> g[n]] /\ g[0] = <<>>
    BY <2>1, <2>2
  <2>4. ASSUME NEW n \in 1 .. m + 1 PROVE g[n] = g[n - 1] \o ss[n]
    <3>1. CASE n = m + 1
      <4>1. g[n] = f[m] \o ss[n] /\ g[n - 1] = f[m]
        BY <2>2, <3>1
      <4> QED BY <4>1
    <3>2. CASE n \in 1 .. m
      <4>1. f[n] = f[n - 1] \o ss[n]
        BY <2>1, <3>2
      <4>2. g[n] = f[n] /\ g[n - 1] = f[n - 1]
        BY <2>2, <3>2
      <4> QED BY <4>1, <4>2
    <3>3. n = m + 1 \/ n \in 1 .. m
      OBVIOUS
    <3> QED BY <3>1, <3>2, <3>3, Zenon
  <2>5. Some(g, m + 1)
    BY <2>3, <2>4
  <2>6. m + 1 \in 0 .. N
    OBVIOUS
  <2> HIDE DEF Some
  <2> QED BY <2>5, <2>6
<1>3. N \in S
  <2> HIDE DEF S
  <2>1. \A n \in 0 .. N - 1 : n \in S => n + 1 \in S
    BY <1>2
  <2>2. \A n \in 0 .. N : n \in S
    BY <1>1, <2>1, Induct, Zenon
  <2> QED BY <2>2
<1>4. PICK f : Some(f, N)
  BY <1>3
<1>5. f = [n \in 0 .. N |-> IF n = 0 THEN <<>> ELSE f[n - 1] \o ss[n]]
  <2>1. \A n \in 0 .. N : f[n] = IF n = 0 THEN <<>> ELSE f[n - 1] \o ss[n]
    BY <1>4
  <2> QED BY <1>4, <2>1
<1>6. PICK h : h = First(ss)
  OBVIOUS
<1>7. h = [n \in 0 .. N |-> IF n = 0 THEN <<>> ELSE h[n - 1] \o ss[n]]
  BY <1>5, <1>6 DEF First
<1>8. h[0] = <<>>
  <2>1. 0 \in 0 .. N
    OBVIOUS
  <2> QED BY <1>7, <2>1, Zenon
<1>9. ASSUME NEW n \in 0 .. N - 1 PROVE h[n + 1] = h[n] \o ss[n + 1]
  <2>1. n + 1 \in 0 .. N /\ n + 1 # 0 /\ (n + 1) - 1 = n
    OBVIOUS
  <2>2. h[n + 1] = h[(n + 1) - 1] \o ss[n + 1]
    BY <1>7, <2>1, Zenon
  <2> QED BY <2>1, <2>2, Zenon
<1> QED BY <1>6, <1>8, <1>9, Zenon

\* Messages put together are units.
LEMMA JoinedTyped ==
  ASSUME NEW ss \in Seq(Stream)
  PROVE  /\ \A n \in 0 .. Len(ss) : First(ss)[n] \in Stream
         /\ Joined(ss) \in Stream
<1> PICK N \in Nat : N = Len(ss)
  BY LenProperties
<1> DEFINE F == First(ss)
<1> DEFINE S == {n \in 0 .. N : F[n] \in Stream}
<1>1. F[0] = <<>> /\ \A n \in 0 .. N - 1 : F[n + 1] = F[n] \o ss[n + 1]
  BY FirstDef
<1> HIDE DEF F
<1>2. 0 \in S
  <2>1. 0 \in 0 .. N /\ <<>> \in Stream
    BY StreamConcat
  <2> QED BY <1>1, <2>1, Zenon
<1>3. ASSUME NEW n \in 0 .. N - 1, n \in S PROVE n + 1 \in S
  <2>1. F[n + 1] = F[n] \o ss[n + 1] /\ F[n] \in Stream
    BY <1>1, <1>3, Zenon
  <2>2. n + 1 \in 0 .. N /\ n + 1 \in 1 .. N
    OBVIOUS
  <2>3. ss[n + 1] \in Stream
    BY <2>2, ElementOfSeq
  <2>4. F[n] \o ss[n + 1] \in Stream
    BY <2>1, <2>3, StreamConcat, Zenon
  <2> QED BY <2>1, <2>2, <2>4, Zenon
<1>4. \A n \in 0 .. N : n \in S
  <2> HIDE DEF S
  <2>1. \A n \in 0 .. N - 1 : n \in S => n + 1 \in S
    BY <1>3
  <2> QED BY <1>2, <2>1, Induct, Zenon
<1>5. \A n \in 0 .. N : F[n] \in Stream
  BY <1>4
<1>6. N \in 0 .. N
  OBVIOUS
<1> QED BY <1>5, <1>6, Zenon DEF F, Joined

\* No message put together gives no unit.
LEMMA JoinedNothing == Joined(<<>>) = <<>>
BY FirstDef DEF Joined

\* What is put together from the same messages is the same.
LEMMA SameFirst ==
  ASSUME NEW ss, NEW tt, NEW k \in Nat, NEW l \in Nat, Len(ss) = k, Len(tt) = l,
         NEW m \in Nat, m <= k, m <= l, \A i \in 1 .. m : ss[i] = tt[i]
  PROVE  First(ss)[m] = First(tt)[m]
<1> DEFINE F == First(ss)
           G == First(tt)
           S == {n \in 0 .. m : F[n] = G[n]}
<1>1. F[0] = <<>> /\ \A n \in 0 .. k - 1 : F[n + 1] = F[n] \o ss[n + 1]
  BY FirstDef
<1>2. G[0] = <<>> /\ \A n \in 0 .. l - 1 : G[n + 1] = G[n] \o tt[n + 1]
  BY FirstDef
<1> HIDE DEF F, G
<1>3. 0 \in S
  BY <1>1, <1>2
<1>4. ASSUME NEW n \in 0 .. m - 1, n \in S PROVE n + 1 \in S
  <2>1. n + 1 \in 0 .. m /\ n + 1 \in 1 .. m /\ n \in 0 .. k - 1 /\ n \in 0 .. l - 1
    OBVIOUS
  <2>2. F[n + 1] = F[n] \o ss[n + 1] /\ G[n + 1] = G[n] \o tt[n + 1]
    BY <1>1, <1>2, <2>1, Zenon
  <2>3. F[n] = G[n] /\ ss[n + 1] = tt[n + 1]
    BY <1>4, <2>1
  <2> QED BY <2>1, <2>2, <2>3, Zenon
<1>5. \A n \in 0 .. m : n \in S
  <2> HIDE DEF S
  <2>1. \A n \in 0 .. m - 1 : n \in S => n + 1 \in S
    BY <1>4
  <2> QED BY <1>3, <2>1, Induct, Zenon
<1> QED BY <1>5 DEF F, G

\* A message more: its units come last.
LEMMA JoinedAppend ==
  ASSUME NEW ss \in Seq(Stream), NEW s \in Stream
  PROVE  Joined(Append(ss, s)) = Joined(ss) \o s
<1> PICK N \in Nat : N = Len(ss)
  BY LenProperties
<1> PICK tt : tt = Append(ss, s)
  OBVIOUS
<1>1. tt \in Seq(Stream) /\ Len(tt) = N + 1 /\ tt[N + 1] = s /\ \A i \in 1 .. N : tt[i] = ss[i]
  BY AppendProperties
<1>2. First(tt)[N] = First(ss)[N]
  <2>1. N + 1 \in Nat /\ N <= N + 1 /\ N <= N
    OBVIOUS
  <2>2. Len(tt) = N + 1 /\ Len(ss) = N /\ \A i \in 1 .. N : tt[i] = ss[i]
    BY <1>1
  <2> QED BY <2>1, <2>2, SameFirst, ZenonT(30)
<1>3. First(tt)[N + 1] = First(tt)[N] \o tt[N + 1]
  <2>1. \A n \in 0 .. (N + 1) - 1 : First(tt)[n + 1] = First(tt)[n] \o tt[n + 1]
    <3>1. N + 1 \in Nat
      OBVIOUS
    <3> QED BY <1>1, <3>1, FirstDef, Zenon
  <2>2. N \in 0 .. (N + 1) - 1
    OBVIOUS
  <2> QED BY <2>1, <2>2, Zenon
<1> QED BY <1>1, <1>2, <1>3, Zenon DEF Joined

\* The units of the first message come first.
LEMMA JoinedTail ==
  ASSUME NEW ss \in Seq(Stream), ss # <<>>
  PROVE  Joined(ss) = Head(ss) \o Joined(Tail(ss))
<1>1. Len(ss) \in Nat \ {0}
  BY EmptySeq
<1> PICK N \in Nat : Len(ss) = N + 1
  <2>1. Len(ss) - 1 \in Nat /\ Len(ss) = (Len(ss) - 1) + 1
    BY <1>1
  <2> QED BY <2>1, Zenon
<1> PICK h \in Stream, tt \in Seq(Stream) : h = Head(ss) /\ tt = Tail(ss)
  BY HeadTailProperties
<1>2. Len(tt) = N /\ ss[1] = h /\ \A i \in 1 .. N : tt[i] = ss[i + 1]
  BY HeadTailProperties
<1> DEFINE F == First(ss)
           G == First(tt)
           S == {n \in 0 .. N : F[n + 1] = h \o G[n]}
<1>3. F[0] = <<>> /\ \A n \in 0 .. N : F[n + 1] = F[n] \o ss[n + 1]
  <2>1. (N + 1) - 1 = N /\ N + 1 \in Nat
    OBVIOUS
  <2> QED BY <2>1, FirstDef
<1>4. G[0] = <<>> /\ \A n \in 0 .. N - 1 : G[n + 1] = G[n] \o tt[n + 1]
  BY <1>2, FirstDef
<1>5. \A n \in 0 .. N : G[n] \in Stream
  BY <1>2, JoinedTyped
<1> HIDE DEF F, G
<1>6. 0 \in S
  <2>1. 0 \in 0 .. N /\ 0 + 1 = 1
    OBVIOUS
  <2>2. F[0 + 1] = F[0] \o ss[0 + 1]
    BY <1>3, <2>1, Zenon
  <2>3. <<>> \o h = h /\ h \o <<>> = h
    BY StreamConcat
  <2>4. F[0 + 1] = h \o G[0]
    BY <1>2, <1>3, <1>4, <2>1, <2>2, <2>3, Zenon
  <2> QED BY <2>1, <2>4, Zenon
<1>7. ASSUME NEW n \in 0 .. N - 1, n \in S PROVE n + 1 \in S
  <2>1. n + 1 \in 0 .. N /\ n \in 0 .. N /\ n + 1 \in 1 .. N
    OBVIOUS
  <2>2. F[(n + 1) + 1] = F[n + 1] \o ss[(n + 1) + 1] /\ F[n + 1] = h \o G[n]
    BY <1>3, <1>7, <2>1, Zenon
  <2>3. G[n + 1] = G[n] \o tt[n + 1] /\ tt[n + 1] = ss[(n + 1) + 1] /\ G[n] \in Stream
    BY <1>2, <1>4, <1>5, <2>1, Zenon
  <2>4. tt[n + 1] \in Stream
    BY <1>2, <2>1, ElementOfSeq
  <2>5. (h \o G[n]) \o tt[n + 1] = h \o (G[n] \o tt[n + 1])
    <3>1. \A x, y, z \in Stream : (x \o y) \o z = x \o (y \o z)
      BY Associative, Zenon
    <3> QED BY <2>3, <2>4, <3>1, Zenon
  <2>6. F[(n + 1) + 1] = h \o G[n + 1]
    BY <2>2, <2>3, <2>5, Zenon
  <2> QED BY <2>1, <2>6, Zenon
<1>8. \A n \in 0 .. N : n \in S
  <2> HIDE DEF S
  <2>1. \A n \in 0 .. N - 1 : n \in S => n + 1 \in S
    BY <1>7
  <2> QED BY <1>6, <2>1, Induct, Zenon
<1>9. F[N + 1] = h \o G[N]
  <2>1. N \in 0 .. N
    OBVIOUS
  <2> QED BY <1>8, <2>1, Zenon
<1> QED BY <1>2, <1>9, Zenon DEF F, G, Joined

\* FlattenSeq puts the messages together.
LEMMA FlattenIs ==
  ASSUME NEW ss \in Seq(Stream)
  PROVE  FlattenSeq(ss) = Joined(ss)
<1> PICK N \in Nat : N = Len(ss)
  BY LenProperties
<1>1. CASE N = 0
  <2>1. ss = <<>>
    BY <1>1, EmptySeq
  <2> QED BY <2>1, JoinedNothing DEF FlattenSeq
<1>2. CASE N # 0
  <2> DEFINE Flat == CHOOSE f : f = [i \in 1 .. N |-> IF i = 1 THEN ss[i] ELSE f[i - 1] \o ss[i]]
             F == First(ss)
  <2>1. FlattenSeq(ss) = Flat[N]
    BY <1>2 DEF FlattenSeq
  <2>2. F[0] = <<>> /\ \A n \in 0 .. N - 1 : F[n + 1] = F[n] \o ss[n + 1]
    BY FirstDef
  <2>3. \A i \in 1 .. N : F[i] = IF i = 1 THEN ss[i] ELSE F[i - 1] \o ss[i]
    <3> HIDE DEF F
    <3> SUFFICES ASSUME NEW i \in 1 .. N PROVE F[i] = IF i = 1 THEN ss[i] ELSE F[i - 1] \o ss[i]
      OBVIOUS
    <3>1. i - 1 \in 0 .. N - 1 /\ (i - 1) + 1 = i
      OBVIOUS
    <3>2. F[i] = F[i - 1] \o ss[i]
      BY <2>2, <3>1, Zenon
    <3>3. ss[i] \in Stream
      BY ElementOfSeq
    <3>4. i = 1 => F[i - 1] = <<>>
      BY <2>2
    <3> QED BY <3>2, <3>3, <3>4, StreamConcat
  <2>4. PICK f : f = [i \in 1 .. N |-> F[i]]
    OBVIOUS
  <2>5. f = [i \in 1 .. N |-> IF i = 1 THEN ss[i] ELSE f[i - 1] \o ss[i]]
    <3> HIDE DEF F
    <3>1. \A i \in 1 .. N : f[i] = F[i]
      BY <2>4
    <3>2. \A i \in 1 .. N : f[i] = IF i = 1 THEN ss[i] ELSE f[i - 1] \o ss[i]
      BY <2>3, <3>1
    <3> QED BY <2>4, <3>2
  <2>6. PICK h : h = Flat
    OBVIOUS
  <2>7. h = [i \in 1 .. N |-> IF i = 1 THEN ss[i] ELSE h[i - 1] \o ss[i]]
    BY <2>5, <2>6
  <2> HIDE DEF F, Flat
  <2> DEFINE S == {n \in 0 .. N : n > 0 => h[n] = F[n]}
  <2>8. 0 \in S
    OBVIOUS
  <2>9. ASSUME NEW n \in 0 .. N - 1, n \in S PROVE n + 1 \in S
    <3>1. n + 1 \in 1 .. N /\ n + 1 \in 0 .. N /\ (n + 1) - 1 = n
      OBVIOUS
    <3>2. h[n + 1] = IF n + 1 = 1 THEN ss[n + 1] ELSE h[(n + 1) - 1] \o ss[n + 1]
      BY <2>7, <3>1, Zenon
    <3>3. F[n + 1] = IF n + 1 = 1 THEN ss[n + 1] ELSE F[(n + 1) - 1] \o ss[n + 1]
      BY <2>3, <3>1, Zenon
    <3>4. n # 0 => h[n] = F[n]
      BY <2>9
    <3>5. h[n + 1] = F[n + 1]
      BY <3>1, <3>2, <3>3, <3>4
    <3> QED BY <3>1, <3>5
  <2>10. N \in S
    <3> HIDE DEF S
    <3>1. \A n \in 0 .. N - 1 : n \in S => n + 1 \in S
      BY <2>9
    <3>2. \A n \in 0 .. N : n \in S
      BY <2>8, <3>1, Induct, Zenon
    <3> QED BY <3>2
  <2>11. h[N] = F[N]
    BY <1>2, <2>10
  <2> QED BY <2>1, <2>6, <2>11, Zenon DEF Joined, F
<1> QED BY <1>1, <1>2

LEMMA PrefixOfConcat == ASSUME NEW a \in Stream, NEW b \in Stream PROVE IsPrefix(a, a \o b)
BY DEF IsPrefix, Stream
--------------------------------------------------------------------------------
(* The output of a connection.                                              *)

Rec == [id : Int, size : Nat]
Outputs == [queue : Seq(Rec), write_buffer : Rec, backlog : Nat]

\* What is left of a message follows what the socket took of it.
LEMMA TakenIs ==
  ASSUME NEW rec \in Rec, NEW free \in Nat
  PROVE  /\ Taken(rec, free) \in Stream /\ Len(Taken(rec, free)) \in 0 .. free
         /\ Rest(rec, free) \in Rec
         /\ (Rest(rec, free).size = 0) <=> rec.size <= free
         /\ Taken(rec, rec.size) \in Stream /\ Len(Taken(rec, rec.size)) = rec.size
         /\ Taken(rec, rec.size)
              = Taken(rec, free) \o Taken(Rest(rec, free), Rest(rec, free).size)
<1>1. PICK i \in Int, n \in Nat : rec.id = i /\ rec.size = n
  BY DEF Rec
<1>2. PICK k \in 0 .. n : k = Least(n, free) /\ k <= free /\ (k = n <=> n <= free)
  BY DEF Least
<1>3. Least(n, n) = n /\ Least(n - k, n - k) = n - k
  BY DEF Least
<1>4. /\ Rest(rec, free) \in Rec
      /\ Rest(rec, free).id = i /\ Rest(rec, free).size = n - k
  BY <1>1, <1>2 DEF Rec, Rest
<1>5. /\ Taken(rec, free) = [j \in 1 .. k |-> i]
      /\ Taken(rec, rec.size) = [j \in 1 .. n |-> i]
      /\ Taken(Rest(rec, free), Rest(rec, free).size) = [j \in 1 .. n - k |-> i]
  BY <1>1, <1>2, <1>3, <1>4 DEF Taken
<1>6. ASSUME NEW m \in Nat PROVE [j \in 1 .. m |-> i] \in Stream /\ Len([j \in 1 .. m |-> i]) = m
  BY DEF Stream
<1>7. n - k \in Nat /\ k \in Nat
  OBVIOUS
<1>8. PICK a \in Stream, b \in Stream, c \in Stream :
        /\ a = [j \in 1 .. k |-> i] /\ b = [j \in 1 .. n - k |-> i] /\ c = [j \in 1 .. n |-> i]
        /\ Len(a) = k /\ Len(b) = n - k /\ Len(c) = n
  BY <1>6, <1>7
<1>9. c = a \o b
  <2>1. a \o b \in Stream /\ Len(a \o b) = n
    BY <1>8, StreamConcat
  <2>2. \A j \in 1 .. n : (a \o b)[j] = i
    <3> SUFFICES ASSUME NEW j \in 1 .. n PROVE (a \o b)[j] = i
      OBVIOUS
    <3>1. (a \o b)[j] = IF j <= k THEN a[j] ELSE b[j - k]
      BY <1>8, StreamElements
    <3>2. j <= k => a[j] = i
      BY <1>8
    <3>3. ~ (j <= k) => b[j - k] = i
      BY <1>8
    <3> QED BY <3>1, <3>2, <3>3
  <2>3. \A j \in 1 .. n : c[j] = i
    BY <1>8
  <2> QED BY <1>8, <2>1, <2>2, <2>3, StreamEqual
<1> QED BY <1>1, <1>2, <1>4, <1>5, <1>8, <1>9, SMTT(30)

\* The messages of a sequence, each as its units.
Whole(recs) == [i \in DOMAIN recs |-> Taken(recs[i], recs[i].size)]

LEMMA WholeIs ==
  ASSUME NEW recs \in Seq(Rec)
  PROVE  /\ Whole(recs) \in Seq(Stream) /\ Len(Whole(recs)) = Len(recs)
         /\ Units(recs) = Joined(Whole(recs)) /\ Units(recs) \in Stream
         /\ Len(Units(recs)) \in Nat
<1>1. \A i \in 1 .. Len(recs) : Taken(recs[i], recs[i].size) \in Stream
  <2> SUFFICES ASSUME NEW i \in 1 .. Len(recs) PROVE Taken(recs[i], recs[i].size) \in Stream
    OBVIOUS
  <2>1. recs[i] \in Rec
    BY ElementOfSeq
  <2> QED BY <2>1, TakenIs DEF Rec
<1>2. Whole(recs) \in Seq(Stream) /\ Len(Whole(recs)) = Len(recs)
  BY <1>1 DEF Whole
<1>3. Units(recs) = FlattenSeq(Whole(recs))
  BY DEF Units, Whole
<1> QED BY <1>2, <1>3, FlattenIs, JoinedTyped, StreamConcat

LEMMA UnitsNothing == Units(<<>>) = <<>> /\ <<>> \in Seq(Rec) /\ Len(<<>>) = 0
<1>1. <<>> \in Seq(Rec) /\ Len(<<>>) = 0
  BY EmptySeq
<1>2. Whole(<<>>) = <<>>
  <2>1. Len(Whole(<<>>)) = 0 /\ Whole(<<>>) \in Seq(Stream)
    BY <1>1, WholeIs
  <2> QED BY <2>1, EmptySeq
<1> QED BY <1>1, <1>2, WholeIs, JoinedNothing

LEMMA UnitsAppend ==
  ASSUME NEW recs \in Seq(Rec), NEW rec \in Rec
  PROVE  /\ Append(recs, rec) \in Seq(Rec)
         /\ Units(Append(recs, rec)) = Units(recs) \o Taken(rec, rec.size)
<1>1. PICK more \in Seq(Rec) : more = Append(recs, rec)
  BY AppendProperties
<1>2. /\ Len(more) = Len(recs) + 1 /\ more[Len(recs) + 1] = rec
      /\ \A i \in 1 .. Len(recs) : more[i] = recs[i]
  BY <1>1, AppendProperties
<1>3. Taken(rec, rec.size) \in Stream
  BY TakenIs DEF Rec
<1>4. PICK n \in Nat : n = Len(recs)
  BY LenProperties
<1>5. PICK a \in Seq(Stream), b \in Seq(Stream) :
        a = Whole(recs) /\ b = Whole(more) /\ Len(a) = n /\ Len(b) = n + 1
  BY <1>2, <1>4, WholeIs
<1>6. b = Append(a, Taken(rec, rec.size))
  <2>1. \A i \in 1 .. n : b[i] = a[i]
    BY <1>2, <1>4, <1>5 DEF Whole
  <2>2. b[n + 1] = Taken(rec, rec.size)
    BY <1>2, <1>4, <1>5 DEF Whole
  <2> QED BY <1>3, <1>5, <2>1, <2>2
<1>7. Joined(b) = Joined(a) \o Taken(rec, rec.size)
  BY <1>3, <1>6, JoinedAppend
<1> QED BY <1>1, <1>5, <1>7, WholeIs

LEMMA UnitsHead ==
  ASSUME NEW recs \in Seq(Rec), recs # <<>>
  PROVE  /\ Head(recs) \in Rec /\ Tail(recs) \in Seq(Rec)
         /\ Units(recs) = Taken(Head(recs), Head(recs).size) \o Units(Tail(recs))
         /\ Len(Units(recs)) = Head(recs).size + Len(Units(Tail(recs)))
<1>1. PICK n \in Nat : Len(recs) = n + 1
  <2>1. Len(recs) \in Nat \ {0}
    BY EmptySeq
  <2>2. Len(recs) - 1 \in Nat /\ Len(recs) = (Len(recs) - 1) + 1
    BY <2>1
  <2> QED BY <2>2, Zenon
<1>2. PICK h \in Rec, t \in Seq(Rec) :
        /\ h = Head(recs) /\ t = Tail(recs) /\ Len(t) = n /\ recs[1] = h
        /\ \A i \in 1 .. n : t[i] = recs[i + 1]
  <2>1. /\ Head(recs) \in Rec /\ Tail(recs) \in Seq(Rec) /\ Len(Tail(recs)) = n
        /\ Head(recs) = recs[1] /\ \A i \in 1 .. n : Tail(recs)[i] = recs[i + 1]
    BY <1>1, HeadTailProperties
  <2> QED BY <2>1
<1>3. PICK a \in Seq(Stream), b \in Seq(Stream) :
        a = Whole(recs) /\ b = Whole(t) /\ Len(a) = n + 1 /\ Len(b) = n
  BY <1>1, <1>2, WholeIs
<1>4. a # <<>> /\ Head(a) = Taken(h, h.size) /\ Tail(a) = b
  <2>1. a[1] = Taken(h, h.size)
    BY <1>1, <1>2, <1>3 DEF Whole
  <2>2. \A i \in 1 .. n : b[i] = a[i + 1]
    BY <1>1, <1>2, <1>3 DEF Whole
  <2> QED BY <1>3, <2>1, <2>2
<1>5. Joined(a) = Taken(h, h.size) \o Joined(b)
  BY <1>4, JoinedTail
<1>6. Units(recs) = Taken(h, h.size) \o Units(t) /\ Units(t) \in Stream
  BY <1>2, <1>3, <1>5, WholeIs
<1>7. Taken(h, h.size) \in Stream /\ Len(Taken(h, h.size)) = h.size
  BY TakenIs DEF Rec
<1>8. Len(Units(recs)) = h.size + Len(Units(t))
  BY <1>6, <1>7, StreamConcat
<1> QED BY <1>2, <1>6, <1>8

\* The units that the output owes the socket, and an output with an exact count.
Owed(o) == Taken(o.write_buffer, o.write_buffer.size) \o Units(o.queue)
GoodOutput(o) == o \in Outputs /\ BacklogExact(o)

LEMMA OutputIs ==
  ASSUME NEW o, GoodOutput(o)
  PROVE  /\ o.queue \in Seq(Rec) /\ o.write_buffer \in Rec /\ o.backlog \in Nat
         /\ o.write_buffer.size \in Nat
         /\ Units(o.queue) \in Stream /\ o.backlog = Len(Units(o.queue))
         /\ Taken(o.write_buffer, o.write_buffer.size) \in Stream
         /\ Owed(o) \in Stream /\ Len(Owed(o)) = o.write_buffer.size + o.backlog
         /\ EmptyOutput(o) => Owed(o) = <<>> /\ o.backlog = 0
<1>1. o.queue \in Seq(Rec) /\ o.write_buffer \in Rec /\ o.backlog \in Nat /\ o.write_buffer.size \in Nat
  BY DEF GoodOutput, Outputs, Rec
<1>2. Units(o.queue) \in Stream /\ o.backlog = Len(Units(o.queue))
  BY <1>1, WholeIs DEF GoodOutput, BacklogExact
<1>3. /\ Taken(o.write_buffer, o.write_buffer.size) \in Stream
      /\ Len(Taken(o.write_buffer, o.write_buffer.size)) = o.write_buffer.size
  BY <1>1, TakenIs
<1>4. Owed(o) \in Stream /\ Len(Owed(o)) = o.write_buffer.size + o.backlog
  BY <1>2, <1>3, StreamConcat DEF Owed
<1>5. ASSUME EmptyOutput(o) PROVE Owed(o) = <<>> /\ o.backlog = 0
  <2>1. o.backlog = 0
    BY <1>2, <1>5, UnitsNothing DEF EmptyOutput
  <2>2. o.write_buffer.size = 0
    BY <1>5 DEF EmptyOutput, NoRec
  <2> QED BY <1>4, <2>1, <2>2, EmptySeq DEF Stream
<1> QED BY <1>1, <1>2, <1>3, <1>4, <1>5

LEMMA EnqueueIs ==
  ASSUME NEW o, GoodOutput(o), NEW rec \in Rec
  PROVE  /\ GoodOutput(Enqueue(o, rec))
         /\ Enqueue(o, rec).write_buffer = o.write_buffer
         /\ Owed(Enqueue(o, rec)) = Owed(o) \o Taken(rec, rec.size)
<1>1. PICK e : e = Enqueue(o, rec)
  OBVIOUS
<1>2. rec.size \in Nat /\ Taken(rec, rec.size) \in Stream /\ Len(Taken(rec, rec.size)) = rec.size
  BY TakenIs DEF Rec
<1>3. /\ e \in Outputs /\ e.queue = Append(o.queue, rec) /\ e.write_buffer = o.write_buffer
      /\ e.backlog = o.backlog + rec.size
  <2>1. PICK q \in Seq(Rec), b \in Rec, n \in Nat : o = [queue |-> q, write_buffer |-> b, backlog |-> n]
    BY DEF GoodOutput, Outputs
  <2>2. PICK a \in Seq(Rec), m \in Nat : a = Append(q, rec) /\ m = n + rec.size
    <3>1. Append(q, rec) \in Seq(Rec)
      BY UnitsAppend
    <3>2. n + rec.size \in Nat
      BY <1>2
    <3> QED BY <3>1, <3>2, Zenon
  <2>3. e = [queue |-> a, write_buffer |-> b, backlog |-> m]
    BY <1>1, <2>1, <2>2 DEF Enqueue
  <2> QED BY <2>1, <2>2, <2>3 DEF Outputs
<1>4. PICK q \in Stream, t \in Stream, w \in Stream :
        /\ q = Units(o.queue) /\ t = Taken(rec, rec.size)
        /\ w = Taken(o.write_buffer, o.write_buffer.size) /\ o.backlog = Len(q)
  BY <1>2, OutputIs
<1>5. Units(e.queue) = q \o t
  BY <1>3, <1>4, OutputIs, UnitsAppend
<1>6. Len(q \o t) = Len(q) + Len(t)
  BY <1>4, StreamConcat
<1>7. BacklogExact(e)
  BY <1>2, <1>3, <1>4, <1>5, <1>6 DEF BacklogExact
<1>8. (w \o q) \o t = w \o (q \o t)
  BY Associative, Zenon
<1> QED BY <1>1, <1>3, <1>4, <1>5, <1>7, <1>8, Zenon DEF Owed, GoodOutput

\* A message that is written is sent, queued behind what is owed, or both; or it is refused.
WriteDone(o, rec, free, w) ==
  /\ GoodOutput(w.output) /\ w.output.write_buffer = o.write_buffer
  /\ w.taken \in Stream /\ Len(w.taken) \in 0 .. free
  /\ ~ w.pending => w.output = o
  /\ w.refused => w.taken \o Owed(w.output) = Owed(o)
  /\ ~ w.refused => w.taken \o Owed(w.output) = Owed(o) \o Taken(rec, rec.size)

LEMMA WriteDataIs ==
  ASSUME NEW o, GoodOutput(o), NEW rec \in Rec, NEW free \in Nat, NEW w, w = WriteData(o, rec, free)
  PROVE  WriteDone(o, rec, free, w)
<1> USE DEF WriteDone
<1>1. PICK t, l, f : t = Taken(rec, free) /\ l = Rest(rec, free) /\ f = Taken(rec, rec.size)
  OBVIOUS
<1>2. /\ t \in Stream /\ Len(t) \in 0 .. free /\ l \in Rec /\ l.size \in Nat /\ f \in Stream
      /\ f = t \o Taken(l, l.size) /\ Taken(l, l.size) \in Stream /\ Len(Taken(l, l.size)) = l.size
  BY <1>1, TakenIs DEF Rec
<1>3. o.backlog \in Nat /\ Owed(o) \in Stream /\ rec.size \in Nat
  BY OutputIs DEF Rec
<1>4. CASE EmptyOutput(o)
  <2>1. Owed(o) = <<>> /\ o.backlog < MaxPending
    BY <1>4, OutputIs, OutputAssumption
  <2>2. CASE l.size > 0
    <3>1. w.output = Enqueue(o, l) /\ w.taken = t /\ w.pending = TRUE /\ w.refused = FALSE
      BY <1>1, <1>4, <2>1, <2>2 DEF WriteData
    <3>2. /\ GoodOutput(w.output) /\ w.output.write_buffer = o.write_buffer
          /\ Owed(w.output) = <<>> \o Taken(l, l.size)
      BY <1>2, <2>1, <3>1, EnqueueIs
    <3>3. <<>> \o Taken(l, l.size) = Taken(l, l.size) /\ <<>> \o f = f
      BY <1>2, StreamConcat
    <3> QED BY <1>1, <1>2, <2>1, <3>1, <3>2, <3>3
  <2>3. CASE ~ (l.size > 0)
    <3>1. w.output = o /\ w.taken = t /\ w.pending = FALSE /\ w.refused = FALSE
      BY <1>1, <1>4, <2>1, <2>3 DEF WriteData
    <3>2. Taken(l, l.size) = <<>>
      BY <1>2, <2>3, EmptySeq DEF Stream
    <3>3. <<>> \o f = f
      BY <1>2, StreamConcat
    <3> QED BY <1>1, <1>2, <2>1, <3>1, <3>2, <3>3
  <2> QED BY <2>2, <2>3
<1>5. CASE ~ EmptyOutput(o)
  <2>1. <<>> \in Stream /\ Len(<<>>) \in 0 .. free
    BY StreamConcat, EmptySeq
  <2>2. CASE rec.size > 0 /\ o.backlog < MaxPending
    <3>1. w.output = Enqueue(o, rec) /\ w.taken = <<>> /\ w.pending = TRUE /\ w.refused = FALSE
      BY <1>5, <2>2 DEF WriteData
    <3>2. /\ GoodOutput(w.output) /\ w.output.write_buffer = o.write_buffer
          /\ Owed(w.output) = Owed(o) \o f
      BY <1>1, <3>1, EnqueueIs
    <3>3. <<>> \o (Owed(o) \o f) = Owed(o) \o f
      BY <1>2, <1>3, StreamConcat
    <3>4. w.taken \o Owed(w.output) = Owed(o) \o f
      BY <3>1, <3>2, <3>3
    <3> QED BY <1>1, <2>1, <3>1, <3>2, <3>4, Zenon
  <2>3. CASE ~ (rec.size > 0 /\ o.backlog < MaxPending)
    <3>1. /\ w.output = o /\ w.taken = <<>> /\ w.pending = FALSE
          /\ w.refused <=> rec.size > 0
      <4>1. w.output = o /\ w.taken = <<>>
        BY <1>5, <2>3 DEF WriteData
      <4>2. w.pending = (rec.size > 0 /\ o.backlog < MaxPending)
        BY <1>5, Zenon DEF WriteData
      <4>3. w.refused = (rec.size > 0 /\ ~ (rec.size > 0 /\ o.backlog < MaxPending))
        BY <1>5, Zenon DEF WriteData
      <4> QED BY <2>3, <4>1, <4>2, <4>3
    <3>2. <<>> \o Owed(o) = Owed(o) /\ Owed(o) \o <<>> = Owed(o)
      BY <1>3, StreamConcat
    <3>3. ~ (rec.size > 0) => f = <<>>
      BY <1>1, <1>3, TakenIs, EmptySeq DEF Stream
    <3>4. /\ (w.refused => w.taken \o Owed(w.output) = Owed(o))
          /\ (~ w.refused => w.taken \o Owed(w.output) = Owed(o) \o f)
      BY <3>1, <3>2, <3>3
    <3> QED BY <1>1, <2>1, <3>1, <3>4, Zenon
  <2> QED BY <2>2, <2>3
<1> QED BY <1>4, <1>5

\* A pass sends what comes first of what is owed.
LEMMA WritePassIs ==
  ASSUME NEW o, GoodOutput(o), ~ EmptyOutput(o), NEW free \in Nat, NEW w, w = WritePass(o, free)
  PROVE  /\ GoodOutput(w.output) /\ w.taken \in Stream /\ Len(w.taken) \in 0 .. free
         /\ w.taken \o Owed(w.output) = Owed(o)
         /\ (w.whole => w.output.write_buffer.size = 0)
<1>1. PICK p : p = IF o.write_buffer = NoRec THEN Pop(o) ELSE o
  OBVIOUS
<1>2. GoodOutput(p) /\ Owed(p) = Owed(o)
  <2>1. CASE o.write_buffer # NoRec
    BY <1>1, <2>1
  <2>2. CASE o.write_buffer = NoRec
    <3>1. PICK q \in Seq(Rec), b \in Nat : q = o.queue /\ b = o.backlog /\ q # <<>> /\ b = Len(Units(q))
      BY <2>2, OutputIs DEF EmptyOutput
    <3>2. /\ Head(q) \in Rec /\ Tail(q) \in Seq(Rec)
          /\ Units(q) = Taken(Head(q), Head(q).size) \o Units(Tail(q))
          /\ b = Head(q).size + Len(Units(Tail(q)))
      BY <3>1, UnitsHead
    <3>3. Head(q).size \in Nat /\ Len(Units(Tail(q))) \in Nat
      BY <3>2, WholeIs DEF Rec
    <3>4. p = [queue |-> Tail(q), write_buffer |-> Head(q), backlog |-> Len(Units(Tail(q)))]
      <4>1. PICK h \in Rec, n \in Nat, m \in Nat : h = Head(q) /\ n = h.size /\ m = Len(Units(Tail(q)))
        BY <3>2, <3>3
      <4>2. b = n + m /\ (IF b < n THEN n ELSE b) - n = m
        BY <3>2, <4>1
      <4>3. p = [queue |-> Tail(q), write_buffer |-> h, backlog |-> (IF b < n THEN n ELSE b) - n]
        BY <1>1, <2>2, <3>1, <4>1 DEF Pop
      <4> QED BY <4>1, <4>2, <4>3
    <3>5. GoodOutput(p)
      BY <3>2, <3>3, <3>4 DEF GoodOutput, Outputs, BacklogExact
    <3>6. Owed(p) = Units(q)
      BY <3>2, <3>4 DEF Owed
    <3>7. Owed(o) = Units(q)
      <4>1. Taken(NoRec, NoRec.size) = <<>>
        <5>1. NoRec \in Rec /\ NoRec.size = 0
          BY DEF NoRec, Rec
        <5>2. Taken(NoRec, NoRec.size) \in Stream /\ Len(Taken(NoRec, NoRec.size)) = 0
          BY <5>1, TakenIs
        <5> QED BY <5>2, EmptySeq DEF Stream
      <4>2. Units(q) \in Stream
        BY <3>1, WholeIs
      <4> QED BY <2>2, <3>1, <4>1, <4>2, StreamConcat DEF Owed
    <3> QED BY <3>5, <3>6, <3>7
  <2> QED BY <2>1, <2>2
<1>3. PICK rec \in Rec : rec = p.write_buffer
  BY <1>2, OutputIs
<1>4. PICK t, l : t = Taken(rec, free) /\ l = Rest(rec, free)
  OBVIOUS
<1>5. /\ t \in Stream /\ Len(t) \in 0 .. free /\ l \in Rec
      /\ (rec.size <= free => l.size = 0)
      /\ Taken(rec, rec.size) = t \o Taken(l, l.size)
      /\ Taken(l, l.size) \in Stream
  BY <1>4, TakenIs DEF Rec
<1>6. /\ w.output = [p EXCEPT !.write_buffer = l] /\ w.taken = t
  BY <1>1, <1>3, <1>4 DEF WritePass
<1>7. /\ w.output \in Outputs /\ w.output.queue = p.queue /\ w.output.backlog = p.backlog
      /\ w.output.write_buffer = l
  BY <1>2, <1>5, <1>6 DEF GoodOutput, Outputs
<1>8. GoodOutput(w.output)
  BY <1>2, <1>7 DEF GoodOutput, BacklogExact
<1>9. t \o (Taken(l, l.size) \o Units(p.queue)) = (t \o Taken(l, l.size)) \o Units(p.queue)
  <2>1. Units(p.queue) \in Stream
    BY <1>2, OutputIs
  <2> QED BY <1>5, <2>1, Associative, Zenon
<1>10. w.taken \o Owed(w.output) = Owed(p)
  BY <1>3, <1>5, <1>6, <1>7, <1>9, Zenon DEF Owed
<1>11. w.whole => l.size = 0
  BY <1>1, <1>3, <1>5 DEF WritePass
<1> QED BY <1>2, <1>5, <1>6, <1>7, <1>8, <1>10, <1>11

--------------------------------------------------------------------------------
(* The pipes.                                                               *)

Resting == {"idle", "respond", "add_events"}
Opening == {"add_fd", "attach"}
Closing == {"remove_fd", "detach"}
InWriter == {"check", "send", "pending", "move"}

PipeShape == [rd : BOOLEAN, wr : BOOLEAN, byte : BOOLEAN, inset : BOOLEAN]
EvShape == [in : {"no", "queued", "watched", "out"}, drop : BOOLEAN, held : BOOLEAN]
RtpShape ==
  [playing : BOOLEAN, killed : BOOLEAN, cursor : 0 .. MaxPackets, refs : Nat, gen : 0 .. MaxPlays]
HandlerShape ==
  [pc : Resting \cup Opening \cup Closing \cup {"close", "kill"},
   request : {"PLAY", "PAUSE", "TEARDOWN"}, handled : Nat]

PipeShapes ==
  /\ produced \in 0 .. MaxPackets /\ producer \in {"idle", "call"}
  /\ rtp \in RtpShape
  /\ pipe \in [Gens -> PipeShape] /\ ev \in [Gens -> EvShape]
  /\ handler \in HandlerShape
  /\ loop \in [pc : InWriter \cup {"idle", "written", "clear"}, gen : 0 .. MaxPlays]

\* The end that is read is open as long as the session or the loop has the writer, and only the
\* last pipe has another end, is in the set or has a writer that the session holds.
Apart ==
  \A g \in Gens :
    /\ pipe[g].rd <=> ev[g].held \/ InLoop(g)
    /\ g # rtp.gen => ~ pipe[g].wr /\ ~ pipe[g].inset /\ ~ ev[g].held
    /\ g > rtp.gen => ev[g].in = "no"

\* What the last pipe has follows from where the handler is.
Current ==
  /\ rtp.playing => rtp.gen # 0 /\ handler.pc \in Resting
  /\ handler.pc \in Opening \cup Closing \cup {"close"} => rtp.gen # 0
  /\ rtp.killed => ~ rtp.playing /\ handler.pc \in Resting
  /\ rtp.gen # 0 =>
       /\ pipe[rtp.gen].wr <=> rtp.playing \/ handler.pc \in Opening \cup Closing \cup {"close"}
       /\ ev[rtp.gen].held <=> rtp.playing \/ handler.pc \in Opening \cup Closing
       /\ pipe[rtp.gen].inset <=> rtp.playing \/ handler.pc \in {"attach", "remove_fd"}
       /\ rtp.playing \/ handler.pc \in Closing => ev[rtp.gen].in # "no"
       /\ handler.pc \in Opening => ev[rtp.gen].in = "no"

\* The loop runs a writer that it watches, and moves past a packet that there is.
Writer ==
  /\ loop.pc \in InWriter => loop.gen \in Gens /\ ev[loop.gen].in = "watched"
  /\ loop.pc \in {"pending", "move"} => rtp.cursor + 1 <= produced

Readers == {g \in Gens : pipe[g].rd}
Holders == Cardinality(Readers) + IF rtp.killed THEN 0 ELSE 1

PipeInv == PipeShapes /\ Apart /\ Current /\ Writer /\ rtp.refs = Holders

\* What a change of one field leaves.
LEMMA RdWith ==
  ASSUME NEW p \in PipeShape, NEW q
  PROVE  /\ q = [p EXCEPT !.rd = TRUE] => q \in PipeShape /\ q.rd /\ q.wr = p.wr /\ q.inset = p.inset
         /\ q = [p EXCEPT !.rd = FALSE] => q \in PipeShape /\ ~ q.rd /\ q.wr = p.wr /\ q.inset = p.inset
BY ZenonT(30) DEF PipeShape

LEMMA WrWith ==
  ASSUME NEW p \in PipeShape, NEW q
  PROVE  /\ q = [p EXCEPT !.wr = TRUE] => q \in PipeShape /\ q.wr /\ q.rd = p.rd /\ q.inset = p.inset
         /\ q = [p EXCEPT !.wr = FALSE] => q \in PipeShape /\ ~ q.wr /\ q.rd = p.rd /\ q.inset = p.inset
BY ZenonT(30) DEF PipeShape

LEMMA ByteWith ==
  ASSUME NEW p \in PipeShape, NEW b \in BOOLEAN, NEW q, q = [p EXCEPT !.byte = b]
  PROVE  q \in PipeShape /\ q.rd = p.rd /\ q.wr = p.wr /\ q.inset = p.inset
BY ZenonT(30) DEF PipeShape

LEMMA InsetWith ==
  ASSUME NEW p \in PipeShape, NEW q
  PROVE  /\ q = [p EXCEPT !.inset = TRUE] => q \in PipeShape /\ q.inset /\ q.rd = p.rd /\ q.wr = p.wr
         /\ q = [p EXCEPT !.inset = FALSE] => q \in PipeShape /\ ~ q.inset /\ q.rd = p.rd /\ q.wr = p.wr
BY ZenonT(30) DEF PipeShape

LEMMA EvWith ==
  ASSUME NEW e \in EvShape, NEW b \in BOOLEAN
  PROVE  /\ [e EXCEPT !.held = b] \in EvShape /\ [e EXCEPT !.held = b].held = b
         /\ [e EXCEPT !.held = b].in = e.in /\ [e EXCEPT !.held = b].drop = e.drop
         /\ [e EXCEPT !.drop = b] \in EvShape /\ [e EXCEPT !.drop = b].drop = b
         /\ [e EXCEPT !.drop = b].in = e.in /\ [e EXCEPT !.drop = b].held = e.held
BY ZenonT(30) DEF EvShape

LEMMA EvIn ==
  ASSUME NEW e \in EvShape, NEW w \in {"no", "queued", "watched", "out"}
  PROVE  /\ [e EXCEPT !.in = w] \in EvShape /\ [e EXCEPT !.in = w].in = w
         /\ [e EXCEPT !.in = w].held = e.held /\ [e EXCEPT !.in = w].drop = e.drop
BY ZenonT(30) DEF EvShape

\* What a change of one member of a function leaves.
LEMMA OneWith ==
  ASSUME NEW D, NEW S, NEW f \in [D -> S], NEW d \in D, NEW v \in S
  PROVE  /\ [f EXCEPT ![d] = v] \in [D -> S] /\ [f EXCEPT ![d] = v][d] = v
         /\ \A x \in D : x # d => [f EXCEPT ![d] = v][x] = f[x]
OBVIOUS

LEMMA ReadEndClosed ==
  ASSUME pipe \in [Gens -> PipeShape], NEW g \in Gens, pipe' = [pipe EXCEPT ![g].rd = FALSE]
  PROVE  /\ pipe' \in [Gens -> PipeShape] /\ ~ pipe'[g].rd /\ pipe'[g].wr = pipe[g].wr
         /\ pipe'[g].inset = pipe[g].inset
         /\ \A x \in Gens : x # g => pipe'[x] = pipe[x]
<1>1. PICK p : p = [pipe[g] EXCEPT !.rd = FALSE]
  OBVIOUS
<1>2. p \in PipeShape /\ ~ p.rd /\ p.wr = pipe[g].wr /\ p.inset = pipe[g].inset
  <2>1. pipe[g] \in PipeShape
    OBVIOUS
  <2> QED BY <1>1, <2>1, RdWith, Zenon
<1>3. pipe' = [pipe EXCEPT ![g] = p]
  BY <1>1
<1>4. pipe' \in [Gens -> PipeShape] /\ pipe'[g] = p /\ \A x \in Gens : x # g => pipe'[x] = pipe[x]
  BY <1>2, <1>3
<1> QED BY <1>2, <1>4, Zenon

LEMMA WriteEndClosed ==
  ASSUME pipe \in [Gens -> PipeShape], NEW g \in Gens, pipe' = [pipe EXCEPT ![g].wr = FALSE]
  PROVE  /\ pipe' \in [Gens -> PipeShape] /\ ~ pipe'[g].wr /\ pipe'[g].rd = pipe[g].rd
         /\ pipe'[g].inset = pipe[g].inset
         /\ \A x \in Gens : x # g => pipe'[x] = pipe[x]
<1>1. PICK p : p = [pipe[g] EXCEPT !.wr = FALSE]
  OBVIOUS
<1>2. p \in PipeShape /\ ~ p.wr /\ p.rd = pipe[g].rd /\ p.inset = pipe[g].inset
  <2>1. pipe[g] \in PipeShape
    OBVIOUS
  <2> QED BY <1>1, <2>1, WrWith, Zenon
<1>3. pipe' = [pipe EXCEPT ![g] = p]
  BY <1>1
<1>4. pipe' \in [Gens -> PipeShape] /\ pipe'[g] = p /\ \A x \in Gens : x # g => pipe'[x] = pipe[x]
  BY <1>2, <1>3
<1> QED BY <1>2, <1>4, Zenon

LEMMA ByteRead ==
  ASSUME pipe \in [Gens -> PipeShape], NEW g \in Gens, pipe' = [pipe EXCEPT ![g].byte = FALSE]
  PROVE  /\ pipe' \in [Gens -> PipeShape] /\ pipe'[g].wr = pipe[g].wr /\ pipe'[g].rd = pipe[g].rd
         /\ pipe'[g].inset = pipe[g].inset /\ \A x \in Gens : x # g => pipe'[x] = pipe[x]
<1>1. PICK p : p = [pipe[g] EXCEPT !.byte = FALSE]
  OBVIOUS
<1>2. p \in PipeShape /\ p.wr = pipe[g].wr /\ p.rd = pipe[g].rd /\ p.inset = pipe[g].inset
  <2>1. pipe[g] \in PipeShape /\ FALSE \in BOOLEAN
    OBVIOUS
  <2> QED BY <1>1, <2>1, ByteWith, Zenon
<1>3. pipe' = [pipe EXCEPT ![g] = p]
  BY <1>1
<1>4. pipe' \in [Gens -> PipeShape] /\ pipe'[g] = p /\ \A x \in Gens : x # g => pipe'[x] = pipe[x]
  BY <1>2, <1>3
<1> QED BY <1>2, <1>4, Zenon

LEMMA SetEntered ==
  ASSUME pipe \in [Gens -> PipeShape], NEW g \in Gens, pipe' = [pipe EXCEPT ![g].inset = TRUE]
  PROVE  /\ pipe' \in [Gens -> PipeShape] /\ pipe'[g].inset /\ pipe'[g].rd = pipe[g].rd
         /\ pipe'[g].wr = pipe[g].wr
         /\ \A x \in Gens : x # g => pipe'[x] = pipe[x]
<1>1. PICK p : p = [pipe[g] EXCEPT !.inset = TRUE]
  OBVIOUS
<1>2. p \in PipeShape /\ p.inset /\ p.rd = pipe[g].rd /\ p.wr = pipe[g].wr
  <2>1. pipe[g] \in PipeShape
    OBVIOUS
  <2> QED BY <1>1, <2>1, InsetWith, Zenon
<1>3. pipe' = [pipe EXCEPT ![g] = p]
  BY <1>1
<1>4. pipe' \in [Gens -> PipeShape] /\ pipe'[g] = p /\ \A x \in Gens : x # g => pipe'[x] = pipe[x]
  BY <1>2, <1>3
<1> QED BY <1>2, <1>4, Zenon

LEMMA SetLeft ==
  ASSUME pipe \in [Gens -> PipeShape], NEW g \in Gens, pipe' = [pipe EXCEPT ![g].inset = FALSE]
  PROVE  /\ pipe' \in [Gens -> PipeShape] /\ ~ pipe'[g].inset /\ pipe'[g].rd = pipe[g].rd
         /\ pipe'[g].wr = pipe[g].wr
         /\ \A x \in Gens : x # g => pipe'[x] = pipe[x]
<1>1. PICK p : p = [pipe[g] EXCEPT !.inset = FALSE]
  OBVIOUS
<1>2. p \in PipeShape /\ ~ p.inset /\ p.rd = pipe[g].rd /\ p.wr = pipe[g].wr
  <2>1. pipe[g] \in PipeShape
    OBVIOUS
  <2> QED BY <1>1, <2>1, InsetWith, Zenon
<1>3. pipe' = [pipe EXCEPT ![g] = p]
  BY <1>1
<1>4. pipe' \in [Gens -> PipeShape] /\ pipe'[g] = p /\ \A x \in Gens : x # g => pipe'[x] = pipe[x]
  BY <1>2, <1>3
<1> QED BY <1>2, <1>4, Zenon

LEMMA InAt ==
  ASSUME NEW f \in [Gens -> EvShape], NEW g \in Gens, NEW w \in {"no", "queued", "watched", "out"},
         NEW h, h = [f EXCEPT ![g].in = w]
  PROVE  /\ h \in [Gens -> EvShape] /\ h[g].in = w /\ h[g].held = f[g].held
         /\ \A x \in Gens : x # g => h[x] = f[x]
<1>1. PICK e : e = [f[g] EXCEPT !.in = w]
  OBVIOUS
<1>2. e \in EvShape /\ e.in = w /\ e.held = f[g].held
  BY <1>1, EvIn
<1>3. h = [f EXCEPT ![g] = e]
  BY <1>1
<1> QED BY <1>2, <1>3, OneWith

LEMMA DroppedAt ==
  ASSUME ev \in [Gens -> EvShape], NEW g \in Gens,
         ev' = [ev EXCEPT ![g].drop = TRUE, ![g].held = FALSE]
  PROVE  /\ ev' \in [Gens -> EvShape] /\ ~ ev'[g].held /\ ev'[g].in = ev[g].in
         /\ \A x \in Gens : x # g => ev'[x] = ev[x]
<1>1. PICK d, e : d = [ev[g] EXCEPT !.drop = TRUE] /\ e = [d EXCEPT !.held = FALSE]
  OBVIOUS
<1>2. d \in EvShape /\ d.in = ev[g].in
  BY <1>1, EvWith
<1>3. e \in EvShape /\ ~ e.held /\ e.in = ev[g].in
  BY <1>1, <1>2, EvWith
<1>4. ev' = [ev EXCEPT ![g] = e]
  BY <1>1
<1>5. ev' \in [Gens -> EvShape] /\ ev'[g] = e /\ \A x \in Gens : x # g => ev'[x] = ev[x]
  BY <1>3, <1>4
<1> QED BY <1>3, <1>5, Zenon

\* The handler and the session go on.
LEMMA HandlerStep ==
  ASSUME handler \in HandlerShape, NEW pc, HandlerAt(pc),
         pc \in Resting \cup Opening \cup Closing \cup {"close", "kill"}
  PROVE  handler' \in HandlerShape /\ handler'.pc = pc /\ handler'.request = handler.request
BY DEF HandlerAt, HandlerShape

LEMMA PlayingWith ==
  ASSUME NEW r \in RtpShape, NEW b \in BOOLEAN, NEW q, q = [r EXCEPT !.playing = b]
  PROVE  /\ q \in RtpShape /\ q.playing = b /\ q.killed = r.killed /\ q.cursor = r.cursor
         /\ q.refs = r.refs /\ q.gen = r.gen
BY ZenonT(30) DEF RtpShape

LEMMA RefsWith ==
  ASSUME NEW r \in RtpShape, NEW n \in Nat, NEW q, q = [r EXCEPT !.refs = n]
  PROVE  /\ q \in RtpShape /\ q.playing = r.playing /\ q.killed = r.killed /\ q.cursor = r.cursor
         /\ q.refs = n /\ q.gen = r.gen
BY ZenonT(30) DEF RtpShape

LEMMA ReadersFinite == IsFiniteSet(Gens) /\ IsFiniteSet(Readers) /\ Cardinality(Readers) \in Nat
<1>1. IsFiniteSet(Gens)
  BY StreamAssumption, FS_Interval DEF Gens
<1> QED BY <1>1, FS_Subset, FS_CardinalityType DEF Readers

LEMMA ReadersLater ==
  ASSUME pipe' \in [Gens -> PipeShape]
  PROVE  IsFiniteSet(Readers') /\ Cardinality(Readers') \in Nat
<1>1. IsFiniteSet(Gens)
  BY ReadersFinite
<1> QED BY <1>1, FS_Subset, FS_CardinalityType DEF Readers

\* As many ends are open as before, one less, or one more.
LEMMA ReadersStep ==
  ASSUME NEW g, \A x \in Gens : x # g => (pipe'[x].rd <=> pipe[x].rd)
  PROVE  /\ Cardinality(Readers) \in Nat
         /\ (g \in Gens => (pipe'[g].rd <=> pipe[g].rd)) => Cardinality(Readers') = Cardinality(Readers)
         /\ g \in Gens /\ pipe[g].rd /\ ~ pipe'[g].rd => Cardinality(Readers') = Cardinality(Readers) - 1
         /\ g \in Gens /\ ~ pipe[g].rd /\ pipe'[g].rd => Cardinality(Readers') = Cardinality(Readers) + 1
<1>1. IsFiniteSet(Readers) /\ Cardinality(Readers) \in Nat
  BY ReadersFinite
<1>2. ASSUME g \in Gens => (pipe'[g].rd <=> pipe[g].rd) PROVE Readers' = Readers
  BY <1>2 DEF Readers
<1>3. ASSUME g \in Gens, pipe[g].rd, ~ pipe'[g].rd
      PROVE  Cardinality(Readers') = Cardinality(Readers) - 1
  <2>1. Readers' = Readers \ {g} /\ g \in Readers
    BY <1>3 DEF Readers
  <2> QED BY <1>1, <2>1, FS_RemoveElement
<1>4. ASSUME g \in Gens, ~ pipe[g].rd, pipe'[g].rd
      PROVE  Cardinality(Readers') = Cardinality(Readers) + 1
  <2>1. Readers' = Readers \cup {g} /\ g \notin Readers
    BY <1>4 DEF Readers
  <2> QED BY <1>1, <2>1, FS_AddElement
<1> QED BY <1>1, <1>2, <1>3, <1>4

\* Steps that open and close nothing and leave the session alone.
LEMMA PipeQuiet ==
  ASSUME PipeInv, UNCHANGED <<source, rtps>>,
         handler' = handler \/ (handler.pc \in Resting /\ \E p \in Resting : HandlerAt(p)),
         \/ loop' = loop
         \/ \E p \in {"idle", "written", "clear"} : LoopAt(p, 0)
         \/ loop.pc \in InWriter /\ \E p \in InWriter : LoopAt(p, loop.gen)
              /\ (p \in {"pending", "move"} => rtp.cursor + 1 <= produced)
  PROVE  PipeInv'
<1> USE DEF PipeInv, source, rtps
<1>1. handler'.pc = handler.pc \/ {handler.pc, handler'.pc} \subseteq Resting
  BY DEF PipeShapes, HandlerAt, HandlerShape
<1>2. /\ loop'.pc \in InWriter => loop.pc \in InWriter /\ loop'.gen = loop.gen
      /\ loop'.pc \in {"pending", "move"} => loop' = loop \/ rtp.cursor + 1 <= produced
  BY DEF LoopAt, InWriter
<1>3. PipeShapes'
  <2>1. handler' \in HandlerShape
    BY DEF PipeShapes, HandlerAt, HandlerShape
  <2>2. loop' \in [pc : InWriter \cup {"idle", "written", "clear"}, gen : 0 .. MaxPlays]
    BY StreamAssumption DEF PipeShapes, LoopAt
  <2> QED BY <2>1, <2>2 DEF PipeShapes
<1>4. Apart'
  BY DEF Apart, InLoop
<1>5. Current'
  BY <1>1 DEF Current, Resting, Opening, Closing
<1>6. Writer'
  BY <1>2 DEF Writer
<1>7. (rtp.refs = Holders)'
  BY DEF Holders, Readers
<1> QED BY <1>3, <1>4, <1>5, <1>6, <1>7

\* The steps that change one pipe and its writer.
LEMMA ApartStep ==
  ASSUME PipeInv, NEW g \in Gens, rtp'.gen = rtp.gen,
         \A x \in Gens : x # g => pipe'[x] = pipe[x] /\ ev'[x] = ev[x],
         pipe'[g].rd <=> ev'[g].held \/ InLoop(g)',
         g # rtp.gen => ~ pipe'[g].wr /\ ~ pipe'[g].inset /\ ~ ev'[g].held,
         g > rtp.gen => ev'[g].in = "no"
  PROVE  Apart'
<1> SUFFICES ASSUME NEW x \in Gens
    PROVE  /\ pipe'[x].rd <=> ev'[x].held \/ InLoop(x)'
           /\ x # rtp.gen => ~ pipe'[x].wr /\ ~ pipe'[x].inset /\ ~ ev'[x].held
           /\ x > rtp.gen => ev'[x].in = "no"
  BY DEF Apart
<1>1. CASE x = g
  BY <1>1
<1>2. CASE x # g
  BY <1>2 DEF PipeInv, Apart, InLoop
<1> QED BY <1>1, <1>2

\* The producer puts a packet, or wakes the descriptors of the set.
LEMMA ProducePipes == ASSUME PipeInv, Put \/ Call PROVE PipeInv'
<1> USE DEF PipeInv
<1>1. /\ UNCHANGED <<rtp, ev, handler, loop>>
      /\ produced' \in produced .. MaxPackets /\ producer' \in {"idle", "call"}
      /\ pipe' \in [Gens -> PipeShape]
      /\ \A g \in Gens : pipe'[g].rd = pipe[g].rd /\ pipe'[g].wr = pipe[g].wr
                           /\ pipe'[g].inset = pipe[g].inset
  <2>1. CASE Put
    BY <2>1, StreamAssumption DEF Put, rtps, PipeShapes
  <2>2. CASE Call
    <3>1. pipe' = [g \in Gens |-> [pipe[g] EXCEPT !.byte = @ \/ pipe[g].inset]]
      BY <2>2 DEF Call
    <3>2. ASSUME NEW g \in Gens
          PROVE  /\ [pipe[g] EXCEPT !.byte = @ \/ pipe[g].inset] \in PipeShape
                 /\ pipe'[g].rd = pipe[g].rd /\ pipe'[g].wr = pipe[g].wr
                 /\ pipe'[g].inset = pipe[g].inset
      <4>1. PICK p \in PipeShape : p = pipe[g]
        BY DEF PipeShapes
      <4>2. PICK b \in BOOLEAN : b = (p.byte \/ p.inset)
        BY Zenon
      <4>3. pipe'[g] = [p EXCEPT !.byte = b] /\ [pipe[g] EXCEPT !.byte = @ \/ pipe[g].inset] = pipe'[g]
        BY <3>1, <4>1, <4>2, Zenon
      <4> QED BY <4>1, <4>2, <4>3, ByteWith, ZenonT(30)
    <3>3. pipe' \in [Gens -> PipeShape]
      BY <3>1, <3>2
    <3>4. UNCHANGED <<rtp, ev, handler, loop, produced>> /\ producer' = "idle"
      BY <2>2 DEF Call
    <3>5. produced \in produced .. MaxPackets
      BY StreamAssumption DEF PipeShapes
    <3> QED BY <3>2, <3>3, <3>4, <3>5
  <2> QED BY <2>1, <2>2
<1>2. PipeShapes'
  BY <1>1 DEF PipeShapes
<1>3. Apart'
  BY <1>1 DEF Apart, InLoop
<1>4. Current'
  <2>1. rtp.gen # 0 => rtp.gen \in Gens
    BY DEF PipeShapes, RtpShape, Gens
  <2> QED BY <1>1, <2>1 DEF Current
<1>5. Writer'
  BY <1>1 DEF Writer, PipeShapes, RtpShape
<1>6. (rtp.refs = Holders)'
  BY <1>1 DEF Holders, Readers
<1> QED BY <1>2, <1>3, <1>4, <1>5, <1>6

\* The loop and what it runs stay in place when no event leaves the loop.
LEMMA WriterStays ==
  ASSUME PipeInv, \A g \in Gens : ev[g].in = "watched" => ev'[g].in = "watched",
         rtp'.cursor = rtp.cursor, produced' = produced, loop' = loop
  PROVE  Writer'
BY DEF PipeInv, Writer

LEMMA PlayPipes == ASSUME PipeInv, Play PROVE PipeInv'
<1> USE DEF PipeInv
<1>1. /\ handler.pc = "idle" /\ ~ rtp.killed /\ UNCHANGED source /\ loop' = loop
      /\ handler.handled \in Nat
  BY DEF Play, MayBegin, PipeShapes, HandlerShape
<1>2. CASE Begin("PLAY", "respond") /\ UNCHANGED rtps
  <2>1. handler'.pc = "respond" /\ handler' \in HandlerShape
    BY <1>1, <1>2 DEF Begin, Resting, HandlerShape
  <2>2. PipeShapes'
    BY <1>1, <1>2, <2>1 DEF PipeShapes, rtps, source
  <2>3. Apart' /\ Writer' /\ (rtp.refs = Holders)'
    BY <1>1, <1>2 DEF Apart, InLoop, Writer, rtps, source, Holders, Readers
  <2>4. Current'
    BY <1>1, <1>2, <2>1 DEF Current, rtps, Resting, Opening, Closing
  <2> QED BY <2>2, <2>3, <2>4
<1>3. CASE /\ ~ rtp.playing /\ rtp.gen < MaxPlays /\ Begin("PLAY", "add_fd")
           /\ LET g == rtp.gen + 1
              IN /\ pipe' = [pipe EXCEPT ![g].rd = TRUE, ![g].wr = TRUE]
                 /\ ev' = [ev EXCEPT ![g].held = TRUE]
                 /\ rtp' = [rtp EXCEPT !.gen = g, !.refs = @ + 1]
  <2>1. PICK g \in Gens : g = rtp.gen + 1 /\ rtp.gen \in 0 .. MaxPlays
    BY <1>3, StreamAssumption DEF PipeShapes, RtpShape, Gens
  <2>2. handler'.pc = "add_fd" /\ handler' \in HandlerShape
    BY <1>1, <1>3 DEF Begin, Opening, HandlerShape
  <2>3. /\ pipe' \in [Gens -> PipeShape] /\ pipe'[g].rd /\ pipe'[g].wr
        /\ pipe'[g].inset = pipe[g].inset
        /\ \A x \in Gens : x # g => pipe'[x] = pipe[x]
    <3>1. PICK p, q : p = [pipe[g] EXCEPT !.rd = TRUE] /\ q = [p EXCEPT !.wr = TRUE]
      OBVIOUS
    <3>2. pipe' = [pipe EXCEPT ![g] = q]
      <4>1. pipe' = [pipe EXCEPT ![g].rd = TRUE, ![g].wr = TRUE]
        BY <1>3, <2>1
      <4> QED BY <3>1, <4>1, <2>1 DEF PipeShapes, PipeShape
    <3>3. q \in PipeShape /\ q.rd /\ q.wr /\ q.inset = pipe[g].inset
      <4>1. pipe[g] \in PipeShape /\ TRUE \in BOOLEAN
        BY <2>1 DEF PipeShapes
      <4>2. p \in PipeShape /\ p.rd /\ p.inset = pipe[g].inset
        BY <3>1, <4>1, RdWith, Zenon
      <4> QED BY <3>1, <4>1, <4>2, WrWith, Zenon
    <3> QED BY <2>1, <3>2, <3>3, OneWith DEF PipeShapes
  <2>4. /\ ev' \in [Gens -> EvShape] /\ ev'[g].held /\ ev'[g].in = ev[g].in
        /\ \A x \in Gens : x # g => ev'[x] = ev[x]
    <3>1. PICK e : e = [ev[g] EXCEPT !.held = TRUE]
      OBVIOUS
    <3>3. e \in EvShape /\ e.held /\ e.in = ev[g].in
      <4>1. ev[g] \in EvShape
        BY <2>1 DEF PipeShapes
      <4> QED BY <3>1, <4>1, EvWith, Zenon
    <3>2. ev' = [ev EXCEPT ![g] = e]
      BY <1>3, <2>1, <3>1 DEF PipeShapes
    <3> QED BY <2>1, <3>2, <3>3, OneWith DEF PipeShapes
  <2>5. /\ rtp'.gen = g /\ rtp'.refs = rtp.refs + 1 /\ rtp'.playing = rtp.playing
        /\ rtp'.killed = rtp.killed /\ rtp'.cursor = rtp.cursor /\ rtp.refs \in Nat
        /\ rtp' \in RtpShape
    <3>1. PICK n \in Nat, c \in 0 .. MaxPlays : n = rtp.refs + 1 /\ c = g
      BY <2>1 DEF PipeShapes, RtpShape, Gens
    <3>2. rtp' = [rtp EXCEPT !.gen = c, !.refs = n]
      BY <1>3, <2>1, <3>1
    <3> QED BY <3>1, <3>2 DEF PipeShapes, RtpShape
  <2>6. g # rtp.gen /\ g > rtp.gen /\ ~ ev[g].held /\ ev[g].in = "no" /\ ~ pipe[g].inset /\ ~ pipe[g].rd
    BY <2>1 DEF Apart, InLoop
  <2>7. rtp.gen # 0 => /\ rtp.gen \in Gens /\ ~ pipe[rtp.gen].wr /\ ~ pipe[rtp.gen].inset
                       /\ ~ ev[rtp.gen].held
    BY <1>1, <1>3, <2>1 DEF Current, Gens, Opening, Closing
  <2>8. PipeShapes'
    BY <1>1, <2>2, <2>3, <2>4, <2>5 DEF PipeShapes, source
  <2>9. Apart'
    <3> SUFFICES ASSUME NEW x \in Gens
        PROVE  /\ pipe'[x].rd <=> ev'[x].held \/ InLoop(x)'
               /\ x # g => ~ pipe'[x].wr /\ ~ pipe'[x].inset /\ ~ ev'[x].held
               /\ x > g => ev'[x].in = "no"
      BY <2>5 DEF Apart
    <3>1. x \in Nat /\ rtp.gen \in Nat
      BY StreamAssumption DEF Gens, PipeShapes, RtpShape
    <3>2. CASE x = g
      BY <2>3, <2>4, <2>6, <3>1, <3>2 DEF InLoop
    <3>3. CASE x # g
      <4>1. pipe'[x] = pipe[x] /\ ev'[x] = ev[x]
        BY <2>3, <2>4, <3>3
      <4>2. pipe[x].rd <=> ev[x].held \/ InLoop(x)
        BY DEF Apart
      <4>3. ~ pipe[x].wr /\ ~ pipe[x].inset /\ ~ ev[x].held
        <5>1. CASE x = rtp.gen
          BY <2>7, <3>1, <5>1 DEF Gens
        <5>2. CASE x # rtp.gen
          BY <5>2 DEF Apart
        <5> QED BY <5>1, <5>2
      <4>4. x > g => ev[x].in = "no"
        BY <2>1, <3>1 DEF Apart
      <4> QED BY <3>3, <4>1, <4>2, <4>3, <4>4 DEF InLoop
    <3> QED BY <3>2, <3>3
  <2>10. Current'
    BY <1>1, <1>3, <2>1, <2>2, <2>3, <2>4, <2>5, <2>6
    DEF Current, Resting, Opening, Closing, Gens
  <2>11. Writer'
    <3>1. \A x \in Gens : ev[x].in = "watched" => ev'[x].in = "watched"
      BY <2>4
    <3> QED BY <1>1, <2>5, <3>1, WriterStays DEF source
  <2>12. (rtp.refs = Holders)'
    <3>1. Cardinality(Readers') = Cardinality(Readers) + 1 /\ Cardinality(Readers) \in Nat
      <4>1. \A x \in Gens : x # g => (pipe'[x].rd <=> pipe[x].rd)
        BY <2>3
      <4> QED BY <2>1, <2>3, <2>6, <4>1, ReadersStep
    <3> QED BY <1>1, <2>5, <3>1 DEF Holders
  <2> QED BY <2>8, <2>9, <2>10, <2>11, <2>12
<1> QED BY <1>2, <1>3 DEF Play

\* bq_producer_add_fd: the last pipe enters the set.
LEMMA AddFdPipes == ASSUME PipeInv, AddFd PROVE PipeInv'
<1> USE DEF PipeInv
<1>1. PICK g \in Gens : g = rtp.gen
  BY DEF AddFd, Current, Opening, PipeShapes, RtpShape, Gens
<1>2. /\ handler.pc = "add_fd" /\ ~ rtp.playing /\ ~ rtp.killed
      /\ UNCHANGED <<source, rtp, ev, loop>>
      /\ HandlerAt("attach")
  BY DEF AddFd, Current, Resting
<1>3. handler' \in HandlerShape /\ handler'.pc = "attach"
  BY <1>2, HandlerStep DEF PipeShapes, Opening
<1>4. /\ pipe' \in [Gens -> PipeShape] /\ pipe'[g].inset /\ pipe'[g].rd = pipe[g].rd
      /\ pipe'[g].wr = pipe[g].wr /\ \A x \in Gens : x # g => pipe'[x] = pipe[x]
  <2>1. pipe' = [pipe EXCEPT ![g].inset = TRUE]
    BY <1>1 DEF AddFd
  <2>2. pipe \in [Gens -> PipeShape]
    BY DEF PipeShapes
  <2> QED BY <2>1, <2>2, SetEntered
<1>5. PipeShapes'
  BY <1>2, <1>3, <1>4 DEF PipeShapes, source
<1>6. Apart'
  BY <1>1, <1>2, <1>4, ApartStep DEF Apart, InLoop
<1>7. Current'
  BY <1>1, <1>2, <1>3, <1>4 DEF Current, Resting, Opening, Closing
<1>8. Writer'
  BY <1>2, WriterStays DEF source
<1>9. (rtp.refs = Holders)'
  <2>1. Cardinality(Readers') = Cardinality(Readers)
    BY <1>4, ReadersStep
  <2> QED BY <1>2, <2>1 DEF Holders
<1> QED BY <1>5, <1>6, <1>7, <1>8, <1>9

\* g_scheduler_add: the writer goes to the loop and the session plays.
LEMMA AttachPipes == ASSUME PipeInv, Attach PROVE PipeInv'
<1> USE DEF PipeInv
<1>1. PICK g \in Gens : g = rtp.gen
  BY DEF Attach, Current, Opening, PipeShapes, RtpShape, Gens
<1>2. /\ handler.pc = "attach" /\ ~ rtp.playing /\ ~ rtp.killed /\ UNCHANGED <<source, pipe, loop>>
      /\ HandlerAt("respond") /\ ev[g].in = "no"
  BY <1>1 DEF Attach, Current, Resting, Opening, Gens
<1>3. handler' \in HandlerShape /\ handler'.pc = "respond"
  BY <1>2, HandlerStep DEF PipeShapes, Resting
<1>4. /\ ev' \in [Gens -> EvShape] /\ ev'[g].in = "queued" /\ ev'[g].held = ev[g].held
      /\ \A x \in Gens : x # g => ev'[x] = ev[x]
  <2>1. ev' = [ev EXCEPT ![g].in = "queued"]
    BY <1>1 DEF Attach
  <2> QED BY <2>1, InAt, SMTT(30) DEF PipeShapes
<1>5. /\ rtp' \in RtpShape /\ rtp'.playing /\ rtp'.killed = rtp.killed /\ rtp'.cursor = rtp.cursor
      /\ rtp'.refs = rtp.refs /\ rtp'.gen = g
  <2>1. rtp' = [rtp EXCEPT !.playing = TRUE] /\ rtp \in RtpShape /\ rtp.refs \in Nat
    BY DEF Attach, PipeShapes, RtpShape
  <2> QED BY <1>1, <2>1, PlayingWith, Zenon
<1>6. PipeShapes'
  BY <1>2, <1>3, <1>4, <1>5 DEF PipeShapes, source
<1>7. Apart'
  <2>1. ev[g].held /\ pipe[g].rd
    BY <1>1, <1>2 DEF Apart, Current, Opening, Gens
  <2>2. \A x \in Gens : x # g => pipe'[x] = pipe[x] /\ ev'[x] = ev[x]
    BY <1>2, <1>4
  <2>3. (pipe'[g].rd <=> ev'[g].held \/ InLoop(g)') /\ ~ (g # rtp.gen) /\ ~ (g > rtp.gen)
    BY <1>1, <1>2, <1>4, <2>1 DEF Gens
  <2> QED BY <1>1, <1>5, <2>2, <2>3, ApartStep
<1>8. Current'
  BY <1>1, <1>2, <1>3, <1>4, <1>5 DEF Current, Resting, Opening, Closing
<1>9. Writer'
  <2>1. \A x \in Gens : ev[x].in = "watched" => ev'[x].in = "watched"
    BY <1>2, <1>4
  <2> QED BY <1>2, <1>5, <2>1, WriterStays DEF source
<1>10. (rtp.refs = Holders)'
  BY <1>2, <1>5 DEF Holders, Readers
<1> QED BY <1>6, <1>7, <1>8, <1>9, <1>10

\* rtp_session_pause, which begins PAUSE and TEARDOWN.
LEMMA PausePipes ==
  ASSUME PipeInv, NEW request \in {"PAUSE", "TEARDOWN"}, Pause(request)
  PROVE  PipeInv'
<1> USE DEF PipeInv
<1>1. /\ handler.pc = "idle" /\ ~ rtp.killed /\ UNCHANGED <<source, pipe, ev, loop>>
      /\ handler.handled \in Nat
  BY DEF Pause, MayBegin, PipeShapes, HandlerShape
<1>2. PICK pc : pc = IF rtp.playing THEN "remove_fd" ELSE IF request = "PAUSE" THEN "respond" ELSE "kill"
  OBVIOUS
<1>3. handler' \in HandlerShape /\ handler'.pc = pc
  BY <1>1, <1>2 DEF Pause, Begin, HandlerShape, Resting, Closing
<1>4. /\ rtp' \in RtpShape /\ ~ rtp'.playing /\ rtp'.killed = rtp.killed /\ rtp'.cursor = rtp.cursor
      /\ rtp'.refs = rtp.refs /\ rtp'.gen = rtp.gen
  <2>1. rtp' = [rtp EXCEPT !.playing = FALSE] /\ rtp \in RtpShape /\ rtp.refs \in Nat
    BY DEF Pause, PipeShapes, RtpShape
  <2> QED BY <2>1, PlayingWith, Zenon
<1>5. PipeShapes'
  BY <1>1, <1>3, <1>4 DEF PipeShapes, source
<1>6. Apart'
  BY <1>1, <1>4 DEF Apart, InLoop
<1>7. Current'
  <2>1. pc \notin Opening \cup {"detach", "close", "attach"} /\ (pc = "remove_fd" <=> rtp.playing)
    BY <1>2 DEF Opening
  <2>2. rtp.playing => rtp.gen # 0
    BY DEF Current
  <2>3. /\ (pc \in Opening \cup Closing \cup {"close"}) <=> rtp.playing
        /\ (pc \in Opening \cup Closing) <=> rtp.playing
        /\ (pc \in {"attach", "remove_fd"}) <=> rtp.playing
        /\ (pc \in Closing) <=> rtp.playing
    BY <1>2 DEF Opening, Closing
  <2>4. rtp.gen # 0 => /\ pipe[rtp.gen].wr <=> rtp.playing
                       /\ ev[rtp.gen].held <=> rtp.playing
                       /\ pipe[rtp.gen].inset <=> rtp.playing
                       /\ rtp.playing => ev[rtp.gen].in # "no"
    BY <1>1 DEF Current, Opening, Closing
  <2> QED BY <1>1, <1>3, <1>4, <2>1, <2>2, <2>3, <2>4 DEF Current
<1>8. Writer'
  BY <1>1, <1>4, WriterStays DEF source
<1>9. (rtp.refs = Holders)'
  BY <1>1, <1>4 DEF Holders, Readers
<1> QED BY <1>5, <1>6, <1>7, <1>8, <1>9

\* bq_producer_remove_fd: the last pipe leaves the set.
LEMMA RemoveFdPipes == ASSUME PipeInv, RemoveFd PROVE PipeInv'
<1> USE DEF PipeInv
<1>1. PICK g \in Gens : g = rtp.gen
  BY DEF RemoveFd, Current, Closing, PipeShapes, RtpShape, Gens
<1>2. /\ handler.pc = "remove_fd" /\ ~ rtp.playing /\ ~ rtp.killed
      /\ UNCHANGED <<source, rtp, ev, loop>>
      /\ HandlerAt("detach")
  BY DEF RemoveFd, Current, Resting
<1>3. handler' \in HandlerShape /\ handler'.pc = "detach"
  BY <1>2, HandlerStep DEF PipeShapes, Closing
<1>4. /\ pipe' \in [Gens -> PipeShape] /\ ~ pipe'[g].inset /\ pipe'[g].rd = pipe[g].rd
      /\ pipe'[g].wr = pipe[g].wr /\ \A x \in Gens : x # g => pipe'[x] = pipe[x]
  <2>1. pipe' = [pipe EXCEPT ![g].inset = FALSE]
    BY <1>1 DEF RemoveFd
  <2>2. pipe \in [Gens -> PipeShape]
    BY DEF PipeShapes
  <2> QED BY <2>1, <2>2, SetLeft
<1>5. PipeShapes'
  BY <1>2, <1>3, <1>4 DEF PipeShapes, source
<1>6. Apart'
  BY <1>1, <1>2, <1>4, ApartStep DEF Apart, InLoop
<1>7. Current'
  BY <1>1, <1>2, <1>3, <1>4 DEF Current, Resting, Opening, Closing
<1>8. Writer'
  BY <1>2, WriterStays DEF source
<1>9. (rtp.refs = Holders)'
  <2>1. Cardinality(Readers') = Cardinality(Readers)
    BY <1>4, ReadersStep
  <2> QED BY <1>2, <2>1 DEF Holders
<1> QED BY <1>5, <1>6, <1>7, <1>8, <1>9

\* rtp_pause_transport: the session lets go of the writer; if the loop has, it is destroyed.
LEMMA DetachPipes == ASSUME PipeInv, Detach PROVE PipeInv'
<1> USE DEF PipeInv
<1>1. PICK g \in Gens : g = rtp.gen
  BY DEF Detach, Current, Closing, PipeShapes, RtpShape, Gens
<1>2. /\ handler.pc = "detach" /\ ~ rtp.playing /\ ~ rtp.killed /\ UNCHANGED <<source, loop>>
      /\ HandlerAt("close") /\ ev[g].in # "no" /\ ev[g].held /\ pipe[g].rd
  <2>1. /\ handler.pc = "detach" /\ ~ rtp.playing /\ ~ rtp.killed /\ UNCHANGED <<source, loop>>
        /\ HandlerAt("close")
    BY DEF Detach, Current, Resting
  <2>2. ev[g].in # "no" /\ ev[g].held
    BY <1>1, <2>1 DEF Current, Closing, Gens
  <2> QED BY <2>1, <2>2 DEF Apart
<1>3. handler' \in HandlerShape /\ handler'.pc = "close"
  BY <1>2, HandlerStep DEF PipeShapes
<1>4. /\ ev' \in [Gens -> EvShape] /\ ~ ev'[g].held /\ ev'[g].in = ev[g].in
      /\ \A x \in Gens : x # g => ev'[x] = ev[x]
  <2>1. ev' = [ev EXCEPT ![g].drop = TRUE, ![g].held = FALSE]
    BY <1>1 DEF Detach
  <2>2. ev \in [Gens -> EvShape]
    BY DEF PipeShapes
  <2> QED BY <2>1, <2>2, DroppedAt
<1>5. PICK last \in BOOLEAN : last = (ev[g].in = "out")
  BY Zenon
<1>6. /\ pipe' \in [Gens -> PipeShape] /\ pipe'[g].inset = pipe[g].inset
      /\ (pipe'[g].rd <=> ~ last)
      /\ pipe'[g].wr = pipe[g].wr /\ \A x \in Gens : x # g => pipe'[x] = pipe[x]
  <2>1. CASE last
    <3>1. pipe' = [pipe EXCEPT ![g].rd = FALSE]
      BY <1>1, <1>5, <2>1 DEF Detach, ClosedReader
    <3>2. pipe \in [Gens -> PipeShape]
      BY DEF PipeShapes
    <3>3. /\ pipe' \in [Gens -> PipeShape] /\ ~ pipe'[g].rd /\ pipe'[g].wr = pipe[g].wr
          /\ pipe'[g].inset = pipe[g].inset /\ \A x \in Gens : x # g => pipe'[x] = pipe[x]
      BY <3>1, <3>2, ReadEndClosed
    <3> QED BY <2>1, <3>3
  <2>2. CASE ~ last
    <3>1. pipe' = pipe
      BY <1>1, <1>5, <2>2 DEF Detach
    <3> QED BY <1>2, <2>2, <3>1 DEF PipeShapes
  <2> QED BY <2>1, <2>2
<1>7. \A x \in Gens : x # g => (pipe'[x].rd <=> pipe[x].rd)
  BY <1>6
<1>8. Cardinality(Readers') \in Nat /\ Cardinality(Readers') = Cardinality(Readers) - IF last THEN 1 ELSE 0
  <2>1. Cardinality(Readers') \in Nat
    BY <1>6, ReadersLater
  <2> QED BY <1>2, <1>6, <1>7, <2>1, ReadersStep
<1>9. /\ rtp' \in RtpShape /\ rtp'.playing = rtp.playing /\ rtp'.killed = rtp.killed
      /\ rtp'.cursor = rtp.cursor /\ rtp'.refs = Cardinality(Readers') + 1 /\ rtp'.gen = g
  <2>1. PICK n \in Nat : n = Cardinality(Readers') + 1
    BY <1>8
  <2>2. rtp.refs = Cardinality(Readers) + 1 /\ Cardinality(Readers) \in Nat
    BY <1>2, ReadersFinite DEF Holders
  <2>3. n = IF last THEN rtp.refs - 1 ELSE rtp.refs
    BY <1>8, <2>1, <2>2
  <2>4. rtp' = [rtp EXCEPT !.refs = n] /\ rtp \in RtpShape
    BY <1>1, <1>5, <2>3 DEF Detach, PipeShapes
  <2>5. TRUE \in BOOLEAN
    OBVIOUS
  <2>6. PICK r : r = [rtp EXCEPT !.refs = n]
    OBVIOUS
  <2>7. /\ r \in RtpShape /\ r.playing = rtp.playing /\ r.killed = rtp.killed
        /\ r.cursor = rtp.cursor /\ r.refs = n /\ r.gen = rtp.gen
    BY <2>1, <2>4, <2>6, RefsWith
  <2> QED BY <1>1, <2>1, <2>4, <2>6, <2>7
<1>10. PipeShapes'
  BY <1>2, <1>3, <1>4, <1>6, <1>9 DEF PipeShapes, source
<1>11. Apart'
  <2>1. InLoop(g)' <=> ~ last
    BY <1>2, <1>4, <1>5 DEF InLoop, PipeShapes, EvShape
  <2>2. \A x \in Gens : x # g => pipe'[x] = pipe[x] /\ ev'[x] = ev[x]
    BY <1>4, <1>6
  <2>3. (pipe'[g].rd <=> ev'[g].held \/ InLoop(g)') /\ ~ (g # rtp.gen) /\ ~ (g > rtp.gen)
    BY <1>1, <1>4, <1>6, <2>1 DEF Gens
  <2> QED BY <1>1, <1>9, <2>2, <2>3, ApartStep
<1>12. Current'
  BY <1>1, <1>2, <1>3, <1>4, <1>6, <1>9 DEF Current, Resting, Opening, Closing
<1>13. Writer'
  <2>1. \A x \in Gens : ev[x].in = "watched" => ev'[x].in = "watched"
    BY <1>4
  <2> QED BY <1>2, <1>9, <2>1, WriterStays DEF source
<1>14. (rtp.refs = Holders)'
  BY <1>2, <1>9 DEF Holders
<1> QED BY <1>10, <1>11, <1>12, <1>13, <1>14

\* close(fd[1]): the last pipe loses the end that is written.
LEMMA CloseWriteEndPipes == ASSUME PipeInv, CloseWriteEnd PROVE PipeInv'
<1> USE DEF PipeInv
<1>1. PICK g \in Gens : g = rtp.gen
  BY DEF CloseWriteEnd, Current, PipeShapes, RtpShape, Gens
<1>2. PICK pc \in {"respond", "kill"} : pc = IF handler.request = "PAUSE" THEN "respond" ELSE "kill"
  OBVIOUS
<1>3. /\ handler.pc = "close" /\ ~ rtp.playing /\ ~ rtp.killed
      /\ UNCHANGED <<source, rtp, ev, loop>>
      /\ HandlerAt(pc)
  BY <1>2 DEF CloseWriteEnd, Current, Resting
<1>4. handler' \in HandlerShape /\ handler'.pc = pc
  BY <1>3, HandlerStep DEF PipeShapes, Resting
<1>5. /\ pipe' \in [Gens -> PipeShape] /\ ~ pipe'[g].wr /\ pipe'[g].rd = pipe[g].rd
      /\ pipe'[g].inset = pipe[g].inset /\ \A x \in Gens : x # g => pipe'[x] = pipe[x]
  <2>1. pipe' = [pipe EXCEPT ![g].wr = FALSE]
    BY <1>1 DEF CloseWriteEnd
  <2> QED BY <2>1, WriteEndClosed DEF PipeShapes
<1>6. PipeShapes'
  BY <1>3, <1>4, <1>5 DEF PipeShapes, source
<1>7. Apart'
  BY <1>1, <1>3, <1>5, ApartStep DEF Apart, InLoop
<1>8. Current'
  BY <1>1, <1>3, <1>4, <1>5 DEF Current, Resting, Opening, Closing
<1>9. Writer'
  BY <1>3, WriterStays DEF source
<1>10. (rtp.refs = Holders)'
  <2>1. Cardinality(Readers') = Cardinality(Readers)
    BY <1>5, ReadersStep
  <2> QED BY <1>3, <2>1 DEF Holders
<1> QED BY <1>6, <1>7, <1>8, <1>9, <1>10

\* rtp_session_kill ends: the owner's reference goes, the writers keep theirs.
LEMMA KillPipes == ASSUME PipeInv, Kill PROVE PipeInv'
<1> USE DEF PipeInv
<1>1. /\ handler.pc = "kill" /\ ~ rtp.playing /\ ~ rtp.killed
      /\ UNCHANGED <<source, pipe, ev, loop>> /\ HandlerAt("respond")
  BY DEF Kill, Current, Resting
<1>2. handler' \in HandlerShape /\ handler'.pc = "respond"
  BY <1>1, HandlerStep DEF PipeShapes, Resting
<1>3. rtp.refs = Cardinality(Readers) + 1 /\ Cardinality(Readers) \in Nat
  BY <1>1, ReadersFinite DEF Holders
<1>4. /\ rtp' \in RtpShape /\ ~ rtp'.playing /\ rtp'.killed /\ rtp'.cursor = rtp.cursor
      /\ rtp'.refs = Cardinality(Readers) /\ rtp'.gen = rtp.gen
  <2>1. PICK n \in Nat : n = rtp.refs - 1 /\ n = Cardinality(Readers)
    BY <1>3
  <2>2. rtp' = [rtp EXCEPT !.killed = TRUE, !.refs = n] /\ rtp \in RtpShape
    BY <2>1 DEF Kill, PipeShapes
  <2>3. PICK r : r = [rtp EXCEPT !.killed = TRUE]
    OBVIOUS
  <2>4. /\ r \in RtpShape /\ r.playing = rtp.playing /\ r.killed /\ r.cursor = rtp.cursor
        /\ r.gen = rtp.gen
    BY <2>2, <2>3, ZenonT(30) DEF RtpShape
  <2>5. rtp' = [r EXCEPT !.refs = n]
    BY <2>2, <2>3 DEF RtpShape
  <2>6. /\ rtp' \in RtpShape /\ rtp'.playing = r.playing /\ rtp'.killed = r.killed
        /\ rtp'.cursor = r.cursor /\ rtp'.refs = n /\ rtp'.gen = r.gen
    BY <2>4, <2>5, RefsWith
  <2> QED BY <1>1, <2>1, <2>4, <2>6
<1>5. PipeShapes'
  BY <1>1, <1>2, <1>4 DEF PipeShapes, source
<1>6. Apart'
  BY <1>1, <1>4 DEF Apart, InLoop
<1>7. Current'
  BY <1>1, <1>2, <1>4 DEF Current, Resting, Opening, Closing
<1>8. Writer'
  BY <1>1, <1>4, WriterStays DEF source
<1>9. (rtp.refs = Holders)'
  <2>1. Readers' = Readers
    BY <1>1 DEF Readers
  <2> QED BY <1>3, <1>4, <2>1 DEF Holders
<1> QED BY <1>5, <1>6, <1>7, <1>8, <1>9

\* The loop begins to watch a writer.
LEMMA AttachWriterPipes == ASSUME PipeInv, NEW g \in Gens, AttachWriter(g) PROVE PipeInv'
<1> USE DEF PipeInv
<1>1. /\ loop.pc = "idle" /\ ev[g].in = "queued" /\ UNCHANGED <<source, rtp, pipe, handler, loop>>
      /\ pipe[g].rd
  BY DEF AttachWriter, Apart, InLoop
<1>2. /\ ev' \in [Gens -> EvShape] /\ ev'[g].in = "watched" /\ ev'[g].held = ev[g].held
      /\ \A x \in Gens : x # g => ev'[x] = ev[x]
  <2>1. ev' = [ev EXCEPT ![g].in = "watched"]
    BY DEF AttachWriter
  <2> QED BY <2>1, InAt DEF PipeShapes
<1>3. PipeShapes'
  BY <1>1, <1>2 DEF PipeShapes, source
<1>4. Apart'
  <2>1. \A x \in Gens : x # g => pipe'[x] = pipe[x] /\ ev'[x] = ev[x]
    BY <1>1, <1>2
  <2>2. pipe'[g].rd <=> ev'[g].held \/ InLoop(g)'
    BY <1>1, <1>2 DEF InLoop
  <2>3. g # rtp.gen => ~ pipe'[g].wr /\ ~ pipe'[g].inset /\ ~ ev'[g].held
    BY <1>1, <1>2 DEF Apart
  <2>4. ~ (g > rtp.gen)
    BY <1>1 DEF Apart
  <2> QED BY <1>1, <2>1, <2>2, <2>3, <2>4, ApartStep
<1>5. Current'
  BY <1>1, <1>2 DEF Current, PipeShapes, RtpShape, Gens
<1>6. Writer'
  BY <1>1, <1>2 DEF Writer, InWriter
<1>7. (rtp.refs = Holders)'
  BY <1>1 DEF Holders, Readers
<1> QED BY <1>3, <1>4, <1>5, <1>6, <1>7

\* A writer leaves the loop, which runs no other one meanwhile.
LEMMA LetGoPipes ==
  ASSUME PipeInv, NEW g \in Gens, ev[g].in = "watched", LetGo(g), UNCHANGED <<source, handler>>,
         (loop' = loop /\ loop.pc = "idle") \/ LoopAt("idle", 0)
  PROVE  PipeInv'
<1> USE DEF PipeInv
<1>1. pipe[g].rd /\ source' = source /\ handler' = handler
  BY DEF Apart, InLoop
<1>2. loop' \in [pc : InWriter \cup {"idle", "written", "clear"}, gen : 0 .. MaxPlays] /\ loop'.pc = "idle"
  BY StreamAssumption DEF PipeShapes, LoopAt
<1>3. /\ ev' \in [Gens -> EvShape] /\ ev'[g].in = "out" /\ ev'[g].held = ev[g].held
      /\ \A x \in Gens : x # g => ev'[x] = ev[x]
  <2>1. ev' = [ev EXCEPT ![g].in = "out"]
    BY DEF LetGo
  <2> QED BY <2>1, InAt DEF PipeShapes
<1>4. /\ pipe' \in [Gens -> PipeShape] /\ pipe'[g].inset = pipe[g].inset
      /\ (pipe'[g].rd <=> ev[g].held)
      /\ pipe'[g].wr = pipe[g].wr /\ \A x \in Gens : x # g => pipe'[x] = pipe[x]
  <2>1. CASE ~ ev[g].held
    <3>1. pipe' = [pipe EXCEPT ![g].rd = FALSE]
      BY <2>1 DEF LetGo, ClosedReader
    <3>2. /\ pipe' \in [Gens -> PipeShape] /\ ~ pipe'[g].rd /\ pipe'[g].wr = pipe[g].wr
          /\ pipe'[g].inset = pipe[g].inset /\ \A x \in Gens : x # g => pipe'[x] = pipe[x]
      BY <3>1, ReadEndClosed DEF PipeShapes
    <3> QED BY <2>1, <3>2
  <2>2. CASE ev[g].held
    <3>1. pipe' = pipe
      BY <2>2 DEF LetGo
    <3> QED BY <1>1, <2>2, <3>1 DEF PipeShapes
  <2> QED BY <2>1, <2>2
<1>5. \A x \in Gens : x # g => (pipe'[x].rd <=> pipe[x].rd)
  BY <1>4
<1>6. /\ Cardinality(Readers') \in Nat
      /\ Cardinality(Readers') = Cardinality(Readers) - IF ev[g].held THEN 0 ELSE 1
  <2>1. Cardinality(Readers') \in Nat
    BY <1>4, ReadersLater
  <2> QED BY <1>1, <1>4, <1>5, <2>1, ReadersStep
<1>7. /\ rtp' \in RtpShape /\ rtp'.playing = rtp.playing /\ rtp'.killed = rtp.killed
      /\ rtp'.cursor = rtp.cursor /\ rtp'.gen = rtp.gen
      /\ rtp'.refs = Cardinality(Readers') + IF rtp.killed THEN 0 ELSE 1
  <2>1. PICK n \in Nat : n = Cardinality(Readers') + IF rtp.killed THEN 0 ELSE 1
    BY <1>6
  <2>2. rtp.refs = Cardinality(Readers) + (IF rtp.killed THEN 0 ELSE 1) /\ Cardinality(Readers) \in Nat
    BY ReadersFinite DEF Holders
  <2>3. n = IF ev[g].held THEN rtp.refs ELSE rtp.refs - 1
    BY <1>6, <2>1, <2>2
  <2>4. rtp' = [rtp EXCEPT !.refs = n] /\ rtp \in RtpShape
    BY <2>3 DEF LetGo, PipeShapes
  <2>5. PICK r : r = [rtp EXCEPT !.refs = n]
    OBVIOUS
  <2>6. /\ r \in RtpShape /\ r.playing = rtp.playing /\ r.killed = rtp.killed
        /\ r.cursor = rtp.cursor /\ r.refs = n /\ r.gen = rtp.gen
    BY <2>1, <2>4, <2>5, RefsWith
  <2> QED BY <2>1, <2>4, <2>5, <2>6
<1>8. PipeShapes'
  BY <1>1, <1>2, <1>3, <1>4, <1>7 DEF PipeShapes, source
<1>9. Apart'
  <2>1. \A x \in Gens : x # g => pipe'[x] = pipe[x] /\ ev'[x] = ev[x]
    BY <1>3, <1>4
  <2>2. pipe'[g].rd <=> ev'[g].held \/ InLoop(g)'
    BY <1>3, <1>4 DEF InLoop
  <2>3. g # rtp.gen => ~ pipe'[g].wr /\ ~ pipe'[g].inset /\ ~ ev'[g].held
    BY <1>3, <1>4 DEF Apart
  <2>4. ~ (g > rtp.gen)
    BY DEF Apart
  <2> QED BY <1>7, <2>1, <2>2, <2>3, <2>4, ApartStep
<1>10. Current'
  <2>1. CASE g = rtp.gen
    <3>1. handler.pc \notin Opening
      BY <2>1 DEF Current, Gens
    <3> QED BY <1>1, <1>3, <1>4, <1>7, <2>1, <3>1 DEF Current
  <2>2. CASE g # rtp.gen
    <3>1. rtp.gen # 0 => pipe'[rtp.gen] = pipe[rtp.gen] /\ ev'[rtp.gen] = ev[rtp.gen]
      BY <1>3, <1>4, <2>2 DEF PipeShapes, RtpShape, Gens
    <3> QED BY <1>1, <1>7, <3>1 DEF Current
  <2> QED BY <2>1, <2>2
<1>11. Writer'
  BY <1>2 DEF Writer, InWriter
<1>12. (rtp.refs = Holders)'
  BY <1>7 DEF Holders
<1> QED BY <1>8, <1>9, <1>10, <1>11, <1>12

LEMMA DetachWriterPipes == ASSUME PipeInv, NEW g \in Gens, DetachWriter(g) PROVE PipeInv'
<1>1. /\ loop.pc = "idle" /\ ev[g].in = "watched" /\ LetGo(g) /\ loop' = loop
      /\ UNCHANGED <<source, handler>>
  BY DEF DetachWriter
<1> QED BY <1>1, LetGoPipes

\* rtp_lwrite_cb: the writer empties the pipe, or ends when the other end is closed.
LEMMA WakePipes == ASSUME PipeInv, NEW g \in Gens, Wake(g) PROVE PipeInv'
<1> USE DEF PipeInv
<1>1. loop.pc = "idle" /\ ev[g].in = "watched" /\ UNCHANGED <<source, handler>>
  BY DEF Wake
<1>2. CASE ~ pipe[g].wr
  <2>1. LetGo(g) /\ loop' = loop
    BY <1>2 DEF Wake
  <2> QED BY <1>1, <2>1, LetGoPipes
<1>3. CASE pipe[g].wr
  <2>1. LoopAt("check", g) /\ UNCHANGED <<rtp, ev, produced, producer, handler>>
    BY <1>1, <1>3 DEF Wake, source
  <2>2. /\ pipe' \in [Gens -> PipeShape] /\ pipe'[g].wr = pipe[g].wr /\ pipe'[g].rd = pipe[g].rd
        /\ pipe'[g].inset = pipe[g].inset /\ \A x \in Gens : x # g => pipe'[x] = pipe[x]
    <3>1. pipe' = [pipe EXCEPT ![g].byte = FALSE]
      BY <1>3 DEF Wake
    <3> QED BY <3>1, ByteRead DEF PipeShapes
  <2>3. loop' = [pc |-> "check", gen |-> g] /\ g \in 0 .. MaxPlays
    BY <2>1, StreamAssumption DEF LoopAt, Gens
  <2>4. PipeShapes'
    BY <2>1, <2>2, <2>3 DEF PipeShapes, InWriter
  <2>5. \A x \in Gens : /\ pipe'[x].rd = pipe[x].rd /\ pipe'[x].wr = pipe[x].wr
                        /\ pipe'[x].inset = pipe[x].inset
    BY <2>2
  <2>6. Apart'
    BY <2>1, <2>5 DEF Apart, InLoop
  <2>7. Current'
    <3>1. rtp.gen # 0 => rtp.gen \in Gens
      BY DEF PipeShapes, RtpShape, Gens
    <3> QED BY <2>1, <2>5, <3>1 DEF Current
  <2>8. Writer'
    BY <1>1, <2>1, <2>3 DEF Writer
  <2>9. (rtp.refs = Holders)'
    BY <2>1, <2>5 DEF Holders, Readers
  <2> QED BY <2>4, <2>6, <2>7, <2>8, <2>9
<1> QED BY <1>2, <1>3

\* bq_consumer_move: the cursor goes on, the writer goes on or rests, or ends with LS_EOF.
LEMMA MovePipes == ASSUME PipeInv, Move PROVE PipeInv'
<1> USE DEF PipeInv
<1>1. PICK g \in Gens : g = loop.gen
  BY DEF Move, Writer, InWriter
<1>2. /\ loop.pc = "move" /\ ev[g].in = "watched" /\ rtp.cursor + 1 <= produced
      /\ UNCHANGED <<source, handler>>
  BY <1>1 DEF Move, Writer, InWriter
<1>3. CASE rtp.cursor + 1 = MaxPackets
  <2>1. LetGo(g) /\ LoopAt("idle", 0)
    BY <1>1, <1>3 DEF Move
  <2> QED BY <1>2, <2>1, LetGoPipes
<1>4. CASE rtp.cursor + 1 # MaxPackets
  <2>1. /\ UNCHANGED <<pipe, ev, produced, producer, handler>>
        /\ LoopAt("idle", 0) \/ LoopAt("check", loop.gen)
        /\ rtp' = [rtp EXCEPT !.cursor = IF rtp.killed THEN @ ELSE @ + 1]
    BY <1>2, <1>4 DEF Move, source
  <2>2. /\ loop' \in [pc : InWriter \cup {"idle", "written", "clear"}, gen : 0 .. MaxPlays]
        /\ loop'.pc \in {"idle", "check"} /\ (loop'.pc = "check" => loop'.gen = g)
    BY <1>1, <2>1, StreamAssumption DEF LoopAt, PipeShapes, InWriter
  <2>3. /\ rtp' \in RtpShape /\ rtp'.playing = rtp.playing /\ rtp'.killed = rtp.killed
        /\ rtp'.refs = rtp.refs /\ rtp'.gen = rtp.gen
    <3>1. PICK c \in 0 .. MaxPackets : c = IF rtp.killed THEN rtp.cursor ELSE rtp.cursor + 1
      BY <1>2, StreamAssumption DEF PipeShapes, RtpShape
    <3>2. PICK r : r = [rtp EXCEPT !.cursor = c]
      OBVIOUS
    <3>3. rtp' = r
      BY <2>1, <3>1, <3>2
    <3>4. /\ r \in RtpShape /\ r.playing = rtp.playing /\ r.killed = rtp.killed
          /\ r.refs = rtp.refs /\ r.gen = rtp.gen
      <4>1. rtp \in RtpShape
        BY DEF PipeShapes
      <4> QED BY <3>2, <4>1, ZenonT(30) DEF RtpShape
    <3> QED BY <3>3, <3>4
  <2>4. PipeShapes'
    BY <2>1, <2>2, <2>3 DEF PipeShapes
  <2>5. Apart'
    BY <2>1, <2>3 DEF Apart, InLoop
  <2>6. Current'
    BY <2>1, <2>3 DEF Current
  <2>7. Writer'
    BY <1>1, <1>2, <2>1, <2>2 DEF Writer, InWriter
  <2>8. (rtp.refs = Holders)'
    BY <2>1, <2>3 DEF Holders, Readers
  <2> QED BY <2>4, <2>5, <2>6, <2>7, <2>8
<1> QED BY <1>3, <1>4

\* What concerns only the messages and the socket.
LEMMA MessagePipes ==
  ASSUME PipeInv,
         \/ Respond \/ RespondPending \/ Check \/ Send \/ SendPending \/ Modify
         \/ Writable \/ Written \/ ClearWrite \/ PeerReads
  PROVE  PipeInv'
<1>1. CASE Respond
  <2>1. /\ UNCHANGED <<source, rtps>> /\ handler.pc \in Resting /\ loop' = loop
        /\ \E p \in Resting : HandlerAt(p)
    BY <1>1 DEF Respond, Resting
  <2> QED BY <2>1, PipeQuiet
<1>2. CASE RespondPending
  <2>1. /\ UNCHANGED <<source, rtps>> /\ handler.pc \in Resting /\ loop' = loop
        /\ \E p \in Resting : HandlerAt(p)
    BY <1>2 DEF RespondPending, Resting
  <2> QED BY <2>1, PipeQuiet
<1>3. CASE Check
  <2>1. /\ UNCHANGED <<source, rtps, handler>> /\ loop.pc \in InWriter
        /\ LoopAt("idle", 0) \/ LoopAt("send", loop.gen)
    BY <1>3 DEF Check, InWriter
  <2>2. \/ \E p \in {"idle", "written", "clear"} : LoopAt(p, 0)
        \/ \E p \in InWriter : LoopAt(p, loop.gen) /\ (p \in {"pending", "move"} => rtp.cursor + 1 <= produced)
    BY <2>1 DEF InWriter
  <2> QED BY <2>1, <2>2, PipeQuiet
<1>4. CASE Send
  <2>1. UNCHANGED <<source, rtps, handler>> /\ loop.pc \in InWriter
    BY <1>4 DEF Send, InWriter
  <2>2. \/ LoopAt("idle", 0)
        \/ /\ ~ (rtp.cursor + 1 > produced)
           /\ LoopAt("pending", loop.gen) \/ LoopAt("move", loop.gen)
    <3>1. PICK packet : packet = [id |-> rtp.cursor + 1, size |-> PacketSize]
      OBVIOUS
    <3>2. IF rtp.killed \/ rtp.cursor + 1 > produced
          THEN LoopAt("idle", 0)
          ELSE LoopAt(IF Pending(packet) THEN "pending" ELSE "move", loop.gen)
      BY <1>4, <3>1 DEF Send
    <3>3. CASE Pending(packet)
      BY <3>2, <3>3
    <3>4. CASE ~ Pending(packet)
      BY <3>2, <3>4
    <3> QED BY <3>3, <3>4
  <2>3. ~ (rtp.cursor + 1 > produced) => rtp.cursor + 1 <= produced
    BY StreamAssumption DEF PipeInv, PipeShapes, RtpShape
  <2>4. \/ \E p \in {"idle", "written", "clear"} : LoopAt(p, 0)
        \/ \E p \in InWriter : LoopAt(p, loop.gen) /\ (p \in {"pending", "move"} => rtp.cursor + 1 <= produced)
    BY <2>2, <2>3 DEF InWriter
  <2> QED BY <2>1, <2>4, PipeQuiet
<1>5. CASE SendPending
  <2>1. UNCHANGED <<source, rtps, handler>> /\ loop.pc \in InWriter /\ LoopAt("move", loop.gen)
    BY <1>5 DEF SendPending, InWriter
  <2>2. \E p \in InWriter : LoopAt(p, loop.gen) /\ (p \in {"pending", "move"} => rtp.cursor + 1 <= produced)
    BY <1>5, <2>1 DEF PipeInv, Writer, SendPending, InWriter
  <2> QED BY <2>1, <2>2, PipeQuiet
<1>6. CASE Modify
  <2>1. UNCHANGED <<source, rtps, handler, loop>>
    BY <1>6 DEF Modify
  <2> QED BY <2>1, PipeQuiet
<1>7. CASE Writable \/ Written
  <2>1. UNCHANGED <<source, rtps, handler>>
    BY <1>7 DEF Writable, Written
  <2>2. \E o : Pass(o)
    BY <1>7 DEF Writable, Written
  <2>3. \E p \in {"idle", "written", "clear"} : LoopAt(p, 0)
    <3>1. PICK o : Pass(o)
      BY <2>2
    <3>2. CASE EmptyOutput(o)
      BY <3>1, <3>2 DEF Pass
    <3>3. CASE ~ EmptyOutput(o)
      <4>1. LoopAt(IF WritePass(o, room).whole THEN "written" ELSE "idle", 0)
        BY <3>1, <3>3 DEF Pass
      <4>2. CASE WritePass(o, room).whole
        BY <4>1, <4>2
      <4>3. CASE ~ WritePass(o, room).whole
        BY <4>1, <4>3
      <4> QED BY <4>2, <4>3
    <3> QED BY <3>2, <3>3
  <2> QED BY <2>1, <2>3, PipeQuiet
<1>8. CASE ClearWrite
  <2>1. UNCHANGED <<source, rtps, handler>> /\ \E p \in {"idle", "written", "clear"} : LoopAt(p, 0)
    BY <1>8 DEF ClearWrite
  <2> QED BY <2>1, PipeQuiet
<1>9. CASE PeerReads
  <2>1. UNCHANGED <<source, rtps, handler, loop>>
    BY <1>9 DEF PeerReads
  <2> QED BY <2>1, PipeQuiet
<1> QED BY <1>1, <1>2, <1>3, <1>4, <1>5, <1>6, <1>7, <1>8, <1>9

LEMMA PipeInit == ASSUME Init PROVE PipeInv
<1> USE DEF Init
<1>1. PipeShapes
  BY StreamAssumption DEF PipeShapes, PipeShape, EvShape, RtpShape, HandlerShape, Resting
<1>2. Apart /\ Current /\ Writer
  BY DEF Apart, InLoop, Current, Writer, Resting, Opening, Closing, InWriter
<1>3. Readers = {}
  BY DEF Readers
<1>4. rtp.refs = Holders
  BY <1>3, FS_EmptySet DEF Holders
<1> QED BY <1>1, <1>2, <1>4 DEF PipeInv

LEMMA PipeStep == ASSUME PipeInv, [Next]_vars PROVE PipeInv'
<1>1. CASE Put \/ Call
  BY <1>1, ProducePipes
<1>2. CASE Play
  BY <1>2, PlayPipes
<1>3. CASE Pause("PAUSE") \/ Pause("TEARDOWN")
  BY <1>3, PausePipes
<1>4. CASE Handling
  BY <1>4, AddFdPipes, AttachPipes, RemoveFdPipes, DetachPipes, CloseWriteEndPipes, KillPipes,
     MessagePipes DEF Handling
<1>5. CASE Operations
  BY <1>5, AttachWriterPipes, DetachWriterPipes, MessagePipes DEF Operations
<1>6. CASE Waking
  BY <1>6, WakePipes DEF Waking
<1>7. CASE Writable \/ PeerReads
  BY <1>7, MessagePipes
<1>8. CASE Writing
  BY <1>8, MovePipes, MessagePipes DEF Writing
<1>9. CASE UNCHANGED vars
  <2>1. UNCHANGED <<source, rtps, handler, loop>>
    BY <1>9 DEF vars, source, rtps
  <2> QED BY <2>1, PipeQuiet
<1> QED BY <1>1, <1>2, <1>3, <1>4, <1>5, <1>6, <1>7, <1>8, <1>9 DEF Next

\* What a session leaves when it is over and nothing of it runs.
LEMMA PipesAreOwned == ASSUME PipeInv PROVE PipesOwned
<1> USE DEF PipeInv
<1>1. rtp.gen # 0 => rtp.gen \in Gens
  BY DEF PipeShapes, RtpShape, Gens
<1>2. ASSUME NEW g \in Gens
      PROVE  /\ pipe[g].inset => pipe[g].wr /\ pipe[g].rd
             /\ InLoop(g) \/ ev[g].held => pipe[g].rd
             /\ g # rtp.gen => ~ pipe[g].wr /\ ~ ev[g].held
  <2>1. g = rtp.gen => rtp.gen # 0
    BY DEF Gens
  <2>2. g = rtp.gen /\ pipe[g].inset => pipe[g].wr /\ ev[g].held
    BY <2>1 DEF Current, Opening, Closing
  <2> QED BY <2>2 DEF Apart
<1>3. rtp.playing => pipe[rtp.gen].inset /\ ev[rtp.gen].held
  BY DEF Current
<1>4. ASSUME Over PROVE \A g \in Gens : ~ pipe[g].rd /\ ~ pipe[g].wr
  <2>1. Cardinality(Readers) = 0 /\ rtp.killed
    BY <1>4, ReadersFinite DEF Over, Holders
  <2>2. Readers = {}
    BY <2>1, ReadersFinite, FS_EmptySet
  <2>3. ~ rtp.playing /\ handler.pc = "idle"
    BY <1>4, <2>1 DEF Current, Over
  <2>4. ASSUME NEW g \in Gens PROVE ~ pipe[g].wr
    <3>1. g = rtp.gen => rtp.gen # 0
      BY DEF Gens
    <3> QED BY <2>3, <3>1 DEF Current, Apart, Opening, Closing
  <2> QED BY <2>2, <2>4 DEF Readers
<1> QED BY <1>2, <1>3, <1>4 DEF PipesOwned, Holders, Readers

\* A wake-up never reaches a closed descriptor, the loop watches only open pipes, and the count of
\* references of the session is the number of its pipes that are open, and its owner.
THEOREM PipesAlwaysOwned == Spec => []PipesOwned
<1>1. Init => PipeInv
  BY PipeInit
<1>2. PipeInv /\ [Next]_vars => PipeInv'
  BY PipeStep
<1>3. PipeInv => PipesOwned
  BY PipesAreOwned
<1> QED BY <1>1, <1>2, <1>3, PTL DEF Spec
--------------------------------------------------------------------------------
(* The output of the connection.                                            *)

OutShapes ==
  /\ GoodOutput(out) /\ room \in 0 .. MaxRoom
  /\ accepted \in Seq(Rec) /\ stream \in Stream
  /\ field \in BOOLEAN /\ watch \in BOOLEAN /\ mod \in BOOLEAN /\ overtaken \in BOOLEAN

\* What was sent and what the output owes are the messages that were accepted, unit for unit.
Sent == stream \o Owed(out) = Units(accepted)

\* EV_WRITE is asked for while anything is queued, and nothing clears it behind the callback.
Awaited ==
  /\ loop.pc = "written" => out.write_buffer.size = 0
  /\ loop.pc \in {"written", "clear"} \/ watch => field
  /\ ~ EmptyOutput(out) => \/ field \/ overtaken
                           \/ handler.pc = "add_events" \/ loop.pc \in {"pending", "written"}

OutInv == OutShapes /\ Sent /\ Awaited

\* A message is written: to the socket, behind what is owed, or not at all.
LEMMA WriteKeeps ==
  ASSUME OutShapes, Sent, NEW rec \in Rec, Write(rec)
  PROVE  /\ GoodOutput(out)' /\ room' \in 0 .. MaxRoom /\ accepted' \in Seq(Rec)
         /\ stream' \in Stream
         /\ Sent' /\ out'.write_buffer = out.write_buffer
         /\ ~ Pending(rec) => out' = out
<1>1. PICK w : w = WriteData(out, rec, room)
  OBVIOUS
<1>2. /\ out' = w.output /\ room' = room - Len(w.taken) /\ stream' = stream \o w.taken
      /\ accepted' = IF w.refused THEN accepted ELSE Append(accepted, rec)
  BY <1>1 DEF Write
<1>3. room \in Nat /\ room \in 0 .. MaxRoom /\ MaxRoom \in Nat
  BY StreamAssumption DEF OutShapes
<1>4. /\ GoodOutput(w.output) /\ w.output.write_buffer = out.write_buffer
      /\ w.taken \in Stream /\ Len(w.taken) \in 0 .. room
      /\ (~ w.pending => w.output = out)
      /\ (w.refused => w.taken \o Owed(w.output) = Owed(out))
      /\ (~ w.refused => w.taken \o Owed(w.output) = Owed(out) \o Taken(rec, rec.size))
  <2>1. GoodOutput(out) /\ room \in Nat /\ rec \in Rec
    BY <1>3 DEF OutShapes
  <2>2. WriteDone(out, rec, room, w)
    BY <1>1, <2>1, WriteDataIs
  <2> QED BY <2>2 DEF WriteDone
<1>5. PICK s \in Stream, a \in Seq(Rec), t \in Stream, o \in Stream, f \in Stream, n \in Stream :
        /\ s = stream /\ a = accepted /\ t = w.taken /\ o = Owed(out) /\ f = Taken(rec, rec.size)
        /\ n = Owed(w.output)
  BY <1>4, OutputIs, TakenIs DEF OutShapes, Rec
<1>6. s \o o = Units(a) /\ s \o t \in Stream /\ (s \o t) \o n = s \o (t \o n)
  <2>1. s \o o = Units(a)
    BY <1>5, Zenon DEF Sent
  <2> QED BY <2>1, StreamConcat, Associative, ZenonT(30)
<1>7. accepted' \in Seq(Rec) /\ (s \o t) \o n = Units(accepted')
  <2>1. CASE w.refused
    BY <1>2, <1>4, <1>5, <1>6, <2>1
  <2>2. CASE ~ w.refused
    <3>1. Append(a, rec) \in Seq(Rec) /\ Units(Append(a, rec)) = Units(a) \o f
      BY <1>5, UnitsAppend
    <3>2. s \o (o \o f) = (s \o o) \o f
      BY Associative, ZenonT(30)
    <3>3. accepted' = Append(a, rec) /\ t \o n = o \o f
      BY <1>2, <1>4, <1>5, <2>2
    <3> QED BY <1>6, <3>1, <3>2, <3>3, Zenon
  <2> QED BY <2>1, <2>2
<1>8. room' \in 0 .. MaxRoom
  BY <1>2, <1>3, <1>4
<1>9. Sent'
  BY <1>2, <1>5, <1>7 DEF Sent, Owed
<1>10. GoodOutput(out)'
  BY <1>2, <1>4 DEF GoodOutput, BacklogExact
<1>11. ~ Pending(rec) => out' = out
  BY <1>1, <1>2, <1>4 DEF Pending
<1> QED BY <1>2, <1>4, <1>5, <1>6, <1>7, <1>8, <1>9, <1>10, <1>11

\* A pass of the connection's callback.
LEMMA PassKeeps ==
  ASSUME OutShapes, NEW o, GoodOutput(o), stream \o Owed(o) = Units(accepted), Pass(o)
  PROVE  /\ GoodOutput(out)' /\ room' \in 0 .. MaxRoom /\ accepted' = accepted /\ stream' \in Stream
         /\ Sent' /\ loop'.pc \in {"idle", "written", "clear"}
         /\ loop'.pc = "written" => out'.write_buffer.size = 0
         /\ loop'.pc = "clear" => EmptyOutput(out')
<1>1. CASE EmptyOutput(o)
  <2>1. out' = o /\ LoopAt("clear", 0) /\ UNCHANGED <<room, accepted, stream>>
    BY <1>1 DEF Pass
  <2>2. loop'.pc = "clear"
    BY <2>1 DEF LoopAt
  <2>3. GoodOutput(out)'
    BY <2>1 DEF GoodOutput, BacklogExact
  <2>4. Sent'
    BY <2>1 DEF Sent, Owed
  <2> QED BY <1>1, <2>1, <2>2, <2>3, <2>4 DEF OutShapes
<1>2. CASE ~ EmptyOutput(o)
  <2>1. PICK w : w = WritePass(o, room)
    OBVIOUS
  <2>2. /\ out' = w.output /\ room' = room - Len(w.taken) /\ stream' = stream \o w.taken
        /\ LoopAt(IF w.whole THEN "written" ELSE "idle", 0) /\ accepted' = accepted
    BY <1>2, <2>1 DEF Pass
  <2>3. room \in Nat /\ room \in 0 .. MaxRoom /\ MaxRoom \in Nat
    BY StreamAssumption DEF OutShapes
  <2>4. /\ GoodOutput(w.output) /\ w.taken \in Stream /\ Len(w.taken) \in 0 .. room
        /\ w.taken \o Owed(w.output) = Owed(o)
        /\ (w.whole => w.output.write_buffer.size = 0)
    BY <1>2, <2>1, <2>3, WritePassIs
  <2>5. PICK s \in Stream, t \in Stream, n \in Stream :
          s = stream /\ t = w.taken /\ n = Owed(w.output)
    BY <2>4, OutputIs DEF OutShapes
  <2>6. s \o t \in Stream /\ (s \o t) \o n = s \o (t \o n)
    BY StreamConcat, Associative
  <2>7. Sent'
    <3>1. (s \o t) \o n = Units(accepted)
      BY <2>4, <2>5, <2>6
    <3> QED BY <2>2, <2>5, <3>1 DEF Sent, Owed
  <2>8. GoodOutput(out)'
    BY <2>2, <2>4 DEF GoodOutput, BacklogExact
  <2>9. room' \in 0 .. MaxRoom
    BY <2>2, <2>3, <2>4
  <2>10. loop'.pc \in {"written", "idle"} /\ (loop'.pc = "written" => w.whole)
    <3>1. CASE w.whole
      BY <2>2, <3>1 DEF LoopAt
    <3>2. CASE ~ w.whole
      BY <2>2, <3>2 DEF LoopAt
    <3> QED BY <3>1, <3>2
  <2> QED BY <2>2, <2>4, <2>5, <2>6, <2>7, <2>8, <2>9, <2>10
<1> QED BY <1>1, <1>2

\* The buffer of a message that was written is freed: nothing of it was owed.
LEMMA FreedBuffer ==
  ASSUME NEW o, GoodOutput(o), o.write_buffer.size = 0
  PROVE  GoodOutput([o EXCEPT !.write_buffer = NoRec]) /\ Owed([o EXCEPT !.write_buffer = NoRec]) = Owed(o)
<1>1. PICK f : f = [o EXCEPT !.write_buffer = NoRec]
  OBVIOUS
<1>2. NoRec \in Rec /\ NoRec.size = 0
  BY DEF NoRec, Rec
<1>3. f \in Outputs /\ f.queue = o.queue /\ f.backlog = o.backlog /\ f.write_buffer = NoRec
  BY <1>1, <1>2 DEF GoodOutput, Outputs
<1>4. GoodOutput(f)
  BY <1>3 DEF GoodOutput, BacklogExact
<1>5. Taken(NoRec, NoRec.size) = <<>>
  BY <1>2, TakenIs, EmptySeq DEF Stream
<1>6. Taken(o.write_buffer, o.write_buffer.size) = <<>>
  <2>1. o.write_buffer \in Rec
    BY OutputIs
  <2> QED BY <2>1, TakenIs, EmptySeq DEF Stream
<1> QED BY <1>1, <1>3, <1>4, <1>5, <1>6, Zenon DEF Owed

\* Steps that leave the messages, the socket and the interest in EV_WRITE alone.
LEMMA OutQuiet ==
  ASSUME OutInv, UNCHANGED <<wire, interest>>,
         handler.pc = "add_events" => handler'.pc = "add_events",
         loop.pc \in {"pending", "written"} => loop'.pc = loop.pc,
         loop'.pc \in {"written", "clear"} => loop'.pc = loop.pc
  PROVE  OutInv'
<1>1. UNCHANGED <<out, room, accepted, stream, field, watch, mod, overtaken>>
  BY DEF wire, interest
<1>2. OutShapes' /\ Sent'
  BY <1>1 DEF OutInv, OutShapes, Sent, GoodOutput, BacklogExact, Owed
<1>3. Awaited'
  BY <1>1 DEF OutInv, Awaited, EmptyOutput
<1> QED BY <1>2, <1>3 DEF OutInv

\* The producer, the handler's other steps and the operations of the loop.
LEMMA SessionOutputs ==
  ASSUME PipeInv, OutInv,
         \/ Put \/ Call \/ Play \/ Pause("PAUSE") \/ Pause("TEARDOWN")
         \/ AddFd \/ Attach \/ RemoveFd \/ Detach \/ CloseWriteEnd \/ Kill
         \/ Check \/ Move \/ Waking \/ \E g \in Gens : AttachWriter(g) \/ DetachWriter(g)
  PROVE  OutInv'
<1>1. CASE Put \/ Call
  <2>1. UNCHANGED <<wire, interest, handler, loop>>
    BY <1>1 DEF Put, Call
  <2> QED BY <2>1, OutQuiet
<1>2. CASE Play \/ Pause("PAUSE") \/ Pause("TEARDOWN")
  <2>1. UNCHANGED <<wire, interest, loop>> /\ handler.pc = "idle"
    BY <1>2 DEF Play, Pause, MayBegin
  <2> QED BY <2>1, OutQuiet
<1>3. CASE AddFd \/ Attach \/ RemoveFd \/ Detach \/ CloseWriteEnd \/ Kill
  <2>1. UNCHANGED <<wire, interest, loop>> /\ handler.pc # "add_events"
    BY <1>3 DEF AddFd, Attach, RemoveFd, Detach, CloseWriteEnd, Kill
  <2> QED BY <2>1, OutQuiet
<1>4. CASE Check \/ Move
  <2>1. UNCHANGED <<wire, interest, handler>> /\ loop.pc \in {"check", "move"}
    BY <1>4 DEF Check, Move
  <2>2. loop'.pc \in {"idle", "send", "check"}
    <3>1. CASE Check
      BY <3>1 DEF Check, LoopAt
    <3>2. CASE Move
      BY <3>2 DEF Move, LoopAt
    <3> QED BY <1>4, <3>1, <3>2
  <2> QED BY <2>1, <2>2, OutQuiet
<1>5. CASE Waking
  <2>1. PICK g \in Gens : Wake(g)
    BY <1>5 DEF Waking
  <2>2. UNCHANGED <<wire, interest, handler>> /\ loop.pc = "idle"
    BY <2>1 DEF Wake
  <2>3. loop' = loop \/ loop'.pc = "check"
    BY <2>1 DEF Wake, LoopAt
  <2> QED BY <2>2, <2>3, OutQuiet
<1>6. CASE \E g \in Gens : AttachWriter(g) \/ DetachWriter(g)
  <2>1. UNCHANGED <<wire, interest, handler, loop>>
    BY <1>6 DEF AttachWriter, DetachWriter
  <2> QED BY <2>1, OutQuiet
<1> QED BY <1>1, <1>2, <1>3, <1>4, <1>5, <1>6

\* A handler writes its response.
LEMMA RespondOutputs == ASSUME PipeInv, OutInv, Respond PROVE OutInv'
<1>1. PICK response : response = [id |-> 0 - handler.handled, size |-> ResponseSize]
  OBVIOUS
<1>2. response \in Rec
  BY <1>1, StreamAssumption DEF PipeInv, PipeShapes, HandlerShape, Rec
<1>3. /\ Write(response) /\ UNCHANGED <<field, watch, mod, overtaken, loop>>
      /\ handler.pc = "respond"
      /\ HandlerAt(IF Pending(response) THEN "add_events" ELSE "idle")
  BY <1>1 DEF Respond, interest
<1>4. /\ GoodOutput(out)' /\ room' \in 0 .. MaxRoom /\ accepted' \in Seq(Rec) /\ stream' \in Stream
      /\ Sent' /\ out'.write_buffer = out.write_buffer
      /\ ~ Pending(response) => out' = out
  BY <1>2, <1>3, WriteKeeps DEF OutInv
<1>5. Pending(response) => handler'.pc = "add_events"
  BY <1>3 DEF HandlerAt, PipeInv, PipeShapes, HandlerShape
<1>6. OutShapes'
  BY <1>3, <1>4 DEF OutInv, OutShapes
<1>7. Awaited'
  <2>1. CASE Pending(response)
    BY <1>3, <1>4, <1>5, <2>1 DEF OutInv, Awaited
  <2>2. CASE ~ Pending(response)
    <3>1. out' = out
      BY <1>4, <2>2
    <3> QED BY <1>3, <3>1 DEF OutInv, Awaited, EmptyOutput
  <2> QED BY <2>1, <2>2
<1> QED BY <1>4, <1>6, <1>7 DEF OutInv

\* The writer sends a packet.
LEMMA SendOutputs == ASSUME PipeInv, OutInv, Send PROVE OutInv'
<1>1. PICK packet : packet = [id |-> rtp.cursor + 1, size |-> PacketSize]
  OBVIOUS
<1>2. packet \in Rec
  BY <1>1, StreamAssumption DEF PipeInv, PipeShapes, RtpShape, Rec
<1>3. UNCHANGED <<field, watch, mod, overtaken, handler>> /\ loop.pc = "send"
  BY DEF Send, interest
<1>4. CASE rtp.killed \/ rtp.cursor + 1 > produced
  <2>1. LoopAt("idle", 0) /\ UNCHANGED wire
    BY <1>4 DEF Send
  <2>2. loop'.pc = "idle" /\ UNCHANGED interest
    BY <1>3, <2>1 DEF LoopAt, interest
  <2> QED BY <1>3, <2>1, <2>2, OutQuiet
<1>5. CASE ~ (rtp.killed \/ rtp.cursor + 1 > produced)
  <2>1. Write(packet) /\ LoopAt(IF Pending(packet) THEN "pending" ELSE "move", loop.gen)
    BY <1>1, <1>5 DEF Send
  <2>2. /\ GoodOutput(out)' /\ room' \in 0 .. MaxRoom /\ accepted' \in Seq(Rec)
        /\ stream' \in Stream
        /\ Sent' /\ out'.write_buffer = out.write_buffer
        /\ ~ Pending(packet) => out' = out
    BY <1>2, <2>1, WriteKeeps DEF OutInv
  <2>3. OutShapes'
    BY <1>3, <2>2 DEF OutInv, OutShapes
  <2>4. Awaited'
    <3>1. CASE Pending(packet)
      <4>1. loop'.pc = "pending"
        BY <2>1, <3>1 DEF LoopAt
      <4> QED BY <1>3, <4>1 DEF OutInv, Awaited
    <3>2. CASE ~ Pending(packet)
      <4>1. loop'.pc = "move" /\ out' = out
        BY <2>1, <2>2, <3>2 DEF LoopAt
      <4> QED BY <1>3, <4>1 DEF OutInv, Awaited, EmptyOutput
    <3> QED BY <3>1, <3>2
  <2> QED BY <2>2, <2>3, <2>4 DEF OutInv
<1> QED BY <1>4, <1>5

\* g_event_add_events: EV_WRITE is asked for.
LEMMA AddEventsOutputs == ASSUME OutInv, RespondPending \/ SendPending PROVE OutInv'
<1>1. /\ UNCHANGED <<out, room, accepted, stream>> /\ field' = TRUE /\ watch' = watch
      /\ loop' = loop \/ loop'.pc = "move"
  <2>1. AddEvents /\ UNCHANGED <<out, room, accepted, stream>>
    BY DEF RespondPending, SendPending, wire
  <2>2. loop' = loop \/ loop'.pc = "move"
    BY DEF RespondPending, SendPending, LoopAt
  <2> QED BY <2>1, <2>2 DEF AddEvents
<1>2. mod' \in BOOLEAN /\ overtaken' \in BOOLEAN
  <2>1. mod' = (mod \/ ~ field) /\ overtaken' = (overtaken /\ field)
    BY Zenon DEF RespondPending, SendPending, AddEvents
  <2> QED BY <2>1, Zenon DEF OutInv, OutShapes
<1>3. OutShapes' /\ Sent'
  BY <1>1, <1>2 DEF OutInv, OutShapes, Sent, GoodOutput, BacklogExact, Owed
<1>4. Awaited'
  BY <1>1 DEF OutInv, Awaited
<1> QED BY <1>3, <1>4 DEF OutInv

\* The callback of the connection, and what it does when nothing is left.
LEMMA CallbackOutputs == ASSUME OutInv, Modify \/ Writable \/ Written \/ ClearWrite PROVE OutInv'
<1>1. CASE Modify
  <2>1. UNCHANGED <<wire, field, overtaken, handler, loop>> /\ mod' = FALSE /\ watch' = field
    BY <1>1 DEF Modify
  <2>2. OutShapes' /\ Sent'
    BY <2>1 DEF wire, OutInv, OutShapes, Sent, GoodOutput, BacklogExact, Owed
  <2>3. Awaited'
    BY <2>1 DEF wire, OutInv, Awaited, EmptyOutput
  <2> QED BY <2>2, <2>3 DEF OutInv
<1>2. CASE Writable \/ Written
  <2>1. UNCHANGED <<field, watch, mod, overtaken, handler>> /\ field
    BY <1>2 DEF Writable, Written, interest, OutInv, Awaited
  <2>2. PICK o : GoodOutput(o) /\ Owed(o) = Owed(out) /\ Pass(o)
    <3>1. CASE Writable
      BY <3>1 DEF Writable, OutInv, OutShapes
    <3>2. CASE Written
      <4>1. out.write_buffer.size = 0 /\ GoodOutput(out)
        BY <3>2 DEF Written, OutInv, OutShapes, Awaited
      <4> QED BY <3>2, <4>1, FreedBuffer DEF Written
    <3> QED BY <1>2, <3>1, <3>2
  <2>3. /\ GoodOutput(out)' /\ room' \in 0 .. MaxRoom /\ accepted' = accepted /\ stream' \in Stream
        /\ Sent' /\ (loop'.pc = "written" => out'.write_buffer.size = 0)
    BY <2>2, PassKeeps DEF OutInv, Sent
  <2>4. OutShapes'
    BY <2>1, <2>3 DEF OutInv, OutShapes
  <2>5. Awaited'
    BY <2>1, <2>3 DEF Awaited
  <2> QED BY <2>3, <2>4, <2>5 DEF OutInv
<1>3. CASE ClearWrite
  <2>1. /\ UNCHANGED <<wire, handler>> /\ mod' = mod /\ field' = FALSE /\ watch' = FALSE
        /\ LoopAt("idle", 0)
    BY <1>3 DEF ClearWrite
  <2>2. overtaken' = ~ EmptyOutput(out)
    BY <1>3, Zenon DEF ClearWrite
  <2>3. overtaken' \in BOOLEAN /\ (~ EmptyOutput(out)' => overtaken')
    <3>1. EmptyOutput(out)' <=> EmptyOutput(out)
      BY <2>1 DEF wire, EmptyOutput
    <3> QED BY <2>2, <3>1, Zenon
  <2>4. OutShapes' /\ Sent'
    BY <2>1, <2>3 DEF wire, OutInv, OutShapes, Sent, GoodOutput, BacklogExact, Owed
  <2>5. Awaited'
    BY <2>1, <2>3 DEF LoopAt, Awaited
  <2> QED BY <2>4, <2>5 DEF OutInv
<1> QED BY <1>1, <1>2, <1>3

LEMMA PeerOutputs == ASSUME OutInv, PeerReads PROVE OutInv'
<1>1. UNCHANGED <<out, accepted, stream, field, watch, mod, overtaken, handler, loop>> /\ room' = MaxRoom
  BY DEF PeerReads, interest
<1>2. room' \in 0 .. MaxRoom
  BY <1>1, StreamAssumption
<1>3. OutShapes'
  BY <1>1, <1>2 DEF OutInv, OutShapes, GoodOutput, BacklogExact
<1>4. Sent' /\ Awaited'
  BY <1>1 DEF OutInv, Sent, Owed, Awaited, EmptyOutput
<1> QED BY <1>3, <1>4 DEF OutInv

LEMMA OutInit == ASSUME Init PROVE OutInv
<1> USE DEF Init
<1>1. GoodOutput(out) /\ EmptyOutput(out)
  BY UnitsNothing DEF NewOutput, NoRec, GoodOutput, Outputs, Rec, BacklogExact, EmptyOutput
<1>2. Sent
  <2>1. Owed(out) = <<>>
    BY <1>1, OutputIs
  <2> QED BY <2>1, UnitsNothing, EmptySeq DEF Sent
<1>3. OutShapes
  <2>1. <<>> \in Stream /\ <<>> \in Seq(Rec)
    BY UnitsNothing, StreamConcat
  <2>2. room \in 0 .. MaxRoom /\ accepted \in Seq(Rec) /\ stream \in Stream
    BY <2>1, StreamAssumption
  <2>3. field \in BOOLEAN /\ watch \in BOOLEAN /\ mod \in BOOLEAN /\ overtaken \in BOOLEAN
    OBVIOUS
  <2> QED BY <1>1, <2>2, <2>3 DEF OutShapes
<1>4. Awaited
  BY <1>1 DEF Awaited
<1> QED BY <1>2, <1>3, <1>4 DEF OutInv

LEMMA OutStep == ASSUME PipeInv, OutInv, [Next]_vars PROVE OutInv'
<1>1. CASE Put \/ Call \/ Play \/ Pause("PAUSE") \/ Pause("TEARDOWN") \/ Waking
  BY <1>1, SessionOutputs
<1>2. CASE Handling
  BY <1>2, SessionOutputs, RespondOutputs, AddEventsOutputs DEF Handling
<1>3. CASE Operations
  BY <1>3, SessionOutputs, CallbackOutputs DEF Operations
<1>4. CASE Writable \/ PeerReads
  BY <1>4, CallbackOutputs, PeerOutputs
<1>5. CASE Writing
  BY <1>5, SessionOutputs, SendOutputs, AddEventsOutputs, CallbackOutputs DEF Writing
<1>6. CASE UNCHANGED vars
  <2>1. UNCHANGED <<wire, interest, handler, loop>>
    BY <1>6 DEF vars, wire, interest
  <2> QED BY <2>1, OutQuiet
<1> QED BY <1>1, <1>2, <1>3, <1>4, <1>5, <1>6 DEF Next

LEMMA OutputIsSound == ASSUME PipeInv, OutInv PROVE OutputSound
<1>1. TypeOK
  BY DEF TypeOK, PipeInv, PipeShapes, PipeShape, EvShape, RtpShape, OutInv, OutShapes
<1>2. PICK s \in Stream, o \in Stream, u \in Stream : s = stream /\ o = Owed(out) /\ u = Units(accepted)
  BY OutputIs, WholeIs DEF OutInv, OutShapes
<1>3. u = s \o o
  BY <1>2 DEF OutInv, Sent
<1>4. Len(u) = Len(s) + Len(o) /\ Len(o) = out.write_buffer.size + out.backlog
  BY <1>2, <1>3, StreamConcat, OutputIs DEF OutInv, OutShapes
<1>5. Len(Units(accepted)) - Len(stream) = out.backlog + out.write_buffer.size
  <2>1. out.backlog \in Nat /\ out.write_buffer.size \in Nat /\ Len(s) \in Nat
    BY <1>2, OutputIs DEF OutInv, OutShapes, Stream
  <2> QED BY <1>2, <1>4, <2>1
<1>6. IsPrefix(stream, Units(accepted))
  BY <1>2, <1>3, PrefixOfConcat
<1>7. BacklogExact(out)
  BY DEF OutInv, OutShapes, GoodOutput
<1> QED BY <1>1, <1>5, <1>6, <1>7 DEF OutputSound, OutInv, Awaited

\* What the client gets is the accepted messages, whole, in order and without a gap; what is still
\* to come is counted exactly; and it is waited for.
THEOREM OutputAlwaysSound == Spec => []OutputSound
<1>1. Init => PipeInv /\ OutInv
  BY PipeInit, OutInit
<1>2. PipeInv /\ OutInv /\ [Next]_vars => (PipeInv /\ OutInv)'
  BY PipeStep, OutStep
<1>3. PipeInv /\ OutInv => OutputSound
  BY OutputIsSound
<1> QED BY <1>1, <1>2, <1>3, PTL DEF Spec
=================================================================================
