----------------------------- MODULE NetWatchProofs -----------------------------
(***************************************************************************)
(* Proofs about NetWatch for every number and size of blocks, all sizes of *)
(* messages and every number of writes and messages received.              *)
(*                                                                         *)
(* The ring is put into a form that can be reasoned about: it holds n      *)
(* blocks, the k-th of which is at the position that is k behind next_deal *)
(* (Holds), and its contents are a sequence of n messages.  A write        *)
(* appends to that sequence or to its last message; a round of a flush     *)
(* takes from its first message or takes that message away.  The bytes of  *)
(* the ring and the rounds of a flush are recursive functions of the       *)
(* naturals; what is said of them rests on induction, which is proved here *)
(* from the least number for which a claim would fail.                     *)
(*                                                                         *)
(* That somebody waits to empty the ring is a second invariant.  It needs  *)
(* that no message is written before on_est was called, since what is      *)
(* written then is forgotten when the connection turns out to be           *)
(* established.                                                            *)
(***************************************************************************)
EXTENDS NetWatch, Integers, SequenceTheorems, WellFoundedInduction, TLAPS

\* The bytes of messages.
Stream == Seq(Nat \X Nat)

\* A set of naturals that is not empty has a least member.
LEMMA Least ==
  ASSUME NEW T, T \subseteq Nat, T # {}
  PROVE  \E x \in T : \A y \in T : x <= y
<1> DEFINE R == OpToRel(<, Nat)
<1>1. IsWellFoundedOn(R, Nat)
  BY NatLessThanWellFounded
<1>2. R = {ss \in Nat \X Nat : ss[1] < ss[2]}
  BY DEF OpToRel
<1> HIDE DEF R
<1>3. PICK x \in T : \A y \in T : ~ (<<y, x>> \in R)
  BY <1>1, WFMin
<1>4. ASSUME NEW y \in T PROVE x <= y
  <2>1. x \in Nat /\ y \in Nat
    OBVIOUS
  <2>2. SUFFICES ASSUME y < x PROVE FALSE
    BY <2>1
  <2>3. <<y, x>> \in {ss \in Nat \X Nat : ss[1] < ss[2]}
    BY <2>1, <2>2
  <2>4. <<y, x>> \in R
    BY <2>3, <1>2, Zenon
  <2> QED BY <2>4, <1>3, Zenon
<1> QED BY <1>4

\* Induction on a set up to a number, from the least number that is not in the set.
LEMMA Induct ==
  ASSUME NEW S, NEW m \in Nat, 0 \in S, \A n \in 0 .. m - 1 : n \in S => n + 1 \in S
  PROVE  \A n \in 0 .. m : n \in S
<1> SUFFICES ASSUME NEW n0 \in 0 .. m, n0 \notin S PROVE FALSE
  OBVIOUS
<1> DEFINE T == {n \in 0 .. m : n \notin S}
<1>1. T \subseteq Nat /\ T # {}
  OBVIOUS
<1>2. PICK x \in T : \A y \in T : x <= y
  BY <1>1, Least
<1>3. x # 0
  BY <1>2
<1>4. x - 1 \in 0 .. m - 1 /\ x - 1 \notin T
  BY <1>2, <1>3
<1> QED BY <1>2, <1>4

\* Bytes put behind bytes are bytes, and as many.
LEMMA StreamConcat ==
  /\ <<>> \in Stream
  /\ \A x \in Stream : x \o <<>> = x /\ <<>> \o x = x /\ Len(x) \in Nat
  /\ \A x, y \in Stream : x \o y \in Stream /\ Len(x \o y) = Len(x) + Len(y)
BY ConcatProperties, ConcatEmptySeq, EmptySeq, LenProperties DEF Stream

\* The bytes of two sequences put together.
LEMMA StreamElements ==
  \A x, y \in Stream :
    /\ Len(x \o y) = Len(x) + Len(y)
    /\ \A i \in 1 .. Len(x) + Len(y) : (x \o y)[i] = IF i <= Len(x) THEN x[i] ELSE y[i - Len(x)]
BY ConcatProperties DEF Stream

\* Sequences of the same bytes are the same.
LEMMA StreamEqual ==
  \A x, y \in Stream : Len(x) = Len(y) /\ (\A i \in 1 .. Len(x) : x[i] = y[i]) => x = y
BY SeqEqual DEF Stream

\* It is of no account in which order sequences are put together.
LEMMA Associative == \A x, y, z \in Stream : (x \o y) \o z = x \o (y \o z)
<1> DEFINE A(T) == \A x, y, z \in Seq(T) : (x \o y) \o z = x \o (y \o z)
<1>1. \A T : A(T)
  BY ConcatAssociative
<1>2. A(Nat \X Nat)
  <2> HIDE DEF A
  <2> QED BY <1>1
<1> QED BY <1>2, Zenon DEF Stream

\* The first messages of a sequence put together, as Joined does it.
First(ss) == CHOOSE f : f = [n \in 0 .. Len(ss) |-> IF n = 0 THEN <<>> ELSE f[n - 1] \o ss[n]]

\* Messages put together are all the first of them.
LEMMA JoinedIsFirst ==
  ASSUME NEW ss PROVE Joined(ss) = First(ss)[Len(ss)]
BY DEF Joined, First

\* The first n + 1 messages are the first n and the one behind them.
LEMMA FirstDef ==
  ASSUME NEW ss, NEW N \in Nat, Len(ss) = N
  PROVE  /\ First(ss)[0] = <<>>
         /\ \A n \in 0 .. N - 1 : First(ss)[n + 1] = First(ss)[n] \o ss[n + 1]
<1> DEFINE Some(f, m) ==
      /\ f = [n \in 0 .. m |-> f[n]] /\ f[0] = <<>>
      /\ \A n \in 1 .. m : f[n] = f[n - 1] \o ss[n]
<1> DEFINE S == {m \in 0 .. N : \E f : Some(f, m)}
<1>1. 0 \in S
  <2>1. Some([n \in 0 .. 0 |-> <<>>], 0)
    OBVIOUS
  <2>2. 0 \in 0 .. N
    OBVIOUS
  <2> HIDE DEF Some
  <2> QED BY <2>1, <2>2
<1>2. ASSUME NEW m \in 0 .. N - 1, m \in S PROVE m + 1 \in S
  <2>1. PICK f : Some(f, m)
    BY <1>2
  <2>2. PICK g : g = [n \in 0 .. m + 1 |-> IF n = m + 1 THEN f[m] \o ss[n] ELSE f[n]]
    OBVIOUS
  <2>3. g = [n \in 0 .. m + 1 |-> g[n]] /\ g[0] = <<>>
    BY <2>1, <2>2
  <2>4. ASSUME NEW n \in 1 .. m + 1 PROVE g[n] = g[n - 1] \o ss[n]
    <3>1. CASE n = m + 1
      <4>1. g[n] = f[m] \o ss[n] /\ g[n - 1] = f[m]
        BY <2>2, <3>1
      <4> QED BY <4>1
    <3>2. CASE n \in 1 .. m
      <4>1. f[n] = f[n - 1] \o ss[n]
        BY <2>1, <3>2
      <4>2. g[n] = f[n] /\ g[n - 1] = f[n - 1]
        BY <2>2, <3>2
      <4> QED BY <4>1, <4>2
    <3>3. n = m + 1 \/ n \in 1 .. m
      OBVIOUS
    <3> QED BY <3>1, <3>2, <3>3, Zenon
  <2>5. Some(g, m + 1)
    BY <2>3, <2>4
  <2>6. m + 1 \in 0 .. N
    OBVIOUS
  <2> HIDE DEF Some
  <2> QED BY <2>5, <2>6
<1>3. N \in S
  <2> HIDE DEF S
  <2>1. \A n \in 0 .. N - 1 : n \in S => n + 1 \in S
    BY <1>2
  <2>2. \A n \in 0 .. N : n \in S
    BY <1>1, <2>1, Induct, Zenon
  <2> QED BY <2>2
<1>4. PICK f : Some(f, N)
  BY <1>3
<1>5. f = [n \in 0 .. N |-> IF n = 0 THEN <<>> ELSE f[n - 1] \o ss[n]]
  <2>1. \A n \in 0 .. N : f[n] = IF n = 0 THEN <<>> ELSE f[n - 1] \o ss[n]
    BY <1>4
  <2> QED BY <1>4, <2>1
<1>6. PICK h : h = First(ss)
  OBVIOUS
<1>7. h = [n \in 0 .. N |-> IF n = 0 THEN <<>> ELSE h[n - 1] \o ss[n]]
  BY <1>5, <1>6 DEF First
<1>8. h[0] = <<>>
  <2>1. 0 \in 0 .. N
    OBVIOUS
  <2> QED BY <1>7, <2>1, Zenon
<1>9. ASSUME NEW n \in 0 .. N - 1 PROVE h[n + 1] = h[n] \o ss[n + 1]
  <2>1. n + 1 \in 0 .. N /\ n + 1 # 0 /\ (n + 1) - 1 = n
    OBVIOUS
  <2>2. h[n + 1] = h[(n + 1) - 1] \o ss[n + 1]
    BY <1>7, <2>1, Zenon
  <2> QED BY <2>1, <2>2, Zenon
<1> QED BY <1>6, <1>8, <1>9, Zenon

\* Messages put together are bytes.
LEMMA JoinedTyped ==
  ASSUME NEW ss \in Seq(Stream)
  PROVE  /\ \A n \in 0 .. Len(ss) : First(ss)[n] \in Stream
         /\ Joined(ss) \in Stream
<1> PICK N \in Nat : N = Len(ss)
  BY LenProperties
<1> DEFINE F == First(ss)
<1> DEFINE S == {n \in 0 .. N : F[n] \in Stream}
<1>1. F[0] = <<>> /\ \A n \in 0 .. N - 1 : F[n + 1] = F[n] \o ss[n + 1]
  BY FirstDef
<1> HIDE DEF F
<1>2. 0 \in S
  <2>1. 0 \in 0 .. N /\ <<>> \in Stream
    BY StreamConcat
  <2> QED BY <1>1, <2>1, Zenon
<1>3. ASSUME NEW n \in 0 .. N - 1, n \in S PROVE n + 1 \in S
  <2>1. F[n + 1] = F[n] \o ss[n + 1] /\ F[n] \in Stream
    BY <1>1, <1>3, Zenon
  <2>2. n + 1 \in 0 .. N /\ n + 1 \in 1 .. N
    OBVIOUS
  <2>3. ss[n + 1] \in Stream
    BY <2>2, ElementOfSeq
  <2>4. F[n] \o ss[n + 1] \in Stream
    BY <2>1, <2>3, StreamConcat, Zenon
  <2> QED BY <2>1, <2>2, <2>4, Zenon
<1>4. \A n \in 0 .. N : n \in S
  <2> HIDE DEF S
  <2>1. \A n \in 0 .. N - 1 : n \in S => n + 1 \in S
    BY <1>3
  <2> QED BY <1>2, <2>1, Induct, Zenon
<1>5. \A n \in 0 .. N : F[n] \in Stream
  BY <1>4
<1>6. N \in 0 .. N
  OBVIOUS
<1> QED BY <1>5, <1>6, JoinedIsFirst, Zenon DEF F

\* No message put together gives no byte.
LEMMA JoinedNothing == Joined(<<>>) = <<>>
BY FirstDef, JoinedIsFirst

\* What is put together from the same messages is the same.
LEMMA SameFirst ==
  ASSUME NEW ss, NEW tt, NEW k \in Nat, NEW l \in Nat, Len(ss) = k, Len(tt) = l,
         NEW m \in Nat, m <= k, m <= l, \A i \in 1 .. m : ss[i] = tt[i]
  PROVE  First(ss)[m] = First(tt)[m]
<1> DEFINE F == First(ss)
           G == First(tt)
           S == {n \in 0 .. m : F[n] = G[n]}
<1>1. F[0] = <<>> /\ \A n \in 0 .. k - 1 : F[n + 1] = F[n] \o ss[n + 1]
  BY FirstDef
<1>2. G[0] = <<>> /\ \A n \in 0 .. l - 1 : G[n + 1] = G[n] \o tt[n + 1]
  BY FirstDef
<1> HIDE DEF F, G
<1>3. 0 \in S
  BY <1>1, <1>2
<1>4. ASSUME NEW n \in 0 .. m - 1, n \in S PROVE n + 1 \in S
  <2>1. n + 1 \in 0 .. m /\ n + 1 \in 1 .. m /\ n \in 0 .. k - 1 /\ n \in 0 .. l - 1
    OBVIOUS
  <2>2. F[n + 1] = F[n] \o ss[n + 1] /\ G[n + 1] = G[n] \o tt[n + 1]
    BY <1>1, <1>2, <2>1, Zenon
  <2>3. F[n] = G[n] /\ ss[n + 1] = tt[n + 1]
    BY <1>4, <2>1
  <2> QED BY <2>1, <2>2, <2>3, Zenon
<1>5. \A n \in 0 .. m : n \in S
  <2> HIDE DEF S
  <2>1. \A n \in 0 .. m - 1 : n \in S => n + 1 \in S
    BY <1>4
  <2> QED BY <1>3, <2>1, Induct, Zenon
<1> QED BY <1>5 DEF F, G

\* A message more: its bytes come last.
LEMMA JoinedAppend ==
  ASSUME NEW ss \in Seq(Stream), NEW s \in Stream
  PROVE  Joined(Append(ss, s)) = Joined(ss) \o s
<1> PICK N \in Nat : N = Len(ss)
  BY LenProperties
<1> PICK tt : tt = Append(ss, s)
  OBVIOUS
<1>1. tt \in Seq(Stream) /\ Len(tt) = N + 1 /\ tt[N + 1] = s /\ \A i \in 1 .. N : tt[i] = ss[i]
  BY AppendProperties
<1>2. First(tt)[N] = First(ss)[N]
  <2>1. N + 1 \in Nat /\ N <= N + 1 /\ N <= N
    OBVIOUS
  <2>2. Len(tt) = N + 1 /\ Len(ss) = N /\ \A i \in 1 .. N : tt[i] = ss[i]
    BY <1>1
  <2> QED BY <2>1, <2>2, SameFirst, Zenon
<1>3. First(tt)[N + 1] = First(tt)[N] \o tt[N + 1]
  <2>1. \A n \in 0 .. (N + 1) - 1 : First(tt)[n + 1] = First(tt)[n] \o tt[n + 1]
    <3>1. N + 1 \in Nat
      OBVIOUS
    <3> QED BY <1>1, <3>1, FirstDef, Zenon
  <2>2. N \in 0 .. (N + 1) - 1
    OBVIOUS
  <2> QED BY <2>1, <2>2, Zenon
<1> QED BY <1>1, <1>2, <1>3, JoinedIsFirst, Zenon

\* The bytes of the first message come first.
LEMMA JoinedTail ==
  ASSUME NEW ss \in Seq(Stream), ss # <<>>
  PROVE  Joined(ss) = Head(ss) \o Joined(Tail(ss))
<1>1. Len(ss) \in Nat \ {0}
  BY EmptySeq
<1> PICK N \in Nat : Len(ss) = N + 1
  <2>1. Len(ss) - 1 \in Nat /\ Len(ss) = (Len(ss) - 1) + 1
    BY <1>1
  <2> QED BY <2>1, Zenon
<1> PICK h \in Stream, tt \in Seq(Stream) : h = Head(ss) /\ tt = Tail(ss)
  BY HeadTailProperties
<1>2. Len(tt) = N /\ ss[1] = h /\ \A i \in 1 .. N : tt[i] = ss[i + 1]
  BY HeadTailProperties
<1> DEFINE F == First(ss)
           G == First(tt)
           S == {n \in 0 .. N : F[n + 1] = h \o G[n]}
<1>3. F[0] = <<>> /\ \A n \in 0 .. N : F[n + 1] = F[n] \o ss[n + 1]
  <2>1. (N + 1) - 1 = N /\ N + 1 \in Nat
    OBVIOUS
  <2> QED BY <2>1, FirstDef
<1>4. G[0] = <<>> /\ \A n \in 0 .. N - 1 : G[n + 1] = G[n] \o tt[n + 1]
  BY <1>2, FirstDef
<1>5. \A n \in 0 .. N : G[n] \in Stream
  BY <1>2, JoinedTyped
<1> HIDE DEF F, G
<1>6. 0 \in S
  <2>1. 0 \in 0 .. N /\ 0 + 1 = 1
    OBVIOUS
  <2>2. F[0 + 1] = F[0] \o ss[0 + 1]
    BY <1>3, <2>1, Zenon
  <2>3. <<>> \o h = h /\ h \o <<>> = h
    BY StreamConcat
  <2>4. F[0 + 1] = h \o G[0]
    BY <1>2, <1>3, <1>4, <2>1, <2>2, <2>3, Zenon
  <2> QED BY <2>1, <2>4, Zenon
<1>7. ASSUME NEW n \in 0 .. N - 1, n \in S PROVE n + 1 \in S
  <2>1. n + 1 \in 0 .. N /\ n \in 0 .. N /\ n + 1 \in 1 .. N
    OBVIOUS
  <2>2. F[(n + 1) + 1] = F[n + 1] \o ss[(n + 1) + 1] /\ F[n + 1] = h \o G[n]
    BY <1>3, <1>7, <2>1, Zenon
  <2>3. G[n + 1] = G[n] \o tt[n + 1] /\ tt[n + 1] = ss[(n + 1) + 1] /\ G[n] \in Stream
    BY <1>2, <1>4, <1>5, <2>1, Zenon
  <2>4. tt[n + 1] \in Stream
    BY <1>2, <2>1, ElementOfSeq
  <2>5. (h \o G[n]) \o tt[n + 1] = h \o (G[n] \o tt[n + 1])
    <3>1. \A x, y, z \in Stream : (x \o y) \o z = x \o (y \o z)
      BY Associative, Zenon
    <3> QED BY <2>3, <2>4, <3>1, Zenon
  <2>6. F[(n + 1) + 1] = h \o G[n + 1]
    BY <2>2, <2>3, <2>5, Zenon
  <2> QED BY <2>1, <2>6, Zenon
<1>8. \A n \in 0 .. N : n \in S
  <2> HIDE DEF S
  <2>1. \A n \in 0 .. N - 1 : n \in S => n + 1 \in S
    BY <1>7
  <2> QED BY <1>6, <2>1, Induct, Zenon
<1>9. F[N + 1] = h \o G[N]
  <2>1. N \in 0 .. N
    OBVIOUS
  <2> QED BY <1>8, <2>1, Zenon
<1> QED BY <1>2, <1>9, JoinedIsFirst, Zenon DEF F, G

\* Bytes added to the last message come last.
LEMMA JoinedLast ==
  ASSUME NEW ss \in Seq(Stream), NEW s \in Stream, NEW tt \in Seq(Stream),
         NEW N \in Nat, Len(ss) = N + 1, Len(tt) = N + 1, tt[N + 1] = ss[N + 1] \o s,
         \A i \in 1 .. N : tt[i] = ss[i]
  PROVE  Joined(tt) = Joined(ss) \o s
<1> DEFINE F == First(ss)
           G == First(tt)
<1>1. N \in 0 .. N + 1 /\ N + 1 \in Nat /\ (N + 1) - 1 = N /\ N <= N + 1 /\ N + 1 \in 1 .. N + 1
      /\ N \in 0 .. N
  OBVIOUS
<1>2. G[N] = F[N] /\ F[N] \in Stream
  BY <1>1, SameFirst, JoinedTyped
<1>3. \A n \in 0 .. N : F[n + 1] = F[n] \o ss[n + 1]
  BY <1>1, FirstDef
<1>4. \A n \in 0 .. N : G[n + 1] = G[n] \o tt[n + 1]
  BY <1>1, FirstDef
<1>5. ss[N + 1] \in Stream
  BY <1>1, ElementOfSeq
<1> HIDE DEF F, G
<1>6. (F[N] \o ss[N + 1]) \o s = F[N] \o (ss[N + 1] \o s)
  <2>1. \A x, y, z \in Stream : (x \o y) \o z = x \o (y \o z)
    BY Associative, Zenon
  <2> QED BY <1>2, <1>5, <2>1, Zenon
<1>7. G[N + 1] = F[N + 1] \o s
  BY <1>1, <1>2, <1>3, <1>4, <1>6, Zenon
<1> QED BY <1>7, JoinedIsFirst, Zenon DEF F, G

-----------------------------------------------------------------------------
(* The rounds of hm_net_buf_flush.                                          *)

\* Nothing was sent yet.
Start(r, free) == [ring |-> r, out |-> <<>>, free |-> free]

\* The rounds of a flush, as NetBufFlush does them.
Rounds(r, free) ==
  CHOOSE f : f = [n \in 0 .. Blocks |-> IF n = 0 THEN Start(r, free) ELSE FlushBlock(f[n - 1])]

\* A flush is the last of its rounds.
LEMMA FlushIsRounds ==
  ASSUME NEW r, NEW free PROVE NetBufFlush(r, free) = Rounds(r, free)[Blocks]
BY DEF NetBufFlush, Rounds, Start

\* The rounds of a flush start with nothing sent, and each goes on from the one before.
LEMMA RoundsDef ==
  ASSUME NEW r, NEW free
  PROVE  /\ Rounds(r, free)[0] = Start(r, free)
         /\ \A n \in 0 .. Blocks - 1 :
              Rounds(r, free)[n + 1] = FlushBlock(Rounds(r, free)[n])
<1> PICK N \in Nat : N = Blocks
  BY RingAssumption
<1> DEFINE Some(f, m) ==
      /\ f = [n \in 0 .. m |-> f[n]] /\ f[0] = Start(r, free)
      /\ \A n \in 1 .. m : f[n] = FlushBlock(f[n - 1])
<1> DEFINE S == {m \in 0 .. N : \E f : Some(f, m)}
<1>1. 0 \in S
  <2>1. Some([n \in 0 .. 0 |-> Start(r, free)], 0)
    OBVIOUS
  <2>2. 0 \in 0 .. N
    OBVIOUS
  <2> HIDE DEF Some
  <2> QED BY <2>1, <2>2
<1>2. ASSUME NEW m \in 0 .. N - 1, m \in S PROVE m + 1 \in S
  <2>1. PICK f : Some(f, m)
    BY <1>2
  <2>2. PICK g : g = [n \in 0 .. m + 1 |-> IF n = m + 1 THEN FlushBlock(f[m]) ELSE f[n]]
    OBVIOUS
  <2>3. g = [n \in 0 .. m + 1 |-> g[n]] /\ g[0] = Start(r, free)
    BY <2>1, <2>2
  <2>4. ASSUME NEW n \in 1 .. m + 1 PROVE g[n] = FlushBlock(g[n - 1])
    <3>1. CASE n = m + 1
      <4>1. g[n] = FlushBlock(f[m]) /\ g[n - 1] = f[m]
        BY <2>2, <3>1
      <4> QED BY <4>1, Zenon
    <3>2. CASE n \in 1 .. m
      <4>1. f[n] = FlushBlock(f[n - 1])
        BY <2>1, <3>2, Zenon
      <4>2. g[n] = f[n] /\ g[n - 1] = f[n - 1]
        BY <2>2, <3>2
      <4> QED BY <4>1, <4>2, Zenon
    <3>3. n = m + 1 \/ n \in 1 .. m
      OBVIOUS
    <3> QED BY <3>1, <3>2, <3>3, Zenon
  <2>5. Some(g, m + 1)
    BY <2>3, <2>4, Zenon
  <2>6. m + 1 \in 0 .. N
    OBVIOUS
  <2> HIDE DEF Some
  <2> QED BY <2>5, <2>6
<1>3. N \in S
  <2> HIDE DEF S
  <2>1. \A n \in 0 .. N - 1 : n \in S => n + 1 \in S
    BY <1>2
  <2>2. \A n \in 0 .. N : n \in S
    BY <1>1, <2>1, Induct, Zenon
  <2> QED BY <2>2
<1>4. PICK f : Some(f, N)
  BY <1>3
<1>5. f = [n \in 0 .. N |-> IF n = 0 THEN Start(r, free) ELSE FlushBlock(f[n - 1])]
  <2>1. \A n \in 0 .. N : f[n] = IF n = 0 THEN Start(r, free) ELSE FlushBlock(f[n - 1])
    <3>1. \A n \in 0 .. N : n = 0 \/ (n # 0 /\ n \in 1 .. N)
      OBVIOUS
    <3> QED BY <1>4, <3>1, Zenon
  <2> QED BY <1>4, <2>1, Zenon
<1>6. PICK h : h = Rounds(r, free)
  OBVIOUS
<1>7. h = [n \in 0 .. N |-> IF n = 0 THEN Start(r, free) ELSE FlushBlock(h[n - 1])]
  BY <1>5, <1>6, Zenon DEF Rounds
<1>8. h[0] = Start(r, free)
  <2>1. 0 \in 0 .. N
    OBVIOUS
  <2> QED BY <1>7, <2>1, Zenon
<1>9. ASSUME NEW n \in 0 .. N - 1 PROVE h[n + 1] = FlushBlock(h[n])
  <2>1. n + 1 \in 0 .. N /\ n + 1 # 0 /\ (n + 1) - 1 = n
    OBVIOUS
  <2>2. h[n + 1] = FlushBlock(h[(n + 1) - 1])
    BY <1>7, <2>1, Zenon
  <2> QED BY <2>1, <2>2, Zenon
<1> QED BY <1>6, <1>8, <1>9, Zenon

\* What every round of a flush keeps, a flush keeps.
LEMMA FlushKeeps ==
  ASSUME NEW r, NEW free, NEW G, Start(r, free) \in G, \A f \in G : FlushBlock(f) \in G
  PROVE  NetBufFlush(r, free) \in G
<1> DEFINE h == Rounds(r, free)
           S == {n \in 0 .. Blocks : h[n] \in G}
<1>1. h[0] \in G /\ \A n \in 0 .. Blocks - 1 : h[n + 1] = FlushBlock(h[n])
  BY RoundsDef, Zenon
<1>2. Blocks \in Nat
  BY RingAssumption
<1> HIDE DEF h
<1>3. 0 \in S
  <2>1. 0 \in 0 .. Blocks
    BY <1>2
  <2> QED BY <1>1, <2>1, Zenon
<1>4. ASSUME NEW n \in 0 .. Blocks - 1, n \in S PROVE n + 1 \in S
  <2>1. n + 1 \in 0 .. Blocks
    BY <1>2
  <2> QED BY <1>1, <1>4, <2>1, Zenon
<1>5. \A n \in 0 .. Blocks : n \in S
  <2> HIDE DEF S
  <2>1. \A n \in 0 .. Blocks - 1 : n \in S => n + 1 \in S
    BY <1>4
  <2> QED BY <1>2, <1>3, <2>1, Induct, Zenon
<1>6. Blocks \in 0 .. Blocks
  BY <1>2
<1> QED BY <1>5, <1>6, FlushIsRounds, Zenon DEF h

-----------------------------------------------------------------------------
(* Positions in the ring.                                                   *)

\* The position that is k after d, and how far i is behind d.
At(d, k) == IF d + k < Blocks THEN d + k ELSE d + k - Blocks
Behind(d, i) == IF d <= i THEN i - d ELSE i + Blocks - d

\* What % gives for a number that is less than twice the divisor.
LEMMA ModSmall ==
  ASSUME NEW B \in Nat \ {0}, NEW x \in Nat, x < 2 * B
  PROVE  x % B = IF x < B THEN x ELSE x - B
<1>1. CASE x < B
  BY <1>1
<1>2. CASE B <= x
  BY <1>2
<1> QED BY <1>1, <1>2

\* A position reached by going on from another.
LEMMA Places ==
  ASSUME NEW d \in Positions, NEW k \in 0 .. Blocks
  PROVE  At(d, k) \in Positions /\ (d + k) % Blocks = At(d, k)
<1>1. d + k \in Nat /\ d + k < 2 * Blocks /\ Blocks \in Nat \ {0}
  BY RingAssumption DEF Positions
<1>2. (d + k) % Blocks = IF d + k < Blocks THEN d + k ELSE d + k - Blocks
  <2> DEFINE x == d + k
  <2>1. x \in Nat /\ x < 2 * Blocks /\ Blocks \in Nat \ {0}
    BY <1>1
  <2> HIDE DEF x
  <2>2. x % Blocks = IF x < Blocks THEN x ELSE x - Blocks
    BY <2>1, ModSmall, Zenon
  <2>3. d \in Nat /\ k \in Nat /\ Blocks \in Nat \ {0}
    BY RingAssumption DEF Positions
  <2> QED BY <2>1, <2>2, <2>3 DEF x
<1>3. At(d, k) \in Positions
  BY RingAssumption DEF At, Positions
<1> QED BY <1>2, <1>3 DEF At

\* Going on by one more, and when that is once around the ring.
LEMMA NextPlace ==
  ASSUME NEW d \in Positions, NEW k \in 0 .. Blocks - 1
  PROVE  /\ At(At(d, k), 1) = At(d, k + 1)
         /\ At(d, k + 1) = d <=> k + 1 = Blocks
BY RingAssumption DEF At, Positions

\* (i + 1) % num_buffers is the next position.
LEMMA NextIs ==
  ASSUME NEW i \in Positions PROVE Following(i) = At(i, 1) /\ At(i, 1) \in Positions
<1>1. 1 \in 0 .. Blocks
  BY RingAssumption
<1> QED BY <1>1, Places DEF Following

\* How far a position is behind another is the way from there to it.
LEMMA BehindIs ==
  ASSUME NEW d \in Positions, NEW i \in Positions
  PROVE  /\ Behind(d, i) \in 0 .. Blocks - 1
         /\ At(d, Behind(d, i)) = i
         /\ \A k \in 0 .. Blocks - 1 : At(d, k) = i <=> Behind(d, i) = k
BY RingAssumption DEF At, Behind, Positions

\* Within one round of the ring no position comes twice.
LEMMA PlacesDiffer ==
  ASSUME NEW d \in Positions, NEW k \in 0 .. Blocks - 1, NEW l \in 0 .. Blocks - 1, k # l
  PROVE  At(d, k) # At(d, l)
BY RingAssumption DEF At, Positions

-----------------------------------------------------------------------------
(* The ring and what it holds.                                              *)

Ring == [buff : [Positions -> Block], next_use : Positions, next_deal : 0 .. Blocks,
         no_blocks : BOOLEAN, buffer_bytes : Nat]

\* A block with bytes to send.
Busy(b) ==
  /\ b \in Block /\ b.is_busy
  /\ b.start_pos < Len(b.raw_data) /\ Len(b.raw_data) <= BlockSize

\* The ring r holds n blocks that are to be sent, one behind the other.
Holds(r, n) ==
  /\ r \in Ring /\ n \in 0 .. Blocks
  /\ r.next_deal = Blocks <=> n = 0
  /\ r.no_blocks <=> n = Blocks
  /\ n > 0 => r.next_use = At(r.next_deal, n)
  /\ \A i \in Positions :
       IF n > 0 /\ Behind(r.next_deal, i) < n THEN Busy(r.buff[i]) ELSE r.buff[i] = FreeBlock

\* What the n blocks hold.
Contents(r, n) == [k \in 1 .. n |-> Unsent(r.buff[At(r.next_deal, k - 1)])]

\* A part of a sequence of bytes.
LEMMA SubSeqTyped ==
  ASSUME NEW s \in Stream, NEW m \in 1 .. Len(s) + 1, NEW n \in 0 .. Len(s), m <= n + 1
  PROVE  /\ SubSeq(s, m, n) \in Stream /\ Len(SubSeq(s, m, n)) = n - m + 1
         /\ \A i \in 1 .. n - m + 1 : SubSeq(s, m, n)[i] = s[m + i - 1]
<1>1. Len(s) \in Nat /\ \A i \in 1 .. Len(s) : s[i] \in Nat \X Nat
  BY LenProperties, ElementOfSeq DEF Stream
<1>2. m \in Int /\ n \in Int /\ \A i \in m .. n : s[i] \in Nat \X Nat
  BY <1>1
<1> QED BY <1>1, <1>2, SubSeqProperties DEF Stream

\* A busy block holds bytes that were not sent.
LEMMA UnsentTyped ==
  ASSUME NEW b, Busy(b)
  PROVE  /\ b.raw_data \in Stream /\ b.start_pos \in Nat /\ Len(b.raw_data) \in Nat
         /\ Unsent(b) \in Stream
         /\ Len(Unsent(b)) = Len(b.raw_data) - b.start_pos
         /\ Len(Unsent(b)) > 0
<1>1. b.raw_data \in Stream /\ b.start_pos \in 0 .. BlockSize /\ b.start_pos < Len(b.raw_data)
  BY DEF Busy, Block, Stream
<1>2. Len(b.raw_data) \in Nat /\ b.start_pos \in Nat
  BY <1>1, StreamConcat, RingAssumption
<1> PICK s \in Stream, p \in Nat, l \in Nat :
      s = b.raw_data /\ p = b.start_pos /\ l = Len(s) /\ p < l
  BY <1>1, <1>2
<1>3. p + 1 \in 1 .. l + 1 /\ l \in 0 .. l /\ p + 1 <= l + 1 /\ l - (p + 1) + 1 = l - p
  OBVIOUS
<1>4. SubSeq(s, p + 1, l) \in Stream /\ Len(SubSeq(s, p + 1, l)) = l - p
  BY <1>3, SubSeqTyped
<1> QED BY <1>1, <1>2, <1>4 DEF Unsent

\* The first n blocks from next_deal on are busy.
LEMMA BusyPlace ==
  ASSUME NEW r, NEW n, Holds(r, n), n > 0, NEW k \in 0 .. n - 1
  PROVE  /\ At(r.next_deal, k) \in Positions /\ Busy(r.buff[At(r.next_deal, k)])
         /\ r.next_deal \in Positions
<1>1. n \in 0 .. Blocks /\ r.next_deal \in 0 .. Blocks /\ r.next_deal # Blocks
  BY DEF Holds, Ring
<1>2. r.next_deal \in Positions /\ k \in 0 .. Blocks /\ k \in 0 .. Blocks - 1 /\ k < n
  BY <1>1, RingAssumption DEF Positions
<1>3. At(r.next_deal, k) \in Positions
  BY <1>2, Places
<1>4. Behind(r.next_deal, At(r.next_deal, k)) = k
  BY <1>2, <1>3, BehindIs
<1> QED BY <1>2, <1>3, <1>4 DEF Holds

\* The contents of the ring are as many messages as it holds blocks.
LEMMA ContentsTyped ==
  ASSUME NEW r, NEW n, Holds(r, n)
  PROVE  /\ Contents(r, n) \in Seq(Stream) /\ Len(Contents(r, n)) = n /\ n \in Nat
         /\ \A k \in 1 .. n : Contents(r, n)[k] = Unsent(r.buff[At(r.next_deal, k - 1)])
<1>1. n \in Nat
  BY RingAssumption DEF Holds
<1>2. ASSUME NEW k \in 1 .. n PROVE Unsent(r.buff[At(r.next_deal, k - 1)]) \in Stream
  <2>1. n > 0 /\ k - 1 \in 0 .. n - 1
    BY <1>1
  <2> QED BY <2>1, BusyPlace, UnsentTyped
<1>3. Contents(r, n) \in [1 .. n -> Stream]
  BY <1>2 DEF Contents
<1> QED BY <1>1, <1>3 DEF Contents

-----------------------------------------------------------------------------
(* What the operators of the ring do to it.                                 *)

\* Storing a message puts a block behind those the ring holds.
LEMMA StoreHolds ==
  ASSUME NEW r, NEW n, Holds(r, n), n < Blocks,
         NEW bytes \in Stream, Len(bytes) \in 1 .. BlockSize,
         NEW y, y = Store(r, bytes)
  PROVE  /\ Holds(y, n + 1)
         /\ Contents(y, n + 1) = Append(Contents(r, n), bytes)
         /\ y.buffer_bytes = r.buffer_bytes + Len(bytes)
<1> DEFINE u == r.next_use
           d == IF n = 0 THEN u ELSE r.next_deal
           b == [is_busy |-> TRUE, start_pos |-> 0, raw_data |-> bytes]
<1>1. /\ Blocks \in Nat \ {0} /\ BlockSize \in Nat \ {0} /\ n \in 0 .. Blocks - 1 /\ n \in Nat
      /\ u \in Positions /\ r.next_deal \in 0 .. Blocks /\ (r.next_deal = Blocks <=> n = 0)
      /\ r.buff \in [Positions -> Block] /\ r.buffer_bytes \in Nat /\ ~ r.no_blocks
      /\ Len(bytes) \in Nat
  BY RingAssumption DEF Holds, Ring
<1>2. d \in Positions
  BY <1>1 DEF Positions
<1>3. u = At(d, n)
  <2>1. CASE n = 0
    BY <1>1, <2>1 DEF At, Positions
  <2>2. CASE n # 0
    BY <1>1, <2>2 DEF Holds
  <2> QED BY <2>1, <2>2
<1>4. Following(u) = At(d, n + 1) /\ At(d, n + 1) \in Positions
      /\ (At(d, n + 1) = d <=> n + 1 = Blocks)
  BY <1>1, <1>2, <1>3, NextPlace, NextIs
<1>5. /\ y.buff = [r.buff EXCEPT ![u] = b] /\ y.next_deal = d /\ y.next_use = At(d, n + 1)
      /\ y.no_blocks = (r.no_blocks \/ At(d, n + 1) = d)
      /\ y.buffer_bytes = r.buffer_bytes + Len(bytes)
  BY <1>1, <1>4 DEF Store, IsEmpty, Holds, Ring
<1>6. b \in Block /\ Busy(b)
  BY <1>1 DEF Block, Busy, Stream
<1>7. y \in Ring
  <2>1. y.buff \in [Positions -> Block] /\ y.next_use \in Positions /\ y.next_deal \in 0 .. Blocks
        /\ y.no_blocks \in BOOLEAN /\ y.buffer_bytes \in Nat
    BY <1>1, <1>2, <1>4, <1>5, <1>6 DEF Positions
  <2>2. y = [buff |-> y.buff, next_use |-> y.next_use, next_deal |-> y.next_deal,
             no_blocks |-> y.no_blocks, buffer_bytes |-> y.buffer_bytes]
    BY DEF Store, Holds, Ring
  <2> QED BY <2>1, <2>2 DEF Ring
<1>8. ASSUME NEW i \in Positions
      PROVE  IF Behind(d, i) < n + 1 THEN Busy(y.buff[i]) ELSE y.buff[i] = FreeBlock
  <2>1. CASE i = u
    <3>1. Behind(d, u) = n
      BY <1>1, <1>2, <1>3, BehindIs
    <3> QED BY <1>1, <1>5, <1>6, <2>1, <3>1
  <2>2. CASE i # u
    <3>1. Behind(d, i) # n /\ Behind(d, i) \in Nat
      BY <1>1, <1>2, <1>3, <2>2, BehindIs
    <3>2. y.buff[i] = r.buff[i]
      BY <1>1, <1>5, <2>2
    <3>3. IF n > 0 /\ Behind(d, i) < n THEN Busy(r.buff[i]) ELSE r.buff[i] = FreeBlock
      BY <1>1 DEF Holds
    <3> QED BY <1>1, <3>1, <3>2, <3>3
  <2> QED BY <2>1, <2>2
<1> HIDE DEF d, u, b
<1>9. Holds(y, n + 1)
  <2>1. n + 1 \in 0 .. Blocks /\ n + 1 > 0 /\ n + 1 # 0
    BY <1>1
  <2>2. y.next_deal # Blocks
    BY <1>1, <1>2, <1>5 DEF Positions
  <2>3. y.no_blocks <=> n + 1 = Blocks
    BY <1>1, <1>4, <1>5
  <2> QED BY <1>5, <1>7, <1>8, <2>1, <2>2, <2>3 DEF Holds
<1>10. Contents(y, n + 1) = Append(Contents(r, n), bytes)
  <2> PICK c \in Seq(Stream), e \in Seq(Stream) : c = Contents(r, n) /\ e = Contents(y, n + 1)
    BY <1>9, ContentsTyped
  <2>1. Len(c) = n /\ Len(e) = n + 1
    BY <1>9, ContentsTyped
  <2>2. ASSUME NEW k \in 1 .. n PROVE e[k] = c[k]
    <3>1. k - 1 \in 0 .. Blocks - 1 /\ k - 1 # n /\ k \in 1 .. n + 1 /\ n # 0
      BY <1>1
    <3>2. At(d, k - 1) # u /\ At(d, k - 1) \in Positions
      <4>1. k - 1 \in 0 .. Blocks
        BY <1>1, <3>1
      <4> QED BY <1>1, <1>2, <1>3, <3>1, <4>1, PlacesDiffer, Places
    <3>3. y.buff[At(d, k - 1)] = r.buff[At(d, k - 1)]
      BY <1>1, <1>5, <3>2
    <3>4. e[k] = Unsent(y.buff[At(y.next_deal, k - 1)])
      BY <1>9, <3>1, ContentsTyped
    <3>5. c[k] = Unsent(r.buff[At(r.next_deal, k - 1)])
      BY ContentsTyped
    <3>6. y.next_deal = d /\ r.next_deal = d
      BY <1>5, <3>1 DEF d
    <3> QED BY <3>3, <3>4, <3>5, <3>6
  <2>3. e[n + 1] = bytes
    <3>1. n + 1 \in 1 .. n + 1 /\ (n + 1) - 1 = n
      BY <1>1
    <3>2. e[n + 1] = Unsent(y.buff[At(y.next_deal, n)])
      BY <1>9, <3>1, ContentsTyped
    <3>3. y.buff[At(y.next_deal, n)] = b
      BY <1>1, <1>3, <1>5
    <3>4. Unsent(b) = SubSeq(bytes, 1, Len(bytes))
      BY DEF b, Unsent
    <3> QED BY <3>2, <3>3, <3>4, SubSeqFull DEF Stream
  <2>4. Append(c, bytes) \in Seq(Stream) /\ Len(Append(c, bytes)) = n + 1
        /\ (\A k \in 1 .. n : Append(c, bytes)[k] = c[k]) /\ Append(c, bytes)[n + 1] = bytes
    BY <2>1, AppendProperties
  <2>5. \A k \in 1 .. n + 1 : e[k] = Append(c, bytes)[k]
    BY <1>1, <2>2, <2>3, <2>4
  <2>6. e = Append(c, bytes)
    BY <2>1, <2>4, <2>5, SeqEqual
  <2> QED BY <2>6
<1> QED BY <1>5, <1>9, <1>10

\* What is left of a sequence without its first p bytes.
LEMMA Cut ==
  ASSUME NEW s \in Stream, NEW l \in Nat, l = Len(s), NEW p \in 0 .. l
  PROVE  /\ SubSeq(s, p + 1, l) \in Stream /\ Len(SubSeq(s, p + 1, l)) = l - p
         /\ \A i \in 1 .. l - p : SubSeq(s, p + 1, l)[i] = s[p + i]
<1>1. p + 1 \in 1 .. l + 1 /\ l \in 0 .. l /\ p + 1 <= l + 1 /\ l - (p + 1) + 1 = l - p
      /\ \A i \in 1 .. l - p : (p + 1) + i - 1 = p + i
  OBVIOUS
<1>2. SubSeq(s, p + 1, l) \in Stream /\ Len(SubSeq(s, p + 1, l)) = l - p
      /\ \A i \in 1 .. l - p : SubSeq(s, p + 1, l)[i] = s[(p + 1) + i - 1]
  BY <1>1, SubSeqTyped, Zenon
<1> QED BY <1>1, <1>2, Zenon

\* Taking the first bytes away and adding others at the end do not disturb each other.
LEMMA ConcatSubSeq ==
  ASSUME NEW s \in Stream, NEW t \in Stream, NEW p \in 0 .. Len(s)
  PROVE  SubSeq(s \o t, p + 1, Len(s) + Len(t)) = SubSeq(s, p + 1, Len(s)) \o t
<1> PICK l \in Nat, m \in Nat : l = Len(s) /\ m = Len(t)
  BY StreamConcat
<1> PICK c \in Stream : c = s \o t
  BY StreamConcat
<1>1. Len(c) = l + m /\ \A i \in 1 .. l + m : c[i] = IF i <= l THEN s[i] ELSE t[i - l]
  BY StreamElements, Zenon
<1> DEFINE k == l + m
           q == l - p
<1>0. k \in Nat /\ q \in Nat /\ p \in 0 .. l /\ k = l + m /\ q = l - p
  OBVIOUS
<1> HIDE DEF k, q
<1>2. SubSeq(s, p + 1, l) \in Stream /\ Len(SubSeq(s, p + 1, l)) = l - p
      /\ \A i \in 1 .. l - p : SubSeq(s, p + 1, l)[i] = s[p + i]
  BY <1>0, Cut, ZenonT(30)
<1> PICK a \in Stream : a = SubSeq(s, p + 1, l)
  BY <1>2
<1>3. Len(a) = q /\ \A i \in 1 .. q : a[i] = s[p + i]
  BY <1>0, <1>2, Zenon
<1>4. SubSeq(c, p + 1, k) \in Stream /\ Len(SubSeq(c, p + 1, k)) = k - p
      /\ \A i \in 1 .. k - p : SubSeq(c, p + 1, k)[i] = c[p + i]
  <2>1. p \in 0 .. k /\ k = Len(c)
    BY <1>0, <1>1
  <2> QED BY <1>0, <2>1, Cut, Zenon
<1> PICK e \in Stream : e = SubSeq(c, p + 1, k)
  BY <1>4
<1>5. Len(e) = k - p /\ \A i \in 1 .. k - p : e[i] = c[p + i]
  BY <1>4, Zenon
<1> PICK f \in Stream : f = a \o t
  BY StreamConcat
<1>6. Len(f) = q + m /\ \A i \in 1 .. q + m : f[i] = IF i <= q THEN a[i] ELSE t[i - q]
  <2>1. /\ Len(a \o t) = Len(a) + Len(t)
        /\ \A i \in 1 .. Len(a) + Len(t) :
             (a \o t)[i] = IF i <= Len(a) THEN a[i] ELSE t[i - Len(a)]
    BY StreamElements
  <2>2. Len(a) = q /\ Len(t) = m
    BY <1>3
  <2> QED BY <2>1, <2>2
<1>7. ASSUME NEW i \in 1 .. k - p PROVE e[i] = f[i]
  <2>1. p + i \in 1 .. l + m /\ i \in 1 .. q + m
    BY <1>0
  <2>2. e[i] = c[p + i]
    BY <1>5
  <2>3. c[p + i] = IF p + i <= l THEN s[p + i] ELSE t[(p + i) - l]
    BY <1>1, <2>1, Zenon
  <2>4. f[i] = IF i <= q THEN a[i] ELSE t[i - q]
    BY <1>6, <2>1, Zenon
  <2>5. CASE p + i <= l
    <3>1. i <= q /\ i \in 1 .. q
      BY <1>0, <2>5
    <3> QED BY <1>3, <2>2, <2>3, <2>4, <2>5, <3>1, Zenon
  <2>6. CASE ~ p + i <= l
    <3>1. ~ i <= q /\ (p + i) - l = i - q
      BY <1>0, <2>6
    <3> QED BY <2>2, <2>3, <2>4, <2>6, <3>1, Zenon
  <2> QED BY <2>5, <2>6
<1>8. Len(e) = Len(f) /\ Len(e) = k - p
  BY <1>0, <1>5, <1>6
<1>9. e = f
  <2>1. \A i \in 1 .. Len(e) : e[i] = f[i]
    BY <1>7, <1>8
  <2> QED BY <1>8, <2>1, StreamEqual, Zenon
<1> QED BY <1>0, <1>9, Zenon

\* Which block was written last: hm_net_buf_last_pos.
LEMMA LastPosHolds ==
  ASSUME NEW r, NEW n, Holds(r, n)
  PROVE  LastPos(r) = IF n = 0 THEN {} ELSE {At(r.next_deal, n - 1)}
<1> DEFINE u == r.next_use
           last == IF u = 0 THEN Blocks - 1 ELSE u - 1
<1>1. n \in 0 .. Blocks /\ u \in Positions /\ last \in Positions /\ n \in Nat
  BY RingAssumption DEF Holds, Ring, Positions
<1>2. LastPos(r) = {i \in {last} : r.buff[i].is_busy}
  BY DEF LastPos
<1>3. CASE n = 0
  <2>1. r.buff[last] = FreeBlock
    BY <1>1, <1>3 DEF Holds
  <2> QED BY <1>2, <1>3, <2>1 DEF FreeBlock
<1>4. CASE n # 0
  <2>1. n > 0 /\ n - 1 \in 0 .. n - 1
    BY <1>1, <1>4
  <2>2. r.next_deal \in Positions /\ Busy(r.buff[At(r.next_deal, n - 1)])
    BY <2>1, BusyPlace
  <2>3. u = At(r.next_deal, n)
    BY <2>1 DEF Holds
  <2>4. last = At(r.next_deal, n - 1)
    BY RingAssumption, <1>1, <1>4, <2>2, <2>3 DEF At, Positions
  <2> QED BY <1>2, <1>4, <2>2, <2>4 DEF Busy
<1> QED BY <1>3, <1>4

\* Where the positions are, seen from the next one.
LEMMA NextStart ==
  ASSUME NEW d \in Positions
  PROVE  /\ \A i \in Positions :
              Behind(At(d, 1), i) = IF i = d THEN Blocks - 1 ELSE Behind(d, i) - 1
         /\ \A k \in 0 .. Blocks - 1 : At(At(d, 1), k) = At(d, k + 1)
         /\ \A i \in Positions : Behind(d, i) = 0 <=> i = d
BY RingAssumption DEF At, Behind, Positions

\* A sequence is its first k bytes and the others.
LEMMA Pieces ==
  ASSUME NEW s \in Stream, NEW k \in 0 .. Len(s)
  PROVE  /\ SubSeq(s, 1, k) \in Stream /\ Len(SubSeq(s, 1, k)) = k
         /\ SubSeq(s, k + 1, Len(s)) \in Stream /\ Len(SubSeq(s, k + 1, Len(s))) = Len(s) - k
         /\ SubSeq(s, 1, k) \o SubSeq(s, k + 1, Len(s)) = s
<1>0. PICK l \in Nat : l = Len(s) /\ k \in 0 .. l /\ k \in Nat
  BY StreamConcat
<1>1. 1 \in 1 .. l + 1 /\ k \in 0 .. l /\ 1 <= k + 1 /\ k - 1 + 1 = k
  BY <1>0
<1>2. SubSeq(s, 1, k) \in Stream /\ Len(SubSeq(s, 1, k)) = k
      /\ \A i \in 1 .. k : SubSeq(s, 1, k)[i] = s[1 + i - 1]
  BY <1>0, <1>1, SubSeqTyped
<1>3. SubSeq(s, k + 1, l) \in Stream /\ Len(SubSeq(s, k + 1, l)) = l - k
      /\ \A i \in 1 .. l - k : SubSeq(s, k + 1, l)[i] = s[k + i]
  BY <1>0, Cut
<1>4. PICK a \in Stream, b \in Stream : a = SubSeq(s, 1, k) /\ b = SubSeq(s, k + 1, l)
  BY <1>2, <1>3
<1>5. Len(a) = k /\ Len(b) = l - k /\ (\A i \in 1 .. l - k : b[i] = s[k + i])
      /\ \A i \in 1 .. k : a[i] = s[1 + i - 1]
  BY <1>2, <1>3, <1>4, Zenon
<1>6. a \o b \in Stream /\ Len(a \o b) = Len(a) + Len(b)
      /\ \A i \in 1 .. Len(a) + Len(b) : (a \o b)[i] = IF i <= Len(a) THEN a[i] ELSE b[i - Len(a)]
  BY StreamConcat, StreamElements
<1>7. PICK c \in Stream : c = a \o b
  BY <1>6
<1>8. Len(c) = l /\ \A i \in 1 .. l : c[i] = IF i <= k THEN a[i] ELSE b[i - k]
  <2>1. Len(a) + Len(b) = l /\ Len(a) = k
    BY <1>0, <1>5
  <2> QED BY <1>6, <1>7, <2>1, Zenon
<1>9. ASSUME NEW i \in 1 .. l PROVE c[i] = s[i]
  <2>1. CASE i <= k
    <3>1. i \in 1 .. k /\ 1 + i - 1 = i
      BY <1>0, <2>1
    <3> QED BY <1>5, <1>8, <2>1, <3>1, Zenon
  <2>2. CASE ~ i <= k
    <3>1. i - k \in 1 .. l - k /\ k + (i - k) = i
      BY <1>0, <2>2
    <3> QED BY <1>5, <1>8, <2>2, <3>1, Zenon
  <2> QED BY <2>1, <2>2
<1>10. c = s
  <2>1. \A i \in 1 .. Len(c) : c[i] = s[i]
    BY <1>8, <1>9
  <2> QED BY <1>0, <1>8, <2>1, StreamEqual, Zenon
<1> QED BY <1>0, <1>2, <1>3, <1>4, <1>7, <1>10, Zenon

\* A block was sent: the others are left.
LEMMA SentHolds ==
  ASSUME NEW r, NEW n, Holds(r, n), n > 0, NEW q \in Nat,
         NEW y, y = FlushOk([r EXCEPT !.buffer_bytes = q])
  PROVE  /\ Holds(y, n - 1)
         /\ Contents(y, n - 1) = Tail(Contents(r, n))
         /\ y.buffer_bytes = q
<1> DEFINE d == r.next_deal
           e == At(d, 1)
<1>1. /\ Blocks \in Nat \ {0} /\ n \in Nat \ {0} /\ n \in 0 .. Blocks /\ n - 1 \in 0 .. Blocks
      /\ r.buff \in [Positions -> Block] /\ r \in Ring /\ d \in Positions
      /\ r.next_use = At(d, n)
      /\ \A i \in Positions : IF Behind(d, i) < n THEN Busy(r.buff[i]) ELSE r.buff[i] = FreeBlock
  <2>1. 0 \in 0 .. n - 1
    BY RingAssumption DEF Holds
  <2> QED BY RingAssumption, <2>1, BusyPlace DEF Holds, Ring
<1>2. Following(d) = e /\ e \in Positions
  BY <1>1, NextIs
<1>3. PICK g \in [Positions -> Block] : g = [r.buff EXCEPT ![d] = FreeBlock]
  <2>0. PICK h \in [Positions -> Block] : h = r.buff
    BY <1>1
  <2>1. FreeBlock \in Block
    BY RingAssumption, StreamConcat DEF FreeBlock, Block, Stream
  <2>2. [h EXCEPT ![d] = FreeBlock] \in [Positions -> Block]
    BY <2>1
  <2> QED BY <2>0, <2>2
<1>4. \A i \in Positions : g[i] = IF i = d THEN FreeBlock ELSE r.buff[i]
  BY <1>1, <1>3
<1>5. /\ y.buff = g /\ y.next_use = At(d, n) /\ y.no_blocks = FALSE /\ y.buffer_bytes = q
      /\ y.next_deal = IF g[e].is_busy THEN e ELSE Blocks
  BY <1>1, <1>2, <1>3 DEF FlushOk, Ring
<1> HIDE DEF d, e
<1>6. g[e].is_busy <=> n - 1 > 0
  <2>1. Behind(d, e) = IF 1 = Blocks THEN 0 ELSE 1
    BY <1>1 DEF e, At, Behind, Positions
  <2>2. e = d <=> 1 = Blocks
    BY <1>1 DEF e, At, Positions
  <2>3. CASE e = d
    BY <1>1, <1>2, <1>4, <2>2, <2>3 DEF FreeBlock
  <2>4. CASE e # d /\ n > 1
    BY <1>1, <1>2, <1>4, <2>1, <2>2, <2>4 DEF Busy
  <2>5. CASE e # d /\ ~ n > 1
    BY <1>1, <1>2, <1>4, <2>1, <2>2, <2>5 DEF FreeBlock
  <2> QED BY <2>3, <2>4, <2>5
<1>7. y \in Ring
  <2>1. y.next_deal \in 0 .. Blocks /\ y.next_use \in Positions /\ y.no_blocks \in BOOLEAN
    <3>1. y.next_deal \in 0 .. Blocks
      <4>1. e \in 0 .. Blocks /\ Blocks \in 0 .. Blocks
        BY <1>1, <1>2 DEF Positions
      <4> QED BY <1>5, <4>1
    <3>2. y.next_use \in Positions
      BY <1>1, <1>5 DEF Ring
    <3>3. y.no_blocks \in BOOLEAN
      BY <1>5
    <3> QED BY <3>1, <3>2, <3>3
  <2>2. y = [buff |-> y.buff, next_use |-> y.next_use, next_deal |-> y.next_deal,
             no_blocks |-> y.no_blocks, buffer_bytes |-> y.buffer_bytes]
    BY <1>1 DEF FlushOk, Ring
  <2> QED BY <1>5, <2>1, <2>2 DEF Ring
<1>8. y.next_deal = IF n - 1 > 0 THEN e ELSE Blocks
  BY <1>5, <1>6
<1>9. ASSUME NEW i \in Positions
      PROVE  IF n - 1 > 0 /\ Behind(e, i) < n - 1 THEN Busy(g[i]) ELSE g[i] = FreeBlock
  <2>1. Behind(e, i) = IF i = d THEN Blocks - 1 ELSE Behind(d, i) - 1
    BY <1>1, NextStart DEF e
  <2>2. Behind(d, i) \in 0 .. Blocks - 1 /\ (Behind(d, i) = 0 <=> i = d)
    BY <1>1, BehindIs, NextStart
  <2>3. CASE i = d
    BY <1>1, <1>4, <2>1, <2>3
  <2>4. CASE i # d
    BY <1>1, <1>4, <2>1, <2>2, <2>4
  <2> QED BY <2>3, <2>4
<1>10. Holds(y, n - 1)
  <2>1. y.next_deal = Blocks <=> n - 1 = 0
    BY <1>1, <1>2, <1>8 DEF Positions
  <2>2. n - 1 > 0 => y.next_use = At(y.next_deal, n - 1)
    <3>1. n - 1 \in 0 .. Blocks - 1
      BY <1>1
    <3>2. At(e, n - 1) = At(d, (n - 1) + 1) /\ (n - 1) + 1 = n
      BY <1>1, <3>1, NextStart DEF e
    <3> QED BY <1>5, <1>8, <3>2
  <2>3. ~ y.no_blocks /\ n - 1 # Blocks
    BY <1>1, <1>5
  <2>4. ASSUME NEW i \in Positions
        PROVE  IF n - 1 > 0 /\ Behind(y.next_deal, i) < n - 1
               THEN Busy(y.buff[i]) ELSE y.buff[i] = FreeBlock
    BY <1>5, <1>8, <1>9
  <2> QED BY <1>1, <1>7, <2>1, <2>2, <2>3, <2>4 DEF Holds
<1>11. Contents(y, n - 1) = Tail(Contents(r, n))
  <2>0. PICK c \in Seq(Stream), t \in Seq(Stream) : c = Contents(r, n) /\ t = Contents(y, n - 1)
    BY <1>10, ContentsTyped
  <2>1. Len(c) = n /\ Len(t) = n - 1 /\ c # <<>>
    BY <1>1, <1>10, <2>0, ContentsTyped
  <2>2. Tail(c) \in Seq(Stream) /\ Len(Tail(c)) = n - 1
        /\ \A i \in 1 .. n - 1 : Tail(c)[i] = c[i + 1]
    BY <2>1, HeadTailProperties
  <2>3. ASSUME NEW i \in 1 .. n - 1 PROVE t[i] = c[i + 1]
    <3>1. /\ i + 1 \in 1 .. n /\ (i + 1) - 1 = i /\ i - 1 \in 0 .. Blocks - 1 /\ (i - 1) + 1 = i
          /\ i \in 0 .. Blocks - 1 /\ 0 \in 0 .. Blocks - 1 /\ i # 0 /\ i \in 0 .. Blocks
          /\ n - 1 > 0
      BY <1>1
    <3>2. At(e, i - 1) = At(d, i)
      <4>1. At(e, i - 1) = At(d, (i - 1) + 1)
        BY <1>1, <3>1, NextStart DEF e
      <4> QED BY <3>1, <4>1
    <3>3. At(d, i) \in Positions /\ At(d, i) # d
      <4>1. At(d, 0) = d
        BY <1>1 DEF At, Positions
      <4>2. At(d, i) \in Positions
        BY <1>1, <3>1, Places
      <4>3. At(d, i) # At(d, 0)
        BY <1>1, <3>1, PlacesDiffer
      <4> QED BY <4>1, <4>2, <4>3
    <3>4. g[At(d, i)] = r.buff[At(d, i)]
      BY <1>4, <3>3
    <3>5. t[i] = Unsent(y.buff[At(y.next_deal, i - 1)])
      BY <1>10, <2>0, ContentsTyped
    <3>6. c[i + 1] = Unsent(r.buff[At(d, i)])
      <4>1. c[i + 1] = Unsent(r.buff[At(r.next_deal, (i + 1) - 1)])
        BY <2>0, <3>1, ContentsTyped
      <4> QED BY <3>1, <4>1 DEF d
    <3> QED BY <1>5, <1>8, <3>1, <3>2, <3>4, <3>5, <3>6
  <2>4. t = Tail(c)
    BY <2>1, <2>2, <2>3, SeqEqual
  <2> QED BY <2>0, <2>4
<1> QED BY <1>5, <1>10, <1>11

\* Taking p bytes away and then k is taking p + k away.
LEMMA CutTwice ==
  ASSUME NEW s \in Stream, NEW l \in Nat, l = Len(s), NEW p \in Nat, NEW k \in Nat, p + k <= l
  PROVE  SubSeq(SubSeq(s, p + 1, l), k + 1, l - p) = SubSeq(s, (p + k) + 1, l)
<1>1. PICK v \in Nat, m \in Nat : v = p + k /\ m = l - p
  <2>1. p + k \in Nat /\ l - p \in Nat
    OBVIOUS
  <2> QED BY <2>1, Zenon
<1>2. p \in 0 .. l /\ v \in 0 .. l /\ k \in 0 .. m /\ m - k = l - v
  BY <1>1
<1>3. SubSeq(s, p + 1, l) \in Stream /\ Len(SubSeq(s, p + 1, l)) = l - p
      /\ \A i \in 1 .. l - p : SubSeq(s, p + 1, l)[i] = s[p + i]
  BY <1>2, Cut
<1>4. PICK t \in Stream : t = SubSeq(s, p + 1, l)
  BY <1>3
<1>5. Len(t) = m /\ \A i \in 1 .. m : t[i] = s[p + i]
  BY <1>1, <1>3, <1>4, Zenon
<1>6. SubSeq(s, v + 1, l) \in Stream /\ Len(SubSeq(s, v + 1, l)) = l - v
      /\ \A i \in 1 .. l - v : SubSeq(s, v + 1, l)[i] = s[v + i]
  BY <1>2, Cut
<1>7. SubSeq(t, k + 1, m) \in Stream /\ Len(SubSeq(t, k + 1, m)) = m - k
      /\ \A i \in 1 .. m - k : SubSeq(t, k + 1, m)[i] = t[k + i]
  BY <1>2, <1>5, Cut
<1>8. PICK a \in Stream, c \in Stream : a = SubSeq(s, v + 1, l) /\ c = SubSeq(t, k + 1, m)
  BY <1>6, <1>7
<1>9. /\ Len(a) = l - v /\ Len(c) = m - k /\ (\A i \in 1 .. l - v : a[i] = s[v + i])
      /\ \A i \in 1 .. m - k : c[i] = t[k + i]
  BY <1>6, <1>7, <1>8, Zenon
<1>10. ASSUME NEW i \in 1 .. l - v PROVE a[i] = c[i]
  <2>1. k + i \in 1 .. m /\ p + (k + i) = v + i /\ i \in 1 .. m - k
    BY <1>1, <1>2
  <2>2. t[k + i] = s[p + (k + i)]
    BY <1>5, <2>1, Zenon
  <2> QED BY <1>9, <2>1, <2>2, Zenon
<1>11. a = c
  <2>1. Len(a) = Len(c) /\ \A i \in 1 .. Len(a) : a[i] = c[i]
    BY <1>2, <1>9, <1>10
  <2> QED BY <2>1, StreamEqual, Zenon
<1> QED BY <1>1, <1>4, <1>8, <1>11, Zenon

\* A part of a block was sent: the block keeps the rest of it.
LEMMA PartBlock ==
  ASSUME NEW x, Busy(x), NEW left, left = Unsent(x), NEW k \in Nat, k < Len(left)
  PROVE  /\ Busy([x EXCEPT !.start_pos = @ + k])
         /\ Unsent([x EXCEPT !.start_pos = @ + k]) = SubSeq(left, k + 1, Len(left))
<1>2. PICK s \in Stream, p \in Nat, l \in Nat :
        s = x.raw_data /\ p = x.start_pos /\ l = Len(s)
  BY UnsentTyped
<1>3. p < l /\ l <= BlockSize /\ left = SubSeq(s, p + 1, l) /\ left \in Stream /\ Len(left) = l - p
  <2>1. p \in 0 .. l
    BY <1>2 DEF Busy
  <2> QED BY <1>2, <2>1, Cut DEF Busy, Unsent
<1>4. PICK v \in Nat : v = p + k /\ v \in 0 .. BlockSize /\ v < l
  BY <1>3, RingAssumption
<1>5. PICK b : b = [is_busy |-> TRUE, start_pos |-> v, raw_data |-> s]
  OBVIOUS
<1>6. b \in Block /\ Busy(b)
  BY <1>2, <1>3, <1>4, <1>5 DEF Block, Busy, Stream
<1>7. b = [x EXCEPT !.start_pos = @ + k]
  <2>1. x = [is_busy |-> TRUE, start_pos |-> p, raw_data |-> s]
    BY <1>2 DEF Busy, Block
  <2>2. x.start_pos + k = v
    BY <1>4, <2>1
  <2>3. [x EXCEPT !.start_pos = v] = [is_busy |-> TRUE, start_pos |-> v, raw_data |-> s]
    <3>1. PICK z : z = TRUE
      OBVIOUS
    <3>2. [[is_busy |-> z, start_pos |-> p, raw_data |-> s] EXCEPT !.start_pos = v]
            = [is_busy |-> z, start_pos |-> v, raw_data |-> s]
      OBVIOUS
    <3> QED BY <2>1, <3>1, <3>2, Zenon
  <2> QED BY <1>5, <2>2, <2>3, Zenon
<1>8. Unsent(b) = SubSeq(left, k + 1, Len(left))
  <2>1. Unsent(b) = SubSeq(s, v + 1, l)
    BY <1>2, <1>5 DEF Unsent
  <2>2. SubSeq(SubSeq(s, p + 1, l), k + 1, l - p) = SubSeq(s, (p + k) + 1, l)
    <3>1. p + k <= l /\ l = Len(s)
      BY <1>2, <1>3, <1>4
    <3> QED BY <3>1, CutTwice, ZenonT(30)
  <2> QED BY <1>3, <1>4, <2>1, <2>2
<1> QED BY <1>6, <1>7, <1>8, Zenon

\* k bytes of the first block were sent, q bytes are left.
PartSent(r, q, k) ==
  [[r EXCEPT !.buffer_bytes = q] EXCEPT !.buff[r.next_deal].start_pos = @ + k]

\* A part of the first block was sent: the ring holds the rest of it and the other blocks.
LEMMA PartHolds ==
  ASSUME NEW r, NEW n, Holds(r, n), n > 0, NEW q \in Nat,
         NEW left, left = Unsent(r.buff[r.next_deal]), NEW k \in Nat, k < Len(left),
         NEW y, y = PartSent(r, q, k)
  PROVE  /\ Holds(y, n)
         /\ Tail(Contents(y, n)) = Tail(Contents(r, n))
         /\ Head(Contents(y, n)) = SubSeq(left, k + 1, Len(left))
         /\ y.buffer_bytes = q
<1> DEFINE d == r.next_deal
<1>1. /\ Blocks \in Nat \ {0} /\ BlockSize \in Nat \ {0} /\ n \in Nat \ {0} /\ n \in 0 .. Blocks
      /\ r.buff \in [Positions -> Block] /\ r \in Ring
      /\ d \in Positions /\ Busy(r.buff[d])
  <2>1. 0 \in 0 .. n - 1 /\ At(d, 0) = IF d < Blocks THEN d ELSE d - Blocks
    BY RingAssumption DEF Holds, Ring, At
  <2>2. d \in Positions /\ Busy(r.buff[At(d, 0)])
    BY <2>1, BusyPlace
  <2>3. At(d, 0) = d
    BY RingAssumption, <2>1, <2>2 DEF Positions
  <2> QED BY RingAssumption, <2>2, <2>3 DEF Holds, Ring
<1>2. PICK b : b = [r.buff[d] EXCEPT !.start_pos = @ + k]
  OBVIOUS
<1>3. Busy(b) /\ Unsent(b) = SubSeq(left, k + 1, Len(left))
  BY <1>1, <1>2, PartBlock
<1>6. b \in Block
  BY <1>3 DEF Busy
<1>9. /\ y.buff = [r.buff EXCEPT ![d] = b] /\ y.next_deal = d /\ y.next_use = r.next_use
      /\ y.no_blocks = r.no_blocks /\ y.buffer_bytes = q
  BY <1>1, <1>2 DEF Ring, PartSent
<1>10. y \in Ring
  <2>1. y.buff \in [Positions -> Block]
    <3>1. PICK g \in [Positions -> Block] : g = r.buff
      BY <1>1
    <3>2. [g EXCEPT ![d] = b] \in [Positions -> Block]
      BY <1>1, <1>6
    <3> QED BY <1>9, <3>1, <3>2
  <2>2. y = [buff |-> y.buff, next_use |-> y.next_use, next_deal |-> y.next_deal,
             no_blocks |-> y.no_blocks, buffer_bytes |-> y.buffer_bytes]
    BY <1>1 DEF Ring, PartSent
  <2> QED BY <1>1, <1>9, <2>1, <2>2 DEF Ring
<1>11. \A j \in Positions : y.buff[j] = IF j = d THEN b ELSE r.buff[j]
  BY <1>1, <1>9
<1> HIDE DEF d
<1>12. ASSUME NEW j \in Positions
       PROVE  IF n > 0 /\ Behind(d, j) < n THEN Busy(y.buff[j]) ELSE y.buff[j] = FreeBlock
  <2>1. CASE j = d
    <3>1. Behind(d, d) = 0
      BY <1>1, NextStart
    <3> QED BY <1>1, <1>3, <1>11, <2>1, <3>1
  <2>2. CASE j # d
    BY <1>11, <2>2 DEF Holds, d
  <2> QED BY <2>1, <2>2
<1>13. Holds(y, n)
  BY <1>9, <1>10, <1>12 DEF Holds, d
<1>14. PICK c \in Seq(Stream), e \in Seq(Stream) : c = Contents(r, n) /\ e = Contents(y, n)
  BY <1>13, ContentsTyped
<1>15. Len(c) = n /\ Len(e) = n /\ c # <<>> /\ e # <<>>
  BY <1>1, <1>13, <1>14, ContentsTyped
<1>16. Head(e) = SubSeq(left, k + 1, Len(left))
  <2>0. PICK m \in 1 .. n : m = 1 /\ m - 1 = 0
    BY <1>1
  <2>1. At(d, 0) = d
    BY <1>1 DEF At, Positions, d
  <2>2. e[1] = Unsent(y.buff[At(y.next_deal, 0)])
    <3>1. e[m] = Unsent(y.buff[At(y.next_deal, m - 1)])
      BY <1>13, <1>14, ContentsTyped
    <3> QED BY <2>0, <3>1
  <2>3. e[1] = Unsent(b)
    BY <1>1, <1>9, <1>11, <2>1, <2>2 DEF d
  <2> QED BY <1>3, <1>15, <2>3, HeadTailProperties
<1>17. Tail(e) = Tail(c)
  <2>1. /\ Tail(c) \in Seq(Stream) /\ Len(Tail(c)) = n - 1
        /\ \A i \in 1 .. n - 1 : Tail(c)[i] = c[i + 1]
    BY <1>15, HeadTailProperties
  <2>2. /\ Tail(e) \in Seq(Stream) /\ Len(Tail(e)) = n - 1
        /\ \A i \in 1 .. n - 1 : Tail(e)[i] = e[i + 1]
    BY <1>15, HeadTailProperties
  <2>3. ASSUME NEW i \in 1 .. n - 1 PROVE e[i + 1] = c[i + 1]
    <3>1. /\ i + 1 \in 1 .. n /\ (i + 1) - 1 = i /\ i \in 0 .. Blocks - 1
          /\ 0 \in 0 .. Blocks - 1 /\ i # 0 /\ i \in 0 .. Blocks
      BY <1>1
    <3>2. At(d, 0) = d
      BY <1>1 DEF At, Positions, d
    <3>3. At(d, i) \in Positions
      BY <1>1, <3>1, Places DEF d
    <3>4. At(d, i) # At(d, 0)
      BY <1>1, <3>1, PlacesDiffer DEF d
    <3>5. y.buff[At(d, i)] = r.buff[At(d, i)]
      BY <1>11, <3>2, <3>3, <3>4
    <3>6. e[i + 1] = Unsent(y.buff[At(y.next_deal, (i + 1) - 1)])
      BY <1>13, <1>14, <3>1, ContentsTyped
    <3>7. c[i + 1] = Unsent(r.buff[At(r.next_deal, (i + 1) - 1)])
      BY <1>14, <3>1, ContentsTyped
    <3> QED BY <1>9, <3>1, <3>5, <3>6, <3>7 DEF d
  <2> QED BY <2>1, <2>2, <2>3, SeqEqual
<1> QED BY <1>9, <1>13, <1>14, <1>16, <1>17

\* The ring holds n blocks and counts their bytes.
Exact(r, n) == Holds(r, n) /\ r.buffer_bytes = Len(Joined(Contents(r, n)))

\* The first bytes of the ring are those of the block at next_deal.
LEMMA FirstBlock ==
  ASSUME NEW r, NEW n, Exact(r, n), n > 0, NEW left, left = Unsent(r.buff[r.next_deal])
  PROVE  /\ left \in Stream /\ Len(left) \in Nat \ {0}
         /\ Contents(r, n) \in Seq(Stream) /\ Head(Contents(r, n)) = left
         /\ Tail(Contents(r, n)) \in Seq(Stream) /\ Joined(Tail(Contents(r, n))) \in Stream
         /\ Joined(Contents(r, n)) = left \o Joined(Tail(Contents(r, n)))
         /\ Contents(r, n) # <<>>
<1>1. n \in Nat \ {0} /\ 0 \in 0 .. n - 1 /\ Holds(r, n)
  BY RingAssumption DEF Exact, Holds
<1>2. r.next_deal \in Positions /\ Busy(r.buff[At(r.next_deal, 0)])
  BY <1>1, BusyPlace
<1>3. At(r.next_deal, 0) = r.next_deal
  BY <1>2, RingAssumption DEF At, Positions
<1>4. left \in Stream /\ Len(left) \in Nat \ {0}
  <2>1. Unsent(r.buff[r.next_deal]) \in Stream /\ Len(Unsent(r.buff[r.next_deal])) > 0
    BY <1>2, <1>3, UnsentTyped
  <2> QED BY <2>1, StreamConcat
<1>5. PICK c \in Seq(Stream) : c = Contents(r, n)
  BY <1>1, ContentsTyped
<1>6. Len(c) = n /\ c # <<>>
  BY <1>1, <1>5, ContentsTyped
<1>7. Head(c) = left
  <2>0. PICK m \in 1 .. n : m = 1 /\ m - 1 = 0
    BY <1>1
  <2>1. c[m] = Unsent(r.buff[At(r.next_deal, m - 1)])
    BY <1>1, <1>5, ContentsTyped
  <2>2. c[1] = left
    BY <1>3, <2>0, <2>1
  <2> QED BY <1>6, <2>2, HeadTailProperties
<1>8. Tail(c) \in Seq(Stream)
  BY <1>6, HeadTailProperties
<1>9. Joined(Tail(c)) \in Stream
  BY <1>8, JoinedTyped
<1>10. Joined(c) = left \o Joined(Tail(c))
  <2>1. Joined(c) = Head(c) \o Joined(Tail(c))
    BY <1>6, JoinedTail, Zenon
  <2> QED BY <1>7, <2>1, Zenon
<1> QED BY <1>4, <1>5, <1>6, <1>7, <1>8, <1>9, <1>10, Zenon

\* What a flush has done so far: out was sent of the bytes all, and of the room that free
\* bytes had the rest is left.
Sending(f, all, free) ==
  /\ f = [ring |-> f.ring, out |-> f.out, free |-> f.free]
  /\ f.out \in Stream /\ f.free \in Nat /\ Len(f.out) + f.free = free
  /\ \E n : /\ Exact(f.ring, n)
            /\ f.out \o Joined(Contents(f.ring, n)) = all

\* A round of a flush sends the first bytes that are left and keeps the others.
LEMMA FlushRound ==
  ASSUME NEW all, NEW free, NEW f, Sending(f, all, free)
  PROVE  Sending(FlushBlock(f), all, free)
<1>1. PICK r, out, k : f = [ring |-> r, out |-> out, free |-> k]
  BY DEF Sending
<1>2. f.ring = r /\ f.out = out /\ f.free = k /\ out \in Stream /\ k \in Nat
      /\ Len(out) + k = free
  BY <1>1 DEF Sending
<1>3. PICK n : Exact(r, n) /\ out \o Joined(Contents(r, n)) = all
  BY <1>2 DEF Sending
<1>4. n \in Nat /\ (IsEmpty(r) <=> n = 0) /\ r \in Ring /\ r.buffer_bytes \in Nat /\ Holds(r, n)
  BY <1>3, RingAssumption DEF Exact, Holds, IsEmpty, Ring
<1>5. CASE n = 0
  BY <1>2, <1>4, <1>5 DEF FlushBlock, Sending
<1>6. CASE n > 0
  <2>1. PICK left : left = Unsent(r.buff[r.next_deal])
    OBVIOUS
  <2>2. PICK m : m = Lesser(k, Len(left))
    OBVIOUS
  <2>3. PICK c \in Seq(Stream), t \in Seq(Stream), j \in Stream :
          c = Contents(r, n) /\ t = Tail(c) /\ j = Joined(t)
    BY <1>3, <1>6, <2>1, FirstBlock
  <2>4. /\ left \in Stream /\ Len(left) \in Nat \ {0} /\ Head(c) = left /\ Joined(c) = left \o j
    BY <1>3, <1>6, <2>1, <2>3, FirstBlock
  <2>5. m \in Nat /\ m \in 0 .. Len(left) /\ k - m \in Nat
    BY <1>2, <2>2, <2>4 DEF Lesser
  <2>6. PICK a \in Stream, b \in Stream :
          a = SubSeq(left, 1, m) /\ b = SubSeq(left, m + 1, Len(left)) /\ a \o b = left
          /\ Len(a) = m /\ Len(b) = Len(left) - m
    <3>1. /\ SubSeq(left, 1, m) \in Stream /\ Len(SubSeq(left, 1, m)) = m
          /\ SubSeq(left, m + 1, Len(left)) \in Stream
          /\ Len(SubSeq(left, m + 1, Len(left))) = Len(left) - m
          /\ SubSeq(left, 1, m) \o SubSeq(left, m + 1, Len(left)) = left
      BY <2>4, <2>5, Pieces, ZenonT(30)
    <3> QED BY <3>1, Zenon
  <2>7. PICK u \in Nat, v \in Nat : u = Len(left) /\ v = Len(j) /\ r.buffer_bytes = u + v
    <3>1. Len(left) \in Nat /\ Len(j) \in Nat /\ Len(left \o j) = Len(left) + Len(j)
      BY <2>4, StreamConcat
    <3>2. r.buffer_bytes = Len(left \o j)
      BY <1>3, <2>3, <2>4, Zenon DEF Exact
    <3> QED BY <3>1, <3>2
  <2>8. PICK q \in Nat : q = r.buffer_bytes - m /\ q = (u - m) + v
    <3>1. (u + v) - m \in Nat /\ (u + v) - m = (u - m) + v
      BY <2>5, <2>7
    <3> QED BY <2>7, <3>1
  <2>9. q = Len(b) + Len(j)
    <3>1. Len(b) = u - m
      BY <2>6, <2>7, Zenon
    <3> QED BY <2>7, <2>8, <3>1, Zenon
  <2>10. PICK y : y = IF m = Len(left) THEN FlushOk([r EXCEPT !.buffer_bytes = q])
                      ELSE PartSent(r, q, m)
    OBVIOUS
  <2>11. \E l : Holds(y, l) /\ y.buffer_bytes = q /\ Joined(Contents(y, l)) = b \o j
    <3>1. CASE m = Len(left)
      <4>1. y = FlushOk([r EXCEPT !.buffer_bytes = q])
        BY <2>10, <3>1, Zenon
      <4>2. Holds(y, n - 1) /\ Contents(y, n - 1) = Tail(Contents(r, n)) /\ y.buffer_bytes = q
        BY <1>4, <1>6, <4>1, SentHolds
      <4>3. b = <<>>
        <5>1. Len(b) = 0
          BY <2>4, <2>6, <3>1
        <5> QED BY <5>1, EmptySeq DEF Stream
      <4>4. b \o j = j
        BY <4>3, StreamConcat, Zenon
      <4> QED BY <2>3, <4>2, <4>4, Zenon
    <3>2. CASE m # Len(left)
      <4>1. y = PartSent(r, q, m)
        BY <2>10, <3>2, Zenon
      <4>2. m < Len(left)
        BY <2>4, <2>5, <3>2
      <4>3. Holds(y, n) /\ Tail(Contents(y, n)) = t /\ Head(Contents(y, n)) = b
            /\ y.buffer_bytes = q
        <5>1. Tail(Contents(y, n)) = Tail(Contents(r, n)) /\ y.buffer_bytes = q /\ Holds(y, n)
              /\ Head(Contents(y, n)) = SubSeq(left, m + 1, Len(left))
          BY <1>4, <1>6, <2>1, <2>5, <4>1, <4>2, PartHolds, SMTT(30)
        <5> QED BY <2>3, <2>6, <5>1, Zenon
      <4>4. PICK e \in Seq(Stream) : e = Contents(y, n) /\ Len(e) = n
        BY <4>3, ContentsTyped
      <4>5. e # <<>>
        BY <1>6, <4>4
      <4>6. Joined(e) = Head(e) \o Joined(Tail(e))
        BY <4>5, JoinedTail, Zenon
      <4> QED BY <2>3, <4>3, <4>4, <4>6, Zenon
    <3> QED BY <3>1, <3>2, Zenon
  <2>12. PICK l : Holds(y, l) /\ y.buffer_bytes = q /\ Joined(Contents(y, l)) = b \o j
    BY <2>11, Zenon
  <2>13. Exact(y, l)
    <3>1. Len(b \o j) = Len(b) + Len(j)
      BY StreamConcat
    <3> QED BY <2>9, <2>12, <3>1 DEF Exact
  <2>14. (out \o a) \o Joined(Contents(y, l)) = all
    <3>1. (out \o a) \o (b \o j) = out \o (a \o (b \o j))
      <4>1. b \o j \in Stream
        BY StreamConcat
      <4> QED BY <1>2, <4>1, Associative, ZenonT(30)
    <3>2. a \o (b \o j) = (a \o b) \o j
      BY Associative, ZenonT(30)
    <3> QED BY <1>3, <2>3, <2>4, <2>6, <2>12, <3>1, <3>2, Zenon
  <2>15. out \o a \in Stream /\ Len(out \o a) = Len(out) + m /\ Len(out) \in Nat
    <3>1. out \in Stream
      BY <1>2
    <3>2. out \o a \in Stream /\ Len(out \o a) = Len(out) + Len(a) /\ Len(out) \in Nat
      BY <3>1, StreamConcat
    <3> QED BY <2>6, <3>2, Zenon
  <2>16. FlushBlock(f) = [ring |-> y, out |-> out \o a, free |-> k - m]
    <3>1. ~ IsEmpty(r)
      BY <1>4, <1>6
    <3> QED BY <1>2, <2>1, <2>2, <2>6, <2>8, <2>10, <3>1, Zenon DEF FlushBlock, PartSent
  <2>17. PICK g : g = FlushBlock(f)
    OBVIOUS
  <2>18. g.ring = y /\ g.out = out \o a /\ g.free = k - m
         /\ g = [ring |-> y, out |-> out \o a, free |-> k - m]
    BY <2>16, <2>17
  <2>19. Len(g.out) + g.free = free
    <3>1. PICK w \in Nat : w = Len(out)
      BY <2>15
    <3>2. k \in Nat /\ m \in Nat /\ w + k = free
      BY <1>2, <2>5, <3>1
    <3>3. (w + m) + (k - m) = free
      BY <3>2
    <3> QED BY <2>15, <2>18, <3>1, <3>3, Zenon
  <2>20. \E i : Exact(g.ring, i) /\ g.out \o Joined(Contents(g.ring, i)) = all
    BY <2>13, <2>14, <2>18, Zenon
  <2> QED BY <2>5, <2>15, <2>17, <2>18, <2>19, <2>20, Zenon DEF Sending
<1> QED BY <1>4, <1>5, <1>6

\* A flush sends the first bytes of the ring, as many as there is room for, and keeps the rest.
LEMMA FlushSends ==
  ASSUME NEW r, NEW n, Exact(r, n), NEW free \in Nat
  PROVE  Sending(NetBufFlush(r, free), Joined(Contents(r, n)), free)
<1> DEFINE all == Joined(Contents(r, n))
           G == {f \in [ring : Ring, out : Stream, free : Nat] : Sending(f, all, free)}
<1>1. ASSUME NEW f, Sending(f, all, free) PROVE f \in [ring : Ring, out : Stream, free : Nat]
  <2>1. f.ring \in Ring
    BY <1>1 DEF Sending, Exact, Holds
  <2> QED BY <1>1, <2>1 DEF Sending
<1>2. Start(r, free) \in G
  <2>1. Start(r, free).ring = r /\ Start(r, free).out = <<>> /\ Start(r, free).free = free
        /\ Start(r, free) = [ring |-> r, out |-> <<>>, free |-> free]
    BY DEF Start
  <2>2. all \in Stream
    BY ContentsTyped, JoinedTyped DEF Exact
  <2>3. <<>> \o all = all /\ Len(<<>>) = 0 /\ <<>> \in Stream
    BY <2>2, StreamConcat
  <2> HIDE DEF all
  <2>4. Exact(r, n) /\ <<>> \o Joined(Contents(r, n)) = all
    BY <2>3 DEF all
  <2>5. 0 + free = free
    OBVIOUS
  <2>6. Sending(Start(r, free), all, free)
    BY <2>1, <2>3, <2>4, <2>5, Zenon DEF Sending
  <2> QED BY <1>1, <2>6
<1>3. ASSUME NEW f \in G PROVE FlushBlock(f) \in G
  <2> HIDE DEF all
  <2>1. Sending(FlushBlock(f), all, free)
    BY FlushRound, Zenon
  <2> QED BY <1>1, <2>1
<1>4. NetBufFlush(r, free) \in G
  <2> HIDE DEF G
  <2> QED BY <1>2, <1>3, FlushKeeps
<1> QED BY <1>4

\* The blocks that wait are those the ring holds.
LEMMA WaitingIs ==
  ASSUME NEW r, NEW n, Holds(r, n)
  PROVE  Waiting(r) = [i \in 1 .. n |-> At(r.next_deal, i - 1)]
<1> DEFINE d == r.next_deal
           u == r.next_use
<1>1. /\ Blocks \in Nat \ {0} /\ n \in 0 .. Blocks /\ n \in Nat /\ (IsEmpty(r) <=> n = 0)
      /\ (r.no_blocks <=> n = Blocks)
  BY RingAssumption DEF Holds, IsEmpty
<1>2. CASE n = 0
  BY <1>1, <1>2 DEF Waiting
<1>3. CASE n # 0
  <2>1. d \in Positions /\ u \in Positions /\ u = At(d, n)
    <3>1. 0 \in 0 .. n - 1
      BY <1>1, <1>3
    <3> QED BY <1>1, <1>3, <3>1, BusyPlace DEF Holds, Ring
  <2> HIDE DEF d, u
  <2>2. (IF r.no_blocks THEN Blocks ELSE (u + Blocks - d) % Blocks) = n
    <3>1. CASE n = Blocks
      BY <1>1, <3>1
    <3>2. CASE n # Blocks
      <4> DEFINE x == u + Blocks - d
      <4>1. x \in Nat /\ x < 2 * Blocks /\ n = IF x < Blocks THEN x ELSE x - Blocks
        BY <1>1, <2>1, <3>2 DEF At, Positions
      <4> HIDE DEF x
      <4>2. x % Blocks = IF x < Blocks THEN x ELSE x - Blocks
        BY <1>1, <4>1, ModSmall, Zenon
      <4>3. d \in Nat /\ u \in Nat
        BY <2>1, <1>1 DEF Positions
      <4>4. (u + Blocks - d) % Blocks = n
        BY <1>1, <4>1, <4>2, <4>3 DEF x
      <4> QED BY <1>1, <3>2, <4>4
    <3> QED BY <3>1, <3>2
  <2>3. ASSUME NEW i \in 1 .. n PROVE (d + i - 1) % Blocks = At(d, i - 1)
    <3>1. PICK k \in 0 .. Blocks : k = i - 1 /\ d + k = d + i - 1
      BY <1>1, <2>1 DEF Positions
    <3>2. (d + k) % Blocks = At(d, k)
      BY <2>1, Places
    <3> QED BY <3>1, <3>2, Zenon
  <2>4. Waiting(r) = [i \in 1 .. n |-> (d + i - 1) % Blocks]
    BY <1>1, <1>3, <2>2, Zenon DEF Waiting, d, u
  <2> QED BY <2>3, <2>4 DEF d
<1> QED BY <1>2, <1>3

\* The bytes of the ring are its contents one after the other.
LEMMA RingBytesIs ==
  ASSUME NEW r, NEW n, Holds(r, n)
  PROVE  RingBytes(r) = Joined(Contents(r, n))
<1>1. PICK w : w = Waiting(r)
  OBVIOUS
<1>2. w = [i \in 1 .. n |-> At(r.next_deal, i - 1)]
  BY <1>1, WaitingIs
<1>3. DOMAIN w = 1 .. n /\ \A i \in 1 .. n : w[i] = At(r.next_deal, i - 1)
  BY <1>2
<1>4. [i \in DOMAIN w |-> Unsent(r.buff[w[i]])] = Contents(r, n)
  BY <1>3 DEF Contents
<1> QED BY <1>1, <1>4, Zenon DEF RingBytes

\* A ring that holds some blocks and counts their bytes is sound.
LEMMA ExactSound ==
  ASSUME NEW r, NEW n, Exact(r, n)
  PROVE  /\ {i \in Positions : r.buff[i].is_busy} = {Waiting(r)[i] : i \in DOMAIN Waiting(r)}
         /\ \A i \in Positions :
              LET b == r.buff[i] IN
                IF b.is_busy THEN b.start_pos < Len(b.raw_data) /\ Len(b.raw_data) <= BlockSize
                             ELSE b = FreeBlock
         /\ IsEmpty(r) <=> Waiting(r) = <<>>
         /\ r.no_blocks <=> \A i \in Positions : r.buff[i].is_busy
         /\ r.buffer_bytes = Len(RingBytes(r))
<1>1. Holds(r, n) /\ n \in 0 .. Blocks /\ n \in Nat /\ Blocks \in Nat \ {0}
      /\ (IsEmpty(r) <=> n = 0) /\ (r.no_blocks <=> n = Blocks)
  BY RingAssumption DEF Exact, Holds, IsEmpty
<1>2. PICK w : w = Waiting(r) /\ DOMAIN w = 1 .. n /\ \A i \in 1 .. n : w[i] = At(r.next_deal, i - 1)
  BY <1>1, WaitingIs
<1>3. \A i \in Positions : r.buff[i].is_busy <=> n > 0 /\ Behind(r.next_deal, i) < n
  BY <1>1 DEF Holds, Busy, FreeBlock
<1>4. n > 0 => r.next_deal \in Positions
  <2>1. n > 0 => 0 \in 0 .. n - 1
    BY <1>1
  <2> QED BY <1>1, <2>1, BusyPlace
<1>5. {i \in Positions : r.buff[i].is_busy} = {w[i] : i \in 1 .. n}
  <2>1. ASSUME NEW i \in Positions, r.buff[i].is_busy PROVE \E k \in 1 .. n : w[k] = i
    <3>1. n > 0 /\ Behind(r.next_deal, i) < n /\ r.next_deal \in Positions
      BY <1>3, <1>4, <2>1
    <3>2. PICK k \in 0 .. Blocks - 1 : k = Behind(r.next_deal, i) /\ At(r.next_deal, k) = i
      BY <3>1, BehindIs
    <3>3. k + 1 \in 1 .. n /\ (k + 1) - 1 = k
      BY <1>1, <3>1, <3>2
    <3>4. w[k + 1] = i
      BY <1>2, <3>2, <3>3
    <3> QED BY <3>3, <3>4
  <2>2. ASSUME NEW k \in 1 .. n PROVE w[k] \in Positions /\ r.buff[w[k]].is_busy
    <3>1. n > 0 /\ k - 1 \in 0 .. n - 1
      BY <1>1
    <3> QED BY <1>1, <1>2, <3>1, BusyPlace DEF Busy
  <2> QED BY <2>1, <2>2
<1>6. IsEmpty(r) <=> w = <<>>
  <2>1. w = <<>> <=> n = 0
    <3>1. w = [i \in 1 .. n |-> At(r.next_deal, i - 1)]
      BY <1>1, <1>2, WaitingIs
    <3> QED BY <1>1, <3>1
  <2> QED BY <1>1, <2>1
<1>7. r.no_blocks <=> \A i \in Positions : r.buff[i].is_busy
  <2>1. CASE n = Blocks
    <3>1. \A i \in Positions : Behind(r.next_deal, i) < n
      BY <1>1, <1>4, <2>1, BehindIs
    <3> QED BY <1>1, <1>3, <2>1, <3>1
  <2>2. CASE n # Blocks /\ n # 0
    <3>1. n \in 0 .. Blocks - 1 /\ n \in 0 .. Blocks
      BY <1>1, <2>2
    <3>2. At(r.next_deal, n) \in Positions /\ r.next_deal \in Positions
      BY <1>1, <1>4, <2>2, <3>1, Places
    <3>3. Behind(r.next_deal, At(r.next_deal, n)) = n
      BY <3>1, <3>2, BehindIs
    <3> QED BY <1>1, <1>3, <2>2, <3>2, <3>3
  <2>3. CASE n = 0
    <3>1. 0 \in Positions
      BY <1>1 DEF Positions
    <3> QED BY <1>1, <1>3, <2>3, <3>1
  <2> QED BY <2>1, <2>2, <2>3
<1>8. \A i \in Positions :
        LET b == r.buff[i] IN
          IF b.is_busy THEN b.start_pos < Len(b.raw_data) /\ Len(b.raw_data) <= BlockSize
                       ELSE b = FreeBlock
  BY <1>1, <1>3 DEF Holds, Busy
<1>9. r.buffer_bytes = Len(RingBytes(r))
  BY <1>1, RingBytesIs, Zenon DEF Exact
<1> QED BY <1>2, <1>5, <1>6, <1>7, <1>8, <1>9, ZenonT(30)

\* What writing bytes to a ring that holds n blocks gives.
Written(r, n, bytes, free, w) ==
  /\ w.ret \in {0, Len(bytes)}
  /\ w.out \in Stream /\ Len(w.out) <= free
  /\ \E l : /\ Exact(w.ring, l)
            /\ w.out \o Joined(Contents(w.ring, l))
                 = IF w.ret > 0 THEN Joined(Contents(r, n)) \o bytes ELSE Joined(Contents(r, n))
            /\ l > 0 => n > 0 \/ (w.ret > 0 /\ w.pending)

\* Storing a message adds its bytes and counts them.
LEMMA StoreExact ==
  ASSUME NEW r, NEW n, Exact(r, n), n < Blocks, NEW bytes \in Stream, Len(bytes) \in 1 .. BlockSize
  PROVE  /\ Exact(Store(r, bytes), n + 1)
         /\ Joined(Contents(Store(r, bytes), n + 1)) = Joined(Contents(r, n)) \o bytes
<1>1. PICK y : y = Store(r, bytes)
  OBVIOUS
<1>2. Holds(y, n + 1) /\ Contents(y, n + 1) = Append(Contents(r, n), bytes)
      /\ y.buffer_bytes = r.buffer_bytes + Len(bytes)
  BY <1>1, StoreHolds DEF Exact
<1>3. PICK c \in Seq(Stream), j \in Stream : c = Contents(r, n) /\ j = Joined(c)
  BY ContentsTyped, JoinedTyped DEF Exact
<1>4. Joined(Contents(y, n + 1)) = j \o bytes
  BY <1>2, <1>3, JoinedAppend, Zenon
<1>5. Len(j \o bytes) = Len(j) + Len(bytes)
  BY StreamConcat
<1>6. y.buffer_bytes = Len(j) + Len(bytes)
  BY <1>2, <1>3, Zenon DEF Exact
<1> QED BY <1>1, <1>2, <1>3, <1>4, <1>5, <1>6, Zenon DEF Exact

\* Adding a message to the last block adds its bytes and counts them.
LEMMA AppendExact ==
  ASSUME NEW r, NEW n, Exact(r, n), n > 0, NEW bytes \in Stream,
         NEW i, i = At(r.next_deal, n - 1), Len(r.buff[i].raw_data) + Len(bytes) <= BlockSize
  PROVE  /\ Exact(AppendLast(r, i, bytes), n)
         /\ Joined(Contents(AppendLast(r, i, bytes), n)) = Joined(Contents(r, n)) \o bytes
<1> PICK y : y = AppendLast(r, i, bytes)
  OBVIOUS
<1> Holds(r, n)
  BY DEF Exact
<1> DEFINE d == r.next_deal
<1>1. /\ Blocks \in Nat \ {0} /\ n \in Nat \ {0} /\ n \in 0 .. Blocks /\ n - 1 \in 0 .. n - 1
      /\ n - 1 \in 0 .. Blocks - 1
      /\ r.buff \in [Positions -> Block] /\ r.buffer_bytes \in Nat /\ r \in Ring
      /\ Len(bytes) \in Nat
  BY RingAssumption, StreamConcat DEF Holds, Ring
<1>2. d \in Positions /\ i \in Positions /\ Busy(r.buff[i])
  BY <1>1, BusyPlace
<1> PICK s \in Stream, p \in Nat, l \in Nat :
      s = r.buff[i].raw_data /\ p = r.buff[i].start_pos /\ l = Len(s)
  BY <1>2, UnsentTyped
<1> DEFINE b == [is_busy |-> TRUE, start_pos |-> p, raw_data |-> s \o bytes]
<1>3. b = [r.buff[i] EXCEPT !.raw_data = @ \o bytes]
  <2>0. PICK x : x = r.buff[i]
    OBVIOUS
  <2>1. x = [is_busy |-> TRUE, start_pos |-> p, raw_data |-> s]
    BY <1>2, <2>0 DEF Busy, Block
  <2>2. PICK v : v = s \o bytes
    OBVIOUS
  <2>3. x.raw_data \o bytes = v
    BY <2>1, <2>2
  <2>4. [x EXCEPT !.raw_data = v] = [is_busy |-> TRUE, start_pos |-> p, raw_data |-> v]
    <3>1. PICK q : q = TRUE
      OBVIOUS
    <3>2. [[is_busy |-> q, start_pos |-> p, raw_data |-> s] EXCEPT !.raw_data = v]
            = [is_busy |-> q, start_pos |-> p, raw_data |-> v]
      OBVIOUS
    <3> QED BY <2>1, <3>1, <3>2, Zenon
  <2> QED BY <2>0, <2>2, <2>3, <2>4, Zenon
<1>4. /\ y.buff = [r.buff EXCEPT ![i] = b] /\ y.next_deal = d /\ y.next_use = r.next_use
      /\ y.no_blocks = r.no_blocks /\ y.buffer_bytes = r.buffer_bytes + Len(bytes)
  BY <1>1, <1>2, <1>3 DEF AppendLast, Ring
<1>5. b \in Block /\ Busy(b) /\ Unsent(b) = Unsent(r.buff[i]) \o bytes
  <2>1. s \o bytes \in Stream /\ Len(s \o bytes) = l + Len(bytes) /\ p < l /\ p \in 0 .. BlockSize
    BY <1>2, StreamConcat DEF Busy, Block
  <2>2. b \in Block /\ Busy(b)
    BY <1>1, <2>1 DEF Busy, Block, Stream
  <2>3. p \in 0 .. Len(s)
    BY <2>1
  <2>4. SubSeq(s \o bytes, p + 1, l + Len(bytes)) = SubSeq(s, p + 1, l) \o bytes
    BY <2>3, ConcatSubSeq
  <2> QED BY <2>1, <2>2, <2>4 DEF Unsent
<1> HIDE DEF b, d
<1>6. y \in Ring
  <2>1. y.buff \in [Positions -> Block] /\ y.buffer_bytes \in Nat
    <3> PICK g \in [Positions -> Block] : g = r.buff
      BY <1>1
    <3>1. [g EXCEPT ![i] = b] \in [Positions -> Block]
      BY <1>2, <1>5
    <3> QED BY <1>1, <1>4, <3>1
  <2>2. y = [buff |-> y.buff, next_use |-> y.next_use, next_deal |-> y.next_deal,
             no_blocks |-> y.no_blocks, buffer_bytes |-> y.buffer_bytes]
    BY <1>1 DEF AppendLast, Ring
  <2> QED BY <1>1, <1>4, <2>1, <2>2 DEF Ring, d
<1>7. ASSUME NEW j \in Positions
      PROVE  IF n > 0 /\ Behind(d, j) < n THEN Busy(y.buff[j]) ELSE y.buff[j] = FreeBlock
  <2>1. CASE j = i
    <3>1. Behind(d, i) = n - 1
      BY <1>1, <1>2, BehindIs DEF d
    <3> QED BY <1>1, <1>2, <1>4, <1>5, <2>1, <3>1
  <2>2. CASE j # i
    BY <1>1, <1>4, <2>2 DEF Holds, d
  <2> QED BY <2>1, <2>2
<1>8. Holds(y, n)
  BY <1>1, <1>4, <1>6, <1>7 DEF Holds, d
<1>9. Joined(Contents(y, n)) = Joined(Contents(r, n)) \o bytes
  <2>0. PICK c \in Seq(Stream), e \in Seq(Stream) : c = Contents(r, n) /\ e = Contents(y, n)
    BY <1>8, ContentsTyped
  <2>1. PICK N \in Nat : N = n - 1 /\ n = N + 1
    BY <1>1
  <2>2. Len(c) = N + 1 /\ Len(e) = N + 1
    BY <1>8, <2>0, <2>1, ContentsTyped
  <2>3. ASSUME NEW k \in 1 .. N PROVE e[k] = c[k]
    <3>1. k \in 1 .. n /\ k - 1 \in 0 .. Blocks - 1 /\ k - 1 # n - 1 /\ k - 1 \in 0 .. Blocks
      BY <1>1, <2>1
    <3>2. At(d, k - 1) # i /\ At(d, k - 1) \in Positions
      BY <1>1, <1>2, <3>1, PlacesDiffer, Places DEF d
    <3>3. y.buff[At(d, k - 1)] = r.buff[At(d, k - 1)]
      BY <1>1, <1>4, <3>2
    <3> QED BY <1>4, <1>8, <2>0, <3>1, <3>3, ContentsTyped DEF d
  <2>4. e[N + 1] = c[N + 1] \o bytes
    <3>1. N + 1 \in 1 .. n /\ (N + 1) - 1 = n - 1
      BY <1>1, <2>1
    <3>2. c[N + 1] = Unsent(r.buff[i])
      BY <2>0, <3>1, ContentsTyped
    <3>3. e[N + 1] = Unsent(y.buff[i])
      BY <1>4, <1>8, <2>0, <3>1, ContentsTyped DEF d
    <3>4. y.buff[i] = b
      BY <1>1, <1>2, <1>4
    <3> QED BY <1>5, <3>2, <3>3, <3>4
  <2>5. Joined(e) = Joined(c) \o bytes
    BY <2>2, <2>3, <2>4, JoinedLast
  <2> QED BY <2>0, <2>5
<1>10. Exact(y, n)
  <2>0. PICK j \in Stream : j = Joined(Contents(r, n))
    BY ContentsTyped, JoinedTyped
  <2>1. Len(j \o bytes) = Len(j) + Len(bytes)
    BY StreamConcat
  <2>2. r.buffer_bytes = Len(j)
    BY <2>0, Zenon DEF Exact
  <2> QED BY <1>4, <1>8, <1>9, <2>0, <2>1, <2>2, Zenon DEF Exact
<1> QED BY <1>9, <1>10

\* A message written to an empty ring goes to the socket and its rest into the ring.
LEMMA WriteDirectly ==
  ASSUME NEW r, Exact(r, 0), NEW bytes \in Stream, Len(bytes) \in 1 .. BlockSize, NEW free \in Nat
  PROVE  Written(r, 0, bytes, free, WriteDirect(r, bytes, free))
<1>1. PICK w : w = WriteDirect(r, bytes, free)
  OBVIOUS
<1>2. PICK l \in Nat \ {0} : l = Len(bytes) /\ l \in 1 .. BlockSize
  BY RingAssumption
<1>3. PICK k \in Nat : k = Lesser(free, l) /\ k <= free /\ k \in 0 .. l
  BY <1>2 DEF Lesser
<1>4. PICK a \in Stream, b \in Stream :
        a = SubSeq(bytes, 1, k) /\ b = SubSeq(bytes, k + 1, l) /\ a \o b = bytes
        /\ Len(a) = k /\ Len(b) = l - k
  BY <1>2, <1>3, Pieces
<1>5. Joined(Contents(r, 0)) = <<>>
  <2>1. PICK c \in Seq(Stream) : c = Contents(r, 0) /\ Len(c) = 0
    BY ContentsTyped DEF Exact
  <2>2. c = <<>>
    BY <2>1, EmptySeq
  <2> QED BY <2>1, <2>2, JoinedNothing, Zenon
<1>6. <<>> \o bytes = bytes /\ bytes \o <<>> = bytes
  BY StreamConcat
<1>7. CASE k = l
  <2>1. w.ring = r /\ w.out = bytes /\ w.ret = l
    BY <1>1, <1>2, <1>3, <1>7 DEF WriteDirect
  <2>2. w.ret > 0 /\ Len(w.out) <= free /\ w.ret \in {0, Len(bytes)} /\ ~ 0 > 0
    BY <1>2, <1>3, <1>7, <2>1
  <2>3. w.out \o Joined(Contents(w.ring, 0)) = Joined(Contents(r, 0)) \o bytes
    BY <1>5, <1>6, <2>1, Zenon
  <2> QED BY <1>1, <2>1, <2>2, <2>3, Zenon DEF Written
<1>8. CASE k # l
  <2>1. w.ring = Store(r, b) /\ w.out = a /\ w.ret = l /\ w.pending
    BY <1>1, <1>2, <1>3, <1>4, <1>8 DEF WriteDirect
  <2>2. w.ret > 0 /\ Len(w.out) <= free /\ w.ret \in {0, Len(bytes)} /\ 0 < Blocks /\ 0 + 1 = 1
        /\ Len(b) \in 1 .. BlockSize
    <3>1. Len(b) \in 1 .. BlockSize
      BY <1>2, <1>3, <1>4, <1>8, RingAssumption, SMTT(30)
    <3>2. w.ret > 0 /\ w.ret \in {0, Len(bytes)}
      BY <1>2, <2>1
    <3>3. Len(w.out) <= free
      BY <1>3, <1>4, <2>1
    <3> QED BY <3>1, <3>2, <3>3, RingAssumption
  <2>3. /\ Exact(Store(r, b), 0 + 1)
        /\ Joined(Contents(Store(r, b), 0 + 1)) = Joined(Contents(r, 0)) \o b
    BY <2>2, StoreExact
  <2>4. <<>> \o b = b
    BY StreamConcat
  <2>5. Exact(w.ring, 1) /\ w.out \o Joined(Contents(w.ring, 1)) = Joined(Contents(r, 0)) \o bytes
    BY <1>4, <1>5, <1>6, <2>1, <2>2, <2>3, <2>4, Zenon
  <2>6. w.out \in Stream
    BY <2>1
  <2> QED BY <1>1, <2>1, <2>2, <2>5, <2>6, Zenon DEF Written
<1> QED BY <1>7, <1>8

\* A message written behind others is kept whole or dropped whole.
LEMMA WriteLater ==
  ASSUME NEW r, NEW n, Exact(r, n), n > 0, NEW i, i = At(r.next_deal, n - 1),
         NEW bytes \in Stream, Len(bytes) \in 1 .. BlockSize, NEW free \in Nat
  PROVE  Written(r, n, bytes, free, WriteBehind(r, i, bytes))
<1>1. PICK w : w = WriteBehind(r, i, bytes)
  OBVIOUS
<1>2. PICK l \in Nat \ {0} : l = Len(bytes) /\ l \in 1 .. BlockSize
  BY RingAssumption
<1>3. PICK j \in Stream : j = Joined(Contents(r, n))
  BY ContentsTyped, JoinedTyped DEF Exact
<1>4. <<>> \in Stream /\ Len(<<>>) <= free /\ <<>> \o j = j /\ <<>> \o (j \o bytes) = j \o bytes
      /\ ~ 0 > 0
  <2>1. j \o bytes \in Stream
    BY StreamConcat
  <2> QED BY <2>1, StreamConcat
<1>5. CASE Len(r.buff[i].raw_data) + Len(bytes) <= BlockSize
  <2>1. w.ring = AppendLast(r, i, bytes) /\ w.out = <<>> /\ w.ret = l
    BY <1>1, <1>2, <1>5 DEF WriteBehind
  <2>2. Exact(w.ring, n) /\ Joined(Contents(w.ring, n)) = j \o bytes
    <3>1. /\ Exact(AppendLast(r, i, bytes), n)
          /\ Joined(Contents(AppendLast(r, i, bytes), n)) = Joined(Contents(r, n)) \o bytes
      BY <1>5, AppendExact, Zenon
    <3> QED BY <1>3, <2>1, <3>1, Zenon
  <2>3. w.ret > 0 /\ w.ret \in {0, Len(bytes)}
    BY <1>2, <2>1
  <2> QED BY <1>1, <1>3, <1>4, <2>1, <2>2, <2>3, Zenon DEF Written
<1>6. CASE ~ Len(r.buff[i].raw_data) + Len(bytes) <= BlockSize /\ r.no_blocks
  <2>1. w.ring = r /\ w.out = <<>> /\ w.ret = 0
    BY <1>1, <1>6 DEF WriteBehind
  <2>2. w.ret \in {0, Len(bytes)} /\ ~ w.ret > 0
    BY <2>1
  <2> QED BY <1>1, <1>3, <1>4, <2>1, <2>2, Zenon DEF Written
<1>7. CASE ~ Len(r.buff[i].raw_data) + Len(bytes) <= BlockSize /\ ~ r.no_blocks
  <2>1. w.ring = Store(r, bytes) /\ w.out = <<>> /\ w.ret = l
    BY <1>1, <1>2, <1>7 DEF WriteBehind
  <2>2. n < Blocks /\ n \in 0 .. Blocks
    BY <1>7, RingAssumption DEF Exact, Holds
  <2>3. Exact(w.ring, n + 1) /\ Joined(Contents(w.ring, n + 1)) = j \o bytes
    <3>1. /\ Exact(Store(r, bytes), n + 1)
          /\ Joined(Contents(Store(r, bytes), n + 1)) = Joined(Contents(r, n)) \o bytes
      BY <2>2, StoreExact
    <3> QED BY <1>3, <2>1, <3>1, Zenon
  <2>4. w.ret > 0 /\ w.ret \in {0, Len(bytes)}
    BY <1>2, <2>1
  <2> QED BY <1>1, <1>3, <1>4, <2>1, <2>3, <2>4, Zenon DEF Written
<1> QED BY <1>5, <1>6, <1>7

\* hm_net_buf_write: what the socket took and what the ring holds are the bytes from before
\* and, unless it was dropped, the message.
LEMMA WriteKeeps ==
  ASSUME NEW r, NEW n, Exact(r, n), NEW bytes \in Stream, Len(bytes) \in 1 .. BlockSize,
         NEW free \in Nat
  PROVE  Written(r, n, bytes, free, NetBufWrite(r, bytes, free))
<1>1. Holds(r, n) /\ n \in Nat
  BY RingAssumption DEF Exact, Holds
<1>2. CASE n = 0
  <2>1. LastPos(r) = {}
    BY <1>1, <1>2, LastPosHolds
  <2>2. NetBufWrite(r, bytes, free) = WriteDirect(r, bytes, free)
    BY <2>1 DEF NetBufWrite
  <2> QED BY <1>2, <2>2, WriteDirectly
<1>3. CASE n # 0
  <2>1. PICK i : i = At(r.next_deal, n - 1)
    OBVIOUS
  <2>2. LastPos(r) = {i}
    BY <1>1, <1>3, <2>1, LastPosHolds
  <2>3. NetBufWrite(r, bytes, free) = WriteBehind(r, i, bytes)
    <3>1. PICK T : T = {i}
      OBVIOUS
    <3>2. (CHOOSE x \in T : TRUE) = i /\ T # {}
      BY <3>1
    <3> QED BY <2>2, <3>1, <3>2, Zenon DEF NetBufWrite
  <2>4. n > 0
    BY <1>1, <1>3
  <2> QED BY <2>1, <2>3, <2>4, WriteLater
<1> QED BY <1>2, <1>3

-----------------------------------------------------------------------------
(* The socket takes the first of the bytes that are due.                    *)

\* The socket takes the first of the bytes that are due, so the others are left.
LEMMA TakenRest ==
  ASSUME NEW a \in Stream, NEW b \in Stream
  PROVE  Taken(a, a \o b) = b
<1>1. PICK s \in Stream, k \in Nat, l \in Nat :
        s = a \o b /\ k = Len(a) /\ l = Len(s) /\ k \in 0 .. l /\ l - k = Len(b)
        /\ \A i \in 1 .. l : s[i] = IF i <= k THEN a[i] ELSE b[i - k]
  <2>1. PICK k \in Nat, m \in Nat : k = Len(a) /\ m = Len(b)
    BY StreamConcat
  <2>2. k + m \in Nat /\ k \in 0 .. k + m /\ (k + m) - k = m
    BY <2>1
  <2>3. a \o b \in Stream /\ Len(a \o b) = k + m
    BY <2>1, StreamConcat
  <2>4. \A i \in 1 .. k + m : (a \o b)[i] = IF i <= k THEN a[i] ELSE b[i - k]
    BY <2>1, StreamElements
  <2> QED BY <2>1, <2>2, <2>3, <2>4, Zenon
<1>2. PICK c \in Stream, d \in Stream :
        c = SubSeq(s, 1, k) /\ d = SubSeq(s, k + 1, l) /\ Len(c) = k /\ Len(d) = l - k
  BY <1>1, Pieces
<1>3. c = a
  <2>1. \A i \in 1 .. k : c[i] = s[i]
    <3>1. 1 \in 1 .. l + 1 /\ k \in 0 .. l /\ 1 <= k + 1 /\ k - 1 + 1 = k
          /\ \A i \in 1 .. k : 1 + i - 1 = i
      BY <1>1
    <3>2. \A i \in 1 .. k - 1 + 1 : SubSeq(s, 1, k)[i] = s[1 + i - 1]
      BY <1>1, <3>1, SubSeqTyped
    <3> QED BY <1>2, <3>1, <3>2
  <2>2. \A i \in 1 .. k : s[i] = a[i]
    BY <1>1
  <2>3. \A i \in 1 .. Len(c) : c[i] = a[i]
    BY <1>2, <2>1, <2>2
  <2> QED BY <1>1, <1>2, <2>3, StreamEqual, Zenon
<1>4. d = b
  <2>1. \A i \in 1 .. l - k : d[i] = s[k + i]
    <3>1. \A i \in 1 .. l - k : SubSeq(s, k + 1, l)[i] = s[k + i]
      BY <1>1, Cut
    <3> QED BY <1>2, <3>1, Zenon
  <2>2. ASSUME NEW i \in 1 .. l - k PROVE s[k + i] = b[i]
    <3>1. k + i \in 1 .. l /\ ~ k + i <= k /\ (k + i) - k = i
      BY <1>1
    <3>2. s[k + i] = b[(k + i) - k]
      BY <1>1, <3>1, Zenon
    <3> QED BY <3>1, <3>2
  <2>3. \A i \in 1 .. Len(d) : d[i] = b[i]
    BY <1>2, <2>1, <2>2
  <2> QED BY <1>1, <1>2, <2>3, StreamEqual, ZenonT(30)
<1> QED BY <1>1, <1>2, <1>3, <1>4, Zenon DEF Taken

-----------------------------------------------------------------------------
(* The ring carries the bytes that are owed, whatever is written and sent.  *)

\* The ring holds these bytes and counts them.
Carries(r, bytes) == \E n : Exact(r, n) /\ Joined(Contents(r, n)) = bytes

\* The bytes a ring carries are those it holds.
LEMMA CarriesTyped ==
  ASSUME NEW r, NEW bytes, Carries(r, bytes)
  PROVE  r \in Ring /\ bytes \in Stream /\ RingBytes(r) = bytes
<1>1. PICK n : Exact(r, n) /\ Joined(Contents(r, n)) = bytes
  BY DEF Carries
<1>2. Holds(r, n)
  BY <1>1 DEF Exact
<1>3. Contents(r, n) \in Seq(Stream)
  BY <1>2, ContentsTyped
<1>4. bytes \in Stream
  BY <1>1, <1>3, JoinedTyped
<1>5. RingBytes(r) = bytes
  BY <1>1, <1>2, RingBytesIs, Zenon
<1> QED BY <1>2, <1>4, <1>5 DEF Holds

\* The ring is empty if and only if it carries no byte.
LEMMA NothingCarried ==
  ASSUME NEW r, NEW n, Exact(r, n)
  PROVE  /\ IsEmpty(r) <=> n = 0
         /\ n = 0 <=> Joined(Contents(r, n)) = <<>>
<1>1. Holds(r, n) /\ n \in Nat /\ (IsEmpty(r) <=> n = 0)
  BY RingAssumption DEF Exact, Holds, IsEmpty
<1>2. CASE n = 0
  <2>1. PICK c \in Seq(Stream) : c = Contents(r, n) /\ Len(c) = 0
    BY <1>1, <1>2, ContentsTyped
  <2>2. c = <<>>
    BY <2>1, EmptySeq
  <2>3. Joined(c) = <<>>
    BY <2>2, JoinedNothing, Zenon
  <2> QED BY <1>1, <1>2, <2>1, <2>3, Zenon
<1>3. CASE n > 0
  <2>1. PICK left \in Stream, j \in Stream :
          Len(left) \in Nat \ {0} /\ Joined(Contents(r, n)) = left \o j
    <3>1. PICK b : b = Unsent(r.buff[r.next_deal])
      OBVIOUS
    <3>2. b \in Stream /\ Len(b) \in Nat \ {0} /\ Joined(Tail(Contents(r, n))) \in Stream
          /\ Joined(Contents(r, n)) = b \o Joined(Tail(Contents(r, n)))
      BY <1>3, <3>1, FirstBlock
    <3> QED BY <3>2, Zenon
  <2>2. Len(left \o j) = Len(left) + Len(j) /\ Len(j) \in Nat
    BY StreamConcat
  <2>3. Len(left \o j) # 0
    BY <2>1, <2>2
  <2>4. Len(<<>>) = 0
    OBVIOUS
  <2>5. n # 0
    BY <1>3
  <2> QED BY <1>1, <2>1, <2>3, <2>4, <2>5, Zenon
<1> QED BY <1>1, <1>2, <1>3

\* The ring of a new watch carries nothing.
LEMMA EmptyCarries == Carries(EmptyRing, <<>>)
<1>1. EmptyRing \in Ring
  <2>1. FreeBlock \in Block
    BY RingAssumption, StreamConcat DEF FreeBlock, Block, Stream
  <2>2. [i \in Positions |-> FreeBlock] \in [Positions -> Block]
    BY <2>1
  <2>3. 0 \in Positions /\ Blocks \in 0 .. Blocks /\ 0 \in Nat
    BY RingAssumption DEF Positions
  <2> QED BY <2>2, <2>3 DEF EmptyRing, Ring
<1>2. Holds(EmptyRing, 0)
  BY <1>1, RingAssumption DEF Holds, EmptyRing
<1>3. Joined(Contents(EmptyRing, 0)) = <<>>
  <2>1. PICK c \in Seq(Stream) : c = Contents(EmptyRing, 0) /\ Len(c) = 0
    BY <1>2, ContentsTyped
  <2>2. c = <<>>
    BY <2>1, EmptySeq
  <2> QED BY <2>1, <2>2, JoinedNothing, Zenon
<1>4. EmptyRing.buffer_bytes = Len(<<>>)
  BY DEF EmptyRing
<1> QED BY <1>2, <1>3, <1>4, Zenon DEF Carries, Exact

\* After a flush the ring carries the bytes that are still due, and no more are sent than there
\* is room for.
LEMMA FlushCarries ==
  ASSUME NEW r, NEW bytes, Carries(r, bytes), NEW free \in Nat,
         NEW f, f = NetBufFlush(r, free)
  PROVE  /\ Carries(f.ring, Taken(f.out, bytes))
         /\ Len(f.out) \in 0 .. free
         /\ IsEmpty(r) => IsEmpty(f.ring)
<1>1. PICK n : Exact(r, n) /\ Joined(Contents(r, n)) = bytes
  BY DEF Carries
<1>2. Sending(f, bytes, free)
  <2>1. Sending(NetBufFlush(r, free), Joined(Contents(r, n)), free)
    BY <1>1, FlushSends, Zenon
  <2> QED BY <1>1, <2>1, Zenon
<1>3. PICK l : Exact(f.ring, l) /\ f.out \o Joined(Contents(f.ring, l)) = bytes
  BY <1>2 DEF Sending
<1>4. PICK a \in Stream, j \in Stream : a = f.out /\ j = Joined(Contents(f.ring, l))
  BY <1>2, <1>3, ContentsTyped, JoinedTyped DEF Sending, Exact
<1>5. Taken(a, a \o j) = j
  BY TakenRest, Zenon
<1>6. Carries(f.ring, Taken(f.out, bytes))
  BY <1>3, <1>4, <1>5, Zenon DEF Carries
<1>7. Len(f.out) \in 0 .. free
  <2>1. Len(a) \in Nat /\ f.free \in Nat /\ Len(a) + f.free = free
    BY <1>2, <1>4, StreamConcat DEF Sending
  <2> QED BY <1>4, <2>1
<1>8. ASSUME IsEmpty(r) PROVE IsEmpty(f.ring)
  <2>1. a \o j = <<>>
    BY <1>1, <1>3, <1>4, <1>8, NothingCarried, Zenon
  <2>2. Len(a \o j) = Len(a) + Len(j) /\ Len(a) \in Nat /\ Len(j) \in Nat
    BY StreamConcat
  <2>3. Len(j) = 0
    <3>1. Len(a \o j) = 0
      BY <2>1
    <3> QED BY <2>2, <3>1
  <2>4. j = <<>>
    BY <2>3, EmptySeq DEF Stream
  <2> QED BY <1>3, <1>4, <2>4, NothingCarried, Zenon
<1> QED BY <1>6, <1>7, <1>8

\* After a write the ring carries the bytes that are still due; if it was empty and now is not,
\* the write says that something is pending.
LEMMA WriteCarries ==
  ASSUME NEW r, NEW bytes, Carries(r, bytes), NEW free \in Nat,
         NEW message \in Stream, Len(message) \in 1 .. BlockSize,
         NEW w, w = NetBufWrite(r, message, free)
  PROVE  /\ Carries(w.ring, Taken(w.out, IF w.ret > 0 THEN bytes \o message ELSE bytes))
         /\ Len(w.out) \in 0 .. free
         /\ IsEmpty(r) /\ ~ IsEmpty(w.ring) => w.ret > 0 /\ w.pending
<1>1. PICK n : Exact(r, n) /\ Joined(Contents(r, n)) = bytes
  BY DEF Carries
<1>2. Written(r, n, message, free, w)
  <2>1. Written(r, n, message, free, NetBufWrite(r, message, free))
    BY <1>1, WriteKeeps
  <2> QED BY <2>1
<1>3. PICK l : /\ Exact(w.ring, l)
               /\ w.out \o Joined(Contents(w.ring, l))
                    = IF w.ret > 0 THEN Joined(Contents(r, n)) \o message
                                   ELSE Joined(Contents(r, n))
               /\ l > 0 => n > 0 \/ (w.ret > 0 /\ w.pending)
  BY <1>2, Zenon DEF Written
<1>4. PICK a \in Stream, j \in Stream : a = w.out /\ j = Joined(Contents(w.ring, l))
  BY <1>2, <1>3, ContentsTyped, JoinedTyped DEF Written, Exact
<1>5. Taken(a, a \o j) = j
  BY TakenRest, Zenon
<1>6. a \o j = IF w.ret > 0 THEN bytes \o message ELSE bytes
  BY <1>1, <1>3, <1>4, Zenon
<1>7. Carries(w.ring, Taken(w.out, IF w.ret > 0 THEN bytes \o message ELSE bytes))
  BY <1>3, <1>4, <1>5, <1>6, Zenon DEF Carries
<1>8. Len(w.out) \in 0 .. free
  <2>1. Len(a) \in Nat /\ Len(a) <= free
    BY <1>2, <1>4, StreamConcat DEF Written
  <2> QED BY <1>4, <2>1
<1>9. ASSUME IsEmpty(r), ~ IsEmpty(w.ring) PROVE w.ret > 0 /\ w.pending
  <2>1. n = 0 /\ l # 0
    BY <1>1, <1>3, <1>9, NothingCarried, Zenon
  <2>2. l \in Nat
    BY <1>3, RingAssumption DEF Exact, Holds
  <2>3. l > 0 /\ ~ n > 0
    BY <2>1, <2>2
  <2> QED BY <1>3, <2>3, Zenon
<1> QED BY <1>7, <1>8, <1>9, Zenon

-----------------------------------------------------------------------------
(* The inductive invariant.                                                 *)

\* What a dispatch of the watch changes,
Dispatched ==
  /\ Carries(ring, owed) /\ room \in 0 .. Room
  /\ w_pending \in BOOLEAN /\ killed \in BOOLEAN /\ modified \in BOOLEAN
  /\ events \subseteq {"read", "write"} /\ watching \subseteq {"read", "write"}
  /\ in_loop \in {"adding", "yes", "no"}
  /\ pc \in {"polling", "delivering", "establishing"} /\ revents \subseteq {"read", "write"}
  /\ reports = IF killed THEN 1 ELSE 0

\* ... what it reads of the socket,
Receiving ==
  /\ received \in 0 .. MaxInbound /\ inbound \in 0 .. received /\ in_progress \in BOOLEAN

\* ... and what it leaves alone.
Standing ==
  /\ writes \in 0 .. MaxWrites /\ sock \in {"connecting", "up", "broken"}
  /\ peer_closed \in BOOLEAN /\ removing \in BOOLEAN
  /\ killer \in {"none", "removed", "done"}

\* The invariant.
SafeInv == Dispatched /\ Receiving /\ Standing /\ established \in BOOLEAN

\* The variables of the first part.
dispatchVars == <<ring, owed, room, w_pending, killed, modified, events, watching, in_loop, pc,
                  revents, reports>>

\* What the invariant is for.
LEMMA SafeImplies == SafeInv => TypeOK /\ StreamInOrder /\ ReportedOnce
<1> SUFFICES ASSUME SafeInv PROVE TypeOK /\ StreamInOrder /\ ReportedOnce
  OBVIOUS
<1>1. Dispatched /\ Receiving /\ Standing /\ established \in BOOLEAN
  BY DEF SafeInv
<1>2. ring \in Ring /\ owed \in Stream /\ RingBytes(ring) = owed
  BY <1>1, CarriesTyped DEF Dispatched
<1>3. reports \in Nat
  BY <1>1 DEF Dispatched
<1>4. {peer_closed, in_progress, w_pending, killed, modified, removing, established} \subseteq BOOLEAN
  BY <1>1, Zenon DEF Dispatched, Receiving, Standing
<1>5. TypeOK
  BY <1>1, <1>2, <1>3, <1>4, Zenon DEF TypeOK, Dispatched, Receiving, Standing, Ring, Stream
<1> QED BY <1>1, <1>2, <1>5 DEF StreamInOrder, ReportedOnce, Dispatched

\* The socket never has more room than its buffer.
LEMMA FreeIs == SafeInv => Free \in 0 .. room /\ Free \in Nat /\ room \in 0 .. Room /\ Room \in Nat
BY WatchAssumption DEF SafeInv, Dispatched, Free

\* The invariant holds of a new watch.
LEMMA InitSafe == Init => SafeInv
<1> SUFFICES ASSUME Init PROVE SafeInv
  OBVIOUS
<1>1. Carries(ring, owed)
  BY EmptyCarries, Zenon DEF Init
<1>2. Dispatched
  <2>1. room \in 0 .. Room
    BY WatchAssumption DEF Init
  <2>2. events \subseteq {"read", "write"}
    BY Zenon DEF Init
  <2>3. reports = IF killed THEN 1 ELSE 0
    BY DEF Init
  <2>4. in_loop = "adding" /\ pc = "polling" /\ revents = {} /\ watching = {}
        /\ w_pending = FALSE /\ killed = FALSE /\ modified = FALSE
    BY Zenon DEF Init
  <2> QED BY <1>1, <2>1, <2>2, <2>3, <2>4 DEF Dispatched
<1>3. Receiving
  BY WatchAssumption DEF Init, Receiving
<1>4. Standing
  <2>1. writes \in 0 .. MaxWrites
    BY WatchAssumption DEF Init
  <2>2. sock \in {"connecting", "up", "broken"}
    BY Zenon DEF Init
  <2>3. peer_closed = FALSE /\ removing = FALSE /\ killer = "none"
    BY Zenon DEF Init
  <2> QED BY <2>1, <2>2, <2>3 DEF Standing
<1>5. established \in BOOLEAN
  BY Zenon DEF Init
<1> QED BY <1>2, <1>3, <1>4, <1>5 DEF SafeInv

\* What changes none of its variables keeps the first part of the invariant.
LEMMA DispatchedKept == Dispatched /\ UNCHANGED dispatchVars => Dispatched'
<1> SUFFICES ASSUME Dispatched, UNCHANGED dispatchVars PROVE Dispatched'
  OBVIOUS
<1>1. Carries(ring, owed)'
  BY Zenon DEF Dispatched, dispatchVars
<1> QED BY <1>1 DEF Dispatched, dispatchVars

\* A dispatch that leaves the loop keeps it, whether it reports or not.
LEMMA LeaveKeeps ==
  ASSUME SafeInv, Leave, UNCHANGED <<dataVars, w_pending, events, modified>>,
         \/ Close
         \/ UNCHANGED <<killed, reports>>
  PROVE  Dispatched'
<1>1. Carries(ring, owed)'
  BY Zenon DEF SafeInv, Dispatched, dataVars
<1>2. killed' \in BOOLEAN /\ reports' = IF killed' THEN 1 ELSE 0
  <2>1. CASE Close
    <3>1. killed' = TRUE /\ reports' = IF killed THEN reports ELSE reports + 1
      BY <2>1 DEF Close
    <3>2. reports' = 1
      BY <3>1 DEF SafeInv, Dispatched
    <3> QED BY <3>1, <3>2
  <2>2. CASE UNCHANGED <<killed, reports>>
    BY <2>2 DEF SafeInv, Dispatched
  <2> QED BY <2>1, <2>2
<1> QED BY <1>1, <1>2 DEF SafeInv, Dispatched, dataVars, Leave

\* So does one that sends.
LEMMA FlushKeepsSafe ==
  ASSUME SafeInv, Flush PROVE Dispatched'
<1>1. PICK f : f = NetBufFlush(ring, Free)
  OBVIOUS
<1>2. ring' = f.ring /\ owed' = Taken(f.out, owed) /\ room' = room - Len(f.out)
      /\ UNCHANGED <<killed, reports>>
  BY <1>1 DEF Flush
<1>3. Carries(ring, owed) /\ Free \in 0 .. room /\ Free \in Nat
  BY FreeIs DEF SafeInv, Dispatched
<1>4. Carries(f.ring, Taken(f.out, owed)) /\ Len(f.out) \in 0 .. Free
  BY <1>1, <1>3, FlushCarries
<1>5. Carries(ring, owed)'
  BY <1>2, <1>4, Zenon
<1>6. room' \in 0 .. Room
  BY <1>2, <1>3, <1>4, FreeIs
<1>7. w_pending' \in BOOLEAN /\ modified' \in BOOLEAN /\ events' \subseteq {"read", "write"}
  <2>1. CASE IsEmpty(f.ring)
    BY <1>1, <2>1 DEF SafeInv, Dispatched, Flush, ModifyEvents
  <2>2. CASE ~ IsEmpty(f.ring)
    BY <1>1, <2>2 DEF SafeInv, Dispatched, Flush
  <2> QED BY <2>1, <2>2
<1>8. pc' = "polling" /\ revents' = {} /\ UNCHANGED <<in_loop, watching>>
  BY DEF Flush, Stay
<1> QED BY <1>2, <1>5, <1>6, <1>7, <1>8 DEF SafeInv, Dispatched

\* So does every dispatch of a watch whose socket is writable.
LEMMA WritableKeeps ==
  ASSUME SafeInv, Writable
  PROVE  Dispatched' /\ in_progress' \in BOOLEAN /\ established' \in BOOLEAN
<1>1. in_progress' \in BOOLEAN /\ established' \in BOOLEAN
  BY DEF Writable, SafeInv
<1>2. CASE Fail
  <2>1. Dispatched'
    BY <1>2, LeaveKeeps DEF Fail
  <2> QED BY <1>1, <2>1
<1>3. CASE Establish
  <2>1. Carries(ring, owed)'
    BY <1>3, Zenon DEF SafeInv, Dispatched, Establish, dataVars
  <2>2. modified' \in BOOLEAN /\ events' \subseteq {"read", "write"}
    BY <1>3 DEF SafeInv, Dispatched, Establish, ModifyEvents
  <2>3. Dispatched'
    BY <1>3, <2>1, <2>2 DEF SafeInv, Dispatched, Establish, dataVars
  <2> QED BY <1>1, <2>3
<1>4. CASE Flush
  BY <1>1, <1>4, FlushKeepsSafe
<1>5. Fail \/ Establish \/ Flush
  BY Zenon DEF Writable
<1> QED BY <1>1, <1>2, <1>3, <1>4, <1>5

\* So does every dispatch of a watch whose socket is readable.
LEMMA ReadableKeeps ==
  ASSUME SafeInv, NEW R \in SUBSET {"read", "write"}, Readable(R), received' = received
  PROVE  Dispatched' /\ Receiving' /\ established' \in BOOLEAN
<1>1. established' \in BOOLEAN
  BY DEF Readable, SafeInv
<1>2. Receiving /\ Dispatched
  BY DEF SafeInv
<1>3. CASE killed
  <2>1. Dispatched'
    BY <1>3, LeaveKeeps DEF Readable
  <2>2. Receiving'
    BY <1>2, <1>3 DEF Readable, Receiving
  <2> QED BY <1>1, <2>1, <2>2
<1>4. CASE ~ killed /\ inbound > 0
  <2>1. Carries(ring, owed)'
    BY <1>2, <1>4, Zenon DEF Readable, Dispatched, dataVars
  <2>2. Dispatched'
    BY <1>2, <1>4, <2>1 DEF Readable, Dispatched, dataVars
  <2>3. Receiving'
    BY <1>2, <1>4 DEF Readable, Receiving
  <2> QED BY <1>1, <2>2, <2>3
<1>5. CASE ~ killed /\ ~ inbound > 0 /\ (peer_closed \/ sock = "broken")
  <2>1. Fail /\ UNCHANGED <<inbound, in_progress>>
    BY <1>5, Zenon DEF Readable
  <2>2. Dispatched'
    BY <2>1, LeaveKeeps DEF Fail
  <2>3. Receiving'
    BY <1>2, <2>1 DEF Receiving
  <2> QED BY <1>1, <2>2, <2>3
<1>6. CASE ~ killed /\ ~ inbound > 0 /\ ~ (peer_closed \/ sock = "broken") /\ "write" \in R
  <2>1. Writable /\ UNCHANGED inbound
    BY <1>6, Zenon DEF Readable
  <2>2. Receiving'
    BY <1>2, <2>1, WritableKeeps DEF Receiving
  <2> QED BY <2>1, <2>2, WritableKeeps
<1>7. CASE ~ killed /\ ~ inbound > 0 /\ ~ (peer_closed \/ sock = "broken") /\ "write" \notin R
  <2>1. /\ Stay
        /\ UNCHANGED <<dataVars, inbound, w_pending, killed, events, modified, reports, in_progress>>
    BY <1>7, Zenon DEF Readable
  <2>2. Carries(ring, owed)'
    BY <1>2, <2>1, Zenon DEF Dispatched, dataVars
  <2>3. Dispatched'
    BY <1>2, <2>1, <2>2 DEF Dispatched, Stay, dataVars
  <2>4. Receiving'
    BY <1>2, <2>1 DEF Receiving
  <2> QED BY <1>1, <2>3, <2>4
<1> QED BY <1>3, <1>4, <1>5, <1>6, <1>7

\* A message is bytes and fits a block.
LEMMA MessageTyped ==
  ASSUME NEW size \in Sizes, NEW k \in Nat
  PROVE  /\ [i \in 1 .. size |-> <<k + 1, i>>] \in Stream
         /\ Len([i \in 1 .. size |-> <<k + 1, i>>]) \in 1 .. BlockSize
<1>1. size \in 1 .. BlockSize /\ size \in Nat
  BY WatchAssumption, RingAssumption
<1>2. [i \in 1 .. size |-> <<k + 1, i>>] \in [1 .. size -> Nat \X Nat]
  BY <1>1
<1>3. [i \in 1 .. size |-> <<k + 1, i>>] \in Stream
  BY <1>1, <1>2 DEF Stream
<1>4. Len([i \in 1 .. size |-> <<k + 1, i>>]) = size
  BY <1>1
<1> QED BY <1>1, <1>3, <1>4

\* A write of any thread keeps the invariant.
LEMMA WriteKeepsSafe ==
  ASSUME SafeInv, NEW size \in Sizes, Write(size) PROVE SafeInv'
<1>1. PICK message, w : message = [i \in 1 .. size |-> <<writes + 1, i>>]
                        /\ w = NetBufWrite(ring, message, Free)
  OBVIOUS
<1>2. writes \in Nat /\ writes' \in 0 .. MaxWrites
  BY WatchAssumption DEF SafeInv, Standing, Write
<1>3. message \in Stream /\ Len(message) \in 1 .. BlockSize
  BY <1>1, <1>2, MessageTyped
<1>4. UNCHANGED <<sockVars, in_progress, in_loop, watching, pc, revents, established, killer>>
  BY Zenon DEF Write
<1>5. Receiving' /\ established' \in BOOLEAN
  BY <1>4 DEF SafeInv, Receiving, sockVars
<1>6. CASE sock = "broken" /\ LastPos(ring) = {}
  <2>1. removing' = TRUE /\ Close /\ UNCHANGED <<dataVars, w_pending, events, modified>>
    BY <1>6, Zenon DEF Write
  <2>2. Standing'
    BY <1>2, <1>4, <2>1 DEF SafeInv, Standing, sockVars
  <2>3. Carries(ring, owed)'
    BY <2>1, Zenon DEF SafeInv, Dispatched, dataVars
  <2>4. killed' \in BOOLEAN /\ reports' = IF killed' THEN 1 ELSE 0
    BY <2>1 DEF SafeInv, Dispatched, Close
  <2>5. Dispatched'
    BY <1>4, <2>1, <2>3, <2>4 DEF SafeInv, Dispatched, dataVars
  <2> QED BY <1>5, <2>2, <2>5 DEF SafeInv
<1>7. CASE ~ (sock = "broken" /\ LastPos(ring) = {})
  <2>1. /\ ring' = w.ring /\ room' = room - Len(w.out)
        /\ owed' = Taken(w.out, IF w.ret > 0 THEN owed \o message ELSE owed)
        /\ UNCHANGED <<killed, reports, removing>>
    BY <1>1, <1>7, Zenon DEF Write
  <2>2. \/ ModifyEvents(events \cup {"write"}) /\ w_pending' = TRUE
        \/ UNCHANGED <<events, modified, w_pending>>
    BY <1>7, Zenon DEF Write
  <2>3. Carries(ring, owed) /\ Free \in Nat /\ Free \in 0 .. room
    BY FreeIs DEF SafeInv, Dispatched
  <2>4. Carries(w.ring, Taken(w.out, IF w.ret > 0 THEN owed \o message ELSE owed))
        /\ Len(w.out) \in 0 .. Free
    BY <1>1, <1>3, <2>3, WriteCarries
  <2>5. Carries(ring, owed)'
    BY <2>1, <2>4, Zenon
  <2>6. room' \in 0 .. Room
    BY <2>1, <2>3, <2>4, FreeIs
  <2>7. w_pending' \in BOOLEAN /\ modified' \in BOOLEAN /\ events' \subseteq {"read", "write"}
    BY <2>2 DEF SafeInv, Dispatched, ModifyEvents
  <2>8. Dispatched'
    BY <1>4, <2>1, <2>5, <2>6, <2>7 DEF SafeInv, Dispatched
  <2>9. Standing'
    BY <1>2, <1>4, <2>1 DEF SafeInv, Standing, sockVars
  <2> QED BY <1>5, <2>8, <2>9 DEF SafeInv
<1> QED BY <1>6, <1>7

\* Every step keeps the invariant.
LEMMA NextKeepsSafe ==
  ASSUME SafeInv, [Next]_vars PROVE SafeInv'
<1>1. Dispatched /\ Receiving /\ Standing /\ established \in BOOLEAN
  BY DEF SafeInv
<1>2. CASE UNCHANGED vars
  <2>1. Dispatched'
    BY <1>1, <1>2, DispatchedKept DEF vars, dispatchVars
  <2> QED BY <1>1, <1>2, <2>1 DEF SafeInv, Receiving, Standing, vars
<1>3. CASE ConnectEnds \/ Arrive \/ PeerCloses \/ Break
  <2>1. UNCHANGED dispatchVars
    BY <1>3 DEF ConnectEnds, Arrive, PeerCloses, Break, SocketUnchanged, eventVars, dispatchVars
  <2>2. Receiving'
    <3>1. CASE Arrive
      <4>1. inbound' = inbound + 1 /\ received' = received + 1 /\ received < MaxInbound
            /\ UNCHANGED in_progress
        BY <3>1 DEF Arrive, SocketUnchanged
      <4> QED BY <1>1, <4>1, WatchAssumption DEF Receiving
    <3>2. CASE ConnectEnds \/ PeerCloses \/ Break
      BY <1>1, <3>2 DEF ConnectEnds, PeerCloses, Break, SocketUnchanged, Receiving
    <3> QED BY <1>3, <3>1, <3>2
  <2>3. Standing' /\ established' \in BOOLEAN
    BY <1>1, <1>3 DEF ConnectEnds, Arrive, PeerCloses, Break, SocketUnchanged, Standing, eventVars
  <2> QED BY <1>1, <2>1, <2>2, <2>3, DispatchedKept DEF SafeInv
<1>4. CASE Drain
  <2>1. room' \in 0 .. Room /\ UNCHANGED <<ring, owed>>
    BY <1>1, <1>4, WatchAssumption DEF Drain, SocketUnchanged, Dispatched
  <2>2. Carries(ring, owed)'
    BY <1>1, <2>1, Zenon DEF Dispatched
  <2>3. Dispatched'
    BY <1>1, <1>4, <2>1, <2>2 DEF Drain, SocketUnchanged, Dispatched, eventVars
  <2> QED BY <1>1, <1>4, <2>3 DEF SafeInv, Receiving, Standing, Drain, SocketUnchanged, sockVars,
                                  eventVars
<1>5. CASE Dispatch
  <2>1. PICK R : R = watching \cap Ready
    OBVIOUS
  <2>2. R \in SUBSET {"read", "write"}
    BY <1>1, <2>1 DEF Dispatched
  <2>3. UNCHANGED <<writes, sock, received, peer_closed, removing, killer>>
    BY <1>5 DEF Dispatch
  <2>4. \/ Readable(R)
        \/ Writable /\ UNCHANGED inbound
    BY <1>5, <2>1, Zenon DEF Dispatch
  <2>5. CASE Readable(R)
    BY <1>1, <2>2, <2>3, <2>5, ReadableKeeps DEF SafeInv, Standing
  <2>6. CASE Writable /\ UNCHANGED inbound
    BY <1>1, <2>3, <2>6, WritableKeeps DEF SafeInv, Standing, Receiving
  <2> QED BY <2>4, <2>5, <2>6
<1>6. CASE Delivered
  <2>1. revents \in SUBSET {"read", "write"}
    BY <1>1 DEF Dispatched
  <2>2. UNCHANGED <<writes, sock, received, peer_closed, removing, killer>>
    BY <1>6 DEF Delivered
  <2>3. CASE Readable(revents)
    BY <1>1, <2>1, <2>2, <2>3, ReadableKeeps DEF SafeInv, Standing
  <2>4. CASE Fail /\ UNCHANGED <<inbound, in_progress, established>>
    <3>1. Dispatched'
      BY <2>4, LeaveKeeps DEF Fail
    <3> QED BY <1>1, <2>2, <2>4, <3>1 DEF SafeInv, Standing, Receiving
  <2> QED BY <1>6, <2>3, <2>4 DEF Delivered
<1>7. CASE Established
  <2>1. Carries(ring, owed)'
    BY <1>1, <1>7, Zenon DEF Established, Dispatched, dataVars
  <2>2. Dispatched'
    BY <1>1, <1>7, <2>1 DEF Established, Dispatched, dataVars, Stay
  <2> QED BY <1>1, <1>7, <2>2 DEF SafeInv, Receiving, Standing, Established, sockVars
<1>8. CASE ApplyAdd \/ ApplyModify \/ ApplyRemove
  <2>1. Carries(ring, owed)'
    BY <1>1, <1>8, Zenon DEF ApplyAdd, ApplyModify, ApplyRemove, Dispatched, dataVars
  <2>2. Dispatched'
    <3>1. CASE ApplyAdd
      BY <1>1, <2>1, <3>1 DEF ApplyAdd, Dispatched, dataVars
    <3>2. CASE ApplyModify
      <4>1. watching' \subseteq {"read", "write"} /\ modified' = FALSE
        BY <1>1, <3>2, Zenon DEF ApplyModify, Dispatched
      <4> QED BY <1>1, <2>1, <3>2, <4>1 DEF ApplyModify, Dispatched, dataVars
    <3>3. CASE ApplyRemove
      BY <1>1, <2>1, <3>3 DEF ApplyRemove, Dispatched, dataVars
    <3> QED BY <1>8, <3>1, <3>2, <3>3
  <2> QED BY <1>1, <1>8, <2>2 DEF SafeInv, Receiving, Standing, ApplyAdd, ApplyModify, ApplyRemove,
                                  sockVars
<1>9. CASE \E size \in Sizes : Write(size)
  BY <1>9, WriteKeepsSafe
<1>10. CASE KillRemove
  <2>1. UNCHANGED dispatchVars
    BY <1>10 DEF KillRemove, dispatchVars, dataVars
  <2> QED BY <1>1, <1>10, <2>1, DispatchedKept DEF SafeInv, Receiving, Standing, KillRemove, sockVars
<1>11. CASE KillClose
  <2>1. Carries(ring, owed)'
    BY <1>1, <1>11, Zenon DEF KillClose, Dispatched, dataVars
  <2>2. killed' \in BOOLEAN /\ reports' = IF killed' THEN 1 ELSE 0
    BY <1>1, <1>11 DEF KillClose, Close, Dispatched
  <2>3. Dispatched'
    BY <1>1, <1>11, <2>1, <2>2 DEF KillClose, Dispatched, dataVars, eventVars
  <2> QED BY <1>1, <1>11, <2>3 DEF SafeInv, Receiving, Standing, KillClose, sockVars, eventVars
<1> QED BY <1>2, <1>3, <1>4, <1>5, <1>6, <1>7, <1>8, <1>9, <1>10, <1>11 DEF Next

\* The invariant holds in every behaviour.
THEOREM WatchSafe == Spec => []SafeInv
<1>1. Init => SafeInv
  BY InitSafe
<1>2. SafeInv /\ [Next]_vars => SafeInv'
  BY NextKeepsSafe
<1> QED BY <1>1, <1>2, PTL DEF Spec

\* The socket gets the messages that were accepted, whole and in the order of the calls.
THEOREM StreamKept == Spec => []StreamInOrder
<1>1. SafeInv => StreamInOrder
  BY SafeImplies
<1> QED BY <1>1, WatchSafe, PTL

\* However many end a connection, its user hears of it once.
THEOREM ReportIsOne == Spec => []ReportedOnce
<1>1. SafeInv => ReportedOnce
  BY SafeImplies
<1> QED BY <1>1, WatchSafe, PTL

-----------------------------------------------------------------------------
(* Somebody waits to send what the ring holds.                              *)

\* Before on_est was called there is nothing to send, and afterwards the watch waits for room
\* while there is.
WaitInv ==
  /\ in_progress => ~ established
  /\ pc = "establishing" => ~ in_progress
  /\ ~ established => IsEmpty(ring) /\ ~ w_pending
  /\ ~ IsEmpty(ring) => w_pending
  /\ w_pending => "write" \in events

\* The variables it is about.
waitVars == <<in_progress, established, pc, ring, w_pending, events>>

\* The ring is in order, whoever writes and whenever.
LEMMA RingIsSound == SafeInv => RingSound
<1> SUFFICES ASSUME SafeInv PROVE RingSound
  OBVIOUS
<1>1. PICK n : Exact(ring, n)
  BY DEF SafeInv, Dispatched, Carries
<1> QED BY <1>1, ExactSound DEF RingSound

\* A new watch waits for what its state calls for.
LEMMA InitWaits == Init => WaitInv
<1> SUFFICES ASSUME Init PROVE WaitInv
  OBVIOUS
<1>1. IsEmpty(ring) /\ w_pending = FALSE /\ pc = "polling"
  BY DEF Init, IsEmpty, EmptyRing
<1>2. in_progress => ~ established
  BY Zenon DEF Init
<1> QED BY <1>1, <1>2 DEF WaitInv

\* What changes none of its variables keeps the second invariant.
LEMMA SameWaits ==
  ASSUME WaitInv, UNCHANGED waitVars PROVE WaitInv'
<1>1. IsEmpty(ring)' = IsEmpty(ring)
  BY DEF IsEmpty, waitVars
<1> QED BY <1>1 DEF WaitInv, waitVars

\* A dispatch that fails or has no more to do keeps it.
LEMMA IdleWaits ==
  ASSUME WaitInv, UNCHANGED <<established, ring, w_pending, events>>, pc' = "polling",
         in_progress' = in_progress \/ in_progress' = FALSE
  PROVE  WaitInv'
<1>1. IsEmpty(ring)' = IsEmpty(ring)
  BY DEF IsEmpty
<1> QED BY <1>1 DEF WaitInv

\* A flush that leaves bytes goes on waiting.
LEMMA FlushWaits ==
  ASSUME SafeInv, WaitInv, Flush, ~ in_progress, UNCHANGED established, in_progress' = FALSE
  PROVE  WaitInv'
<1>1. PICK f : f = NetBufFlush(ring, Free)
  OBVIOUS
<1>2. Carries(ring, owed) /\ Free \in Nat
  BY FreeIs DEF SafeInv, Dispatched
<1>3. IsEmpty(ring) => IsEmpty(f.ring)
  BY <1>1, <1>2, FlushCarries
<1>4. ring' = f.ring /\ pc' = "polling"
  BY <1>1 DEF Flush, Stay
<1>5. IsEmpty(ring)' <=> IsEmpty(f.ring)
  BY <1>4 DEF IsEmpty
<1>6. CASE IsEmpty(f.ring)
  <2>1. w_pending' = FALSE
    BY <1>1, <1>6 DEF Flush
  <2> QED BY <1>4, <1>5, <1>6, <2>1 DEF WaitInv
<1>7. CASE ~ IsEmpty(f.ring)
  <2>1. UNCHANGED <<events, w_pending>>
    BY <1>1, <1>7 DEF Flush
  <2> QED BY <1>3, <1>4, <1>5, <1>7, <2>1 DEF WaitInv
<1> QED BY <1>6, <1>7

\* A dispatch of a watch whose socket is writable keeps it: when the connection turns out to
\* be established, nothing waits to be sent.
LEMMA WritableWaits ==
  ASSUME SafeInv, WaitInv, Writable PROVE WaitInv'
<1>1. in_progress' = FALSE /\ UNCHANGED established
  BY DEF Writable
<1>2. CASE Fail
  <2>1. UNCHANGED <<ring, w_pending, events>> /\ pc' = "polling"
    BY <1>2 DEF Fail, Leave, dataVars
  <2> QED BY <1>1, <2>1, IdleWaits
<1>3. CASE Establish /\ in_progress
  <2>1. IsEmpty(ring) /\ w_pending = FALSE /\ established = FALSE
    BY <1>3 DEF WaitInv, SafeInv, Dispatched
  <2>2. UNCHANGED <<ring, w_pending>>
    BY <1>3 DEF Establish, dataVars
  <2>3. IsEmpty(ring)'
    BY <2>1, <2>2 DEF IsEmpty
  <2> QED BY <1>1, <2>1, <2>2, <2>3 DEF WaitInv
<1>4. CASE Flush /\ ~ in_progress
  BY <1>1, <1>4, FlushWaits
<1>5. Fail \/ (Establish /\ in_progress) \/ (Flush /\ ~ in_progress)
  BY Zenon DEF Writable
<1> QED BY <1>2, <1>3, <1>4, <1>5

\* So does a dispatch of a watch whose socket is readable.
LEMMA ReadableWaits ==
  ASSUME SafeInv, WaitInv, NEW R \in SUBSET {"read", "write"}, Readable(R) PROVE WaitInv'
<1>0. UNCHANGED established \/ Writable
  BY Zenon DEF Readable
<1>1. CASE killed
  <2>1. UNCHANGED <<established, ring, w_pending, events, in_progress>> /\ pc' = "polling"
    BY <1>1 DEF Readable, Leave, dataVars
  <2> QED BY <2>1, IdleWaits
<1>2. CASE ~ killed /\ inbound > 0
  <2>1. UNCHANGED <<established, ring, w_pending, events, in_progress>> /\ pc' = "delivering"
    BY <1>2 DEF Readable, dataVars
  <2>2. IsEmpty(ring)' = IsEmpty(ring)
    BY <2>1 DEF IsEmpty
  <2> QED BY <2>1, <2>2 DEF WaitInv
<1>3. CASE ~ killed /\ ~ inbound > 0 /\ (peer_closed \/ sock = "broken")
  <2>1. Fail /\ UNCHANGED <<inbound, in_progress>> /\ UNCHANGED established
    BY <1>3, Zenon DEF Readable
  <2>2. UNCHANGED <<ring, w_pending, events>> /\ pc' = "polling"
    BY <2>1 DEF Fail, Leave, dataVars
  <2> QED BY <2>1, <2>2, IdleWaits
<1>4. CASE ~ killed /\ ~ inbound > 0 /\ ~ (peer_closed \/ sock = "broken") /\ "write" \in R
  <2>1. Writable
    BY <1>4, Zenon DEF Readable
  <2> QED BY <2>1, WritableWaits
<1>5. CASE ~ killed /\ ~ inbound > 0 /\ ~ (peer_closed \/ sock = "broken") /\ "write" \notin R
  <2>1. Stay /\ UNCHANGED established
        /\ UNCHANGED <<dataVars, inbound, w_pending, killed, events, modified, reports, in_progress>>
    BY <1>5, Zenon DEF Readable
  <2>2. UNCHANGED <<ring, w_pending, events, in_progress>> /\ pc' = "polling"
    BY <2>1 DEF Stay, dataVars
  <2> QED BY <2>1, <2>2, IdleWaits
<1> QED BY <1>1, <1>2, <1>3, <1>4, <1>5

\* A write that leaves bytes in the ring waits for room.
LEMMA WriteWaits ==
  ASSUME ~ EarlyWrites, SafeInv, WaitInv, NEW size \in Sizes, Write(size) PROVE WaitInv'
<1>1. established /\ UNCHANGED <<in_progress, pc, established>>
  BY DEF Write
<1>2. CASE sock = "broken" /\ LastPos(ring) = {}
  <2>1. UNCHANGED <<ring, w_pending, events>>
    BY <1>2 DEF Write, dataVars
  <2> QED BY <1>1, <2>1, SameWaits DEF waitVars
<1>3. CASE ~ (sock = "broken" /\ LastPos(ring) = {})
  <2>1. PICK message, w : message = [i \in 1 .. size |-> <<writes + 1, i>>]
                          /\ w = NetBufWrite(ring, message, Free)
    OBVIOUS
  <2>2. writes \in Nat
    BY WatchAssumption DEF SafeInv, Standing
  <2>3. message \in Stream /\ Len(message) \in 1 .. BlockSize
    BY <2>1, <2>2, MessageTyped
  <2>4. Carries(ring, owed) /\ Free \in Nat
    BY FreeIs DEF SafeInv, Dispatched
  <2>5. IsEmpty(ring) /\ ~ IsEmpty(w.ring) => w.ret > 0 /\ w.pending
    BY <2>1, <2>3, <2>4, WriteCarries
  <2>6. ring' = w.ring
    BY <1>3, <2>1, Zenon DEF Write
  <2>7. IsEmpty(ring)' <=> IsEmpty(w.ring)
    BY <2>6 DEF IsEmpty
  <2>8. CASE w.ret > 0 /\ w.pending /\ ~ w_pending
    <3>1. events' = events \cup {"write"} /\ w_pending' = TRUE
      BY <1>3, <2>1, <2>8, Zenon DEF Write, ModifyEvents
    <3> QED BY <1>1, <3>1 DEF WaitInv
  <2>9. CASE ~ (w.ret > 0 /\ w.pending /\ ~ w_pending)
    <3>1. UNCHANGED <<events, w_pending>>
      BY <1>3, <2>1, <2>9, Zenon DEF Write
    <3>2. ~ IsEmpty(ring)' => w_pending
      BY <2>5, <2>7, <2>9 DEF WaitInv
    <3> QED BY <1>1, <3>1, <3>2 DEF WaitInv
  <2> QED BY <2>8, <2>9
<1> QED BY <1>2, <1>3

\* Every step keeps the second invariant.
LEMMA NextWaits ==
  ASSUME ~ EarlyWrites, SafeInv, WaitInv, [Next]_vars PROVE WaitInv'
<1>1. CASE UNCHANGED vars
  BY <1>1, SameWaits DEF vars, waitVars
<1>2. CASE ConnectEnds \/ Drain \/ Arrive \/ PeerCloses \/ Break
  <2>1. UNCHANGED waitVars
    BY <1>2 DEF ConnectEnds, Drain, Arrive, PeerCloses, Break, SocketUnchanged, eventVars, waitVars
  <2> QED BY <2>1, SameWaits
<1>3. CASE Dispatch
  <2>1. PICK R : R = watching \cap Ready
    OBVIOUS
  <2>2. R \in SUBSET {"read", "write"}
    BY <2>1 DEF SafeInv, Dispatched
  <2>3. Readable(R) \/ Writable
    BY <1>3, <2>1, Zenon DEF Dispatch
  <2> QED BY <2>2, <2>3, ReadableWaits, WritableWaits
<1>4. CASE Delivered
  <2>1. revents \in SUBSET {"read", "write"}
    BY DEF SafeInv, Dispatched
  <2>2. CASE Readable(revents)
    BY <2>1, <2>2, ReadableWaits
  <2>3. CASE Fail /\ UNCHANGED <<inbound, in_progress, established>>
    <3>1. UNCHANGED <<ring, w_pending, events>> /\ pc' = "polling"
      BY <2>3 DEF Fail, Leave, dataVars
    <3> QED BY <2>3, <3>1, IdleWaits
  <2> QED BY <1>4, <2>2, <2>3 DEF Delivered
<1>5. CASE Established
  <2>1. /\ pc = "establishing" /\ pc' = "polling" /\ established' = TRUE
        /\ UNCHANGED <<ring, w_pending, events, in_progress>>
    BY <1>5 DEF Established, Stay, dataVars
  <2>2. IsEmpty(ring)' = IsEmpty(ring)
    BY <2>1 DEF IsEmpty
  <2> QED BY <2>1, <2>2 DEF WaitInv
<1>6. CASE ApplyAdd \/ ApplyModify \/ ApplyRemove
  <2>1. UNCHANGED waitVars
    BY <1>6 DEF ApplyAdd, ApplyModify, ApplyRemove, dataVars, waitVars
  <2> QED BY <2>1, SameWaits
<1>7. CASE \E size \in Sizes : Write(size)
  BY <1>7, WriteWaits
<1>8. CASE KillRemove \/ KillClose
  <2>1. UNCHANGED waitVars
    BY <1>8 DEF KillRemove, KillClose, dataVars, eventVars, waitVars
  <2> QED BY <2>1, SameWaits
<1> QED BY <1>1, <1>2, <1>3, <1>4, <1>5, <1>6, <1>7, <1>8 DEF Next

\* The second invariant holds in every behaviour, if nothing is written before on_est was called.
THEOREM WatchWaits ==
  ASSUME ~ EarlyWrites PROVE Spec => []WaitInv
<1>1. Init => WaitInv
  BY InitWaits
<1>2. SafeInv /\ WaitInv /\ [Next]_vars => WaitInv'
  BY NextWaits
<1> QED BY <1>1, <1>2, WatchSafe, PTL DEF Spec

\* The ring is in order and, if nothing is written before on_est was called, somebody is
\* going to empty it.
THEOREM RingIsServed ==
  ASSUME ~ EarlyWrites PROVE Spec => []RingServed
<1>1. SafeInv /\ WaitInv => RingServed
  BY SafeImplies, RingIsSound DEF RingServed, NothingStranded, WaitInv
<1> QED BY <1>1, WatchSafe, WatchWaits, PTL
================================================================================
