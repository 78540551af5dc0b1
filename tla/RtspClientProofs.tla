---------------------------- MODULE RtspClientProofs ----------------------------
(***************************************************************************)
(* Proofs about RtspClient for every set of sessions, every number of      *)
(* tracks and every bound.                                                 *)
(*                                                                         *)
(* What the set-up does depends on one session only, so most of the work   *)
(* is about what the operators that handle replies make of a session.  A   *)
(* reply moves the set-up on only if it has the number of the request that *)
(* is awaited; each number is used once, and while a reply to the awaited  *)
(* SETUP may still come, one more track was asked for than was accepted.   *)
(***************************************************************************)
EXTENDS RtspClient, FiniteSetTheorems, SequenceTheorems, TLAPS

Methods == {"none", "DESCRIBE", "SETUP", "PLAY", "OPTIONS"}
Names == {"none", "a", "b"}
Request == [seq : Nat, method : Methods]
Reply == [type : {"reply"}, seq : Nat, ok : BOOLEAN, ntrack : Nat, session : Names]
Data == [type : {"data"}, channel : {0, 1}]
Rtp == [refs : Nat, channel : Nat]

SessionShape ==
  [refs : Nat, killed : BOOLEAN, url : BOOLEAN, tcp : BOOLEAN,
   rtsp_sock : {"none", "session", "watch", "closed"},
   ev_timer : {"none", "connects", "ticks", "returned", "deleted", "gone"},
   rtsp_watch : {"none", "attached", "deleted", "gone"},
   state : {"INIT", "READY"}, ntrack : Nat, request_itrack : Nat, rtp : Seq(Rtp),
   session_id : Names, play_pending : BOOLEAN, rtsp_seq : Nat, wait_for : Request,
   out : Seq(Request), in : Seq(Reply \cup Data), asked : Nat, played : Nat, accepted : Nat,
   got : Nat, stalled : BOOLEAN, late : BOOLEAN]

Shapes ==
  /\ client_single \in BOOLEAN /\ list \subseteq Session
  /\ ses \in [Session -> SessionShape]
  /\ user \in [Session -> {"none", "creates", "adds", "has", "refused", "closes", "finds", "kills",
                           "unrefs", "closed"}]
  /\ fin \in [at : {"off", "takes", "kills", "unrefs", "clears", "over"}, on : Session \cup {None}]

\* The requests that are not answered yet (q), and the answers that were not read (r), have
\* numbers of their own; w is the number of the awaited request, n that of the last one.
Tells(r, i) == r[i].type = "reply"
Numbers(q, r, w, n) ==
  /\ w <= n
  /\ \A i \in DOMAIN q : q[i].seq <= n
  /\ \A i \in DOMAIN r : Tells(r, i) => r[i].seq <= n
  /\ \A i, j \in DOMAIN q : q[i].seq = q[j].seq => i = j
  /\ \A i, j \in DOMAIN r : Tells(r, i) /\ Tells(r, j) /\ r[i].seq = r[j].seq => i = j
  /\ \A i \in DOMAIN q, j \in DOMAIN r : Tells(r, j) => q[i].seq # r[j].seq
Numbered(x) == Numbers(x.out, x.in, x.wait_for.seq, x.rtsp_seq)

\* The reply that is awaited was not read yet.
Waits(q, r, w) ==
  \/ \E i \in DOMAIN q : q[i].seq = w
  \/ \E i \in DOMAIN r : Tells(r, i) /\ r[i].seq = w
Awaited(x) == Waits(x.out, x.in, x.wait_for.seq)

\* How far the set-up has come.
Tracks(x) ==
  /\ x.accepted <= x.request_itrack /\ x.request_itrack <= x.accepted + 1
  /\ ~ x.killed => x.request_itrack <= x.ntrack
  /\ x.state = "INIT" /\ x.wait_for.method = "SETUP" /\ Awaited(x)
       => x.request_itrack = x.accepted + 1
  /\ x.state = "READY" /\ ~ x.killed => x.accepted = x.ntrack

Plays(x) ==
  /\ x.played <= x.asked
  /\ x.state = "INIT" => x.played = 0 /\ (x.asked > 0 <=> x.play_pending)
  /\ x.state = "READY" /\ x.asked > 0 /\ ~ x.stalled => x.played > 0

Channels(x) == \A k \in DOMAIN x.rtp : x.rtp[k].channel = 2 * (k - 1)

SetUp(x) == Numbered(x) /\ Tracks(x) /\ Plays(x) /\ Channels(x)

\* What holds a session, apart from its owner: its timer, its watch and its RTP sessions.
TimerHolds(x) == IF x.ev_timer \in {"connects", "ticks", "returned", "deleted"} THEN 1 ELSE 0
WatchHolds(x) == IF x.rtsp_watch \in {"attached", "deleted"} THEN 1 ELSE 0
Live(rtp) == {k \in DOMAIN rtp : rtp[k].refs > 0}
Parts(x) == TimerHolds(x) + WatchHolds(x) + Cardinality(Live(x.rtp))

Kept(x) ==
  /\ ~ x.late
  /\ x.rtsp_sock = "closed" => x.killed
  /\ x.ev_timer \in {"deleted", "gone"} \/ x.rtsp_watch = "deleted" => x.killed
  /\ x.rtsp_sock = "watch" => x.rtsp_watch \in {"attached", "deleted"}
  /\ ~ x.url => x.ev_timer = "none" /\ x.rtsp_watch = "none" /\ x.rtsp_sock = "none"
  /\ ~ x.killed => \A k \in DOMAIN x.rtp : x.rtp[k].refs >= 1
  /\ x.refs = 0 => x.rtsp_sock # "session"

\* The owner of a session: its user, rtsp_client_fin, or nobody.
Owner(s) ==
  /\ user[s] = "none" => ses[s] = New
  /\ s \in list => user[s] \in {"has", "closes", "finds", "refused"} /\ fin.on # s
  /\ fin.on = s => user[s] \in {"has", "closes", "finds", "refused"}
  /\ user[s] \in {"unrefs", "closed"} => ses[s].killed
  /\ fin.at = "unrefs" /\ fin.on = s => ses[s].killed
  /\ fin.at = "off" /\ user[s] = "has" => s \in list
  /\ s \in list \/ user[s] \in {"creates", "adds"} => ~ ses[s].killed
  /\ ~ ses[s].killed => Owned(s) \/ ses[s] = New

SessionOk(s) ==
  /\ SetUp(ses[s]) /\ Kept(ses[s]) /\ Owner(s)
  /\ ses[s].refs = (IF Owned(s) THEN 1 ELSE 0) + Parts(ses[s])

IInv ==
  /\ Shapes
  /\ fin.on # None <=> fin.at \in {"kills", "unrefs"}
  /\ \A s \in Session : SessionOk(s)

-----------------------------------------------------------------------------
(* What the operators that send a request do to a session.                  *)

SameParts(x, y) ==
  /\ y.refs = x.refs /\ y.killed = x.killed /\ y.url = x.url /\ y.rtsp_sock = x.rtsp_sock
  /\ y.ev_timer = x.ev_timer /\ y.rtsp_watch = x.rtsp_watch /\ y.rtp = x.rtp
SameSetUp(x, y) ==
  /\ y.state = x.state /\ y.ntrack = x.ntrack
  /\ y.request_itrack = x.request_itrack /\ y.accepted = x.accepted
SamePlays(x, y) == y.asked = x.asked /\ y.played = x.played /\ y.play_pending = x.play_pending
SameTalk(x, y) ==
  /\ y.wait_for = x.wait_for /\ y.rtsp_seq = x.rtsp_seq
  /\ y.out = x.out /\ y.in = x.in
SameRest(x, y) ==
  /\ y.tcp = x.tcp /\ y.session_id = x.session_id
  /\ y.got = x.got /\ y.late = x.late

Sent(x, y, method, awaited) ==
  /\ y.wait_for = [seq |-> y.rtsp_seq, method |-> awaited]
  /\ y.out = Append(x.out, [seq |-> y.rtsp_seq, method |-> method])
  /\ y.stalled = x.stalled
NotSent(x, y, method) ==
  /\ y.wait_for = x.wait_for /\ y.out = x.out
  /\ y.stalled = (x.stalled \/ method # "OPTIONS")

\* A request is sent with the next number, or is not sent.
LEMMA Sends ==
  ASSUME NEW x \in SessionShape, NEW method \in Methods, NEW awaited \in Methods,
         NEW y \in send_message(x, method, awaited)
  PROVE  /\ y \in SessionShape
         /\ SameParts(x, y) /\ SameSetUp(x, y) /\ SamePlays(x, y) /\ SameRest(x, y)
         /\ y.in = x.in /\ y.rtsp_seq = x.rtsp_seq + 1
         /\ Sent(x, y, method, awaited) \/ NotSent(x, y, method)
<1> PICK n \in Nat : n = x.rtsp_seq + 1
  BY DEF SessionShape
<1>1. [seq |-> n, method |-> awaited] \in Request /\ [seq |-> n, method |-> method] \in Request
  BY DEF Request
<1>2. CASE y = [x EXCEPT !.rtsp_seq = n, !.wait_for = [seq |-> n, method |-> awaited],
                         !.out = Append(@, [seq |-> n, method |-> method])]
  <2>1. Append(x.out, [seq |-> n, method |-> method]) \in Seq(Request)
    BY <1>1 DEF SessionShape
  <2>2. y \in SessionShape
    BY <1>1, <1>2, <2>1 DEF SessionShape
  <2>3. SameParts(x, y) /\ SameSetUp(x, y) /\ SamePlays(x, y) /\ SameRest(x, y)
    BY <1>2 DEF SessionShape, SameParts, SameSetUp, SamePlays, SameRest
  <2>4. y.in = x.in /\ y.rtsp_seq = n /\ Sent(x, y, method, awaited)
    BY <1>2 DEF SessionShape, Sent
  <2> QED BY <2>2, <2>3, <2>4
<1>3. CASE y = [x EXCEPT !.rtsp_seq = n, !.stalled = @ \/ method # "OPTIONS"]
  <2>1. y \in SessionShape
    BY <1>3 DEF SessionShape
  <2>2. SameParts(x, y) /\ SameSetUp(x, y) /\ SamePlays(x, y) /\ SameRest(x, y)
    BY <1>3 DEF SessionShape, SameParts, SameSetUp, SamePlays, SameRest
  <2>3. y.in = x.in /\ y.rtsp_seq = n /\ NotSent(x, y, method)
    BY <1>3 DEF SessionShape, NotSent
  <2> QED BY <2>1, <2>2, <2>3
<1> QED BY <1>2, <1>3 DEF send_message

LEMMA NumbersAreNat ==
  ASSUME NEW q \in Seq(Request), NEW r \in Seq(Reply \cup Data)
  PROVE  /\ \A i \in DOMAIN q : q[i].seq \in Nat
         /\ \A i \in DOMAIN r : Tells(r, i) => r[i].seq \in Nat
<1>1. ASSUME NEW i \in DOMAIN q PROVE q[i].seq \in Nat
  <2>1. q[i] \in Request
    BY ElementOfSeq
  <2> QED BY <2>1 DEF Request
<1>2. ASSUME NEW i \in DOMAIN r, Tells(r, i) PROVE r[i].seq \in Nat
  <2>1. r[i] \in Reply \cup Data
    BY ElementOfSeq
  <2>2. r[i] \in Reply
    BY <2>1, <1>2 DEF Tells, Data
  <2> QED BY <2>2 DEF Reply
<1> QED BY <1>1, <1>2

\* A request with a new number leaves the numbers apart.
LEMMA NewNumber ==
  ASSUME NEW q \in Seq(Request), NEW r \in Seq(Reply \cup Data), NEW w \in Nat, NEW n \in Nat,
         NEW method \in Methods, Numbers(q, r, w, n)
  PROVE  /\ Numbers(Append(q, [seq |-> n + 1, method |-> method]), r, n + 1, n + 1)
         /\ Numbers(q, r, w, n + 1)
<1> DEFINE e == [seq |-> n + 1, method |-> method]
           p == Append(q, e)
<1>4. e \in Request /\ e.seq = n + 1
  BY DEF Request
<1> HIDE DEF e
<1>1. p \in Seq(Request) /\ DOMAIN p = 1..(Len(q) + 1)
  BY <1>4
<1>2. \A i \in DOMAIN p : (i \in DOMAIN q /\ p[i] = q[i]) \/ (i = Len(q) + 1 /\ p[i] = e)
  OBVIOUS
<1>3. /\ \A i \in DOMAIN q : q[i].seq \in Nat /\ q[i].seq <= n
      /\ \A i \in DOMAIN r : Tells(r, i) => r[i].seq \in Nat /\ r[i].seq <= n
  BY NumbersAreNat DEF Numbers
<1> HIDE DEF p
<1>5. \A i \in DOMAIN p : p[i].seq \in Nat /\ p[i].seq <= n + 1
  BY <1>2, <1>3, <1>4
<1>6. \A i, j \in DOMAIN p : p[i].seq = p[j].seq => i = j
  <2> SUFFICES ASSUME NEW i \in DOMAIN p, NEW j \in DOMAIN p, p[i].seq = p[j].seq
               PROVE  i = j
    OBVIOUS
  <2>1. CASE i \in DOMAIN q /\ p[i] = q[i] /\ j \in DOMAIN q /\ p[j] = q[j]
    BY <2>1 DEF Numbers
  <2>2. CASE i = Len(q) + 1 /\ p[i] = e /\ j \in DOMAIN q /\ p[j] = q[j]
    BY <2>2, <1>3, <1>4
  <2>3. CASE i \in DOMAIN q /\ p[i] = q[i] /\ j = Len(q) + 1 /\ p[j] = e
    BY <2>3, <1>3, <1>4
  <2> QED BY <2>1, <2>2, <2>3, <1>2
<1>7. \A i \in DOMAIN p, j \in DOMAIN r : Tells(r, j) => p[i].seq # r[j].seq
  BY <1>2, <1>3, <1>4 DEF Numbers
<1>8. \A i \in DOMAIN r : Tells(r, i) => r[i].seq <= n + 1
  BY <1>3
<1>9. Numbers(p, r, n + 1, n + 1)
  BY <1>5, <1>6, <1>7, <1>8 DEF Numbers
<1>10. Numbers(q, r, w, n + 1)
  BY <1>3, <1>8 DEF Numbers
<1> QED BY <1>9, <1>10 DEF p, e

\* The server answers the oldest request.
LEMMA Answered ==
  ASSUME NEW q \in Seq(Request), NEW r \in Seq(Reply \cup Data), NEW w \in Nat, NEW n \in Nat,
         q # << >>, NEW m \in Reply, m.seq = Head(q).seq, Numbers(q, r, w, n)
  PROVE  /\ Numbers(Tail(q), Append(r, m), w, n)
         /\ Waits(Tail(q), Append(r, m), w) => Waits(q, r, w)
<1> DEFINE p == Tail(q)
           t == Append(r, m)
<1>1. 1 \in DOMAIN q /\ m.seq = q[1].seq /\ m.type = "reply"
  BY DEF Reply
<1>2. \A i \in DOMAIN p : i + 1 \in DOMAIN q /\ i + 1 # 1 /\ p[i] = q[i + 1] /\ i \in Int
  OBVIOUS
<1>3. \A j \in DOMAIN t : (j \in DOMAIN r /\ t[j] = r[j]) \/ (j = Len(r) + 1 /\ t[j] = m)
  OBVIOUS
<1>4. /\ \A i \in DOMAIN q : q[i].seq \in Nat
      /\ \A i \in DOMAIN r : Tells(r, i) => r[i].seq \in Nat
  BY NumbersAreNat
<1> HIDE DEF p, t
<1>5. \A i \in DOMAIN p : p[i].seq <= n
  BY <1>2, <1>4 DEF Numbers
<1>6. \A j \in DOMAIN t : Tells(t, j) => t[j].seq <= n
  BY <1>1, <1>3, <1>4 DEF Numbers, Tells
<1>7. \A i, j \in DOMAIN p : p[i].seq = p[j].seq => i = j
  <2> SUFFICES ASSUME NEW i \in DOMAIN p, NEW j \in DOMAIN p, p[i].seq = p[j].seq PROVE i = j
    OBVIOUS
  <2>1. i + 1 = j + 1
    BY <1>2 DEF Numbers
  <2> QED BY <2>1, <1>2
<1>8. \A i, j \in DOMAIN t : Tells(t, i) /\ Tells(t, j) /\ t[i].seq = t[j].seq => i = j
  <2> SUFFICES ASSUME NEW i \in DOMAIN t, NEW j \in DOMAIN t, Tells(t, i), Tells(t, j),
                      t[i].seq = t[j].seq
               PROVE  i = j
    OBVIOUS
  <2>1. CASE i \in DOMAIN r /\ t[i] = r[i] /\ j \in DOMAIN r /\ t[j] = r[j]
    BY <2>1 DEF Numbers, Tells
  <2>2. CASE i = Len(r) + 1 /\ t[i] = m /\ j \in DOMAIN r /\ t[j] = r[j]
    BY <2>2, <1>1 DEF Numbers, Tells
  <2>3. CASE i \in DOMAIN r /\ t[i] = r[i] /\ j = Len(r) + 1 /\ t[j] = m
    BY <2>3, <1>1 DEF Numbers, Tells
  <2> QED BY <2>1, <2>2, <2>3, <1>3
<1>9. \A i \in DOMAIN p, j \in DOMAIN t : Tells(t, j) => p[i].seq # t[j].seq
  <2> SUFFICES ASSUME NEW i \in DOMAIN p, NEW j \in DOMAIN t, Tells(t, j) PROVE p[i].seq # t[j].seq
    OBVIOUS
  <2>1. CASE j \in DOMAIN r /\ t[j] = r[j]
    BY <2>1, <1>2 DEF Numbers, Tells
  <2>2. CASE t[j] = m
    BY <2>2, <1>1, <1>2 DEF Numbers
  <2> QED BY <2>1, <2>2, <1>3
<1>10. Numbers(p, t, w, n)
  <2>1. w <= n
    BY DEF Numbers
  <2> QED BY <2>1, <1>5, <1>6, <1>7, <1>8, <1>9 DEF Numbers
<1>11. ASSUME Waits(p, t, w) PROVE Waits(q, r, w)
  <2>1. CASE \E i \in DOMAIN p : p[i].seq = w
    BY <2>1, <1>2 DEF Waits
  <2>2. CASE \E j \in DOMAIN t : Tells(t, j) /\ t[j].seq = w
    BY <2>2, <1>1, <1>3 DEF Waits, Tells
  <2> QED BY <2>1, <2>2, <1>11 DEF Waits
<1> QED BY <1>10, <1>11 DEF p, t

\* The server sends a packet.
LEMMA PacketSent ==
  ASSUME NEW q \in Seq(Request), NEW r \in Seq(Reply \cup Data), NEW w \in Nat, NEW n \in Nat,
         NEW m \in Data, Numbers(q, r, w, n)
  PROVE  /\ Numbers(q, Append(r, m), w, n)
         /\ Waits(q, Append(r, m), w) => Waits(q, r, w)
<1> DEFINE t == Append(r, m)
<1>1. \A j \in DOMAIN t : (j \in DOMAIN r /\ t[j] = r[j]) \/ t[j] = m
  OBVIOUS
<1>2. m.type # "reply"
  BY DEF Data
<1> HIDE DEF t
<1>3. \A j \in DOMAIN t : Tells(t, j) => j \in DOMAIN r /\ Tells(r, j) /\ t[j] = r[j]
  BY <1>1, <1>2 DEF Tells
<1>4. Numbers(q, t, w, n)
  BY <1>3 DEF Numbers
<1>5. Waits(q, t, w) => Waits(q, r, w)
  BY <1>3 DEF Waits
<1> QED BY <1>4, <1>5 DEF t

\* The session reads a message; the reply to the awaited request is read once.
LEMMA MessageRead ==
  ASSUME NEW q \in Seq(Request), NEW r \in Seq(Reply \cup Data), NEW w \in Nat, NEW n \in Nat,
         r # << >>, Numbers(q, r, w, n)
  PROVE  /\ Numbers(q, Tail(r), w, n)
         /\ Waits(q, Tail(r), w) => Waits(q, r, w)
         /\ Head(r).type = "reply" /\ Head(r).seq = w
              => Waits(q, r, w) /\ ~ Waits(q, Tail(r), w)
<1> DEFINE t == Tail(r)
<1>1. \A j \in DOMAIN t : j + 1 \in DOMAIN r /\ j + 1 # 1 /\ t[j] = r[j + 1] /\ j \in Int
  OBVIOUS
<1>2. 1 \in DOMAIN r /\ Head(r) = r[1]
  OBVIOUS
<1> HIDE DEF t
<1>3. \A j \in DOMAIN t : Tells(t, j) => Tells(r, j + 1)
  BY <1>1 DEF Tells
<1>4. \A i, j \in DOMAIN t : Tells(t, i) /\ Tells(t, j) /\ t[i].seq = t[j].seq => i = j
  <2> SUFFICES ASSUME NEW i \in DOMAIN t, NEW j \in DOMAIN t, Tells(t, i), Tells(t, j),
                      t[i].seq = t[j].seq
               PROVE  i = j
    OBVIOUS
  <2>1. i + 1 = j + 1
    BY <1>1, <1>3 DEF Numbers
  <2> QED BY <2>1, <1>1
<1>5. /\ \A j \in DOMAIN t : Tells(t, j) => t[j].seq <= n
      /\ \A i \in DOMAIN q, j \in DOMAIN t : Tells(t, j) => q[i].seq # t[j].seq
  BY <1>1, <1>3 DEF Numbers
<1>6. Numbers(q, t, w, n)
  BY <1>4, <1>5 DEF Numbers
<1>7. Waits(q, t, w) => Waits(q, r, w)
  BY <1>1, <1>3 DEF Waits
<1>8. ASSUME Head(r).type = "reply", Head(r).seq = w PROVE Waits(q, r, w) /\ ~ Waits(q, t, w)
  <2>1. Tells(r, 1) /\ r[1].seq = w
    BY <1>2, <1>8 DEF Tells
  <2>2. \A i \in DOMAIN q : q[i].seq # w
    BY <1>2, <2>1 DEF Numbers
  <2>3. \A j \in DOMAIN t : Tells(t, j) => t[j].seq # w
    BY <1>1, <1>2, <1>3, <2>1 DEF Numbers
  <2> QED BY <1>2, <2>1, <2>2, <2>3 DEF Waits
<1> QED BY <1>6, <1>7, <1>8 DEF t

\* What was asked is not heard any more.
LEMMA Unheard ==
  ASSUME NEW q, NEW r, NEW w, NEW n, Numbers(q, r, w, n)
  PROVE  Numbers(<< >>, r, w, n) /\ (Waits(<< >>, r, w) => Waits(q, r, w))
<1>1. DOMAIN << >> = {}
  OBVIOUS
<1> QED BY <1>1 DEF Numbers, Waits

-----------------------------------------------------------------------------
(* What holds a session.                                                    *)

LEMMA LiveIsFinite ==
  ASSUME NEW rtp \in Seq(Rtp)
  PROVE  IsFiniteSet(Live(rtp)) /\ Cardinality(Live(rtp)) \in Nat
<1>1. IsFiniteSet(1..Len(rtp))
  BY FS_Interval
<1>2. Live(rtp) \subseteq 1..Len(rtp)
  BY DEF Live
<1> QED BY <1>1, <1>2, FS_Subset, FS_CardinalityType

LEMMA RtpFields ==
  ASSUME NEW rtp \in Seq(Rtp), NEW k \in DOMAIN rtp
  PROVE  rtp[k] \in Rtp /\ rtp[k].refs \in Nat /\ rtp[k].channel \in Nat
<1>1. rtp[k] \in Rtp
  BY ElementOfSeq
<1> QED BY <1>1 DEF Rtp

LEMMA RtpAppended ==
  ASSUME NEW rtp \in Seq(Rtp), NEW e \in Rtp
  PROVE  /\ DOMAIN Append(rtp, e) = 1..(Len(rtp) + 1) /\ Append(rtp, e)[Len(rtp) + 1] = e
         /\ \A k \in DOMAIN Append(rtp, e) :
              k # Len(rtp) + 1 => k \in DOMAIN rtp /\ Append(rtp, e)[k] = rtp[k]
OBVIOUS

LEMMA RtpAdded ==
  ASSUME NEW rtp \in Seq(Rtp), NEW e \in Rtp, e.refs > 0
  PROVE  Cardinality(Live(Append(rtp, e))) = Cardinality(Live(rtp)) + 1
<1> DEFINE t == Append(rtp, e)
           l == Len(rtp) + 1
<1>1. /\ DOMAIN t = 1..l /\ t[l] = e /\ l \notin DOMAIN rtp
      /\ \A k \in DOMAIN t : k # l => k \in DOMAIN rtp /\ t[k] = rtp[k]
      /\ \A k \in DOMAIN rtp : k \in DOMAIN t /\ t[k] = rtp[k]
      /\ l \in DOMAIN t
  OBVIOUS
<1> HIDE DEF t, l
<1>2. Live(t) = Live(rtp) \cup {l}
  BY <1>1 DEF Live
<1>3. l \notin Live(rtp)
  BY <1>1 DEF Live
<1> QED BY <1>2, <1>3, LiveIsFinite, FS_AddElement DEF t

\* The references that an RTP session loses.
LEMMA RtpLost ==
  ASSUME NEW rtp \in Seq(Rtp), NEW k \in DOMAIN rtp, rtp[k].refs > 0
  PROVE  LET t == [rtp EXCEPT ![k].refs = @ - 1]
         IN /\ t \in Seq(Rtp) /\ DOMAIN t = DOMAIN rtp
            /\ \A j \in DOMAIN rtp : t[j].channel = rtp[j].channel
            /\ t[k].refs = rtp[k].refs - 1
            /\ t[k].refs = 0 => Cardinality(Live(t)) = Cardinality(Live(rtp)) - 1
            /\ t[k].refs # 0 => Cardinality(Live(t)) = Cardinality(Live(rtp))
<1> DEFINE e == [rtp[k] EXCEPT !.refs = @ - 1]
           t == [rtp EXCEPT ![k] = e]
<1>1. rtp[k] \in Rtp /\ rtp[k].refs \in Nat
  BY RtpFields
<1>2. e.refs = rtp[k].refs - 1 /\ e.channel = rtp[k].channel
  BY <1>1 DEF Rtp
<1>3. e \in Rtp
  BY <1>1 DEF Rtp
<1> HIDE DEF e
<1>4. t \in Seq(Rtp) /\ DOMAIN t = DOMAIN rtp
  BY <1>3, ExceptSeq
<1>5. t[k] = e /\ \A j \in DOMAIN rtp : j # k => t[j] = rtp[j]
  OBVIOUS
<1> HIDE DEF t
<1>6. \A j \in DOMAIN rtp : t[j].channel = rtp[j].channel
  BY <1>2, <1>5
<1>7. t[k].refs # 0 => Live(t) = Live(rtp)
  BY <1>1, <1>2, <1>4, <1>5 DEF Live
<1>8. t[k].refs = 0 => Live(t) = Live(rtp) \ {k} /\ k \in Live(rtp)
  BY <1>1, <1>2, <1>4, <1>5 DEF Live
<1>9. k \in Live(rtp) => Cardinality(Live(rtp) \ {k}) = Cardinality(Live(rtp)) - 1
  BY LiveIsFinite, FS_RemoveElement
<1>10. t[k].refs = rtp[k].refs - 1
  BY <1>2, <1>5
<1> QED BY <1>4, <1>6, <1>7, <1>8, <1>9, <1>10 DEF t, e

\* The references that all of them lose when the medium goes.
LEMMA RtpDropped ==
  ASSUME NEW rtp \in Seq(Rtp), \A k \in DOMAIN rtp : rtp[k].refs >= 1
  PROVE  LET t == [k \in DOMAIN rtp |-> [rtp[k] EXCEPT !.refs = @ - 1]]
             gone == {k \in DOMAIN rtp : rtp[k].refs = 1}
         IN /\ t \in Seq(Rtp) /\ DOMAIN t = DOMAIN rtp
            /\ \A j \in DOMAIN rtp : t[j].channel = rtp[j].channel
            /\ Cardinality(gone) \in Nat
            /\ Cardinality(Live(rtp)) - Cardinality(gone) = Cardinality(Live(t))
<1> DEFINE t == [k \in DOMAIN rtp |-> [rtp[k] EXCEPT !.refs = @ - 1]]
           gone == {k \in DOMAIN rtp : rtp[k].refs = 1}
<1>1. \A k \in DOMAIN rtp : rtp[k] \in Rtp /\ rtp[k].refs \in Nat /\ rtp[k].refs >= 1
  BY RtpFields
<1>2. ASSUME NEW k \in DOMAIN rtp
      PROVE  t[k].refs = rtp[k].refs - 1 /\ t[k].channel = rtp[k].channel /\ t[k] \in Rtp
  <2>1. t[k] = [rtp[k] EXCEPT !.refs = @ - 1]
    OBVIOUS
  <2>2. rtp[k] \in Rtp /\ rtp[k].refs \in Nat /\ rtp[k].refs >= 1
    BY <1>1
  <2> HIDE DEF t
  <2> QED BY <2>1, <2>2 DEF Rtp
<1>3. DOMAIN t = DOMAIN rtp /\ DOMAIN rtp = 1..Len(rtp) /\ Len(rtp) \in Nat
  OBVIOUS
<1>4. t \in [1..Len(rtp) -> Rtp]
  BY <1>2, <1>3
<1>5. t \in Seq(Rtp)
  BY <1>3, <1>4
<1> HIDE DEF t
<1>6. Live(t) = Live(rtp) \ gone /\ gone \subseteq Live(rtp)
  BY <1>1, <1>2, <1>3 DEF Live
<1> HIDE DEF gone
<1>7. IsFiniteSet(Live(rtp)) /\ IsFiniteSet(Live(t))
  BY <1>5, LiveIsFinite
<1>8. IsFiniteSet(gone)
  BY <1>6, <1>7, FS_Subset
<1>9. Cardinality(Live(rtp) \ gone) = Cardinality(Live(rtp)) - Cardinality(Live(rtp) \cap gone)
  BY <1>7, FS_Difference
<1>10. Live(rtp) \cap gone = gone
  BY <1>6
<1>11. Cardinality(gone) \in Nat /\ Cardinality(Live(rtp)) \in Nat
  BY <1>7, <1>8, FS_CardinalityType
<1>12. Cardinality(Live(rtp)) - Cardinality(gone) = Cardinality(Live(t))
  BY <1>6, <1>9, <1>10, <1>11
<1> QED BY <1>2, <1>3, <1>5, <1>11, <1>12 DEF t, gone

LEMMA PartsAreNumbers ==
  ASSUME NEW x \in SessionShape
  PROVE  /\ TimerHolds(x) \in {0, 1} /\ WatchHolds(x) \in {0, 1}
         /\ Cardinality(Live(x.rtp)) \in Nat
         /\ Parts(x) \in Nat /\ Parts(x) >= TimerHolds(x) /\ Parts(x) >= WatchHolds(x)
         /\ Parts(x) >= Cardinality(Live(x.rtp))
<1>1. TimerHolds(x) \in {0, 1} /\ WatchHolds(x) \in {0, 1}
  BY DEF TimerHolds, WatchHolds
<1>2. x.rtp \in Seq(Rtp)
  BY DEF SessionShape
<1>3. Cardinality(Live(x.rtp)) \in Nat
  BY <1>2, LiveIsFinite
<1> QED BY <1>1, <1>3 DEF Parts

LEMMA SamePartsKeep ==
  ASSUME NEW x \in SessionShape, NEW y \in SessionShape, SameParts(x, y), Kept(x), ~ y.late
  PROVE  Kept(y) /\ Parts(y) = Parts(x)
BY DEF SameParts, Kept, Parts, TimerHolds, WatchHolds

-----------------------------------------------------------------------------
(* What a call or a reply makes of a session that its owner does not leave. *)

Balanced(x, y) == y.refs - Parts(y) = x.refs - Parts(x)
Follows(x, y) ==
  /\ y \in SessionShape /\ SetUp(y) /\ Kept(y)
  /\ y.killed = x.killed /\ Balanced(x, y)

\* A request is sent, or not, by a session that has the same parts.
LEMMA SendsKept ==
  ASSUME NEW x \in SessionShape, NEW method \in Methods, NEW awaited \in Methods,
         NEW y \in send_message(x, method, awaited), Numbered(x)
  PROVE  /\ Numbered(y) /\ (Channels(x) => Channels(y))
         /\ Kept(x) => Kept(y) /\ Balanced(x, y)
         /\ NotSent(x, y, method) => (Awaited(y) <=> Awaited(x))
         /\ Sent(x, y, method, awaited) => y.wait_for # x.wait_for /\ y.wait_for.method = awaited
<1>1. /\ x.out \in Seq(Request) /\ x.in \in Seq(Reply \cup Data)
      /\ x.wait_for \in Request /\ x.rtsp_seq \in Nat
  BY DEF SessionShape
<1>2. x.wait_for.seq \in Nat
  BY <1>1 DEF Request
<1>3. /\ y \in SessionShape /\ SameParts(x, y) /\ y.in = x.in /\ y.late = x.late
      /\ y.rtsp_seq = x.rtsp_seq + 1
      /\ Sent(x, y, method, awaited) \/ NotSent(x, y, method)
  BY Sends DEF SameRest
<1>4. Numbers(x.out, x.in, x.wait_for.seq, x.rtsp_seq)
  BY DEF Numbered
<1>5. /\ Numbers(Append(x.out, [seq |-> x.rtsp_seq + 1, method |-> method]), x.in,
                 x.rtsp_seq + 1, x.rtsp_seq + 1)
      /\ Numbers(x.out, x.in, x.wait_for.seq, x.rtsp_seq + 1)
  BY <1>1, <1>2, <1>4, NewNumber
<1>6. ASSUME Sent(x, y, method, awaited)
      PROVE  /\ Numbered(y)
             /\ y.wait_for # x.wait_for /\ y.wait_for.method = awaited
  <2>1. /\ y.wait_for.seq = x.rtsp_seq + 1 /\ y.wait_for.method = awaited
        /\ y.out = Append(x.out, [seq |-> x.rtsp_seq + 1, method |-> method])
    BY <1>3, <1>6 DEF Sent
  <2>2. x.wait_for.seq <= x.rtsp_seq
    BY <1>4 DEF Numbers
  <2>3. y.wait_for # x.wait_for
    BY <1>1, <1>2, <2>1, <2>2
  <2> QED BY <1>3, <1>5, <2>1, <2>3 DEF Numbered
<1>7. ASSUME NotSent(x, y, method)
      PROVE  Numbered(y) /\ (Awaited(y) <=> Awaited(x))
  BY <1>3, <1>5, <1>7 DEF NotSent, Numbered, Awaited
<1>8. Channels(x) => Channels(y)
  BY <1>3 DEF SameParts, Channels
<1>9. Kept(x) => Kept(y) /\ Parts(y) = Parts(x)
  <2>1. Kept(x) => ~ y.late
    BY <1>3 DEF Kept
  <2> QED BY <1>3, <2>1, SamePartsKeep
<1>10. Kept(x) => Balanced(x, y)
  BY <1>3, <1>9 DEF Balanced, SameParts
<1> QED BY <1>3, <1>6, <1>7, <1>8, <1>9, <1>10

LEMMA DescribeFollows ==
  ASSUME NEW x \in SessionShape, SetUp(x), Kept(x), NEW y \in rtsp_session_describe(x)
  PROVE  Follows(x, y)
<1>1. "DESCRIBE" \in Methods /\ y \in send_message(x, "DESCRIBE", "DESCRIBE")
  BY DEF Methods, rtsp_session_describe
<1>2. /\ y \in SessionShape
      /\ SameParts(x, y) /\ SameSetUp(x, y) /\ SamePlays(x, y)
      /\ Sent(x, y, "DESCRIBE", "DESCRIBE") \/ NotSent(x, y, "DESCRIBE")
  BY <1>1, Sends
<1>3. /\ Numbered(y) /\ Channels(y) /\ Kept(y) /\ Balanced(x, y)
      /\ NotSent(x, y, "DESCRIBE") => (Awaited(y) <=> Awaited(x))
      /\ Sent(x, y, "DESCRIBE", "DESCRIBE") => y.wait_for.method = "DESCRIBE"
  BY <1>1, SendsKept DEF SetUp
<1>4. Tracks(y)
  <2>1. CASE Sent(x, y, "DESCRIBE", "DESCRIBE")
    BY <1>2, <1>3, <2>1 DEF SetUp, Tracks, SameSetUp, SameParts
  <2>2. CASE NotSent(x, y, "DESCRIBE")
    BY <1>2, <1>3, <2>2 DEF SetUp, Tracks, SameSetUp, SameParts, NotSent
  <2> QED BY <1>2, <2>1, <2>2
<1>5. Plays(y)
  BY <1>2 DEF SetUp, Plays, SameSetUp, SamePlays, Sent, NotSent
<1> QED BY <1>2, <1>3, <1>4, <1>5 DEF Follows, SetUp, SameParts

\* A keep-alive may take the place of the awaited request: the set-up stalls.
LEMMA OptionsFollows ==
  ASSUME NEW x \in SessionShape, SetUp(x), Kept(x), NEW y \in rtsp_session_options(x)
  PROVE  Follows(x, y)
<1>1. PICK z \in send_message(x, "OPTIONS", "OPTIONS") :
        y = [z EXCEPT !.stalled = @ \/ (x.state = "INIT" /\ z.wait_for # x.wait_for)]
  BY DEF rtsp_session_options
<1>2. /\ "OPTIONS" \in Methods /\ z \in SessionShape
      /\ SameParts(x, z) /\ SameSetUp(x, z) /\ SamePlays(x, z) /\ SameRest(x, z)
      /\ Sent(x, z, "OPTIONS", "OPTIONS") \/ NotSent(x, z, "OPTIONS")
  BY Sends DEF Methods
<1>3. /\ Numbered(z) /\ Channels(z) /\ Kept(z) /\ Balanced(x, z)
      /\ NotSent(x, z, "OPTIONS") => (Awaited(z) <=> Awaited(x))
      /\ Sent(x, z, "OPTIONS", "OPTIONS") => z.wait_for.method = "OPTIONS"
  BY <1>2, SendsKept DEF SetUp
<1>4. /\ y \in SessionShape /\ SameParts(z, y) /\ SameSetUp(z, y) /\ SamePlays(z, y)
      /\ SameTalk(z, y) /\ SameRest(z, y)
      /\ ~ y.stalled => ~ z.stalled
  BY <1>1, <1>2 DEF SessionShape, SameParts, SameSetUp, SamePlays, SameTalk, SameRest
<1>5. Tracks(z)
  <2>1. CASE Sent(x, z, "OPTIONS", "OPTIONS")
    BY <1>2, <1>3, <2>1 DEF SetUp, Tracks, SameSetUp, SameParts
  <2>2. CASE NotSent(x, z, "OPTIONS")
    BY <1>2, <1>3, <2>2 DEF SetUp, Tracks, SameSetUp, SameParts, NotSent
  <2> QED BY <1>2, <2>1, <2>2
<1>6. Plays(y)
  BY <1>2, <1>4 DEF SetUp, Plays, SameSetUp, SamePlays, Sent, NotSent
<1>7. Numbered(y) /\ Tracks(y) /\ Channels(y)
  BY <1>3, <1>4, <1>5
     DEF Numbered, Tracks, Channels, Awaited, SameTalk, SameSetUp, SameParts
<1>8. ~ y.late
  BY <1>2, <1>4 DEF SameRest, Kept
<1>9. Kept(y) /\ Parts(y) = Parts(z)
  BY <1>2, <1>3, <1>4, <1>8, SamePartsKeep
<1>10. Balanced(x, y) /\ y.killed = x.killed
  BY <1>2, <1>3, <1>4, <1>9 DEF Balanced, SameParts
<1> QED BY <1>4, <1>6, <1>7, <1>9, <1>10 DEF Follows, SetUp

\* PLAY is sent by a session that is ready and was asked for more than it sent.
LEMMA PlayFollows ==
  ASSUME NEW x \in SessionShape, Numbered(x), Tracks(x), Channels(x), Kept(x),
         x.state = "READY", x.played < x.asked, NEW y \in rtsp_session_play(x)
  PROVE  Follows(x, y)
<1>1. PICK z \in send_message(x, "PLAY", "SETUP") :
        y = [z EXCEPT !.played = IF z.wait_for = x.wait_for THEN @ ELSE @ + 1]
  BY DEF rtsp_session_play
<1>2. /\ "PLAY" \in Methods /\ "SETUP" \in Methods /\ z \in SessionShape
      /\ SameParts(x, z) /\ SameSetUp(x, z) /\ SamePlays(x, z) /\ SameRest(x, z)
      /\ Sent(x, z, "PLAY", "SETUP") \/ NotSent(x, z, "PLAY")
  BY Sends DEF Methods
<1>3. /\ Numbered(z) /\ Channels(z) /\ Kept(z) /\ Balanced(x, z)
      /\ Sent(x, z, "PLAY", "SETUP") => z.wait_for # x.wait_for
  BY <1>2, SendsKept
<1>a. z.played \in Nat
  BY <1>2 DEF SessionShape
<1> PICK n \in Nat : n = IF z.wait_for = x.wait_for THEN z.played ELSE z.played + 1
  BY <1>a
<1>4. y = [z EXCEPT !.played = n]
  BY <1>1, <1>2 DEF SessionShape
<1>5. /\ y \in SessionShape /\ SameParts(z, y) /\ SameSetUp(z, y) /\ SameTalk(z, y)
      /\ SameRest(z, y) /\ y.asked = z.asked /\ y.played = n /\ y.stalled = z.stalled
      /\ y.play_pending = z.play_pending
  BY <1>2, <1>4 DEF SessionShape, SameParts, SameSetUp, SameTalk, SameRest
<1>6. /\ y.state = "READY" /\ y.asked = x.asked
      /\ x.asked \in Nat /\ x.played \in Nat /\ z.played = x.played
  BY <1>2, <1>5 DEF SessionShape, SameSetUp, SamePlays
<1>7. y.played <= y.asked
  BY <1>5, <1>6
<1>8. ~ y.stalled => y.played > 0
  <2>1. CASE Sent(x, z, "PLAY", "SETUP")
    BY <1>3, <1>5, <1>6, <2>1
  <2>2. CASE NotSent(x, z, "PLAY")
    BY <1>5, <2>2 DEF NotSent
  <2> QED BY <1>2, <2>1, <2>2
<1>9. Plays(y)
  BY <1>6, <1>7, <1>8 DEF Plays
<1>10. Tracks(y)
  BY <1>2, <1>5, <1>6 DEF Tracks, SameSetUp, SameParts
<1>11. Numbered(y) /\ Channels(y)
  BY <1>3, <1>5 DEF Numbered, Channels, SameTalk, SameParts
<1>12. ~ y.late
  BY <1>2, <1>5 DEF SameRest, Kept
<1>13. Kept(y) /\ Parts(y) = Parts(z)
  BY <1>2, <1>3, <1>5, <1>12, SamePartsKeep
<1>14. Balanced(x, y) /\ y.killed = x.killed
  BY <1>2, <1>3, <1>5, <1>13 DEF Balanced, SameParts
<1> QED BY <1>5, <1>9, <1>10, <1>11, <1>13, <1>14 DEF Follows, SetUp

\* One more RTP session is created and SETUP is sent for its track, or, over UDP, no pair of
\* ports is found.
LEMMA SetupFollows ==
  ASSUME NEW x \in SessionShape, Numbered(x), Plays(x), Channels(x), Kept(x),
         x.state = "INIT", ~ x.killed, ~ Awaited(x),
         x.request_itrack = x.accepted, x.request_itrack < x.ntrack,
         NEW y \in rtsp_session_setup(x)
  PROVE  Follows(x, y)
<1> PICK n \in Nat : n = x.request_itrack + 1
  BY DEF SessionShape
<1> DEFINE u == [x EXCEPT !.request_itrack = n]
           e == [refs |-> IF x.tcp THEN 1 ELSE 3, channel |-> 2 * Len(x.rtp)]
           z == [u EXCEPT !.rtp = Append(@, e), !.refs = @ + 1]
<1>1. /\ x.rtp \in Seq(Rtp) /\ x.refs \in Nat /\ x.tcp \in BOOLEAN
      /\ x.request_itrack \in Nat /\ x.accepted \in Nat /\ x.ntrack \in Nat
  BY DEF SessionShape
<1>2. e \in Rtp /\ e.refs > 0 /\ e.refs >= 1 /\ e.channel = 2 * Len(x.rtp)
  BY <1>1 DEF Rtp
<1>3. u \in SessionShape /\ u = [x EXCEPT !.request_itrack = @ + 1]
  BY DEF SessionShape
<1>4. /\ u.request_itrack = n /\ u.rtp = x.rtp /\ u.tcp = x.tcp
      /\ SameParts(x, u) /\ SamePlays(x, u) /\ SameTalk(x, u) /\ SameRest(x, u)
      /\ u.state = x.state /\ u.ntrack = x.ntrack /\ u.accepted = x.accepted
      /\ u.stalled = x.stalled
  BY DEF SessionShape, SameParts, SamePlays, SameTalk, SameRest
<1>5. \/ y \in send_message(z, "SETUP", "SETUP")
      \/ y = [u EXCEPT !.stalled = TRUE]
  BY <1>3, <1>4 DEF rtsp_session_setup, rtsp_media_create_rtp_session
<1> HIDE DEF u, e
<1>6. CASE y = [u EXCEPT !.stalled = TRUE]
  <2>a. u \in SessionShape
    BY <1>3
  <2>b. y \in SessionShape
    BY <1>6, <2>a DEF SessionShape
  <2>1. /\ y \in SessionShape /\ SameParts(u, y) /\ SameSetUp(u, y) /\ SamePlays(u, y)
        /\ SameTalk(u, y) /\ SameRest(u, y)
    BY <1>6, <2>a, <2>b DEF SessionShape, SameParts, SameSetUp, SamePlays, SameTalk, SameRest
  <2>2. SameParts(x, y) /\ SamePlays(x, y) /\ SameTalk(x, y) /\ SameRest(x, y)
    BY <1>4, <2>1 DEF SameParts, SamePlays, SameTalk, SameRest
  <2>3. /\ y.state = "INIT" /\ y.ntrack = x.ntrack /\ y.accepted = x.accepted
        /\ y.request_itrack = n
    BY <1>4, <2>1 DEF SameSetUp
  <2>4. Numbered(y) /\ Channels(y)
    BY <2>2 DEF Numbered, Channels, SameTalk, SameParts
  <2>5. Tracks(y)
    BY <1>1, <2>3 DEF Tracks
  <2>6. Plays(y)
    BY <2>2, <2>3 DEF Plays, SamePlays
  <2>7. Kept(y) /\ Parts(y) = Parts(x)
    <3>1. ~ y.late
      BY <2>2 DEF SameRest, Kept
    <3> QED BY <2>1, <2>2, <3>1, SamePartsKeep
  <2>8. Balanced(x, y) /\ y.killed = x.killed
    BY <2>2, <2>7 DEF Balanced, SameParts
  <2> QED BY <2>1, <2>4, <2>5, <2>6, <2>7, <2>8 DEF Follows, SetUp
<1>7. CASE y \in send_message(z, "SETUP", "SETUP")
  <2>a. u \in SessionShape /\ u.rtp \in Seq(Rtp) /\ u.refs \in Nat
    BY <1>1, <1>3, <1>4 DEF SameParts
  <2>1. /\ Append(u.rtp, e) \in Seq(Rtp) /\ u.refs + 1 \in Nat
    BY <1>2, <2>a
  <2> PICK q \in Seq(Rtp), m \in Nat : q = Append(u.rtp, e) /\ m = u.refs + 1
    BY <2>1
  <2>b. z = [u EXCEPT !.rtp = q, !.refs = m]
    OBVIOUS
  <2>2. z \in SessionShape
    BY <2>a, <2>b DEF SessionShape
  <2>3. /\ z.refs = x.refs + 1 /\ z.rtp = Append(x.rtp, e)
        /\ z.killed = x.killed /\ z.url = x.url /\ z.rtsp_sock = x.rtsp_sock
        /\ z.ev_timer = x.ev_timer /\ z.rtsp_watch = x.rtsp_watch
    BY <2>a, <2>b, <1>4 DEF SessionShape, SameParts
  <2>4. /\ SameSetUp(u, z) /\ SamePlays(u, z) /\ SameTalk(u, z) /\ SameRest(u, z)
        /\ z.stalled = u.stalled
    BY <2>a, <2>b DEF SessionShape, SameSetUp, SamePlays, SameTalk, SameRest
  <2>5. /\ SamePlays(x, z) /\ SameTalk(x, z) /\ SameRest(x, z) /\ z.stalled = x.stalled
    BY <1>4, <2>4 DEF SamePlays, SameTalk, SameRest
  <2>6. /\ z.state = "INIT" /\ z.ntrack = x.ntrack /\ z.accepted = x.accepted
        /\ z.request_itrack = n
    BY <1>4, <2>4 DEF SameSetUp
  <2> HIDE DEF z
  <2>7. Numbered(z) /\ ~ Awaited(z)
    BY <2>5 DEF Numbered, Awaited, SameTalk
  <2>8. /\ DOMAIN z.rtp = 1..(Len(x.rtp) + 1) /\ z.rtp[Len(x.rtp) + 1] = e
        /\ \A k \in DOMAIN z.rtp : k # Len(x.rtp) + 1 => k \in DOMAIN x.rtp /\ z.rtp[k] = x.rtp[k]
    BY <1>1, <1>2, <2>3, RtpAppended
  <2>9. Channels(z)
    <3> SUFFICES ASSUME NEW k \in DOMAIN z.rtp PROVE z.rtp[k].channel = 2 * (k - 1)
      BY DEF Channels
    <3>1. CASE k = Len(x.rtp) + 1
      BY <1>1, <1>2, <2>8, <3>1
    <3>2. CASE k # Len(x.rtp) + 1
      BY <2>8, <3>2 DEF Channels
    <3> QED BY <3>1, <3>2
  <2>10. \A k \in DOMAIN z.rtp : z.rtp[k].refs >= 1
    BY <1>2, <2>8 DEF Kept
  <2>11. Parts(z) = Parts(x) + 1
    <3>1. Cardinality(Live(z.rtp)) = Cardinality(Live(x.rtp)) + 1
      BY <1>1, <1>2, <2>3, RtpAdded
    <3>2. TimerHolds(z) = TimerHolds(x) /\ WatchHolds(z) = WatchHolds(x)
      BY <2>3 DEF TimerHolds, WatchHolds
    <3> QED BY <3>1, <3>2, PartsAreNumbers DEF Parts
  <2>12. Kept(z)
    <3>1. z.refs # 0
      BY <1>1, <2>3
    <3>2. ~ z.late
      BY <2>5 DEF SameRest, Kept
    <3>3. z.rtsp_sock = "closed" => z.killed
      BY <2>3 DEF Kept
    <3>4. z.ev_timer \in {"deleted", "gone"} \/ z.rtsp_watch = "deleted" => z.killed
      BY <2>3 DEF Kept
    <3>5. z.rtsp_sock = "watch" => z.rtsp_watch \in {"attached", "deleted"}
      BY <2>3 DEF Kept
    <3>6. ~ z.url => z.ev_timer = "none" /\ z.rtsp_watch = "none" /\ z.rtsp_sock = "none"
      BY <2>3 DEF Kept
    <3> QED BY <2>10, <3>1, <3>2, <3>3, <3>4, <3>5, <3>6 DEF Kept
  <2>13. Balanced(x, z)
    BY <1>1, <2>3, <2>11, PartsAreNumbers DEF Balanced
  <2>14. /\ y \in SessionShape /\ "SETUP" \in Methods
         /\ SameParts(z, y) /\ SameSetUp(z, y) /\ SamePlays(z, y)
         /\ Sent(z, y, "SETUP", "SETUP") \/ NotSent(z, y, "SETUP")
    BY <1>7, <2>2, Sends DEF Methods
  <2>15. /\ Numbered(y) /\ Channels(y) /\ Kept(y) /\ Balanced(z, y)
         /\ NotSent(z, y, "SETUP") => (Awaited(y) <=> Awaited(z))
    BY <1>7, <2>2, <2>7, <2>9, <2>12, <2>14, SendsKept
  <2>16. /\ y.state = "INIT" /\ y.ntrack = x.ntrack /\ y.accepted = x.accepted
         /\ y.request_itrack = n
    BY <2>6, <2>14 DEF SameSetUp
  <2>17. Tracks(y)
    BY <1>1, <2>16 DEF Tracks
  <2>18. Plays(y)
    BY <2>5, <2>14, <2>16 DEF Plays, SamePlays
  <2>19. y.killed = x.killed
    BY <2>3, <2>14 DEF SameParts
  <2>20. Balanced(x, y)
    BY <2>13, <2>15 DEF Balanced
  <2> QED BY <2>14, <2>15, <2>17, <2>18, <2>19, <2>20 DEF Follows, SetUp
<1> QED BY <1>5, <1>6, <1>7 DEF u

-----------------------------------------------------------------------------
(* Messages of the server.                                                  *)

\* A change of what nothing here depends on.
LEMMA SameFollows ==
  ASSUME NEW x \in SessionShape, NEW y \in SessionShape, Kept(x),
         SameParts(x, y), ~ y.late, Numbered(y), Tracks(y), Plays(y)
  PROVE  Channels(x) => Follows(x, y)
<1>1. Kept(y) /\ Parts(y) = Parts(x)
  BY SamePartsKeep
<1>2. Channels(x) => Channels(y)
  BY DEF SameParts, Channels
<1>3. y.killed = x.killed /\ Balanced(x, y)
  BY <1>1 DEF SameParts, Balanced
<1> QED BY <1>1, <1>2, <1>3 DEF Follows, SetUp

LEMMA StalledFollows ==
  ASSUME NEW x \in SessionShape, SetUp(x), Kept(x), NEW y \in Stalled(x)
  PROVE  Follows(x, y)
<1>1. y = [x EXCEPT !.stalled = TRUE]
  BY DEF Stalled
<1>2. y \in SessionShape
  BY <1>1 DEF SessionShape
<1>3. /\ SameParts(x, y) /\ SameSetUp(x, y) /\ SamePlays(x, y) /\ SameTalk(x, y)
      /\ SameRest(x, y) /\ y.stalled
  BY <1>1 DEF SessionShape, SameParts, SameSetUp, SamePlays, SameTalk, SameRest
<1>4. Numbered(y) /\ Tracks(y)
  BY <1>3 DEF SetUp, Numbered, Tracks, Awaited, SameTalk, SameSetUp, SameParts
<1>5. Plays(y)
  BY <1>3 DEF SetUp, Plays, SamePlays, SameSetUp
<1>6. ~ y.late
  BY <1>3 DEF SameRest, Kept
<1> QED BY <1>2, <1>3, <1>4, <1>5, <1>6, SameFollows DEF SetUp

LEMMA NothingFollows ==
  ASSUME NEW x \in SessionShape, SetUp(x), Kept(x)
  PROVE  Follows(x, x)
BY DEF Follows, Balanced

LEMMA FollowsOn ==
  ASSUME NEW x, NEW y, NEW z, y.killed = x.killed, Balanced(x, y), Follows(y, z)
  PROVE  Follows(x, z)
BY DEF Follows, Balanced

LEMMA DescribeAnswered ==
  ASSUME NEW x \in SessionShape, SetUp(x), Kept(x), x.state = "INIT", ~ x.killed, ~ Awaited(x),
         NEW m \in Reply, NEW y \in describe_response(x, m)
  PROVE  Follows(x, y)
<1>1. CASE y = x
  BY <1>1, NothingFollows
<1>2. CASE y \in Stalled(x)
  BY <1>2, StalledFollows
<1>3. CASE x.ntrack = 0 /\ m.ntrack # 0 /\ y \in rtsp_session_setup([x EXCEPT !.ntrack = m.ntrack])
  <2> DEFINE z == [x EXCEPT !.ntrack = m.ntrack]
  <2>1. m.ntrack \in Nat /\ m.ntrack > 0
    BY <1>3 DEF Reply
  <2>2. z \in SessionShape
    BY <2>1 DEF SessionShape
  <2>3. /\ SameParts(x, z) /\ SamePlays(x, z) /\ SameTalk(x, z) /\ SameRest(x, z)
        /\ z.state = x.state /\ z.ntrack = m.ntrack /\ z.stalled = x.stalled
        /\ z.request_itrack = x.request_itrack /\ z.accepted = x.accepted
    BY <2>1 DEF SessionShape, SameParts, SamePlays, SameTalk, SameRest
  <2> HIDE DEF z
  <2>4. Numbered(z) /\ ~ Awaited(z) /\ Channels(z) /\ Plays(z)
    BY <2>3 DEF SetUp, Numbered, Awaited, Channels, Plays, SameTalk, SameParts, SamePlays
  <2>5. x.request_itrack \in Nat /\ x.accepted \in Nat
    BY DEF SessionShape
  <2>6. x.request_itrack <= 0 /\ x.accepted <= x.request_itrack
    BY <1>3 DEF SetUp, Tracks
  <2>7. z.request_itrack = z.accepted /\ z.request_itrack < z.ntrack
    BY <2>1, <2>3, <2>5, <2>6
  <2>8. ~ z.late /\ ~ z.killed /\ z.state = "INIT"
    BY <2>3 DEF SameRest, SameParts, Kept
  <2>9. Kept(z) /\ Parts(z) = Parts(x)
    BY <2>2, <2>3, <2>8, SamePartsKeep
  <2>10. Follows(z, y)
    BY <1>3, <2>2, <2>4, <2>7, <2>8, <2>9, SetupFollows DEF z
  <2>11. z.killed = x.killed /\ Balanced(x, z)
    BY <2>3, <2>9 DEF Balanced, SameParts
  <2> QED BY <2>10, <2>11, FollowsOn
<1> QED BY <1>1, <1>2, <1>3 DEF describe_response

LEMMA SetupAnswered ==
  ASSUME NEW x \in SessionShape, SetUp(x), Kept(x), x.state = "INIT", ~ x.killed, ~ Awaited(x),
         x.request_itrack = x.accepted + 1,
         NEW m \in Reply, NEW y \in setup_response(x, m)
  PROVE  Follows(x, y)
<1> DEFINE fails == m.session = None \/ x.session_id \notin {None, m.session}
<1>1. CASE fails
  BY <1>1, StalledFollows DEF setup_response
<1>2. CASE ~ fails
  <2>1. m.session \in Names /\ x.accepted \in Nat /\ x.request_itrack \in Nat /\ x.ntrack \in Nat
    BY DEF Reply, SessionShape
  <2> PICK n \in Nat : n = x.accepted + 1
    BY <2>1
  <2> DEFINE z == [x EXCEPT !.session_id = m.session, !.accepted = n]
             r == [z EXCEPT !.state = "READY"]
  <2>2. z \in SessionShape
    BY <2>1 DEF SessionShape
  <2>3. /\ SameParts(x, z) /\ SamePlays(x, z) /\ SameTalk(x, z) /\ z.late = x.late
        /\ z.state = x.state /\ z.ntrack = x.ntrack /\ z.stalled = x.stalled
        /\ z.request_itrack = x.request_itrack /\ z.accepted = n
    BY DEF SessionShape, SameParts, SamePlays, SameTalk
  <2>4. z = [x EXCEPT !.session_id = m.session, !.accepted = @ + 1]
    OBVIOUS
  <2>5. y \in IF z.request_itrack < z.ntrack THEN rtsp_session_setup(z)
              ELSE IF z.play_pending THEN rtsp_session_play(r) ELSE {r}
    BY <1>2, <2>4 DEF setup_response
  <2>6. Numbered(z) /\ ~ Awaited(z) /\ Channels(z) /\ Plays(z)
    BY <2>3 DEF SetUp, Numbered, Awaited, Channels, Plays, SameTalk, SameParts, SamePlays
  <2>7. ~ z.late /\ ~ z.killed /\ z.state = "INIT"
    BY <2>3 DEF SameParts, Kept
  <2>8. Kept(z) /\ Parts(z) = Parts(x)
    BY <2>2, <2>3, <2>7, SamePartsKeep
  <2>9. z.killed = x.killed /\ Balanced(x, z)
    BY <2>3, <2>8 DEF Balanced, SameParts
  <2>10. z.request_itrack = z.accepted /\ z.request_itrack <= z.ntrack
    BY <2>1, <2>3 DEF SetUp, Tracks
  <2>11. z.request_itrack \in Nat /\ z.ntrack \in Nat /\ z.played \in Nat /\ z.asked \in Nat
    BY <2>2 DEF SessionShape
  <2>12. CASE z.request_itrack < z.ntrack
    <3>1. Follows(z, y)
      BY <2>2, <2>5, <2>6, <2>7, <2>8, <2>10, <2>12, SetupFollows
    <3> QED BY <3>1, <2>9, FollowsOn
  <2>13. CASE ~ (z.request_itrack < z.ntrack)
    <3>1. r \in SessionShape
      BY ZenonT(20), <2>2 DEF SessionShape
    <3>2. /\ SameParts(z, r) /\ SamePlays(z, r) /\ SameTalk(z, r) /\ SameRest(z, r)
          /\ r.state = "READY" /\ r.ntrack = z.ntrack /\ r.stalled = z.stalled
          /\ r.request_itrack = z.request_itrack /\ r.accepted = z.accepted
      BY <2>2 DEF SessionShape, SameParts, SamePlays, SameTalk, SameRest
    <3> HIDE DEF z, r
    <3>3. Numbered(r) /\ Channels(r)
      BY <2>6, <3>2 DEF Numbered, Channels, SameTalk, SameParts
    <3>4. Tracks(r)
      BY <2>10, <2>11, <2>13, <3>2 DEF Tracks
    <3>5. ~ r.late /\ r.killed = z.killed
      BY <2>7, <3>2 DEF SameRest, SameParts
    <3>6. Kept(r) /\ Parts(r) = Parts(z)
      BY <2>2, <2>8, <3>1, <3>2, <3>5, SamePartsKeep
    <3>7. Balanced(z, r)
      BY <3>2, <3>6 DEF Balanced, SameParts
    <3>8. z.played = 0 /\ (z.asked > 0 <=> z.play_pending)
      BY <2>6, <2>7 DEF Plays
    <3>9. r.played = 0 /\ r.asked = z.asked
      BY <3>2, <3>8 DEF SamePlays
    <3>10. Follows(r, y)
      <4>1. CASE z.play_pending
        <5>1. r.played < r.asked
          BY <2>11, <3>8, <3>9, <4>1
        <5> QED BY <2>5, <2>13, <3>1, <3>2, <3>3, <3>4, <3>6, <4>1, <5>1, PlayFollows
      <4>2. CASE ~ z.play_pending
        <5>1. Plays(r)
          BY <2>11, <3>2, <3>8, <3>9, <4>2 DEF Plays
        <5>2. y = r
          BY <2>5, <2>13, <4>2
        <5> QED BY <3>1, <3>3, <3>4, <3>6, <5>1, <5>2, NothingFollows DEF SetUp
      <4> QED BY <4>1, <4>2
    <3>11. Follows(z, y)
      BY <3>5, <3>7, <3>10, FollowsOn
    <3> QED BY <3>11, <2>9, FollowsOn
  <2> QED BY <2>12, <2>13
<1> QED BY <1>1, <1>2

LEMMA MessageFollows ==
  ASSUME NEW x \in SessionShape, SetUp(x), Kept(x), ~ x.killed, NEW m \in Reply \cup Data,
         m.type = "reply" /\ m.seq = x.wait_for.seq
           => /\ ~ Awaited(x)
              /\ x.state = "INIT" /\ x.wait_for.method = "SETUP"
                   => x.request_itrack = x.accepted + 1,
         NEW y \in rtsp_session_handle_rtsp_message(x, m)
  PROVE  Follows(x, y)
<1>1. CASE m.type = "data"
  <2>1. y = x \/ y = [x EXCEPT !.got = @ + 1]
    BY <1>1 DEF rtsp_session_handle_rtsp_message, interleaved_rcv
  <2>2. CASE y = [x EXCEPT !.got = @ + 1]
    <3> PICK n \in Nat : n = x.got + 1
      BY DEF SessionShape
    <3>1. y \in SessionShape
      BY <2>2 DEF SessionShape
    <3>2. /\ SameParts(x, y) /\ SameSetUp(x, y) /\ SamePlays(x, y) /\ SameTalk(x, y)
          /\ y.late = x.late /\ y.stalled = x.stalled
      BY <2>2 DEF SessionShape, SameParts, SameSetUp, SamePlays, SameTalk
    <3>3. Numbered(y) /\ Tracks(y) /\ ~ y.late
      BY <3>2 DEF SetUp, Numbered, Tracks, Awaited, SameTalk, SameSetUp, SameParts, Kept
    <3>4. Plays(y)
      BY <3>2 DEF SetUp, Plays, SamePlays, SameSetUp
    <3> QED BY <3>1, <3>2, <3>3, <3>4, SameFollows DEF SetUp
  <2> QED BY <2>1, <2>2, NothingFollows
<1>2. CASE m.type # "data"
  <2>1. m \in Reply /\ m.type = "reply"
    BY <1>2 DEF Reply, Data
  <2>2. CASE y = x \/ y \in Stalled(x)
    BY <2>2, NothingFollows, StalledFollows
  <2>3. CASE /\ m.seq = x.wait_for.seq /\ x.state = "INIT"
             /\ y \in rtsp_session_state_init(x, x.wait_for.method, m)
    <3>1. CASE x.wait_for.method = "DESCRIBE"
      BY <2>1, <2>3, <3>1, DescribeAnswered DEF rtsp_session_state_init
    <3>2. CASE x.wait_for.method = "SETUP"
      BY <2>1, <2>3, <3>2, SetupAnswered DEF rtsp_session_state_init
    <3>3. CASE x.wait_for.method \notin {"DESCRIBE", "SETUP"}
      BY <2>3, <3>3, NothingFollows DEF rtsp_session_state_init
    <3> QED BY <3>1, <3>2, <3>3
  <2> QED BY <1>2, <2>1, <2>2, <2>3 DEF rtsp_session_handle_rtsp_message
<1> QED BY <1>1, <1>2

-----------------------------------------------------------------------------
(* The other steps of a session that its owner does not leave.              *)

LEMMA SetUpSame ==
  ASSUME NEW x, NEW y, SetUp(x), SameTalk(x, y), SameSetUp(x, y), SamePlays(x, y),
         x.stalled => y.stalled, y.killed = x.killed,
         \A k \in DOMAIN y.rtp : k \in DOMAIN x.rtp /\ y.rtp[k].channel = x.rtp[k].channel
  PROVE  SetUp(y)
<1>1. Numbered(y) /\ (Awaited(y) <=> Awaited(x))
  BY DEF SetUp, SameTalk, Numbered, Awaited
<1>2. Tracks(y)
  BY <1>1 DEF SetUp, Tracks, SameTalk, SameSetUp
<1>3. Plays(y)
  BY DEF SetUp, Plays, SamePlays, SameSetUp
<1>4. Channels(y)
  BY DEF SetUp, Channels
<1> QED BY <1>1, <1>2, <1>3, <1>4 DEF SetUp

LEMMA AnswerFollows ==
  ASSUME NEW x \in SessionShape, SetUp(x), Kept(x), x.out # << >>,
         NEW m \in Reply, m.seq = Head(x.out).seq,
         NEW y, y = [x EXCEPT !.out = Tail(@), !.in = Append(@, m)]
  PROVE  Follows(x, y)
<1>1. /\ x.out \in Seq(Request) /\ x.in \in Seq(Reply \cup Data) /\ m \in Reply \cup Data
      /\ x.wait_for \in Request /\ x.rtsp_seq \in Nat
  BY DEF SessionShape
<1>2. x.wait_for.seq \in Nat
  BY <1>1 DEF Request
<1>a. Tail(x.out) \in Seq(Request)
  BY <1>1, HeadTailProperties
<1>b. Append(x.in, m) \in Seq(Reply \cup Data)
  BY <1>1, AppendProperties
<1> PICK q \in Seq(Request), r \in Seq(Reply \cup Data) : q = Tail(x.out) /\ r = Append(x.in, m)
  BY <1>a, <1>b
<1>3. y = [x EXCEPT !.out = q, !.in = r]
  OBVIOUS
<1>4. y \in SessionShape
  BY ZenonT(20), <1>3 DEF SessionShape
<1>5. /\ SameParts(x, y) /\ SameSetUp(x, y) /\ SamePlays(x, y) /\ SameRest(x, y)
      /\ y.out = q /\ y.in = r /\ y.wait_for = x.wait_for /\ y.rtsp_seq = x.rtsp_seq
      /\ y.stalled = x.stalled
  BY <1>3 DEF SessionShape, SameParts, SameSetUp, SamePlays, SameRest
<1>6. Numbered(y) /\ (Awaited(y) => Awaited(x))
  <2>1. Numbers(x.out, x.in, x.wait_for.seq, x.rtsp_seq)
    BY DEF SetUp, Numbered
  <2>2. /\ Numbers(Tail(x.out), Append(x.in, m), x.wait_for.seq, x.rtsp_seq)
        /\ Waits(Tail(x.out), Append(x.in, m), x.wait_for.seq)
             => Waits(x.out, x.in, x.wait_for.seq)
    BY <1>1, <1>2, <2>1, Answered
  <2> QED BY <1>5, <2>2 DEF Numbered, Awaited
<1>7. Tracks(y)
  BY <1>5, <1>6 DEF SetUp, Tracks, SameSetUp, SameParts
<1>8. Plays(y)
  BY <1>5 DEF SetUp, Plays, SamePlays, SameSetUp
<1>9. ~ y.late
  BY <1>5 DEF SameRest, Kept
<1> QED BY <1>4, <1>5, <1>6, <1>7, <1>8, <1>9, SameFollows DEF SetUp

LEMMA PacketFollows ==
  ASSUME NEW x \in SessionShape, SetUp(x), Kept(x), NEW m \in Data,
         NEW y, y = [x EXCEPT !.in = Append(@, m)]
  PROVE  Follows(x, y)
<1>1. /\ x.out \in Seq(Request) /\ x.in \in Seq(Reply \cup Data) /\ m \in Reply \cup Data
      /\ x.wait_for \in Request /\ x.rtsp_seq \in Nat
  BY DEF SessionShape
<1>2. x.wait_for.seq \in Nat
  BY <1>1 DEF Request
<1>a. Append(x.in, m) \in Seq(Reply \cup Data)
  BY <1>1, AppendProperties
<1> PICK r \in Seq(Reply \cup Data) : r = Append(x.in, m)
  BY <1>a
<1>3. y = [x EXCEPT !.in = r]
  OBVIOUS
<1>4. y \in SessionShape
  BY <1>3 DEF SessionShape
<1>5. /\ SameParts(x, y) /\ SameSetUp(x, y) /\ SamePlays(x, y) /\ SameRest(x, y)
      /\ y.out = x.out /\ y.in = r /\ y.wait_for = x.wait_for /\ y.rtsp_seq = x.rtsp_seq
      /\ y.stalled = x.stalled
  BY <1>3 DEF SessionShape, SameParts, SameSetUp, SamePlays, SameRest
<1>6. Numbered(y) /\ (Awaited(y) => Awaited(x))
  <2>1. Numbers(x.out, x.in, x.wait_for.seq, x.rtsp_seq)
    BY DEF SetUp, Numbered
  <2>2. /\ Numbers(x.out, Append(x.in, m), x.wait_for.seq, x.rtsp_seq)
        /\ Waits(x.out, Append(x.in, m), x.wait_for.seq)
             => Waits(x.out, x.in, x.wait_for.seq)
    BY <1>1, <1>2, <2>1, PacketSent
  <2> QED BY <1>5, <2>2 DEF Numbered, Awaited
<1>7. Tracks(y)
  BY <1>5, <1>6 DEF SetUp, Tracks, SameSetUp, SameParts
<1>8. Plays(y)
  BY <1>5 DEF SetUp, Plays, SamePlays, SameSetUp
<1>9. ~ y.late
  BY <1>5 DEF SameRest, Kept
<1> QED BY <1>4, <1>5, <1>6, <1>7, <1>8, <1>9, SameFollows DEF SetUp

\* What is left when a message was read.
LEMMA ReadFollows ==
  ASSUME NEW x \in SessionShape, SetUp(x), Kept(x), x.in # << >>,
         NEW y, y = [x EXCEPT !.in = Tail(@)]
  PROVE  /\ Follows(x, y) /\ Head(x.in) \in Reply \cup Data
         /\ Head(x.in).type = "reply" /\ Head(x.in).seq = y.wait_for.seq
              => /\ ~ Awaited(y)
                 /\ y.state = "INIT" /\ y.wait_for.method = "SETUP"
                      => y.request_itrack = y.accepted + 1
<1>1. /\ x.out \in Seq(Request) /\ x.in \in Seq(Reply \cup Data)
      /\ x.wait_for \in Request /\ x.rtsp_seq \in Nat
  BY DEF SessionShape
<1>2. x.wait_for.seq \in Nat
  BY <1>1 DEF Request
<1>a. Tail(x.in) \in Seq(Reply \cup Data) /\ Head(x.in) \in Reply \cup Data
  BY <1>1, HeadTailProperties
<1> PICK r \in Seq(Reply \cup Data) : r = Tail(x.in)
  BY <1>a
<1>3. y = [x EXCEPT !.in = r]
  OBVIOUS
<1>4. y \in SessionShape
  BY <1>3 DEF SessionShape
<1>5. /\ SameParts(x, y) /\ SameSetUp(x, y) /\ SamePlays(x, y) /\ SameRest(x, y)
      /\ y.out = x.out /\ y.in = r /\ y.wait_for = x.wait_for /\ y.rtsp_seq = x.rtsp_seq
      /\ y.stalled = x.stalled
  BY <1>3 DEF SessionShape, SameParts, SameSetUp, SamePlays, SameRest
<1>6. /\ Numbered(y) /\ (Awaited(y) => Awaited(x))
      /\ Head(x.in).type = "reply" /\ Head(x.in).seq = x.wait_for.seq => Awaited(x) /\ ~ Awaited(y)
  BY SMTT(20), <1>1, <1>2, <1>5, MessageRead DEF SetUp, Numbered, Awaited
<1>7. Tracks(y)
  BY <1>5, <1>6 DEF SetUp, Tracks, SameSetUp, SameParts
<1>8. Plays(y)
  BY <1>5 DEF SetUp, Plays, SamePlays, SameSetUp
<1>9. ~ y.late
  BY <1>5 DEF SameRest, Kept
<1>10. Follows(x, y)
  BY <1>4, <1>5, <1>6, <1>7, <1>8, <1>9, SameFollows DEF SetUp
<1>11. Head(x.in) \in Reply \cup Data
  BY <1>a
<1> QED BY <1>5, <1>6, <1>10, <1>11 DEF SetUp, Tracks, SameSetUp

\* The connection is there: the session gets its watch.
LEMMA ConnectedFollows ==
  ASSUME NEW x \in SessionShape, SetUp(x), Kept(x), x.url, ~ x.killed,
         x.ev_timer = "connects" \/ x.ev_timer = "ticks", x.rtsp_watch = "none",
         NEW y \in connected(x)
  PROVE  Follows(x, y)
<1> PICK n \in Nat : n = x.refs + 1
  BY DEF SessionShape
<1> DEFINE z == [x EXCEPT !.rtsp_watch = "attached", !.rtsp_sock = "watch", !.refs = n,
                          !.ev_timer = "ticks"]
<1>1. y \in rtsp_session_describe(z)
  BY DEF connected
<1>2. z \in SessionShape
  BY DEF SessionShape
<1>3. /\ SameSetUp(x, z) /\ SamePlays(x, z) /\ SameTalk(x, z) /\ SameRest(x, z)
      /\ z.stalled = x.stalled /\ z.rtp = x.rtp /\ z.killed = x.killed /\ z.url = x.url
      /\ z.rtsp_watch = "attached" /\ z.rtsp_sock = "watch" /\ z.ev_timer = "ticks" /\ z.refs = n
  BY DEF SessionShape, SameSetUp, SamePlays, SameTalk, SameRest
<1> HIDE DEF z
<1>4. SetUp(z)
  BY <1>3, SetUpSame
<1>5. Kept(z)
  BY <1>3 DEF Kept, SameRest
<1>6. Parts(z) = Parts(x) + 1
  <2>1. TimerHolds(z) = 1 /\ WatchHolds(z) = 1 /\ TimerHolds(x) = 1 /\ WatchHolds(x) = 0
    BY <1>3 DEF TimerHolds, WatchHolds
  <2> QED BY <1>3, <2>1, PartsAreNumbers DEF Parts
<1>7. x.refs \in Nat /\ Parts(x) \in Nat
  BY PartsAreNumbers DEF SessionShape
<1>8. Balanced(x, z)
  BY <1>3, <1>6, <1>7 DEF Balanced
<1>9. Follows(z, y)
  BY <1>1, <1>2, <1>4, <1>5, DescribeFollows
<1> QED BY <1>3, <1>8, <1>9, FollowsOn

LEMMA FailedFollows ==
  ASSUME NEW x \in SessionShape, SetUp(x), Kept(x), ~ x.killed, x.url,
         x.ev_timer = "connects" \/ x.ev_timer = "ticks",
         NEW y \in rtsp_conn_failed(x)
  PROVE  Follows(x, y)
<1>1. y = [x EXCEPT !.ev_timer = "returned", !.stalled = TRUE]
  BY DEF rtsp_conn_failed
<1>2. y \in SessionShape
  BY <1>1 DEF SessionShape
<1>3. /\ SameSetUp(x, y) /\ SamePlays(x, y) /\ SameTalk(x, y) /\ SameRest(x, y)
      /\ y.stalled /\ y.rtp = x.rtp /\ y.killed = x.killed /\ y.url = x.url
      /\ y.rtsp_watch = x.rtsp_watch /\ y.rtsp_sock = x.rtsp_sock /\ y.ev_timer = "returned"
      /\ y.refs = x.refs
  BY <1>1 DEF SessionShape, SameSetUp, SamePlays, SameTalk, SameRest
<1>4. SetUp(y)
  BY <1>3, SetUpSame
<1>5. Kept(y)
  BY <1>3 DEF Kept, SameRest
<1>6. TimerHolds(y) = TimerHolds(x) /\ WatchHolds(y) = WatchHolds(x)
  BY <1>3 DEF TimerHolds, WatchHolds
<1>7. Balanced(x, y)
  BY <1>3, <1>6 DEF Balanced, Parts
<1> QED BY <1>2, <1>3, <1>4, <1>5, <1>7 DEF Follows

\* What rtsp_client_open_session makes of the session before it is connected.
OpenFails(x, tcp) ==
  [x EXCEPT !.url = TRUE, !.tcp = tcp, !.rtsp_sock = "session", !.stalled = TRUE]
OpenWaits(x, tcp) ==
  [x EXCEPT !.url = TRUE, !.tcp = tcp, !.rtsp_sock = "session", !.ev_timer = "connects",
            !.refs = @ + 1]

LEMMA OpenFailsFollows ==
  ASSUME NEW x \in SessionShape, SetUp(x), Kept(x), ~ x.url, x.refs >= 1, ~ x.killed,
         NEW tcp \in BOOLEAN, NEW y, y = OpenFails(x, tcp)
  PROVE  Follows(x, y)
<1>1. y \in SessionShape
  BY DEF SessionShape, OpenFails
<1>2. /\ SameSetUp(x, y) /\ SamePlays(x, y) /\ SameTalk(x, y) /\ y.late = x.late
      /\ y.stalled /\ y.rtp = x.rtp /\ y.killed = x.killed /\ y.url
      /\ y.rtsp_watch = x.rtsp_watch /\ y.rtsp_sock = "session" /\ y.ev_timer = x.ev_timer
      /\ y.refs = x.refs
  BY DEF SessionShape, OpenFails, SameSetUp, SamePlays, SameTalk
<1>3. SetUp(y)
  BY <1>2, SetUpSame
<1>4. Kept(y)
  <2>1. y.refs # 0
    BY <1>2 DEF SessionShape
  <2> QED BY <1>2, <2>1 DEF Kept
<1>5. TimerHolds(y) = TimerHolds(x) /\ WatchHolds(y) = WatchHolds(x)
  BY <1>2 DEF TimerHolds, WatchHolds
<1>6. Balanced(x, y)
  BY <1>2, <1>5 DEF Balanced, Parts
<1> QED BY <1>1, <1>2, <1>3, <1>4, <1>6 DEF Follows

LEMMA OpenWaitsFollows ==
  ASSUME NEW x \in SessionShape, SetUp(x), Kept(x), ~ x.url, ~ x.killed,
         NEW tcp \in BOOLEAN, NEW y, y = OpenWaits(x, tcp)
  PROVE  /\ Follows(x, y) /\ y.url /\ ~ y.killed
         /\ y.ev_timer = "connects" /\ y.rtsp_watch = "none"
<1> PICK n \in Nat : n = x.refs + 1
  BY DEF SessionShape
<1>1. y \in SessionShape
  BY DEF SessionShape, OpenWaits
<1>2. /\ SameSetUp(x, y) /\ SamePlays(x, y) /\ SameTalk(x, y) /\ y.late = x.late
      /\ y.stalled = x.stalled /\ y.rtp = x.rtp /\ y.killed = x.killed /\ y.url
      /\ y.rtsp_watch = x.rtsp_watch /\ y.rtsp_sock = "session" /\ y.ev_timer = "connects"
      /\ y.refs = n
  BY DEF SessionShape, OpenWaits, SameSetUp, SamePlays, SameTalk
<1>3. SetUp(y)
  BY <1>2, SetUpSame
<1>4. Kept(y)
  <2>1. y.refs # 0
    BY <1>2 DEF SessionShape
  <2> QED BY <1>2, <2>1 DEF Kept
<1>5. x.ev_timer = "none" /\ x.rtsp_watch = "none"
  BY DEF Kept
<1>6. TimerHolds(y) = 1 /\ TimerHolds(x) = 0 /\ WatchHolds(y) = WatchHolds(x)
  BY <1>2, <1>5 DEF TimerHolds, WatchHolds
<1>7. Parts(y) = Parts(x) + 1
  BY <1>2, <1>6, PartsAreNumbers DEF Parts
<1>8. x.refs \in Nat /\ Parts(x) \in Nat
  BY PartsAreNumbers DEF SessionShape
<1>9. Balanced(x, y)
  BY <1>2, <1>7, <1>8 DEF Balanced
<1> QED BY <1>1, <1>2, <1>3, <1>4, <1>5, <1>9 DEF Follows

\* PLAY is asked for; a session that is not ready remembers it.
LEMMA PlayAsked ==
  ASSUME NEW x \in SessionShape, SetUp(x), Kept(x),
         NEW u, u = [x EXCEPT !.asked = @ + 1],
         NEW y \in IF u.state = "READY" THEN rtsp_session_play(u)
                   ELSE {[u EXCEPT !.play_pending = TRUE]}
  PROVE  Follows(x, y)
<1> PICK n \in Nat : n = x.asked + 1
  BY DEF SessionShape
<1>1. x.asked \in Nat /\ x.played \in Nat /\ x.played <= x.asked
  BY DEF SessionShape, SetUp, Plays
<1>2. u = [x EXCEPT !.asked = n]
  OBVIOUS
<1>3. u \in SessionShape
  BY ZenonT(20), <1>2 DEF SessionShape
<1>4. /\ SameParts(x, u) /\ SameSetUp(x, u) /\ SameTalk(x, u) /\ SameRest(x, u)
      /\ u.stalled = x.stalled /\ u.asked = n /\ u.played = x.played
  BY <1>2 DEF SessionShape, SameParts, SameSetUp, SameTalk, SameRest
<1>5. Numbered(u) /\ Tracks(u) /\ Channels(u)
  BY <1>4 DEF SetUp, Numbered, Tracks, Channels, Awaited, SameTalk, SameSetUp, SameParts
<1>6. ~ u.late
  BY <1>4 DEF SameRest, Kept
<1>7. Kept(u) /\ Parts(u) = Parts(x)
  BY <1>3, <1>4, <1>6, SamePartsKeep
<1>8. u.killed = x.killed /\ Balanced(x, u)
  BY <1>4, <1>7 DEF SameParts, Balanced
<1>9. CASE u.state = "READY"
  <2>1. u.played < u.asked
    BY <1>1, <1>4
  <2>2. Follows(u, y)
    BY <1>3, <1>5, <1>7, <1>9, <2>1, PlayFollows
  <2> QED BY <1>8, <2>2, FollowsOn
<1>10. CASE u.state = "INIT"
  <2>1. y = [u EXCEPT !.play_pending = TRUE]
    BY <1>10
  <2>2. y \in SessionShape
    BY ZenonT(20), <1>3, <2>1 DEF SessionShape
  <2>3. /\ SameParts(u, y) /\ SameSetUp(u, y) /\ SameTalk(u, y) /\ SameRest(u, y)
        /\ y.asked = n /\ y.played = x.played /\ y.play_pending
    BY <1>3, <1>4, <2>1 DEF SessionShape, SameParts, SameSetUp, SameTalk, SameRest
  <2>4. Numbered(y) /\ Tracks(y)
    BY <1>5, <2>3 DEF Numbered, Tracks, Awaited, SameTalk, SameSetUp, SameParts
  <2>5. y.state = "INIT" /\ x.state = "INIT"
    BY <1>4, <1>10, <2>3 DEF SameSetUp
  <2>6. Plays(y)
    BY <1>1, <2>3, <2>5 DEF SetUp, Plays
  <2>7. ~ y.late
    BY <1>6, <2>3 DEF SameRest
  <2>8. Follows(u, y)
    BY <1>3, <1>5, <1>7, <2>2, <2>3, <2>4, <2>6, <2>7, SameFollows
  <2> QED BY <1>8, <2>8, FollowsOn
<1> QED BY <1>3, <1>9, <1>10 DEF SessionShape

\* A packet reaches the user of a session that is not killed.
LEMMA PacketGiven ==
  ASSUME NEW x \in SessionShape, SetUp(x), Kept(x), NEW y, y = [x EXCEPT !.got = @ + 1]
  PROVE  Follows(x, y)
<1> PICK n \in Nat : n = x.got + 1
  BY DEF SessionShape
<1>1. y \in SessionShape
  BY DEF SessionShape
<1>2. /\ SameParts(x, y) /\ SameSetUp(x, y) /\ SamePlays(x, y) /\ SameTalk(x, y)
      /\ y.late = x.late /\ y.stalled = x.stalled
  BY DEF SessionShape, SameParts, SameSetUp, SamePlays, SameTalk
<1>3. SetUp(y)
  BY <1>2, SetUpSame DEF SameParts
<1>4. ~ y.late
  BY <1>2 DEF Kept
<1> QED BY <1>1, <1>2, <1>3, <1>4, SameFollows DEF SetUp

-----------------------------------------------------------------------------
(* References that are given back.                                          *)

Unlike(x, y) ==
  /\ SameSetUp(x, y) /\ SamePlays(x, y) /\ SameTalk(x, y) /\ SameRest(x, y)
  /\ y.stalled = x.stalled /\ y.killed = x.killed /\ y.url = x.url

LEMMA OneGivenBack ==
  ASSUME NEW x \in SessionShape, x.refs >= 1, NEW y, y = rtsp_client_session_unref(x, 1)
  PROVE  /\ y \in SessionShape /\ Unlike(x, y)
         /\ y.refs = x.refs - 1 /\ y.rtp = x.rtp
         /\ y.ev_timer = x.ev_timer /\ y.rtsp_watch = x.rtsp_watch
         /\ y.rtsp_sock = IF x.refs = 1 /\ x.rtsp_sock = "session" THEN "closed" ELSE x.rtsp_sock
<1>1. x.refs \in Nat
  BY DEF SessionShape
<1> PICK n \in Nat : n = x.refs - 1
  BY <1>1
<1> DEFINE c == IF x.refs = 1 /\ x.rtsp_sock = "session" THEN "closed" ELSE x.rtsp_sock
<1>2. y = [x EXCEPT !.refs = n, !.rtsp_sock = c]
  BY DEF rtsp_client_session_unref
<1>3. c \in {"none", "session", "watch", "closed"}
  BY DEF SessionShape
<1> HIDE DEF c
<1>4. y \in SessionShape
  BY ZenonT(20), <1>2, <1>3 DEF SessionShape
<1>5. Unlike(x, y)
  BY <1>2 DEF SessionShape, Unlike, SameSetUp, SamePlays, SameTalk, SameRest
<1>6. /\ y.refs = n /\ y.rtp = x.rtp /\ y.rtsp_sock = c
      /\ y.ev_timer = x.ev_timer /\ y.rtsp_watch = x.rtsp_watch
  BY <1>2 DEF SessionShape
<1> QED BY <1>4, <1>5, <1>6 DEF c

\* What a killed session is when one of its holders let it go.
LEMMA KilledKept ==
  ASSUME NEW x \in SessionShape, Kept(x), x.killed, NEW y, y.killed, ~ y.late,
         y.url = x.url, y.url \/ (y.ev_timer = "none" /\ y.rtsp_watch = "none"),
         y.rtsp_sock \in {x.rtsp_sock, "closed"}, y.url \/ y.rtsp_sock # "closed",
         y.refs = 0 => y.rtsp_sock # "session",
         y.rtsp_sock = "watch" => y.rtsp_watch \in {"attached", "deleted"}
  PROVE  Kept(y)
BY DEF Kept

LEMMA TimerGone ==
  ASSUME NEW x \in SessionShape, SetUp(x), Kept(x), x.refs >= 1, x.ev_timer = "deleted",
         NEW y, y = rtsp_client_session_unref([x EXCEPT !.ev_timer = "gone"], 1)
  PROVE  Follows(x, y)
<1> DEFINE u == [x EXCEPT !.ev_timer = "gone"]
<1>1. u \in SessionShape
  BY DEF SessionShape
<1>2. /\ Unlike(x, u) /\ u.refs = x.refs /\ u.rtp = x.rtp /\ u.ev_timer = "gone"
      /\ u.rtsp_watch = x.rtsp_watch /\ u.rtsp_sock = x.rtsp_sock
  BY DEF SessionShape, Unlike, SameSetUp, SamePlays, SameTalk, SameRest
<1> HIDE DEF u
<1>3. /\ y \in SessionShape /\ Unlike(u, y)
      /\ y.refs = x.refs - 1 /\ y.rtp = x.rtp
      /\ y.ev_timer = "gone" /\ y.rtsp_watch = x.rtsp_watch
      /\ y.rtsp_sock = IF x.refs = 1 /\ x.rtsp_sock = "session" THEN "closed" ELSE x.rtsp_sock
  BY ZenonT(20), <1>1, <1>2, OneGivenBack DEF u
<1>4. Unlike(x, y)
  BY <1>2, <1>3 DEF Unlike, SameSetUp, SamePlays, SameTalk, SameRest
<1>5. x.killed /\ x.url /\ x.refs \in Nat
  BY DEF Kept, SessionShape
<1>6. SetUp(y)
  BY <1>3, <1>4, SetUpSame DEF Unlike
<1>7. y.refs = 0 => y.rtsp_sock # "session"
  BY <1>3, <1>5
<1>8. Kept(y)
  BY <1>3, <1>4, <1>5, <1>7, KilledKept DEF Unlike, SameRest, Kept
<1>9. TimerHolds(x) = 1 /\ TimerHolds(y) = 0 /\ WatchHolds(y) = WatchHolds(x)
  BY <1>3 DEF TimerHolds, WatchHolds
<1>10. Parts(x) = Parts(y) + 1
  BY <1>3, <1>9, PartsAreNumbers DEF Parts
<1>11. Balanced(x, y)
  BY <1>3, <1>5, <1>10, PartsAreNumbers DEF Balanced
<1> QED BY <1>3, <1>4, <1>6, <1>8, <1>11 DEF Follows, Unlike

LEMMA WatchGone ==
  ASSUME NEW x \in SessionShape, SetUp(x), Kept(x), x.refs >= 1, x.rtsp_watch = "deleted",
         NEW y, y = rtsp_client_session_unref([x EXCEPT !.rtsp_watch = "gone",
                                                        !.rtsp_sock = "closed"], 1)
  PROVE  Follows(x, y)
<1> DEFINE u == [x EXCEPT !.rtsp_watch = "gone", !.rtsp_sock = "closed"]
<1>1. u \in SessionShape
  BY DEF SessionShape
<1>2. /\ Unlike(x, u) /\ u.refs = x.refs /\ u.rtp = x.rtp /\ u.ev_timer = x.ev_timer
      /\ u.rtsp_watch = "gone" /\ u.rtsp_sock = "closed"
  BY DEF SessionShape, Unlike, SameSetUp, SamePlays, SameTalk, SameRest
<1> HIDE DEF u
<1>3. /\ y \in SessionShape /\ Unlike(u, y)
      /\ y.refs = x.refs - 1 /\ y.rtp = x.rtp
      /\ y.ev_timer = x.ev_timer /\ y.rtsp_watch = "gone" /\ y.rtsp_sock = "closed"
  <2>1. u.refs >= 1 /\ y = rtsp_client_session_unref(u, 1)
    BY <1>2 DEF u
  <2>2. /\ y \in SessionShape /\ Unlike(u, y)
        /\ y.refs = u.refs - 1 /\ y.rtp = u.rtp
        /\ y.ev_timer = u.ev_timer /\ y.rtsp_watch = u.rtsp_watch
        /\ y.rtsp_sock = IF u.refs = 1 /\ u.rtsp_sock = "session" THEN "closed" ELSE u.rtsp_sock
    BY <1>1, <2>1, OneGivenBack
  <2> QED BY <1>2, <2>2
<1>4. Unlike(x, y)
  BY <1>2, <1>3 DEF Unlike, SameSetUp, SamePlays, SameTalk, SameRest
<1>5. x.killed /\ x.url /\ x.refs \in Nat
  BY DEF Kept, SessionShape
<1>6. SetUp(y)
  BY <1>3, <1>4, SetUpSame DEF Unlike
<1>8. Kept(y)
  BY <1>3, <1>4, <1>5, KilledKept DEF Unlike, SameRest, Kept
<1>9. WatchHolds(x) = 1 /\ WatchHolds(y) = 0 /\ TimerHolds(y) = TimerHolds(x)
  BY <1>3 DEF TimerHolds, WatchHolds
<1>10. Parts(x) = Parts(y) + 1
  BY <1>3, <1>9, PartsAreNumbers DEF Parts
<1>11. Balanced(x, y)
  BY <1>3, <1>5, <1>10, PartsAreNumbers DEF Balanced
<1> QED BY <1>3, <1>4, <1>6, <1>8, <1>11 DEF Follows, Unlike

LEMMA RtpGone ==
  ASSUME NEW x \in SessionShape, SetUp(x), Kept(x), x.refs >= 1, x.killed,
         NEW k \in DOMAIN x.rtp, x.rtp[k].refs > 0, NEW y, y = rtp_session_unref(x, k)
  PROVE  Follows(x, y)
<1> DEFINE t == [x.rtp EXCEPT ![k].refs = @ - 1]
           u == [x EXCEPT !.rtp = t]
<1>1. x.rtp \in Seq(Rtp) /\ x.refs \in Nat
  BY DEF SessionShape
<1>2. /\ t \in Seq(Rtp) /\ DOMAIN t = DOMAIN x.rtp
      /\ \A j \in DOMAIN x.rtp : t[j].channel = x.rtp[j].channel
      /\ t[k].refs = 0 => Cardinality(Live(t)) = Cardinality(Live(x.rtp)) - 1
      /\ t[k].refs # 0 => Cardinality(Live(t)) = Cardinality(Live(x.rtp))
  BY <1>1, RtpLost
<1> HIDE DEF t
<1>3. u \in SessionShape
  BY <1>2 DEF SessionShape
<1>4. /\ Unlike(x, u) /\ u.refs = x.refs /\ u.rtp = t /\ u.ev_timer = x.ev_timer
      /\ u.rtsp_watch = x.rtsp_watch /\ u.rtsp_sock = x.rtsp_sock
  BY DEF SessionShape, Unlike, SameSetUp, SamePlays, SameTalk, SameRest
<1>5. y = IF u.rtp[k].refs = 0 THEN rtsp_client_session_unref(u, 1) ELSE u
  BY DEF rtp_session_unref, t
<1> HIDE DEF u
<1>6. CASE t[k].refs = 0
  <2>1. /\ y \in SessionShape /\ Unlike(u, y)
        /\ y.refs = x.refs - 1 /\ y.rtp = t
        /\ y.ev_timer = x.ev_timer /\ y.rtsp_watch = x.rtsp_watch
        /\ y.rtsp_sock = IF x.refs = 1 /\ x.rtsp_sock = "session" THEN "closed" ELSE x.rtsp_sock
    BY <1>3, <1>4, <1>5, <1>6, OneGivenBack
  <2>2. Unlike(x, y)
    BY <1>4, <2>1 DEF Unlike, SameSetUp, SamePlays, SameTalk, SameRest
  <2>3. SetUp(y)
    BY <1>2, <2>1, <2>2, SetUpSame DEF Unlike
  <2>4. y.refs = 0 => y.rtsp_sock # "session"
    BY <1>1, <2>1
  <2>5. y.rtsp_sock = "closed" => x.rtsp_sock \in {"closed", "session"}
    BY <2>1
  <2>6. Kept(y)
    BY <2>1, <2>2, <2>4, <2>5, KilledKept DEF Unlike, SameRest, Kept
  <2>7. TimerHolds(x) = TimerHolds(y) /\ WatchHolds(y) = WatchHolds(x)
    BY <2>1 DEF TimerHolds, WatchHolds
  <2>8. Parts(x) = Parts(y) + 1
    BY <1>1, <1>2, <1>6, <2>1, <2>7, PartsAreNumbers DEF Parts
  <2>9. Balanced(x, y)
    BY <1>1, <2>1, <2>8, PartsAreNumbers DEF Balanced
  <2> QED BY <2>1, <2>2, <2>3, <2>6, <2>9 DEF Follows, Unlike
<1>7. CASE t[k].refs # 0
  <2>1. y = u
    BY <1>4, <1>5, <1>7
  <2>2. SetUp(y)
    BY <1>2, <1>4, <2>1, SetUpSame DEF Unlike
  <2>3. Kept(y)
    BY <1>4, <2>1, KilledKept DEF Unlike, SameRest, Kept
  <2>4. Parts(y) = Parts(x)
    BY <1>2, <1>4, <1>7, <2>1 DEF Parts, TimerHolds, WatchHolds
  <2> QED BY <1>3, <1>4, <2>1, <2>2, <2>3, <2>4 DEF Follows, Unlike, Balanced
<1> QED BY <1>6, <1>7

LEMMA KillArithmetic ==
  ASSUME NEW r \in Nat, NEW h \in {0, 1}, NEW w \in {0, 1},
         NEW c \in Nat, NEW g \in Nat, NEW d \in Nat, r = 1 + h + w + c, c - g = d
  PROVE  r - g = 1 + h + w + d
OBVIOUS

LEMMA KilledShape ==
  ASSUME NEW x \in SessionShape, NEW timer \in {"none", "deleted", "gone"},
         NEW watch \in {"none", "deleted", "gone"}, NEW t \in Seq(Rtp), NEW n \in Nat
  PROVE  [x EXCEPT !.killed = TRUE, !.ntrack = 0, !.out = << >>, !.ev_timer = timer,
                   !.rtsp_watch = watch, !.rtp = t, !.refs = n] \in SessionShape
<1> DEFINE u == [x EXCEPT !.killed = TRUE, !.ntrack = 0, !.out = << >>]
           v == [u EXCEPT !.ev_timer = timer, !.rtsp_watch = watch]
<1>1. << >> \in Seq(Request)
  OBVIOUS
<1>2. u \in SessionShape
  BY <1>1 DEF SessionShape
<1> HIDE DEF u
<1>3. v \in SessionShape
  BY <1>2 DEF SessionShape
<1> HIDE DEF v
<1>4. [v EXCEPT !.rtp = t, !.refs = n] \in SessionShape
  BY <1>3 DEF SessionShape
<1> QED BY <1>4 DEF u, v

\* The timer of a session that is not killed holds it.
LEMMA TimerHeld ==
  ASSUME NEW x \in SessionShape, Kept(x), ~ x.killed
  PROVE  TimerHolds(x) = 1 <=> x.ev_timer # "none"
BY DEF TimerHolds, SessionShape, Kept

\* The kill: what the session holds goes, or will be let go by a loop.
LEMMA Killed ==
  ASSUME NEW x \in SessionShape, SetUp(x), Kept(x), x.refs = 1 + Parts(x),
         NEW y, y = rtsp_session_kill(x)
  PROVE  /\ y \in SessionShape /\ SetUp(y) /\ Kept(y)
         /\ y.killed /\ y.refs = 1 + Parts(y)
<1>1. CASE x.killed
  BY <1>1 DEF rtsp_session_kill
<1>2. CASE ~ x.killed
  <2> DEFINE t == [k \in DOMAIN x.rtp |-> [x.rtp[k] EXCEPT !.refs = @ - 1]]
             gone == {k \in DOMAIN x.rtp : x.rtp[k].refs = 1}
             timer == IF x.ev_timer = None THEN None ELSE "deleted"
             watch == IF x.rtsp_watch = "attached" THEN "deleted" ELSE x.rtsp_watch
             left == x.refs - Cardinality(gone)
  <2>1. x.rtp \in Seq(Rtp) /\ x.refs \in Nat
    BY DEF SessionShape
  <2>2. /\ t \in Seq(Rtp) /\ DOMAIN t = DOMAIN x.rtp
        /\ \A j \in DOMAIN x.rtp : t[j].channel = x.rtp[j].channel
        /\ Cardinality(gone) \in Nat
        /\ Cardinality(Live(x.rtp)) - Cardinality(gone) = Cardinality(Live(t))
    <3>1. \A k \in DOMAIN x.rtp : x.rtp[k].refs >= 1
      BY <1>2 DEF Kept
    <3> QED BY <2>1, <3>1, RtpDropped
  <2>b. rtsp_session_kill(x) = [x EXCEPT !.killed = TRUE, !.ntrack = 0, !.out = << >>,
                                        !.ev_timer = timer, !.rtsp_watch = watch, !.rtp = t,
                                        !.refs = left]
    BY <1>2 DEF rtsp_session_kill
  <2>3. y = [x EXCEPT !.killed = TRUE, !.ntrack = 0, !.out = << >>, !.ev_timer = timer,
                      !.rtsp_watch = watch, !.rtp = t, !.refs = left]
    BY <2>b
  <2>4. /\ timer \in {"none", "deleted", "gone"}
        /\ timer = "none" <=> x.ev_timer = "none"
        /\ timer = "deleted" <=> TimerHolds(x) = 1
    BY <1>2, TimerHeld DEF None
  <2>5. /\ watch \in {"none", "deleted", "gone"}
        /\ watch = "none" <=> x.rtsp_watch = "none"
        /\ watch = "deleted" <=> x.rtsp_watch \in {"attached", "deleted"}
    BY DEF SessionShape
  <2> HIDE DEF t, gone, timer, watch
  <2>7. /\ TimerHolds(x) \in {0, 1} /\ WatchHolds(x) \in {0, 1}
        /\ Cardinality(Live(x.rtp)) \in Nat /\ Cardinality(Live(t)) \in Nat
    BY <2>1, <2>2, PartsAreNumbers, LiveIsFinite
  <2>10. left = 1 + TimerHolds(x) + WatchHolds(x) + Cardinality(Live(t))
    <3>1. x.refs = 1 + TimerHolds(x) + WatchHolds(x) + Cardinality(Live(x.rtp))
      BY <2>7 DEF Parts
    <3>2. left = x.refs - Cardinality(gone)
      OBVIOUS
    <3> HIDE DEF left
    <3>3. /\ x.refs \in Nat /\ Cardinality(gone) \in Nat
          /\ Cardinality(Live(x.rtp)) - Cardinality(gone) = Cardinality(Live(t))
      BY <2>1, <2>2
    <3> QED BY <2>7, <3>1, <3>2, <3>3, KillArithmetic
  <2>11. left \in Nat /\ left >= 1
    BY <2>7, <2>10
  <2> HIDE DEF left
  <2>12. << >> \in Seq(Request)
    OBVIOUS
  <2>13. y \in SessionShape
    <3>1. t \in Seq(Rtp) /\ left \in Nat
      BY <2>2, <2>11
    <3>2. timer \in {"none", "deleted", "gone"} /\ watch \in {"none", "deleted", "gone"}
      BY <2>4, <2>5
    <3>3. [x EXCEPT !.killed = TRUE, !.ntrack = 0, !.out = << >>, !.ev_timer = timer,
                    !.rtsp_watch = watch, !.rtp = t, !.refs = left] \in SessionShape
      BY <3>1, <3>2, KilledShape
    <3> QED BY <2>3, <3>3
  <2>14. /\ y.killed /\ y.out = << >> /\ y.ev_timer = timer /\ y.rtsp_watch = watch /\ y.rtp = t
         /\ y.refs = left /\ y.url = x.url /\ y.rtsp_sock = x.rtsp_sock
         /\ SamePlays(x, y) /\ SameRest(x, y) /\ y.stalled = x.stalled
    BY <2>3 DEF SessionShape, SamePlays, SameRest
  <2>15. /\ y.state = x.state /\ y.request_itrack = x.request_itrack /\ y.accepted = x.accepted
         /\ y.wait_for = x.wait_for /\ y.rtsp_seq = x.rtsp_seq /\ y.in = x.in
    BY <2>3 DEF SessionShape
  <2>16. Numbered(y) /\ (Awaited(y) => Awaited(x))
    BY <2>14, <2>15, Unheard DEF SetUp, Numbered, Awaited
  <2>17. Tracks(y)
    BY <2>14, <2>15, <2>16 DEF SetUp, Tracks
  <2>18. Plays(y)
    BY <2>14, <2>15 DEF SetUp, Plays, SamePlays
  <2>19. Channels(y)
    BY <2>2, <2>14 DEF SetUp, Channels
  <2>20. y.refs # 0
    BY <2>11, <2>14
  <2>21. Kept(y)
    BY <2>4, <2>5, <2>14, <2>20 DEF Kept, SameRest
  <2>22. TimerHolds(y) = TimerHolds(x) /\ WatchHolds(y) = WatchHolds(x)
    <3>1. TimerHolds(y) = 1 <=> timer = "deleted"
      BY <2>4, <2>14 DEF TimerHolds
    <3>2. TimerHolds(y) \in {0, 1}
      BY DEF TimerHolds
    <3> QED BY <2>4, <2>5, <2>7, <2>14, <3>1, <3>2 DEF WatchHolds
  <2>23. y.refs = 1 + Parts(y)
    BY <2>7, <2>10, <2>14, <2>22 DEF Parts
  <2> QED BY <2>13, <2>14, <2>16, <2>17, <2>18, <2>19, <2>21, <2>23 DEF SetUp
<1> QED BY <1>1, <1>2

\* The owner gives its reference back after the kill.
LEMMA OwnerGone ==
  ASSUME NEW x \in SessionShape, SetUp(x), Kept(x), x.killed, x.refs = 1 + Parts(x),
         NEW y, y = rtsp_client_session_unref(x, 1)
  PROVE  /\ y \in SessionShape /\ SetUp(y) /\ Kept(y)
         /\ y.killed /\ y.refs = Parts(y)
<1>1. x.refs \in Nat /\ Parts(x) \in Nat /\ x.refs >= 1
  BY PartsAreNumbers DEF SessionShape
<1>2. /\ y \in SessionShape /\ Unlike(x, y)
      /\ y.refs = x.refs - 1 /\ y.rtp = x.rtp
      /\ y.ev_timer = x.ev_timer /\ y.rtsp_watch = x.rtsp_watch
      /\ y.rtsp_sock = IF x.refs = 1 /\ x.rtsp_sock = "session" THEN "closed" ELSE x.rtsp_sock
  BY <1>1, OneGivenBack
<1>3. SetUp(y)
  BY <1>2, SetUpSame DEF Unlike
<1>4. y.refs = 0 => y.rtsp_sock # "session"
  BY <1>1, <1>2
<1>5. y.rtsp_sock = "closed" => x.rtsp_sock \in {"closed", "session"}
  BY <1>2
<1>6. Kept(y)
  BY <1>2, <1>4, <1>5, KilledKept DEF Unlike, SameRest, Kept
<1>7. Parts(y) = Parts(x)
  BY <1>2 DEF Parts, TimerHolds, WatchHolds
<1>8. y.refs = Parts(y)
  BY <1>1, <1>2, <1>7
<1> QED BY <1>2, <1>3, <1>6, <1>8 DEF Unlike

-----------------------------------------------------------------------------
(* The steps of the module.                                                 *)

\* A session that a step does not concern.
Apart(s) ==
  /\ ses'[s] = ses[s] /\ user'[s] = user[s]
  /\ s \in list' <=> s \in list
  /\ fin'.on = s <=> fin.on = s
  /\ fin'.at = "unrefs" /\ fin'.on = s => fin.at = "unrefs"
  /\ fin'.at = "off" => fin.at = "off"

LEMMA OthersKept ==
  ASSUME NEW s \in Session, SessionOk(s), Apart(s)
  PROVE  SessionOk(s)'
<1>1. Owned(s)' <=> Owned(s)
  BY DEF Owned, Apart
<1>2. Owner(s)'
  BY <1>1 DEF SessionOk, Owner, Apart
<1>3. SetUp(ses'[s]) /\ Kept(ses'[s])
  BY DEF SessionOk, Apart
<1>4. ses'[s].refs = (IF Owned(s)' THEN 1 ELSE 0) + Parts(ses'[s])
  BY <1>1 DEF SessionOk, Apart
<1> QED BY <1>2, <1>3, <1>4 DEF SessionOk

\* What is known of a session.
LEMMA OneSession ==
  ASSUME IInv, NEW s \in Session
  PROVE  /\ ses[s] \in SessionShape /\ SetUp(ses[s]) /\ Kept(ses[s]) /\ Owner(s)
         /\ ses[s].refs = (IF Owned(s) THEN 1 ELSE 0) + Parts(ses[s])
         /\ Owned(s) => ses[s].refs = 1 + Parts(ses[s])
         /\ ses[s].refs \in Nat /\ Parts(ses[s]) \in Nat /\ ses[s].refs >= Parts(ses[s])
         /\ SessionOk(s)
<1>1. ses[s] \in SessionShape /\ SessionOk(s)
  BY DEF IInv, Shapes
<1>2. ses[s].refs \in Nat /\ Parts(ses[s]) \in Nat
  BY <1>1, PartsAreNumbers DEF SessionShape
<1> QED BY <1>1, <1>2 DEF SessionOk

Moves(s, y) ==
  /\ ses' = [ses EXCEPT ![s] = y]
  /\ UNCHANGED <<client_single, list, user, fin>>

LEMMA SessionMoves ==
  ASSUME IInv, NEW s \in Session, NEW y, ses[s] # New, Follows(ses[s], y), Moves(s, y)
  PROVE  IInv'
<1>1. /\ ses[s] \in SessionShape /\ Owner(s)
      /\ ses[s].refs = (IF Owned(s) THEN 1 ELSE 0) + Parts(ses[s])
      /\ ses[s].refs \in Nat /\ Parts(ses[s]) \in Nat
  BY OneSession
<1>2. /\ y \in SessionShape /\ SetUp(y) /\ Kept(y) /\ y.killed = ses[s].killed
      /\ y.refs - Parts(y) = ses[s].refs - Parts(ses[s])
  BY DEF Follows, Balanced
<1>3. y.refs \in Nat /\ Parts(y) \in Nat
  BY <1>2, PartsAreNumbers DEF SessionShape
<1>4. ses \in [Session -> SessionShape]
  BY DEF IInv, Shapes
<1>5. ses' = [ses EXCEPT ![s] = y] /\ list' = list /\ user' = user /\ fin' = fin
      /\ client_single' = client_single
  BY DEF Moves
<1>6. ses'[s] = y /\ ses' \in [Session -> SessionShape]
  BY <1>2, <1>4, <1>5
<1>7. \A r \in Session : r # s => ses'[r] = ses[r]
  BY <1>4, <1>5
<1>8. Shapes'
  BY <1>5, <1>6 DEF IInv, Shapes
<1>9. (fin.on # None <=> fin.at \in {"kills", "unrefs"})'
  BY <1>5 DEF IInv
<1>10. Owned(s)' <=> Owned(s)
  BY <1>5 DEF Owned
<1>11. Owner(s)'
  BY <1>1, <1>2, <1>5, <1>6, <1>10 DEF Owner
<1>12. y.refs = (IF Owned(s) THEN 1 ELSE 0) + Parts(y)
  BY <1>1, <1>2, <1>3
<1>13. SessionOk(s)'
  BY <1>2, <1>6, <1>10, <1>11, <1>12 DEF SessionOk
<1>14. ASSUME NEW r \in Session, r # s PROVE SessionOk(r)'
  <2>1. Apart(r)
    BY <1>5, <1>7, <1>14 DEF Apart
  <2> QED BY <2>1, OneSession, OthersKept
<1> QED BY <1>8, <1>9, <1>13, <1>14 DEF IInv

\* A session that is not new and not killed has an owner.
LEMMA InUse ==
  ASSUME IInv, NEW s \in Session, ses[s] # New, ~ ses[s].killed
  PROVE  Owned(s) /\ ses[s].refs >= 1 /\ user[s] # "closed"
<1>1. Owner(s) /\ Parts(ses[s]) \in Nat /\ (Owned(s) => ses[s].refs = 1 + Parts(ses[s]))
  BY OneSession
<1>2. Owned(s)
  BY <1>1 DEF Owner
<1> QED BY <1>1, <1>2 DEF Owned

LEMMA NewHasNoParts ==
  Parts(New) = 0 /\ New.refs = 0
<1>1. New.ev_timer = "none" /\ New.rtsp_watch = "none" /\ New.rtp = << >> /\ New.refs = 0
  BY DEF New, None
<1>2. Live(<< >>) = {}
  BY DEF Live
<1>3. Cardinality(Live(New.rtp)) = 0
  BY <1>1, <1>2, FS_EmptySet
<1>4. TimerHolds(New) = 0 /\ WatchHolds(New) = 0
  BY <1>1 DEF TimerHolds, WatchHolds
<1> QED BY <1>1, <1>3, <1>4 DEF Parts

LEMMA InitOk == Init => IInv
<1> SUFFICES ASSUME Init PROVE IInv
  OBVIOUS
<1>1. New \in SessionShape
  <2>1. << >> \in Seq(Rtp) /\ << >> \in Seq(Request) /\ << >> \in Seq(Reply \cup Data)
    OBVIOUS
  <2>2. NoRequest \in Request
    BY DEF NoRequest, Request, Methods, None
  <2> QED BY <2>1, <2>2 DEF New, SessionShape, None, Names
<1>2. SetUp(New)
  <2>1. DOMAIN << >> = {}
    OBVIOUS
  <2>2. Numbered(New)
    BY <2>1 DEF New, NoRequest, Numbered, Numbers
  <2>3. ~ Awaited(New)
    BY <2>1 DEF New, Awaited, Waits
  <2>4. Tracks(New)
    BY <2>3 DEF New, Tracks
  <2>5. Plays(New)
    BY DEF New, Plays
  <2>6. Channels(New)
    BY <2>1 DEF New, Channels
  <2> QED BY <2>2, <2>4, <2>5, <2>6 DEF SetUp
<1>3. Kept(New)
  <2>1. DOMAIN << >> = {}
    OBVIOUS
  <2> QED BY <2>1 DEF New, Kept, None
<1>4. Parts(New) = 0 /\ New.refs = 0
  BY NewHasNoParts
<1>5. Shapes
  BY <1>1 DEF Init, Shapes
<1>6. ASSUME NEW s \in Session PROVE SessionOk(s)
  <2>1. user[s] = "none" /\ ses[s] = New /\ s \notin list /\ fin.on # s /\ fin.at = "off"
    BY RtspClientAssumption DEF Init
  <2>2. ~ Owned(s)
    BY <2>1 DEF Owned
  <2>3. Owner(s)
    BY <2>1 DEF Owner
  <2> QED BY <1>2, <1>3, <1>4, <2>1, <2>2, <2>3 DEF SessionOk
<1> QED BY <1>5, <1>6 DEF IInv, Init

LEMMA ReadsMessage ==
  ASSUME IInv, NEW s \in Session, rtsp_server_message_received(s)
  PROVE  IInv'
<1> DEFINE x == ses[s]
           u == [x EXCEPT !.in = Tail(@)]
<1>1. x \in SessionShape /\ SetUp(x) /\ Kept(x)
  BY OneSession
<1>2. x.in # << >> /\ UNCHANGED <<client_single, list, user, fin>>
  BY DEF rtsp_server_message_received
<1>3. x # New
  BY <1>2 DEF New
<1>4. /\ Follows(x, u) /\ Head(x.in) \in Reply \cup Data
      /\ Head(x.in).type = "reply" /\ Head(x.in).seq = u.wait_for.seq
           => /\ ~ Awaited(u)
              /\ u.state = "INIT" /\ u.wait_for.method = "SETUP"
                   => u.request_itrack = u.accepted + 1
  BY <1>1, <1>2, ReadFollows
<1>5. PICK y \in IF u.killed THEN {u}
                 ELSE {Called(s, u, z) : z \in rtsp_session_handle_rtsp_message(u, Head(x.in))} :
             ses' = [ses EXCEPT ![s] = y]
  BY DEF rtsp_server_message_received, Becomes
<1> HIDE DEF u
<1>6. u.killed = x.killed /\ Balanced(x, u) /\ u \in SessionShape /\ SetUp(u) /\ Kept(u)
  BY <1>4 DEF Follows
<1>7. CASE u.killed
  BY <1>2, <1>3, <1>4, <1>5, <1>7, SessionMoves DEF Moves
<1>8. CASE ~ u.killed
  <2>1. PICK z \in rtsp_session_handle_rtsp_message(u, Head(x.in)) : y = Called(s, u, z)
    BY <1>5, <1>8
  <2>2. Follows(u, z)
    BY <1>4, <1>6, <1>8, MessageFollows
  <2>3. user[s] # "closed"
    BY <1>3, <1>6, <1>8, InUse
  <2>4. y = z
    <3>1. z \in SessionShape
      BY <2>2 DEF Follows
    <3>2. y = [z EXCEPT !.late = z.late \/ FALSE]
      BY <2>1, <2>3 DEF Called
    <3> QED BY <3>1, <3>2 DEF SessionShape
  <2>5. Follows(x, y)
    BY <1>6, <2>2, <2>4, FollowsOn
  <2> QED BY <1>2, <1>3, <1>5, <2>5, SessionMoves DEF Moves
<1> QED BY <1>7, <1>8

LEMMA AnswersAreReplies ==
  ASSUME NEW request \in Request, NEW name, NEW m \in Answers(request, name)
  PROVE  m \in Reply /\ m.seq = request.seq
<1>1. request.seq \in Nat
  BY DEF Request
<1>2. CASE m = Refusal(request)
  BY <1>1, <1>2 DEF Refusal, Reply, Names, None
<1>3. CASE m # Refusal(request)
  <2> DEFINE tracks == IF request.method = "DESCRIBE" THEN 0..MaxTracks ELSE {0}
             names == IF request.method = "SETUP"
                        THEN {None, "a"} \cup (IF name = None THEN {} ELSE {"b"})
                        ELSE {None}
  <2>1. m \in [type : {"reply"}, seq : {request.seq}, ok : {TRUE}, ntrack : tracks,
               session : names]
    BY <1>3 DEF Answers
  <2>2. MaxTracks \in Nat
    BY RtspClientAssumption
  <2>3. tracks \subseteq Nat /\ names \subseteq Names
    BY <2>2 DEF Names, None
  <2> HIDE DEF tracks, names
  <2> QED BY <1>1, <2>1, <2>3 DEF Reply
<1> QED BY <1>2, <1>3

LEMMA AnswersRequest ==
  ASSUME IInv, NEW s \in Session, ServerAnswers(s)
  PROVE  IInv'
<1>1. ses[s] \in SessionShape /\ SetUp(ses[s]) /\ Kept(ses[s])
  BY OneSession
<1>2. PICK m \in Answers(Head(ses[s].out), ses[s].session_id) :
        ses' = [ses EXCEPT ![s].out = Tail(@), ![s].in = Append(@, m)]
  BY DEF ServerAnswers
<1>3. ses[s].out # << >> /\ UNCHANGED <<client_single, list, user, fin>>
  BY DEF ServerAnswers
<1>4. ses[s].out \in Seq(Request)
  BY <1>1 DEF SessionShape
<1>5. Head(ses[s].out) \in Request
  BY <1>3, <1>4, HeadTailProperties
<1>6. m \in Reply /\ m.seq = Head(ses[s].out).seq
  BY <1>2, <1>5, AnswersAreReplies
<1> DEFINE y == [ses[s] EXCEPT !.out = Tail(@), !.in = Append(@, m)]
<1>7. Follows(ses[s], y)
  BY <1>1, <1>3, <1>6, AnswerFollows
<1>8. ses' = [ses EXCEPT ![s] = y]
  BY <1>2
<1>9. ses[s] # New
  BY <1>3 DEF New
<1> QED BY <1>3, <1>7, <1>8, <1>9, SessionMoves DEF Moves

LEMMA SendsPacket ==
  ASSUME IInv, NEW s \in Session, ServerSends(s)
  PROVE  IInv'
<1>1. ses[s] \in SessionShape /\ SetUp(ses[s]) /\ Kept(ses[s])
  BY OneSession
<1>2. PICK c \in {0, 1} : ses' = [ses EXCEPT ![s].in = Append(@, [type |-> "data", channel |-> c])]
  BY DEF ServerSends
<1>3. [type |-> "data", channel |-> c] \in Data
  BY DEF Data
<1> DEFINE y == [ses[s] EXCEPT !.in = Append(@, [type |-> "data", channel |-> c])]
<1>4. Follows(ses[s], y)
  BY <1>1, <1>3, PacketFollows
<1>5. ses' = [ses EXCEPT ![s] = y] /\ UNCHANGED <<client_single, list, user, fin>>
  BY <1>2 DEF ServerSends
<1>6. ses[s] # New
  BY DEF ServerSends, New
<1> QED BY <1>4, <1>5, <1>6, SessionMoves DEF Moves

LEMMA GivesPacket ==
  ASSUME IInv, NEW s \in Session, rtp_packet_incoming_cb(s)
  PROVE  IInv'
<1> DEFINE x == ses[s]
           z == [x EXCEPT !.got = @ + 1]
<1>1. x \in SessionShape /\ SetUp(x) /\ Kept(x)
  BY OneSession
<1>2. /\ ~ x.killed /\ x # New /\ UNCHANGED <<client_single, list, user, fin>>
      /\ ses' = [ses EXCEPT ![s] = Called(s, x, z)]
  BY DEF rtp_packet_incoming_cb, Becomes, New
<1>3. user[s] # "closed"
  BY <1>2, InUse
<1>4. Follows(x, z)
  BY <1>1, PacketGiven
<1> HIDE DEF z
<1>5. Called(s, x, z) = z
  <2>1. z \in SessionShape
    BY <1>4 DEF Follows
  <2>2. Called(s, x, z) = [z EXCEPT !.late = z.late \/ FALSE]
    BY <1>3 DEF Called
  <2> QED BY <2>1, <2>2 DEF SessionShape
<1> QED BY <1>2, <1>4, <1>5, SessionMoves DEF Moves

LEMMA Ticks ==
  ASSUME IInv, NEW s \in Session, rtsp_session_on_timer(s)
  PROVE  IInv'
<1> DEFINE x == ses[s]
<1>1. x \in SessionShape /\ SetUp(x) /\ Kept(x)
  BY OneSession
<1>2. /\ x.ev_timer \in {"connects", "ticks"} /\ ~ x.killed
      /\ UNCHANGED <<client_single, list, user, fin>>
  BY DEF rtsp_session_on_timer
<1>3. PICK y \in IF x.rtsp_watch = None THEN connected(x) \cup rtsp_conn_failed(x)
                 ELSE rtsp_session_options(x) :
             ses' = [ses EXCEPT ![s] = y]
  BY DEF rtsp_session_on_timer, Becomes
<1>4. x # New
  BY <1>2 DEF New, None
<1>5. x.url
  BY <1>1, <1>2 DEF Kept
<1>6. Follows(x, y)
  <2>1. CASE x.rtsp_watch = None /\ y \in connected(x)
    BY <1>1, <1>2, <1>5, <2>1, ConnectedFollows DEF None
  <2>2. CASE y \in rtsp_conn_failed(x)
    BY <1>1, <1>2, <1>5, <2>2, FailedFollows
  <2>3. CASE y \in rtsp_session_options(x)
    BY <1>1, <2>3, OptionsFollows
  <2> QED BY <1>3, <2>1, <2>2, <2>3
<1> QED BY <1>2, <1>3, <1>4, <1>6, SessionMoves DEF Moves

LEMMA LosesTimer ==
  ASSUME IInv, NEW s \in Session, TimerFinalized(s)
  PROVE  IInv'
<1> DEFINE y == rtsp_client_session_unref([ses[s] EXCEPT !.ev_timer = "gone"], 1)
<1>1. /\ ses[s] \in SessionShape /\ SetUp(ses[s]) /\ Kept(ses[s])
      /\ ses[s].refs \in Nat /\ ses[s].refs >= Parts(ses[s])
  BY OneSession
<1>2. /\ ses[s].ev_timer = "deleted" /\ ses' = [ses EXCEPT ![s] = y]
      /\ UNCHANGED <<client_single, list, user, fin>>
  BY DEF TimerFinalized
<1>3. ses[s].refs >= 1
  <2>1. TimerHolds(ses[s]) = 1
    BY <1>2 DEF TimerHolds
  <2> QED BY <1>1, <2>1, PartsAreNumbers
<1>4. Follows(ses[s], y)
  BY <1>1, <1>2, <1>3, TimerGone
<1>5. ses[s] # New
  BY <1>2 DEF New, None
<1> QED BY <1>2, <1>4, <1>5, SessionMoves DEF Moves

LEMMA LosesWatch ==
  ASSUME IInv, NEW s \in Session, WatchFinalized(s)
  PROVE  IInv'
<1> DEFINE y == rtsp_client_session_unref([ses[s] EXCEPT !.rtsp_watch = "gone",
                                                         !.rtsp_sock = "closed"], 1)
<1>1. /\ ses[s] \in SessionShape /\ SetUp(ses[s]) /\ Kept(ses[s])
      /\ ses[s].refs \in Nat /\ ses[s].refs >= Parts(ses[s])
  BY OneSession
<1>2. /\ ses[s].rtsp_watch = "deleted" /\ ses' = [ses EXCEPT ![s] = y]
      /\ UNCHANGED <<client_single, list, user, fin>>
  BY DEF WatchFinalized
<1>3. ses[s].refs >= 1
  <2>1. WatchHolds(ses[s]) = 1
    BY <1>2 DEF WatchHolds
  <2> QED BY <1>1, <2>1, PartsAreNumbers
<1>4. Follows(ses[s], y)
  BY <1>1, <1>2, <1>3, WatchGone
<1>5. ses[s] # New
  BY <1>2 DEF New, None
<1> QED BY <1>2, <1>4, <1>5, SessionMoves DEF Moves

LEMMA LosesRtpEvent ==
  ASSUME IInv, NEW s \in Session, RtpEventFinalized(s)
  PROVE  IInv'
<1>1. /\ ses[s] \in SessionShape /\ SetUp(ses[s]) /\ Kept(ses[s])
      /\ ses[s].refs \in Nat /\ ses[s].refs >= Parts(ses[s])
  BY OneSession
<1>2. PICK k \in DOMAIN ses[s].rtp :
        ses[s].rtp[k].refs > 0 /\ ses' = [ses EXCEPT ![s] = rtp_session_unref(@, k)]
  BY DEF RtpEventFinalized
<1>3. ses[s].killed /\ UNCHANGED <<client_single, list, user, fin>>
  BY DEF RtpEventFinalized
<1>4. ses[s].refs >= 1
  <2>1. ses[s].rtp \in Seq(Rtp) /\ k \in Live(ses[s].rtp)
    BY <1>1, <1>2 DEF SessionShape, Live
  <2>2. Cardinality(Live(ses[s].rtp)) # 0
    BY <2>1, LiveIsFinite, FS_EmptySet
  <2> QED BY <1>1, <2>2, PartsAreNumbers
<1> DEFINE y == rtp_session_unref(ses[s], k)
<1>5. Follows(ses[s], y)
  BY <1>1, <1>2, <1>3, <1>4, RtpGone
<1>6. ses' = [ses EXCEPT ![s] = y]
  BY <1>2
<1>7. ses[s] # New
  BY <1>3 DEF New
<1> QED BY <1>3, <1>5, <1>6, <1>7, SessionMoves DEF Moves

LEMMA UserMayUse ==
  ASSUME IInv, NEW s \in Session, MayUse(s)
  PROVE  ses[s] # New /\ ~ ses[s].killed /\ ses[s].refs >= 1
<1>1. Owner(s) /\ Parts(ses[s]) \in Nat /\ (Owned(s) => ses[s].refs = 1 + Parts(ses[s]))
  BY OneSession
<1>2. Owned(s) /\ ~ ses[s].killed
  BY <1>1 DEF Owner, MayUse, Owned
<1>3. ses[s].refs >= 1 /\ ses[s].refs # 0
  BY <1>1, <1>2
<1> QED BY <1>2, <1>3, NewHasNoParts

LEMMA Opens ==
  ASSUME IInv, NEW s \in Session, rtsp_client_open_session(s)
  PROVE  IInv'
<1>1. /\ ses[s] \in SessionShape /\ SetUp(ses[s]) /\ Kept(ses[s])
      /\ ses[s] # New /\ ~ ses[s].killed /\ ses[s].refs >= 1
  BY OneSession, UserMayUse DEF rtsp_client_open_session
<1>2. ~ ses[s].url /\ UNCHANGED <<client_single, list, user, fin>>
  BY DEF rtsp_client_open_session
<1>3. PICK tcp \in BOOLEAN : 
        LET x == [ses[s] EXCEPT !.url = TRUE, !.tcp = tcp]
            waits == [x EXCEPT !.rtsp_sock = "session", !.ev_timer = "connects", !.refs = @ + 1]
        IN Becomes(s, {[x EXCEPT !.rtsp_sock = "session", !.stalled = TRUE], waits}
                      \cup connected(waits))
  BY DEF rtsp_client_open_session
<1>4. /\ [[ses[s] EXCEPT !.url = TRUE, !.tcp = tcp] EXCEPT !.rtsp_sock = "session", !.stalled = TRUE]
           = OpenFails(ses[s], tcp)
      /\ [[ses[s] EXCEPT !.url = TRUE, !.tcp = tcp]
            EXCEPT !.rtsp_sock = "session", !.ev_timer = "connects", !.refs = @ + 1]
           = OpenWaits(ses[s], tcp)
  BY <1>1 DEF OpenFails, OpenWaits, SessionShape
<1>5. PICK y \in {OpenFails(ses[s], tcp), OpenWaits(ses[s], tcp)}
                   \cup connected(OpenWaits(ses[s], tcp)) :
             ses' = [ses EXCEPT ![s] = y]
  BY <1>3, <1>4 DEF Becomes
<1> DEFINE w == OpenWaits(ses[s], tcp)
<1>6. /\ Follows(ses[s], w) /\ w.url /\ ~ w.killed
      /\ w.ev_timer = "connects" /\ w.rtsp_watch = "none"
  BY <1>1, <1>2, OpenWaitsFollows
<1>7. Follows(ses[s], y)
  <2>1. CASE y = OpenFails(ses[s], tcp)
    BY <1>1, <1>2, <2>1, OpenFailsFollows
  <2>2. CASE y = w
    BY <1>6, <2>2
  <2>3. CASE y \in connected(w)
    <3>1. /\ w \in SessionShape /\ SetUp(w) /\ Kept(w)
          /\ w.killed = ses[s].killed /\ Balanced(ses[s], w)
      BY <1>6 DEF Follows
    <3> HIDE DEF w
    <3>2. Follows(w, y)
      BY <1>6, <2>3, <3>1, ConnectedFollows
    <3> QED BY <3>1, <3>2, FollowsOn
  <2> QED BY <1>5, <2>1, <2>2, <2>3
<1> QED BY <1>1, <1>2, <1>5, <1>7, SessionMoves DEF Moves

LEMMA AsksToPlay ==
  ASSUME IInv, NEW s \in Session, rtsp_client_play_session(s)
  PROVE  IInv'
<1> DEFINE u == [ses[s] EXCEPT !.asked = @ + 1]
<1>1. ses[s] \in SessionShape /\ SetUp(ses[s]) /\ Kept(ses[s]) /\ ses[s] # New
  BY OneSession, UserMayUse DEF rtsp_client_play_session
<1>2. PICK y \in IF u.state = "READY" THEN rtsp_session_play(u)
                 ELSE {[u EXCEPT !.play_pending = TRUE]} :
             ses' = [ses EXCEPT ![s] = y]
  BY DEF rtsp_client_play_session, Becomes
<1>3. UNCHANGED <<client_single, list, user, fin>>
  BY DEF rtsp_client_play_session
<1>4. Follows(ses[s], y)
  BY <1>1, <1>2, PlayAsked
<1> QED BY <1>1, <1>2, <1>3, <1>4, SessionMoves DEF Moves

-----------------------------------------------------------------------------
(* The owners: the user and rtsp_client_fin.                                *)

LEMMA Creates ==
  ASSUME IInv, NEW s \in Session, rtsp_client_create_session(s)
  PROVE  IInv'
<1>1. /\ user[s] = "none" /\ list' = list /\ fin' = fin /\ client_single' = client_single
      /\ user' = [user EXCEPT ![s] = IF client_single THEN "creates" ELSE "refused"]
      /\ ses' = IF client_single THEN [ses EXCEPT ![s].refs = 1] ELSE ses
  BY DEF rtsp_client_create_session, Tests
<1>2. /\ ses[s] \in SessionShape /\ SetUp(ses[s]) /\ Kept(ses[s]) /\ Owner(s)
      /\ ses[s].refs = (IF Owned(s) THEN 1 ELSE 0) + Parts(ses[s])
  BY OneSession
<1>3. ses[s] = New /\ s \notin list /\ fin.on # s
  BY <1>1, <1>2 DEF Owner
<1>4. Shapes
  BY DEF IInv
<1> DEFINE y == IF client_single THEN [ses[s] EXCEPT !.refs = 1] ELSE ses[s]
<1>5. y \in SessionShape
  <2>1. [ses[s] EXCEPT !.refs = 1] \in SessionShape
    BY <1>2 DEF SessionShape
  <2> QED BY <1>2, <2>1
<1>6. /\ SameSetUp(ses[s], y) /\ SamePlays(ses[s], y) /\ SameTalk(ses[s], y)
      /\ y.late = ses[s].late /\ y.stalled = ses[s].stalled
      /\ y.killed = ses[s].killed /\ y.url = ses[s].url /\ y.rtp = ses[s].rtp
      /\ y.rtsp_sock = ses[s].rtsp_sock /\ y.ev_timer = ses[s].ev_timer
      /\ y.rtsp_watch = ses[s].rtsp_watch
      /\ y.refs = IF client_single THEN 1 ELSE ses[s].refs
  <2>1. CASE client_single
    BY <1>2, <2>1 DEF SessionShape, SameSetUp, SamePlays, SameTalk
  <2>2. CASE ~ client_single
    BY <2>2 DEF SameSetUp, SamePlays, SameTalk
  <2> QED BY <2>1, <2>2
<1>7. ses' = [ses EXCEPT ![s] = y]
  BY <1>1, <1>4 DEF Shapes
<1> HIDE DEF y
<1>8. ses' \in [Session -> SessionShape] /\ ses'[s] = y
  BY <1>4, <1>5, <1>7 DEF Shapes
<1>9. user'[s] = (IF client_single THEN "creates" ELSE "refused")
  BY <1>1, <1>4 DEF Shapes
<1>10. Shapes'
  <2>1. user' \in [Session -> {"none", "creates", "adds", "has", "refused", "closes", "finds",
                               "kills", "unrefs", "closed"}]
    BY <1>1, <1>4 DEF Shapes
  <2> QED BY <1>1, <1>4, <1>8, <2>1 DEF Shapes
<1>11. (fin.on # None <=> fin.at \in {"kills", "unrefs"})'
  BY <1>1 DEF IInv
<1>12. SetUp(y)
  BY <1>2, <1>6, SetUpSame
<1>13. Kept(y)
  <2>1. y.rtsp_sock = "none"
    BY <1>3, <1>6 DEF New, None
  <2> QED BY <1>2, <1>6, <2>1 DEF Kept
<1>14. Parts(y) = 0 /\ ses[s].refs = 0
  BY <1>3, <1>6, NewHasNoParts DEF Parts, TimerHolds, WatchHolds
<1>15. Owned(s)' <=> client_single
  BY <1>1, <1>3, <1>9 DEF Owned
<1>16. y.refs = (IF client_single THEN 1 ELSE 0) + Parts(y)
  BY <1>6, <1>14
<1>17. Owner(s)'
  <2>1. ~ y.killed
    BY <1>3, <1>6 DEF New
  <2>2. ~ client_single => y = New
    BY <1>3 DEF y
  <2>3. ~ ses'[s].killed /\ (~ client_single => ses'[s] = New)
    BY <1>8, <2>1, <2>2
  <2>4. user'[s] \in {"creates", "refused"} /\ s \notin list' /\ fin'.on # s
    BY <1>1, <1>3, <1>9
  <2> QED BY <1>15, <2>3, <2>4 DEF Owner
<1>18. SessionOk(s)'
  BY <1>8, <1>12, <1>13, <1>15, <1>16, <1>17 DEF SessionOk
<1>19. ASSUME NEW r \in Session, r # s PROVE SessionOk(r)'
  <2>1. Apart(r)
    BY <1>1, <1>4, <1>7, <1>19 DEF Apart, Shapes
  <2> QED BY <2>1, OneSession, OthersKept
<1> QED BY <1>10, <1>11, <1>18, <1>19 DEF IInv

\* The owner changes, or what the owner does, and the session does not.
LEMMA OwnerMoves ==
  ASSUME IInv, NEW s \in Session, ses' = ses, Shapes',
         (fin.on # None <=> fin.at \in {"kills", "unrefs"})',
         Owned(s)' <=> Owned(s), Owner(s)',
         \A r \in Session : r # s => Apart(r)
  PROVE  IInv'
<1>1. SessionOk(s)'
  BY OneSession DEF SessionOk
<1>2. ASSUME NEW r \in Session, r # s PROVE SessionOk(r)'
  BY <1>2, OneSession, OthersKept
<1> QED BY <1>1, <1>2 DEF IInv

\* client_single is read for the second time: the call goes on, or the process ends.
LEMMA ReadsOn ==
  ASSUME IInv, NEW s \in Session, CreateReads(s) \/ CloseReads(s)
  PROVE  IInv'
<1>1. /\ list' = list /\ fin' = fin /\ ses' = ses /\ client_single' = client_single
      /\ \/ user' = user
         \/ user[s] = "creates" /\ user' = [user EXCEPT ![s] = "adds"]
         \/ user[s] = "closes" /\ user' = [user EXCEPT ![s] = "finds"]
  BY DEF CreateReads, CloseReads, ReadsAgain
<1>2. Owner(s)
  BY OneSession
<1>3. Shapes
  BY DEF IInv
<1>4. Shapes' /\ \/ user'[s] = user[s]
                 \/ user[s] = "creates" /\ user'[s] = "adds"
                 \/ user[s] = "closes" /\ user'[s] = "finds"
  BY <1>1, <1>3 DEF Shapes
<1>5. (fin.on # None <=> fin.at \in {"kills", "unrefs"})'
  BY <1>1 DEF IInv
<1>6. Owned(s)' <=> Owned(s)
  BY <1>1, <1>4 DEF Owned
<1>7. Owner(s)'
  BY <1>1, <1>2, <1>4, <1>6 DEF Owner
<1>8. \A r \in Session : r # s => Apart(r)
  BY <1>1, <1>3 DEF Apart, Shapes
<1> QED BY <1>1, <1>4, <1>5, <1>6, <1>7, <1>8, OwnerMoves

LEMMA Adds ==
  ASSUME IInv, NEW s \in Session, rtsp_client_add_session(s)
  PROVE  IInv'
<1>1. /\ user[s] = "adds" /\ list' = list \cup {s} /\ fin' = fin /\ ses' = ses
      /\ client_single' = client_single /\ user' = [user EXCEPT ![s] = "has"]
  BY DEF rtsp_client_add_session
<1>2. Owner(s)
  BY OneSession
<1>3. Shapes
  BY DEF IInv
<1>4. user'[s] = "has" /\ Shapes'
  BY <1>1, <1>3 DEF Shapes
<1>5. (fin.on # None <=> fin.at \in {"kills", "unrefs"})'
  BY <1>1 DEF IInv
<1>6. Owned(s)' /\ Owned(s)
  BY <1>1, <1>4 DEF Owned
<1>7. Owner(s)'
  BY <1>1, <1>2, <1>4, <1>6 DEF Owner
<1>8. \A r \in Session : r # s => Apart(r)
  BY <1>1, <1>3 DEF Apart, Shapes
<1> QED BY <1>1, <1>4, <1>5, <1>6, <1>7, <1>8, OwnerMoves

LEMMA Closes ==
  ASSUME IInv, NEW s \in Session, rtsp_client_close_session(s)
  PROVE  IInv'
<1>1. /\ user[s] = "has" /\ list' = list /\ fin' = fin /\ ses' = ses
      /\ client_single' = client_single
      /\ user' = [user EXCEPT ![s] = IF client_single THEN "closes" ELSE "refused"]
  BY DEF rtsp_client_close_session, Tests
<1>2. Owner(s)
  BY OneSession
<1>3. Shapes
  BY DEF IInv
<1>4. user'[s] \in {"closes", "refused"} /\ Shapes'
  BY <1>1, <1>3 DEF Shapes
<1>5. (fin.on # None <=> fin.at \in {"kills", "unrefs"})'
  BY <1>1 DEF IInv
<1>6. Owned(s)' <=> Owned(s)
  BY <1>1, <1>4 DEF Owned
<1>7. Owner(s)'
  BY <1>1, <1>2, <1>4, <1>6 DEF Owner
<1>8. \A r \in Session : r # s => Apart(r)
  BY <1>1, <1>3 DEF Apart, Shapes
<1> QED BY <1>1, <1>4, <1>5, <1>6, <1>7, <1>8, OwnerMoves

LEMMA TakesOff ==
  ASSUME IInv, NEW s \in Session, rtsp_client_del_session(s)
  PROVE  IInv'
<1>1. /\ user[s] = "finds" /\ list' = list \ {s} /\ fin' = fin /\ ses' = ses
      /\ client_single' = client_single
      /\ user' = [user EXCEPT ![s] = IF s \in list THEN "kills" ELSE "refused"]
  BY DEF rtsp_client_del_session
<1>2. Owner(s)
  BY OneSession
<1>3. Shapes
  BY DEF IInv
<1>4. user'[s] = (IF s \in list THEN "kills" ELSE "refused") /\ s \notin list' /\ Shapes'
  BY <1>1, <1>3 DEF Shapes
<1>5. (fin.on # None <=> fin.at \in {"kills", "unrefs"})'
  BY <1>1 DEF IInv
<1>6. Owned(s)' <=> Owned(s)
  BY <1>1, <1>2, <1>4 DEF Owned, Owner
<1>7. Owner(s)'
  BY <1>1, <1>2, <1>4, <1>6 DEF Owner
<1>8. \A r \in Session : r # s => Apart(r)
  BY <1>1, <1>3 DEF Apart, Shapes
<1> QED BY <1>1, <1>4, <1>5, <1>6, <1>7, <1>8, OwnerMoves

\* The owner kills the session, or gives its reference back when it is killed.
LEMMA OwnerActs ==
  ASSUME IInv, NEW s \in Session, NEW y \in SessionShape, SetUp(y), Kept(y),
         ses' = [ses EXCEPT ![s] = y], Shapes',
         (fin.on # None <=> fin.at \in {"kills", "unrefs"})',
         Owner(s)', y.refs = (IF Owned(s)' THEN 1 ELSE 0) + Parts(y),
         \A r \in Session : r # s => Apart(r)
  PROVE  IInv'
<1>1. ses'[s] = y
  BY DEF IInv, Shapes
<1>2. SessionOk(s)'
  BY <1>1 DEF SessionOk
<1>3. ASSUME NEW r \in Session, r # s PROVE SessionOk(r)'
  BY <1>3, OneSession, OthersKept
<1> QED BY <1>2, <1>3 DEF IInv

LEMMA UserKills ==
  ASSUME IInv, NEW s \in Session, CloseKills(s)
  PROVE  IInv'
<1> DEFINE y == rtsp_session_kill(ses[s])
<1>1. /\ user[s] = "kills" /\ list' = list /\ fin' = fin
      /\ ses' = [ses EXCEPT ![s] = y]
      /\ client_single' = client_single /\ user' = [user EXCEPT ![s] = "unrefs"]
  BY DEF CloseKills
<1>2. /\ ses[s] \in SessionShape /\ SetUp(ses[s]) /\ Kept(ses[s]) /\ Owner(s)
      /\ Owned(s) => ses[s].refs = 1 + Parts(ses[s])
  BY OneSession
<1>3. Owned(s)
  BY <1>1 DEF Owned
<1>4. y \in SessionShape /\ SetUp(y) /\ Kept(y) /\ y.killed /\ y.refs = 1 + Parts(y)
  BY <1>2, <1>3, Killed
<1> HIDE DEF y
<1>5. Shapes
  BY DEF IInv
<1>6. user'[s] = "unrefs" /\ ses'[s] = y /\ Shapes'
  BY <1>1, <1>4, <1>5 DEF Shapes
<1>7. (fin.on # None <=> fin.at \in {"kills", "unrefs"})'
  BY <1>1 DEF IInv
<1>8. Owned(s)'
  BY <1>6 DEF Owned
<1>9. Owner(s)'
  BY <1>1, <1>2, <1>4, <1>6, <1>8 DEF Owner
<1>10. \A r \in Session : r # s => Apart(r)
  BY <1>1, <1>5 DEF Apart, Shapes
<1> QED BY <1>1, <1>4, <1>6, <1>7, <1>8, <1>9, <1>10, OwnerActs

LEMMA UserUnrefs ==
  ASSUME IInv, NEW s \in Session, CloseUnrefs(s)
  PROVE  IInv'
<1> DEFINE y == rtsp_client_session_unref(ses[s], 1)
<1>1. /\ user[s] = "unrefs" /\ list' = list /\ fin' = fin
      /\ ses' = [ses EXCEPT ![s] = y]
      /\ client_single' = client_single /\ user' = [user EXCEPT ![s] = "closed"]
  BY DEF CloseUnrefs
<1>2. /\ ses[s] \in SessionShape /\ SetUp(ses[s]) /\ Kept(ses[s]) /\ Owner(s)
      /\ Owned(s) => ses[s].refs = 1 + Parts(ses[s])
  BY OneSession
<1>3. Owned(s) /\ ses[s].killed
  BY <1>1, <1>2 DEF Owned, Owner
<1>4. y \in SessionShape /\ SetUp(y) /\ Kept(y) /\ y.killed /\ y.refs = Parts(y)
  BY <1>2, <1>3, OwnerGone
<1> HIDE DEF y
<1>5. Shapes
  BY DEF IInv
<1>6. user'[s] = "closed" /\ ses'[s] = y /\ Shapes'
  BY <1>1, <1>4, <1>5 DEF Shapes
<1>7. (fin.on # None <=> fin.at \in {"kills", "unrefs"})'
  BY <1>1 DEF IInv
<1>8. ~ Owned(s)'
  BY <1>6 DEF Owned
<1>9. Owner(s)'
  BY <1>1, <1>2, <1>4, <1>6 DEF Owner
<1>10. \A r \in Session : r # s => Apart(r)
  BY <1>1, <1>5 DEF Apart, Shapes
<1>11. y.refs = 0 + Parts(y)
  BY <1>4, PartsAreNumbers
<1> QED BY <1>1, <1>4, <1>6, <1>7, <1>8, <1>9, <1>10, <1>11, OwnerActs

LEMMA FinMoves ==
  ASSUME IInv, rtsp_client_fin \/ FinClears
  PROVE  IInv'
<1>1. /\ list' = list /\ user' = user /\ ses' = ses
      /\ fin.at \in {"off", "clears"} /\ fin'.at \in {"takes", "over"} /\ fin'.on = fin.on
      /\ client_single' \in BOOLEAN
  BY DEF rtsp_client_fin, FinClears, IInv, Shapes
<1>2. Shapes'
  <2>1. fin' \in [at : {"off", "takes", "kills", "unrefs", "clears", "over"},
                  on : Session \cup {None}]
    BY DEF rtsp_client_fin, FinClears, IInv, Shapes
  <2> QED BY <1>1, <2>1 DEF IInv, Shapes
<1>3. (fin.on # None <=> fin.at \in {"kills", "unrefs"})'
  BY <1>1 DEF IInv
<1>4. ASSUME NEW s \in Session PROVE SessionOk(s)'
  <2>1. Apart(s)
    BY <1>1 DEF Apart
  <2> QED BY <2>1, OneSession, OthersKept
<1> QED BY <1>2, <1>3, <1>4 DEF IInv

LEMMA FinTakesOff ==
  ASSUME IInv, FinTakes
  PROVE  IInv'
<1>1. /\ fin.at = "takes" /\ user' = user /\ ses' = ses /\ client_single' = client_single
      /\ fin \in [at : {"off", "takes", "kills", "unrefs", "clears", "over"},
                  on : Session \cup {None}]
      /\ list \subseteq Session
  BY DEF FinTakes, IInv, Shapes
<1>2. fin.on = None
  BY <1>1 DEF IInv
<1>3. CASE list = {}
  <2>1. fin'.at = "clears" /\ fin'.on = fin.on /\ list' = list
    BY <1>1, <1>3 DEF FinTakes
  <2>2. Shapes'
    <3>1. fin' \in [at : {"off", "takes", "kills", "unrefs", "clears", "over"},
                    on : Session \cup {None}]
      BY <1>1, <1>3 DEF FinTakes
    <3> QED BY <1>1, <2>1, <3>1 DEF IInv, Shapes
  <2>3. (fin.on # None <=> fin.at \in {"kills", "unrefs"})'
    BY <1>2, <2>1
  <2>4. ASSUME NEW s \in Session PROVE SessionOk(s)'
    <3>1. Apart(s)
      BY <1>1, <2>1 DEF Apart
    <3> QED BY <3>1, OneSession, OthersKept
  <2> QED BY <2>2, <2>3, <2>4 DEF IInv
<1>4. CASE list # {}
  <2>1. PICK s \in list : fin' = [at |-> "kills", on |-> s] /\ list' = list \ {s}
    BY <1>4 DEF FinTakes
  <2>2. s \in Session /\ fin'.at = "kills" /\ fin'.on = s /\ s # None
    BY <1>1, <2>1, RtspClientAssumption
  <2>3. Owner(s)
    BY <2>2, OneSession
  <2>4. Shapes'
    <3>1. fin' \in [at : {"off", "takes", "kills", "unrefs", "clears", "over"},
                    on : Session \cup {None}]
      BY <2>1, <2>2
    <3> QED BY <1>1, <2>1, <3>1 DEF IInv, Shapes
  <2>5. (fin.on # None <=> fin.at \in {"kills", "unrefs"})'
    BY <2>2
  <2>6. user[s] \in {"has", "closes", "finds", "refused"}
    BY <2>1, <2>3 DEF Owner
  <2>7. Owned(s) /\ Owned(s)'
    BY <1>1, <2>1, <2>2, <2>6 DEF Owned
  <2>8. Owner(s)'
    BY <1>1, <2>1, <2>2, <2>3, <2>6, <2>7 DEF Owner
  <2>9. ASSUME NEW r \in Session, r # s PROVE Apart(r)
    <3>1. fin.on # r
      BY <1>2, RtspClientAssumption
    <3> QED BY <1>1, <2>1, <2>2, <2>9, <3>1 DEF Apart
  <2> QED BY <1>1, <2>2, <2>4, <2>5, <2>7, <2>8, <2>9, OwnerMoves
<1> QED BY <1>3, <1>4

LEMMA FinKillsOne ==
  ASSUME IInv, FinKills
  PROVE  IInv'
<1>1. /\ fin.at = "kills" /\ user' = user /\ list' = list /\ client_single' = client_single
      /\ fin'.at = "unrefs" /\ fin'.on = fin.on
      /\ fin' \in [at : {"off", "takes", "kills", "unrefs", "clears", "over"},
                   on : Session \cup {None}]
  BY DEF FinKills, IInv, Shapes
<1> DEFINE s == fin.on
           y == rtsp_session_kill(ses[s])
<1>2. s \in Session
  BY <1>1 DEF IInv, Shapes
<1>3. /\ ses[s] \in SessionShape /\ SetUp(ses[s]) /\ Kept(ses[s]) /\ Owner(s)
      /\ Owned(s) => ses[s].refs = 1 + Parts(ses[s])
  BY <1>2, OneSession
<1>4. user[s] \in {"has", "closes", "finds", "refused"} /\ s \notin list
  BY <1>3 DEF Owner
<1>5. Owned(s)
  BY <1>4 DEF Owned
<1>6. y \in SessionShape /\ SetUp(y) /\ Kept(y) /\ y.killed /\ y.refs = 1 + Parts(y)
  BY <1>3, <1>5, Killed
<1>7. ses' = [ses EXCEPT ![s] = y]
  BY DEF FinKills
<1> HIDE DEF y
<1>8. ses'[s] = y /\ Shapes'
  BY <1>1, <1>2, <1>6, <1>7 DEF IInv, Shapes
<1>9. (fin.on # None <=> fin.at \in {"kills", "unrefs"})'
  BY <1>1 DEF IInv
<1> PICK t \in Session : t = s
  BY <1>2
<1>10. Owned(t)' /\ t \notin list' /\ fin'.on = t /\ ses'[t] = y /\ user'[t] = user[t]
  BY <1>1, <1>4, <1>8 DEF Owned
<1>11. Owner(t)'
  BY <1>1, <1>3, <1>4, <1>6, <1>10 DEF Owner
<1>12. ASSUME NEW r \in Session, r # t PROVE Apart(r)
  <2>1. ses'[r] = ses[r]
    BY <1>7, <1>12 DEF IInv, Shapes
  <2> QED BY <1>1, <1>12, <2>1 DEF Apart
<1>13. ses' = [ses EXCEPT ![t] = y]
  BY <1>7
<1> HIDE DEF s
<1> QED BY <1>6, <1>8, <1>9, <1>10, <1>11, <1>12, <1>13, OwnerActs

LEMMA FinUnrefsOne ==
  ASSUME IInv, FinUnrefs
  PROVE  IInv'
<1>1. /\ fin.at = "unrefs" /\ user' = user /\ list' = list /\ client_single' = client_single
      /\ fin'.at = "takes" /\ fin'.on = None
      /\ fin' \in [at : {"off", "takes", "kills", "unrefs", "clears", "over"},
                   on : Session \cup {None}]
  BY DEF FinUnrefs, IInv, Shapes
<1> PICK s \in Session : s = fin.on
  BY <1>1 DEF IInv, Shapes
<1> DEFINE y == rtsp_client_session_unref(ses[s], 1)
<1>2. s # None
  BY RtspClientAssumption
<1>3. /\ ses[s] \in SessionShape /\ SetUp(ses[s]) /\ Kept(ses[s]) /\ Owner(s)
      /\ Owned(s) => ses[s].refs = 1 + Parts(ses[s])
  BY OneSession
<1>4. user[s] \in {"has", "closes", "finds", "refused"} /\ s \notin list /\ ses[s].killed
  BY <1>1, <1>3 DEF Owner
<1>5. Owned(s)
  BY <1>4 DEF Owned
<1>6. y \in SessionShape /\ SetUp(y) /\ Kept(y) /\ y.killed /\ y.refs = Parts(y)
  BY <1>3, <1>4, <1>5, OwnerGone
<1>7. ses' = [ses EXCEPT ![s] = y]
  BY DEF FinUnrefs
<1> HIDE DEF y
<1>8. ses'[s] = y /\ Shapes'
  BY <1>1, <1>6, <1>7 DEF IInv, Shapes
<1>9. (fin.on # None <=> fin.at \in {"kills", "unrefs"})'
  BY <1>1
<1>10. ~ Owned(s)'
  BY <1>1, <1>2, <1>4 DEF Owned
<1>11. Owner(s)'
  BY <1>1, <1>2, <1>4, <1>6, <1>8 DEF Owner
<1>12. ASSUME NEW r \in Session, r # s PROVE Apart(r)
  <2>1. ses'[r] = ses[r]
    BY <1>7, <1>12 DEF IInv, Shapes
  <2>2. fin'.on # r
    BY <1>1, RtspClientAssumption
  <2> QED BY <1>1, <1>12, <2>1, <2>2 DEF Apart
<1>13. y.refs = 0 + Parts(y)
  BY <1>6, PartsAreNumbers
<1> QED BY <1>6, <1>7, <1>8, <1>9, <1>10, <1>11, <1>12, <1>13, OwnerActs

LEMMA Stutters ==
  ASSUME IInv, UNCHANGED vars
  PROVE  IInv'
<1>1. /\ list' = list /\ user' = user /\ ses' = ses /\ fin' = fin
      /\ client_single' = client_single
  BY DEF vars
<1>2. Shapes' /\ (fin.on # None <=> fin.at \in {"kills", "unrefs"})'
  BY <1>1 DEF IInv, Shapes
<1>3. ASSUME NEW s \in Session PROVE SessionOk(s)'
  <2>1. Apart(s)
    BY <1>1 DEF Apart
  <2> QED BY <2>1, OneSession, OthersKept
<1> QED BY <1>2, <1>3 DEF IInv

-----------------------------------------------------------------------------
(* The theorems.                                                            *)

\* The invariant that the two properties rest on: what holds a session, who owns it and how
\* far its set-up has come, with the numbers of the requests that are on their way.
THEOREM Invariance == Spec => []IInv
<1>1. ASSUME IInv, Next PROVE IInv'
  <2>1. ASSUME NEW s \in Session, UserCalls(s) PROVE IInv'
    BY <1>1, <2>1, Creates, Opens, AsksToPlay, Closes DEF UserCalls
  <2>2. ASSUME NEW s \in Session, UserCloses(s) PROVE IInv'
    BY <1>1, <2>2, ReadsOn, Adds, TakesOff, UserKills, UserUnrefs DEF UserCloses
  <2>3. ASSUME NEW s \in Session, LoopFinalizes(s) PROVE IInv'
    BY <1>1, <2>3, LosesTimer, LosesWatch, LosesRtpEvent DEF LoopFinalizes
  <2>4. ASSUME FinStep PROVE IInv'
    BY <1>1, <2>4, FinTakesOff, FinKillsOne, FinUnrefsOne, FinMoves DEF FinStep
  <2>5. CASE rtsp_client_fin
    BY <1>1, <2>5, FinMoves
  <2> QED BY <1>1, <2>1, <2>2, <2>3, <2>4, <2>5, Ticks, ReadsMessage, GivesPacket,
             AnswersRequest, SendsPacket
          DEF Next
<1>2. ASSUME IInv, [Next]_vars PROVE IInv'
  BY <1>1, <1>2, Stutters
<1> QED BY <1>2, InitOk, PTL DEF Spec

\* A session is referenced as often as its owner, its timer, its watch and its RTP sessions
\* hold it; its socket is closed with it or with its watch, and not before it was killed;
\* rtsp_client_close_session and rtsp_client_fin never both own it, and the user is not
\* called after it was closed.
THEOREM NobodyUsesAFreedSession == Spec => []SessionsOwned
<1>1. IInv => SessionsOwned
  <2> SUFFICES ASSUME IInv, NEW s \in Session
               PROVE  LET x == ses[s]
                      IN /\ x.refs = Holders(s)
                         /\ x.refs = 0 => x.rtsp_sock \in {None, "closed"}
                         /\ x.rtsp_sock = "closed" => x.killed
                         /\ fin.on = s => user[s] \notin {"kills", "unrefs", "closed"}
                         /\ ~ x.late
    BY DEF SessionsOwned
  <2>1. /\ ses[s] \in SessionShape /\ Kept(ses[s]) /\ Owner(s)
        /\ ses[s].refs = (IF Owned(s) THEN 1 ELSE 0) + Parts(ses[s])
    BY OneSession
  <2>2. /\ TimerHolds(ses[s]) \in {0, 1} /\ WatchHolds(ses[s]) \in {0, 1}
        /\ Cardinality(Live(ses[s].rtp)) \in Nat
    BY <2>1, PartsAreNumbers
  <2>3. Holders(s) = (IF Owned(s) THEN 1 ELSE 0) + TimerHolds(ses[s]) + WatchHolds(ses[s])
                       + Cardinality(Live(ses[s].rtp))
    BY DEF Holders, TimerHolds, WatchHolds, Live
  <2>4. ses[s].refs = Holders(s)
    BY <2>1, <2>2, <2>3 DEF Parts
  <2>5. ses[s].refs = 0 => ses[s].rtsp_sock \in {None, "closed"}
    <3>1. ses[s].refs = 0 => WatchHolds(ses[s]) = 0
      <4>1. Parts(ses[s]) \in Nat /\ Parts(ses[s]) >= WatchHolds(ses[s])
        BY <2>1, PartsAreNumbers
      <4> QED BY <2>1, <2>2, <4>1
    <3>2. ses[s].rtsp_sock = "watch" => WatchHolds(ses[s]) = 1
      BY <2>1 DEF Kept, WatchHolds
    <3>3. ses[s].rtsp_sock \in {"none", "session", "watch", "closed"}
      BY <2>1 DEF SessionShape
    <3> QED BY <2>1, <3>1, <3>2, <3>3 DEF Kept, None
  <2>6. fin.on = s => user[s] \notin {"kills", "unrefs", "closed"}
    BY <2>1 DEF Owner
  <2> QED BY <2>1, <2>4, <2>5, <2>6 DEF Kept
<1> QED BY <1>1, Invariance, PTL

\* The set-up asks for one track after the other and goes on only when the one that it asked
\* for was accepted, the RTP sessions have channels of their own, and PLAY is sent when
\* every track was accepted, at most as often as it was asked for, and is not lost.
THEOREM SetUpGoesInOrder == Spec => []SetUpInOrder
<1>1. IInv => SetUpInOrder
  <2> SUFFICES ASSUME IInv, NEW s \in Session
               PROVE  LET x == ses[s]
                      IN /\ x.accepted <= x.request_itrack /\ x.request_itrack <= x.accepted + 1
                         /\ \A j, k \in DOMAIN x.rtp : x.rtp[j].channel = x.rtp[k].channel => j = k
                         /\ x.state = "READY" /\ ~ x.killed => x.accepted = x.ntrack
                         /\ x.played > 0 => x.state = "READY"
                         /\ x.played <= x.asked
                         /\ x.state = "READY" /\ x.asked > 0 /\ ~ x.stalled => x.played > 0
    BY DEF SetUpInOrder
  <2>1. ses[s] \in SessionShape /\ SetUp(ses[s])
    BY OneSession
  <2>2. \A j, k \in DOMAIN ses[s].rtp : ses[s].rtp[j].channel = ses[s].rtp[k].channel => j = k
    <3> SUFFICES ASSUME NEW j \in DOMAIN ses[s].rtp, NEW k \in DOMAIN ses[s].rtp,
                        ses[s].rtp[j].channel = ses[s].rtp[k].channel
                 PROVE  j = k
      OBVIOUS
    <3>1. 2 * (j - 1) = 2 * (k - 1)
      BY <2>1 DEF SetUp, Channels
    <3>2. j \in Int /\ k \in Int
      BY SMTT(20), <2>1 DEF SessionShape
    <3> QED BY <3>1, <3>2
  <2>3. ses[s].played > 0 => ses[s].state = "READY"
    <3>1. ses[s].state \in {"INIT", "READY"}
      BY <2>1 DEF SessionShape
    <3> QED BY <2>1, <3>1 DEF SetUp, Plays
  <2> QED BY <2>1, <2>2, <2>3 DEF SetUp, Tracks, Plays
<1> QED BY <1>1, Invariance, PTL
=============================================================================
