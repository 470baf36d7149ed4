-------------------------- MODULE JsTransportProofs --------------------------
(***************************************************************************)
(* Theorems about JsTransport, for either SDK, every size of the queue and *)
(* every number of events and flushes.                                     *)
(***************************************************************************)
EXTENDS JsTransport, FiniteSetTheorems, TLAPS

-----------------------------------------------------------------------------
(* Sequences of bodies.                                                    *)

Rising(q) == \A i, j \in DOMAIN q : i < j => q[i] < q[j]

\* No body appears for the first time after a younger one.
InOrder(s) ==
    \A i \in DOMAIN s :
        (\A k \in 1 .. i - 1 : s[k] # s[i]) => \A k \in 1 .. i - 1 : s[k] < s[i]

\* Every body of q was posted before, or is younger than all that were.
Follows(q, s) == \A b \in Members(q) : b \in Members(s) \/ \A p \in Members(s) : p < b

LEMMA Appended ==
    ASSUME NEW E, NEW s \in Seq(E), NEW e \in E
    PROVE  /\ Append(s, e) \in Seq(E) /\ Len(Append(s, e)) = Len(s) + 1 /\ Len(s) \in Nat
           /\ DOMAIN s = 1 .. Len(s) /\ DOMAIN Append(s, e) = 1 .. (Len(s) + 1)
           /\ Append(s, e)[Len(s) + 1] = e /\ \A i \in 1 .. Len(s) : Append(s, e)[i] = s[i]
           /\ Members(Append(s, e)) = Members(s) \cup {e}
<1> DEFINE r == Append(s, e)
<1>1. /\ r \in Seq(E) /\ Len(r) = Len(s) + 1 /\ Len(s) \in Nat
      /\ DOMAIN s = 1 .. Len(s) /\ DOMAIN r = 1 .. (Len(s) + 1)
      /\ r[Len(s) + 1] = e /\ \A i \in 1 .. Len(s) : r[i] = s[i]
  OBVIOUS
<1> HIDE DEF r
<1>2. \A i \in DOMAIN r : i \in DOMAIN s \/ i = Len(s) + 1  BY <1>1
<1>3. Members(r) = Members(s) \cup {e}  BY <1>1, <1>2 DEF Members
<1>4. QED  BY <1>1, <1>3 DEF r

LEMMA Shifted ==
    ASSUME NEW E, NEW q \in Seq(E), q # <<>>
    PROVE  /\ Tail(q) \in Seq(E) /\ Len(Tail(q)) = Len(q) - 1 /\ Len(q) \in Nat \ {0}
           /\ DOMAIN q = 1 .. Len(q) /\ DOMAIN Tail(q) = 1 .. (Len(q) - 1)
           /\ Head(q) \in E /\ Head(q) = q[1]
           /\ \A i \in 1 .. (Len(q) - 1) : Tail(q)[i] = q[i + 1]
           /\ Members(q) = Members(Tail(q)) \cup {Head(q)}
<1> DEFINE r == Tail(q)
<1>1. /\ r \in Seq(E) /\ Len(r) = Len(q) - 1 /\ Len(q) \in Nat \ {0}
      /\ DOMAIN q = 1 .. Len(q) /\ DOMAIN r = 1 .. (Len(q) - 1)
      /\ Head(q) \in E /\ Head(q) = q[1]
      /\ \A i \in 1 .. (Len(q) - 1) : r[i] = q[i + 1]
  OBVIOUS
<1> HIDE DEF r
<1>2. \A i \in DOMAIN r : i + 1 \in DOMAIN q /\ r[i] = q[i + 1]  BY <1>1
<1>3. \A i \in DOMAIN q : i = 1 \/ (i - 1 \in DOMAIN r /\ r[i - 1] = q[i])  BY <1>1
<1>4. 1 \in DOMAIN q  BY <1>1
<1>5. Members(q) \subseteq Members(r) \cup {Head(q)}  BY <1>1, <1>3 DEF Members
<1>6. Members(r) \cup {Head(q)} \subseteq Members(q)  BY <1>1, <1>2, <1>4 DEF Members
<1>7. QED  BY <1>1, <1>5, <1>6 DEF r

LEMMA Joined ==
    ASSUME NEW E, NEW s \in Seq(E), NEW q \in Seq(E)
    PROVE  /\ s \o q \in Seq(E) /\ Len(s) \in Nat /\ Len(q) \in Nat
           /\ DOMAIN s = 1 .. Len(s) /\ DOMAIN q = 1 .. Len(q)
           /\ DOMAIN (s \o q) = 1 .. (Len(s) + Len(q))
           /\ \A i \in 1 .. Len(s) : (s \o q)[i] = s[i]
           /\ \A i \in 1 .. Len(q) : (s \o q)[Len(s) + i] = q[i]
           /\ Members(s \o q) = Members(s) \cup Members(q)
<1> DEFINE r == s \o q
<1>1. /\ r \in Seq(E) /\ Len(s) \in Nat /\ Len(q) \in Nat
      /\ DOMAIN s = 1 .. Len(s) /\ DOMAIN q = 1 .. Len(q)
      /\ DOMAIN r = 1 .. (Len(s) + Len(q))
      /\ \A i \in 1 .. Len(s) : r[i] = s[i]
  OBVIOUS
<1>2. \A i \in 1 .. Len(q) : r[Len(s) + i] = q[i]
  <2> TAKE i \in 1 .. Len(q)
  <2>1. Len(s) + i \in 1 .. (Len(s) + Len(q)) /\ ~ (Len(s) + i <= Len(s))  BY <1>1
  <2>2. (Len(s) + i) - Len(s) = i  BY <1>1
  <2>3. QED  BY <2>1, <2>2
<1> HIDE DEF r
<1>3. \A i \in DOMAIN r : i \in DOMAIN s \/ (i - Len(s) \in DOMAIN q /\ r[i] = q[i - Len(s)])
  <2> TAKE i \in DOMAIN r
  <2>1. i \in DOMAIN s \/ i - Len(s) \in 1 .. Len(q)  BY <1>1
  <2>2. Len(s) + (i - Len(s)) = i  BY <1>1
  <2>3. QED  BY <1>1, <1>2, <2>1, <2>2
<1>4. Members(r) \subseteq Members(s) \cup Members(q)  BY <1>1, <1>3 DEF Members
<1>5. \A i \in DOMAIN q : Len(s) + i \in DOMAIN r /\ r[Len(s) + i] = q[i]  BY <1>1, <1>2
<1>6. \A i \in DOMAIN s : i \in DOMAIN r /\ r[i] = s[i]  BY <1>1
<1>7. Members(s) \cup Members(q) \subseteq Members(r)  BY <1>5, <1>6 DEF Members
<1>8. QED  BY <1>1, <1>2, <1>4, <1>7 DEF r

\* The sequence of posts stays in order when such bodies are added.
LEMMA InOrderAppended ==
    ASSUME NEW s \in Seq(Nat), NEW e \in Nat, InOrder(s),
           e \in Members(s) \/ \A p \in Members(s) : p < e
    PROVE  InOrder(Append(s, e))
<1>1. PICK r : r = Append(s, e)  OBVIOUS
<1>2. /\ Len(s) \in Nat /\ DOMAIN s = 1 .. Len(s) /\ DOMAIN r = 1 .. (Len(s) + 1)
      /\ r[Len(s) + 1] = e /\ \A i \in 1 .. Len(s) : r[i] = s[i]
  BY <1>1, Appended
<1>3. ASSUME NEW i \in DOMAIN r, \A k \in 1 .. i - 1 : r[k] # r[i], NEW k \in 1 .. i - 1
      PROVE  r[k] < r[i]
  <2>1. CASE i \in DOMAIN s
    <3>1. \A m \in 1 .. i : r[m] = s[m]  BY <1>2, <2>1
    <3>2. \A m \in 1 .. i - 1 : s[m] # s[i]  BY <1>2, <1>3, <2>1, <3>1
    <3>3. s[k] < s[i]  BY <1>3, <2>1, <3>2 DEF InOrder
    <3>4. QED  BY <1>2, <1>3, <2>1, <3>1, <3>3
  <2>2. CASE i = Len(s) + 1
    <3>1. \A m \in DOMAIN s : s[m] # e  BY <1>2, <1>3, <2>2
    <3>2. e \notin Members(s)  BY <3>1 DEF Members
    <3>3. k \in DOMAIN s /\ s[k] \in Members(s)  BY <1>2, <1>3, <2>2 DEF Members
    <3>4. QED  BY <1>2, <2>2, <3>2, <3>3
  <2>3. QED  BY <1>2, <2>1, <2>2
<1>4. QED  BY <1>1, <1>3 DEF InOrder

LEMMA InOrderJoined ==
    ASSUME NEW s \in Seq(Nat), NEW q \in Seq(Nat), InOrder(s), Rising(q), Follows(q, s)
    PROVE  InOrder(s \o q)
<1>1. PICK r : r = s \o q  OBVIOUS
<1>2. /\ Len(s) \in Nat /\ Len(q) \in Nat /\ DOMAIN s = 1 .. Len(s) /\ DOMAIN q = 1 .. Len(q)
      /\ DOMAIN r = 1 .. (Len(s) + Len(q))
      /\ \A i \in 1 .. Len(s) : r[i] = s[i]
      /\ \A i \in 1 .. Len(q) : r[Len(s) + i] = q[i]
  BY <1>1, Joined
<1>3. ASSUME NEW i \in DOMAIN r, \A k \in 1 .. i - 1 : r[k] # r[i], NEW k \in 1 .. i - 1
      PROVE  r[k] < r[i]
  <2>1. CASE i \in DOMAIN s
    <3>1. \A m \in 1 .. i : r[m] = s[m]  BY <1>2, <2>1
    <3>2. \A m \in 1 .. i - 1 : s[m] # s[i]  BY <1>2, <1>3, <2>1, <3>1
    <3>3. s[k] < s[i]  BY <1>3, <2>1, <3>2 DEF InOrder
    <3>4. QED  BY <1>2, <1>3, <2>1, <3>1, <3>3
  <2>2. CASE i \notin DOMAIN s
    <3>1. PICK j \in DOMAIN q : i = Len(s) + j
      <4>1. i - Len(s) \in 1 .. Len(q) /\ i = Len(s) + (i - Len(s))  BY <1>2, <2>2
      <4>2. QED  BY <1>2, <4>1
    <3>2. r[i] = q[j]  BY <1>2, <3>1
    <3>3. CASE k \in DOMAIN s
      <4>1. \A m \in DOMAIN s : s[m] # q[j]  BY <1>2, <1>3, <3>1, <3>2
      <4>2. q[j] \notin Members(s) /\ q[j] \in Members(q) /\ s[k] \in Members(s)
        BY <3>1, <3>3, <4>1 DEF Members
      <4>3. QED  BY <1>2, <3>2, <3>3, <4>2 DEF Follows
    <3>4. CASE k \notin DOMAIN s
      <4>1. PICK m \in DOMAIN q : k = Len(s) + m
        <5>1. k - Len(s) \in 1 .. Len(q) /\ k = Len(s) + (k - Len(s))  BY <1>2, <1>3, <3>4
        <5>2. QED  BY <1>2, <5>1
      <4>2. r[k] = q[m] /\ m < j  BY <1>2, <1>3, <3>1, <4>1
      <4>3. QED  BY <3>2, <4>1, <4>2 DEF Rising
    <3>5. QED  BY <3>3, <3>4
  <2>3. QED  BY <2>1, <2>2
<1>4. QED  BY <1>1, <1>3 DEF InOrder

-----------------------------------------------------------------------------
(* The invariant.                                                          *)

\* The loop runs while there is something to send, and a transport is emptied for good
\* when it is closed; in Node after a flush, which threw nothing away if that drained it.
Loops ==
    /\ loop = "idle" => queue = <<>>
    /\ closed => queue = <<>>
    /\ sdk = "node" /\ ~closed /\ loop # "idle" => queue # <<>>
    /\ \A f \in Calls : flush[f] # "none" => sdk = "node"
    /\ sdk = "node" /\ closed => flush[0] \in {"drained", "late"}
    /\ ~closed => thrown = {}
    /\ sdk = "node" /\ flush[0] = "drained" => queue = <<>> /\ loop = "idle" /\ thrown = {}

\* What is queued is younger than what was posted, the bodies posted before aside.
Ordered ==
    /\ Rising(queue) /\ Follows(queue, posts) /\ InOrder(posts)
    /\ Members(queue) \subseteq 1 .. accepted
    /\ Members(posts) \subseteq 1 .. accepted
    /\ loop # "idle" => body \in Members(posts)

\* The body in flight is not at the head any more: the next turn removes one that was
\* never sent.  A full queue pushed it out, and that overflow lost nothing by itself.
Slip == IF loop # "idle" /\ (queue = <<>> \/ Head(queue) # body) THEN 1 ELSE 0

LossCounted ==
    ~closed /\ (sdk = "browser" => flushes = 0) => Cardinality(Lost) + Slip <= overflows

\* What a closed transport lost, but for what close() threw away.
ThrownCounted == sdk = "node" /\ closed => Cardinality(Lost \ thrown) <= overflows

Inv == TypeOK /\ Loops /\ Ordered /\ LossCounted /\ ThrownCounted

LEMMA BodiesAre == Bodies \subseteq Nat /\ MaxEvents \in Nat /\ MaxQueue \in Nat \ {0}
  BY LimitsAssumption DEF Bodies

LEMMA InitInv == Init => Inv
<1> SUFFICES ASSUME Init  PROVE Inv  OBVIOUS
<1>1. TypeOK
  <2>1. queue \in Seq(Bodies) /\ Len(queue) = 0 /\ posts \in Seq(Bodies)  BY DEF Init
  <2>2. /\ sending = FALSE /\ loop = "idle" /\ closed = FALSE /\ thrown = {}
        /\ flush = [f \in Calls |-> "none"] /\ sdk \in Sdks /\ body = 0 /\ attempt = 0
        /\ accepted = 0 /\ flushes = 0 /\ overflows = 0
    BY DEF Init
  <2>3. /\ 0 \in 0 .. MaxEvents /\ 0 \in 0 .. MaxFlushes /\ Len(queue) <= MaxQueue
    BY <2>1, LimitsAssumption
  <2>4. sending = (loop # "idle")  BY <2>2
  <2>5. flush \in [Calls -> {"none", "waiting", "drained", "late"}]  BY <2>2
  <2>6. QED  BY <2>1, <2>2, <2>3, <2>4, <2>5 DEF TypeOK
<1>2. Loops
  <2>1. 0 \in Calls  BY LimitsAssumption DEF Calls
  <2>2. QED  BY <2>1 DEF Init, Loops
<1>3. Members(queue) = {} /\ Members(posts) = {}  BY DEF Init, Members
<1>4. Ordered  BY <1>3 DEF Init, Ordered, Rising, Follows, InOrder
<1>5. LossCounted
  <2>1. Lost = {} /\ Slip = 0 /\ overflows = 0  BY DEF Init, Lost, Slip
  <2>2. QED  BY <2>1, FS_EmptySet DEF LossCounted
<1>6. ThrownCounted  BY DEF Init, ThrownCounted
<1>7. QED  BY <1>1, <1>2, <1>4, <1>5, <1>6 DEF Inv

-----------------------------------------------------------------------------
(* A turn of the loop.                                                     *)

LEMMA TurnTyped ==
    ASSUME TypeOK, NEW q \in Seq(Bodies), Len(q) <= MaxQueue, Turn(q)
    PROVE  /\ queue' \in Seq(Bodies) /\ Len(queue') <= MaxQueue
           /\ sending' = (loop' # "idle")
           /\ loop' \in {"idle", "posting", "delay", "limited"}
           /\ body' \in Bodies \cup {0} /\ attempt' \in {0, 1}
           /\ posts' \in Seq(Bodies)
<1>1. CASE q # <<>> /\ ~closed
  <2>1. PICK h : h = Head(q)  OBVIOUS
  <2>2. h \in Bodies  BY <1>1, <2>1, Shifted
  <2>3. /\ queue' = q /\ sending' = TRUE /\ loop' = "posting" /\ body' = h /\ attempt' = 0
        /\ posts' = Append(posts, h)
    BY <1>1, <2>1 DEF Turn, Post
  <2>4. posts' \in Seq(Bodies)  BY <2>2, <2>3 DEF TypeOK
  <2>5. QED  BY <2>2, <2>3, <2>4
<1>2. CASE ~ (q # <<>> /\ ~closed)
  BY <1>2 DEF Turn, Stop, TypeOK
<1>3. QED  BY <1>1, <1>2

\* The turn keeps the order, whatever sound queue it finds.
LEMMA TurnOrdered ==
    ASSUME TypeOK, Ordered, NEW q \in Seq(Bodies), Turn(q),
           Rising(q), Follows(q, posts), NEW n \in Nat, n = accepted',
           Members(q) \subseteq 1 .. n, Members(posts) \subseteq 1 .. n
    PROVE  Ordered'
<1>0. posts \in Seq(Nat) /\ q \in Seq(Nat) /\ queue' = q
  <2>1. ASSUME NEW s \in Seq(Bodies)  PROVE s \in Seq(Nat)
    <3>1. /\ s \in [1 .. Len(s) -> Bodies] /\ Len(s) \in Nat  OBVIOUS
    <3>2. s \in [1 .. Len(s) -> Nat]  BY <3>1, BodiesAre
    <3>3. QED  BY <3>1, <3>2
  <2>2. queue' = q  BY DEF Turn, Stop
  <2>3. QED  BY <2>1, <2>2 DEF TypeOK
<1>1. CASE q # <<>> /\ ~closed
  <2>1. PICK h : h = Head(q)  OBVIOUS
  <2>2. /\ loop' = "posting" /\ body' = h /\ posts' = Append(posts, h)
    BY <1>1, <2>1 DEF Turn, Post
  <2>3. /\ h \in Members(q) /\ h \in Nat /\ DOMAIN q = 1 .. Len(q) /\ Len(q) \in Nat \ {0}
        /\ h = q[1]
    BY <1>0, <1>1, <2>1, Shifted
  <2>4. Members(posts') = Members(posts) \cup {h}  BY <1>0, <2>2, <2>3, Appended
  <2>5. InOrder(posts')  BY <1>0, <2>2, <2>3, InOrderAppended DEF Ordered, Follows
  <2>6. Follows(q, posts')
    <3>1. \A b \in Members(q) : b = h \/ h < b
      <4>1. \A i \in DOMAIN q : i = 1 \/ h < q[i]  BY <2>3 DEF Rising
      <4>2. QED  BY <2>3, <4>1 DEF Members
    <3>2. QED  BY <2>4, <3>1 DEF Follows
  <2>7. QED  BY <1>0, <2>2, <2>3, <2>4, <2>5, <2>6 DEF Ordered
<1>2. CASE ~ (q # <<>> /\ ~closed)
  <2>1. posts' = posts /\ loop' = "idle"  BY <1>2 DEF Turn, Stop
  <2>2. QED  BY <1>0, <2>1 DEF Ordered
<1>3. QED  BY <1>1, <1>2

LEMMA TailRises ==
    ASSUME NEW q \in Seq(Bodies), q # <<>>, Rising(q)
    PROVE  Rising(Tail(q))
<1>1. PICK r : r = Tail(q)  OBVIOUS
<1>2. /\ DOMAIN q = 1 .. Len(q) /\ DOMAIN r = 1 .. (Len(q) - 1) /\ Len(q) \in Nat
      /\ \A i \in 1 .. (Len(q) - 1) : r[i] = q[i + 1]
  BY <1>1, Shifted
<1>3. ASSUME NEW i \in DOMAIN r, NEW j \in DOMAIN r, i < j  PROVE r[i] < r[j]
  <2>1. i + 1 \in DOMAIN q /\ j + 1 \in DOMAIN q /\ i + 1 < j + 1  BY <1>2, <1>3
  <2>2. q[i + 1] < q[j + 1]  BY <2>1 DEF Rising
  <2>3. QED  BY <1>2, <2>2
<1>4. QED  BY <1>1, <1>3 DEF Rising

\* The queue without its head is as sound as with it.
LEMMA RestSound ==
    ASSUME TypeOK, Ordered
    PROVE  /\ Rest(queue) \in Seq(Bodies) /\ Len(Rest(queue)) <= MaxQueue
           /\ Rising(Rest(queue)) /\ Follows(Rest(queue), posts)
           /\ Members(Rest(queue)) \subseteq Members(queue)
<1>1. queue \in Seq(Bodies) /\ Len(queue) <= MaxQueue /\ MaxQueue \in Nat
  BY BodiesAre DEF TypeOK
<1>2. CASE queue = <<>>  BY <1>1, <1>2 DEF Rest, Ordered
<1>3. CASE queue # <<>>
  <2>1. /\ Tail(queue) \in Seq(Bodies) /\ Len(Tail(queue)) = Len(queue) - 1 /\ Len(queue) \in Nat
        /\ Members(queue) = Members(Tail(queue)) \cup {Head(queue)}
    BY <1>1, <1>3, Shifted
  <2>2. Rising(Tail(queue))  BY <1>1, <1>3, TailRises DEF Ordered
  <2>3. Rest(queue) = Tail(queue)  BY <1>3 DEF Rest
  <2>4. QED  BY <1>1, <2>1, <2>2, <2>3 DEF Ordered, Follows
<1>4. QED  BY <1>2, <1>3

-----------------------------------------------------------------------------
(* The steps.                                                              *)

\* The queue after a push is sound, keeps what it held but the head of a full queue, and
\* keeps its head when it was not full.
LEMMA PushSound ==
    ASSUME TypeOK, Ordered, NEW n \in Nat, n = accepted + 1, n <= MaxEvents, NEW p, NEW q,
           p = Append(queue, n), q = Enqueued(p)
    PROVE  /\ q \in Seq(Bodies) /\ Len(q) <= MaxQueue /\ q # <<>>
           /\ Rising(q) /\ Follows(q, posts) /\ Members(q) \subseteq 1 .. n
           /\ n \in Members(q)
           /\ Len(p) > MaxQueue => /\ queue # <<>>
                                   /\ Members(queue) \subseteq Members(q) \cup {Head(queue)}
           /\ ~ (Len(p) > MaxQueue) => /\ q = p /\ Members(queue) \subseteq Members(q)
                                       /\ queue # <<>> => Head(q) = Head(queue)
<1>1. /\ queue \in Seq(Bodies) /\ Len(queue) <= MaxQueue /\ MaxQueue \in Nat \ {0}
      /\ accepted \in Nat /\ n \in Bodies
  BY BodiesAre DEF TypeOK, Bodies
<1>2. /\ p \in Seq(Bodies) /\ Len(p) = Len(queue) + 1 /\ Len(queue) \in Nat
      /\ DOMAIN queue = 1 .. Len(queue) /\ DOMAIN p = 1 .. (Len(queue) + 1)
      /\ p[Len(queue) + 1] = n /\ \A i \in 1 .. Len(queue) : p[i] = queue[i]
      /\ Members(p) = Members(queue) \cup {n}
  BY <1>1, Appended
<1>3. p # <<>>  BY <1>2
<1>4. Rising(p)
  <2>1. \A i \in DOMAIN queue : queue[i] \in 1 .. accepted  BY DEF Ordered, Members
  <2>2. ASSUME NEW i \in DOMAIN p, NEW j \in DOMAIN p, i < j  PROVE p[i] < p[j]
    <3>1. CASE j \in DOMAIN queue
      <4>1. i \in DOMAIN queue  BY <1>2, <2>2, <3>1
      <4>2. queue[i] < queue[j]  BY <2>2, <3>1, <4>1 DEF Ordered, Rising
      <4>3. QED  BY <1>2, <3>1, <4>1, <4>2
    <3>2. CASE j = Len(queue) + 1
      <4>1. i \in DOMAIN queue  BY <1>2, <2>2, <3>2
      <4>2. queue[i] < n  BY <1>1, <2>1, <4>1
      <4>3. QED  BY <1>2, <3>2, <4>1, <4>2
    <3>3. QED  BY <1>2, <3>1, <3>2
  <2>3. QED  BY <2>2 DEF Rising
<1>5. Follows(p, posts)
  <2>1. \A b \in Members(posts) : b < n  BY <1>1 DEF Ordered
  <2>2. QED  BY <1>2, <2>1 DEF Ordered, Follows
<1>6. Members(p) \subseteq 1 .. n
  <2>1. 1 .. accepted \subseteq 1 .. n /\ n \in 1 .. n  BY <1>1
  <2>2. QED  BY <1>2, <2>1 DEF Ordered
<1>7. CASE Len(p) > MaxQueue
  <2>1. q = Tail(p)  BY <1>7 DEF Enqueued
  <2>2. /\ q \in Seq(Bodies) /\ Len(q) = Len(p) - 1 /\ Head(p) = p[1]
        /\ Members(p) = Members(q) \cup {Head(p)}
        /\ \A i \in 1 .. (Len(p) - 1) : q[i] = p[i + 1]
        /\ DOMAIN q = 1 .. (Len(p) - 1)
    <3>1. p \in Seq(Bodies) /\ p # <<>>  BY <1>2, <1>3
    <3>2. /\ Tail(p) \in Seq(Bodies) /\ Len(Tail(p)) = Len(p) - 1 /\ Head(p) = p[1]
          /\ Members(p) = Members(Tail(p)) \cup {Head(p)}
          /\ \A i \in 1 .. (Len(p) - 1) : Tail(p)[i] = p[i + 1]
          /\ DOMAIN Tail(p) = 1 .. (Len(p) - 1)
      BY <3>1, Shifted
    <3>3. QED  BY <2>1, <3>2
  <2>3. Len(queue) # 0 /\ queue # <<>> /\ q # <<>>  BY <1>1, <1>2, <1>7, <2>2
  <2>4. Head(p) = Head(queue)
    <3>1. Head(queue) = queue[1]  BY <1>1, <2>3, Shifted
    <3>2. QED  BY <1>2, <2>2, <2>3, <3>1
  <2>5. n \in Members(q)
    <3>1. Len(queue) \in DOMAIN q /\ q[Len(queue)] = n  BY <1>2, <2>2, <2>3
    <3>2. QED  BY <3>1 DEF Members
  <2>6. Rising(q)  BY <1>2, <1>3, <1>4, <2>1, TailRises
  <2>7. QED  BY <1>1, <1>2, <1>5, <1>6, <1>7, <2>2, <2>3, <2>4, <2>5, <2>6 DEF Follows
<1>8. CASE ~ (Len(p) > MaxQueue)
  <2>1. q = p  BY <1>8 DEF Enqueued
  <2>2. queue # <<>> => Head(p) = Head(queue)
    <3>1. SUFFICES ASSUME queue # <<>>  PROVE Head(p) = Head(queue)  OBVIOUS
    <3>2. Head(queue) = queue[1] /\ Len(queue) # 0 /\ Head(p) = p[1]
      BY <1>1, <1>2, <1>3, <3>1, Shifted
    <3>3. QED  BY <1>2, <3>2
  <2>3. Len(p) <= MaxQueue  BY <1>1, <1>2, <1>8
  <2>4. n \in Members(p) /\ Members(queue) \subseteq Members(p)  BY <1>2
  <2>5. QED  BY <1>2, <1>3, <1>4, <1>5, <1>6, <1>8, <2>1, <2>2, <2>3, <2>4
<1>9. QED  BY <1>7, <1>8

LEMMA StepTypeOK ==
    ASSUME Inv, Next
    PROVE  TypeOK'
<1>0. TypeOK /\ Ordered  BY DEF Inv
<1>1. ASSUME Turn(Rest(queue)), UNCHANGED Outside  PROVE TypeOK'
  <2>1. /\ queue' \in Seq(Bodies) /\ Len(queue') <= MaxQueue
        /\ sending' = (loop' # "idle")
        /\ loop' \in {"idle", "posting", "delay", "limited"}
        /\ body' \in Bodies \cup {0} /\ attempt' \in {0, 1}
        /\ posts' \in Seq(Bodies)
    BY <1>0, <1>1, RestSound, TurnTyped
  <2>2. QED  BY <1>0, <1>1, <2>1 DEF Outside, TypeOK
<1>2. ASSUME NEW o \in Outcomes, Reply(o)  PROVE TypeOK'
  <2>1. CASE Shift  BY <1>1, <1>2, <2>1 DEF Reply, Shift
  <2>2. CASE /\ loop' \in {"delay", "limited"} /\ loop = "posting"
             /\ UNCHANGED <<queue, sending, body, attempt, posts, Outside>>
    <3>1. sending' = (loop' # "idle")  BY <1>0, <2>2 DEF TypeOK
    <3>2. QED  BY <1>0, <2>2, <3>1 DEF TypeOK, Outside
  <2>3. QED  BY <1>2, <2>1, <2>2 DEF Reply
<1>3. ASSUME Retry  PROVE TypeOK'
  <2>1. /\ sending' = TRUE /\ loop' = "posting" /\ body' = body /\ attempt' = 1
        /\ posts' = Append(posts, body) /\ UNCHANGED <<queue, Outside>> /\ loop # "idle"
    BY <1>3 DEF Retry, Post
  <2>2. body \in Bodies  BY <1>0, <2>1 DEF Ordered, TypeOK, Members
  <2>3. posts' \in Seq(Bodies)  BY <1>0, <2>1, <2>2 DEF TypeOK
  <2>4. sending' = (loop' # "idle")  BY <2>1
  <2>5. QED  BY <1>0, <2>1, <2>3, <2>4 DEF TypeOK, Outside
<1>4. ASSUME GiveUp  PROVE TypeOK'
  BY <1>1, <1>4 DEF GiveUp, Shift
<1>5. ASSUME send  PROVE TypeOK'
  <2>1. PICK n \in Nat : n = accepted + 1 /\ n <= MaxEvents
    BY <1>0, <1>5, BodiesAre DEF send, TypeOK
  <2>2. PICK p : p = Append(queue, n)  OBVIOUS
  <2>3. PICK q : q = Enqueued(p)  OBVIOUS
  <2>4. q \in Seq(Bodies) /\ Len(q) <= MaxQueue  BY <1>0, <2>1, <2>2, <2>3, PushSound
  <2>5. /\ accepted' = n /\ overflows' = overflows + Overflows(p) /\ Drain(q)
        /\ UNCHANGED <<sdk, closed, flush, flushes, thrown>>
    BY <1>5, <2>1, <2>2, <2>3 DEF send
  <2>6. /\ queue' \in Seq(Bodies) /\ Len(queue') <= MaxQueue
        /\ sending' = (loop' # "idle")
        /\ loop' \in {"idle", "posting", "delay", "limited"}
        /\ body' \in Bodies \cup {0} /\ attempt' \in {0, 1}
        /\ posts' \in Seq(Bodies)
    <3>1. CASE sending  BY <1>0, <2>4, <2>5, <3>1 DEF Drain, loopVars, TypeOK
    <3>2. CASE ~sending
      <4>1. Turn(q)  BY <2>5, <3>2 DEF Drain
      <4>2. QED  BY <1>0, <2>4, <4>1, TurnTyped
    <3>3. QED  BY <3>1, <3>2
  <2>7. accepted' \in 0 .. MaxEvents /\ overflows' \in Nat
    BY <1>0, <2>1, <2>5, BodiesAre DEF TypeOK, Overflows
  <2>8. QED  BY <1>0, <2>5, <2>6, <2>7 DEF TypeOK
<1>6. ASSUME flush_browser  PROVE TypeOK'
  <2>1. posts' \in Seq(Bodies)  BY <1>0, <1>6, Joined DEF flush_browser, TypeOK
  <2>2. /\ queue' \in Seq(Bodies) /\ Len(queue') <= MaxQueue
    BY <1>6, BodiesAre DEF flush_browser
  <2>3. flushes' \in 0 .. MaxFlushes
    BY <1>0, <1>6, LimitsAssumption DEF flush_browser, TypeOK
  <2>4. QED  BY <1>0, <1>6, <2>1, <2>2, <2>3 DEF flush_browser, TypeOK
<1>7. ASSUME NEW f \in Calls, flush_node(f)  PROVE TypeOK'
  <2>1. /\ queue' \in Seq(Bodies) /\ Len(queue') <= MaxQueue
        /\ sending' = (loop' # "idle")
        /\ loop' \in {"idle", "posting", "delay", "limited"}
        /\ body' \in Bodies \cup {0} /\ attempt' \in {0, 1}
        /\ posts' \in Seq(Bodies)
    <3>1. CASE sending  BY <1>0, <1>7, <3>1 DEF flush_node, Drain, loopVars, TypeOK
    <3>2. CASE ~sending
      <4>1. Turn(queue)  BY <1>7, <3>2 DEF flush_node, Drain
      <4>2. queue \in Seq(Bodies) /\ Len(queue) <= MaxQueue  BY <1>0 DEF TypeOK
      <4>3. QED  BY <1>0, <4>1, <4>2, TurnTyped
    <3>3. QED  BY <3>1, <3>2
  <2>2. flushes' \in 0 .. MaxFlushes  BY <1>0, <1>7 DEF flush_node, TypeOK, Calls
  <2>3. flush' \in [Calls -> {"none", "waiting", "drained", "late"}]
    BY <1>0, <1>7 DEF flush_node, TypeOK
  <2>4. QED  BY <1>0, <1>7, <2>1, <2>2, <2>3 DEF flush_node, TypeOK
<1>8. ASSUME NEW f \in Calls, FlushEnds(f)  PROVE TypeOK'
  <2>1. flush' \in [Calls -> {"none", "waiting", "drained", "late"}]
    BY <1>0, <1>8 DEF FlushEnds, Answer, TypeOK
  <2>2. QED  BY <1>0, <1>8, <2>1 DEF FlushEnds, TypeOK, loopVars
<1>10. ASSUME close  PROVE TypeOK'
  <2>1. <<>> \in Seq(Bodies) /\ Len(<<>>) <= MaxQueue  BY BodiesAre
  <2>2. thrown' \subseteq Bodies
    <3>1. DOMAIN queue = 1 .. Len(queue) /\ \A i \in 1 .. Len(queue) : queue[i] \in Bodies
      BY <1>0 DEF TypeOK
    <3>2. QED  BY <1>10, <3>1 DEF close, Members
  <2>3. queue' = <<>> /\ closed' = TRUE /\ UNCHANGED <<sdk, loopVars, flush, accepted, flushes, overflows>>
    BY <1>10 DEF close
  <2>4. QED  BY <1>0, <2>1, <2>2, <2>3 DEF TypeOK, loopVars
<1>9. QED
  BY <1>2, <1>3, <1>4, <1>5, <1>6, <1>7, <1>8, <1>10 DEF Next, Loop, Application

\* The loop after a turn, and a queue it may meet.
LEMMA TurnLoops ==
    ASSUME NEW q, Turn(q), closed => q = <<>>
    PROVE  queue' = q /\ (loop' = "idle" => q = <<>>) /\ (q = <<>> => loop' = "idle")
BY DEF Turn, Post, Stop

LEMMA StepLoops ==
    ASSUME Inv, Next
    PROVE  Loops'
<1>0. TypeOK /\ Ordered /\ Loops  BY DEF Inv
<1>1. ASSUME Turn(Rest(queue)), UNCHANGED Outside  PROVE Loops'
  <2>1. closed \/ queue = <<>> => Rest(queue) = <<>>  BY <1>0 DEF Loops, Rest
  <2>2. QED  BY <1>0, <1>1, <2>1, TurnLoops DEF Loops, Outside
<1>2. ASSUME NEW o \in Outcomes, Reply(o)  PROVE Loops'
  <2>1. CASE Shift  BY <1>1, <1>2, <2>1 DEF Reply, Shift
  <2>2. CASE /\ loop' \in {"delay", "limited"} /\ loop = "posting"
             /\ UNCHANGED <<queue, sending, body, attempt, posts, Outside>>
    BY <1>0, <2>2 DEF Loops, Outside
  <2>3. QED  BY <1>2, <2>1, <2>2 DEF Reply
<1>3. ASSUME Retry  PROVE Loops'
  BY <1>0, <1>3 DEF Retry, Post, Loops, Outside
<1>4. ASSUME GiveUp  PROVE Loops'
  BY <1>1, <1>4 DEF GiveUp, Shift
<1>5. ASSUME send  PROVE Loops'
  <2>1. PICK n \in Nat : n = accepted + 1 /\ n <= MaxEvents
    BY <1>0, <1>5, BodiesAre DEF send, TypeOK
  <2>2. PICK p : p = Append(queue, n)  OBVIOUS
  <2>3. PICK q : q = Enqueued(p)  OBVIOUS
  <2>4. q # <<>>  BY <1>0, <2>1, <2>2, <2>3, PushSound
  <2>5. /\ Drain(q) /\ ~closed /\ flush[0] = "none" /\ UNCHANGED <<sdk, closed, flush, thrown>>
    BY <1>5, <2>1, <2>2, <2>3 DEF send, Closing
  <2>6. queue' = q /\ loop' # "idle"
    <3>1. CASE sending  BY <1>0, <2>5, <3>1 DEF Drain, loopVars, TypeOK
    <3>2. CASE ~sending  BY <2>4, <2>5, <3>2, TurnLoops DEF Drain
    <3>3. QED  BY <3>1, <3>2
  <2>7. QED  BY <1>0, <2>4, <2>5, <2>6 DEF Loops
<1>6. ASSUME flush_browser  PROVE Loops'
  BY <1>0, <1>6 DEF flush_browser, Loops
<1>7. ASSUME NEW f \in Calls, flush_node(f)  PROVE Loops'
  <2>1. /\ Drain(queue) /\ ~closed /\ sdk = "node" /\ UNCHANGED <<sdk, closed, thrown>>
        /\ flush' = [flush EXCEPT ![f] = IF queue = <<>> THEN "drained" ELSE "waiting"]
        /\ flush[0] = "none"
    BY <1>7 DEF flush_node, Closing
  <2>2. queue' = queue /\ (loop' = "idle" => queue = <<>>) /\ (queue # <<>> \/ loop' = "idle")
    <3>1. CASE sending
      <4>1. queue' = queue /\ loop' = loop /\ loop # "idle"
        BY <1>0, <2>1, <3>1 DEF Drain, loopVars, TypeOK
      <4>2. QED  BY <1>0, <2>1, <4>1 DEF Loops
    <3>2. CASE ~sending  BY <2>1, <3>2, TurnLoops DEF Drain
    <3>3. QED  BY <3>1, <3>2
  <2>3. flush'[0] = "drained" => queue = <<>>  BY <1>0, <2>1 DEF TypeOK
  <2>4. QED  BY <1>0, <2>1, <2>2, <2>3 DEF Loops
<1>8. ASSUME NEW f \in Calls, FlushEnds(f)  PROVE Loops'
  <2>1. /\ UNCHANGED <<sdk, queue, loop, closed, thrown>> /\ flush[f] = "waiting"
        /\ flush' = [flush EXCEPT ![f] = Answer]
    BY <1>8 DEF FlushEnds, loopVars
  <2>2. CASE f = 0
    <3>0. \A g \in Calls : flush'[g] # "none" => sdk = "node"  BY <1>0, <2>1 DEF Loops, TypeOK
    <3>1. flush'[0] = Answer  BY <1>0, <2>1, <2>2 DEF TypeOK
    <3>2. sdk = "node" => ~closed  BY <1>0, <2>1, <2>2 DEF Loops
    <3>3. QED  BY <1>0, <2>1, <3>0, <3>1, <3>2 DEF Loops, Answer
  <2>3. CASE f # 0
    <3>0. \A g \in Calls : flush'[g] # "none" => sdk = "node"  BY <1>0, <2>1 DEF Loops, TypeOK
    <3>1. flush'[0] = flush[0]  BY <1>0, <2>1, <2>3 DEF TypeOK
    <3>2. QED  BY <1>0, <2>1, <3>0, <3>1 DEF Loops
  <2>4. QED  BY <2>2, <2>3
<1>10. ASSUME close  PROVE Loops'
  <2>1. /\ closed' = TRUE /\ queue' = <<>> /\ thrown' = Members(queue)
        /\ UNCHANGED <<sdk, loop, flush>> /\ (sdk = "node" => flush[0] \in {"drained", "late"})
    BY <1>10 DEF close, loopVars
  <2>2. queue = <<>> => thrown' = {}  BY <2>1 DEF Members
  <2>3. QED  BY <1>0, <2>1, <2>2 DEF Loops
<1>9. QED
  BY <1>2, <1>3, <1>4, <1>5, <1>6, <1>7, <1>8, <1>10 DEF Next, Loop, Application

LEMMA StepOrdered ==
    ASSUME Inv, Next
    PROVE  Ordered'
<1>0. /\ TypeOK /\ Ordered /\ Loops /\ accepted \in Nat
      /\ posts \in Seq(Nat) /\ queue \in Seq(Nat)
  <2>1. ASSUME NEW s \in Seq(Bodies)  PROVE s \in Seq(Nat)
    <3>1. /\ s \in [1 .. Len(s) -> Bodies] /\ Len(s) \in Nat  OBVIOUS
    <3>2. s \in [1 .. Len(s) -> Nat]  BY <3>1, BodiesAre
    <3>3. QED  BY <3>1, <3>2
  <2>2. QED  BY <2>1 DEF Inv, TypeOK
<1>s. Rising(<<>>) /\ Members(<<>>) = {} /\ \A s : Follows(<<>>, s)
  BY DEF Rising, Members, Follows
<1>1. ASSUME Turn(Rest(queue)), UNCHANGED Outside  PROVE Ordered'
  <2>1. PICK n \in Nat : n = accepted /\ n = accepted'  BY <1>0, <1>1 DEF Outside
  <2>2. Members(queue) \subseteq 1 .. n /\ Members(posts) \subseteq 1 .. n
    BY <1>0, <2>1 DEF Ordered
  <2>3. PICK q : q = Rest(queue)  OBVIOUS
  <2>4. /\ q \in Seq(Bodies) /\ Rising(q) /\ Follows(q, posts)
        /\ Members(q) \subseteq Members(queue)
    BY <1>0, <2>3, RestSound
  <2>5. QED  BY <1>0, <1>1, <2>1, <2>2, <2>3, <2>4, TurnOrdered
<1>2. ASSUME NEW o \in Outcomes, Reply(o)  PROVE Ordered'
  <2>1. CASE Shift  BY <1>1, <1>2, <2>1 DEF Reply, Shift
  <2>2. CASE /\ loop' \in {"delay", "limited"} /\ loop = "posting"
             /\ UNCHANGED <<queue, sending, body, attempt, posts, Outside>>
    BY <1>0, <2>2 DEF Ordered, Outside
  <2>3. QED  BY <1>2, <2>1, <2>2 DEF Reply
<1>3. ASSUME Retry  PROVE Ordered'
  <2>1. /\ body' = body /\ posts' = Append(posts, body) /\ loop # "idle"
        /\ UNCHANGED <<queue, accepted>>
    BY <1>3 DEF Retry, Post, Outside
  <2>2. body \in Members(posts) /\ body \in Nat  BY <1>0, <2>1 DEF Ordered
  <2>3. Members(posts') = Members(posts)
    <3>1. Members(Append(posts, body)) = Members(posts) \cup {body}  BY <1>0, <2>2, Appended
    <3>2. QED  BY <2>1, <2>2, <3>1
  <2>4. InOrder(posts')  BY <1>0, <2>1, <2>2, InOrderAppended DEF Ordered
  <2>5. QED  BY <1>0, <2>1, <2>2, <2>3, <2>4 DEF Ordered, Follows
<1>4. ASSUME GiveUp  PROVE Ordered'
  BY <1>1, <1>4 DEF GiveUp, Shift
<1>5. ASSUME send  PROVE Ordered'
  <2>1. PICK n \in Nat : n = accepted + 1 /\ n <= MaxEvents
    BY <1>0, <1>5, BodiesAre DEF send, TypeOK
  <2>2. PICK p : p = Append(queue, n)  OBVIOUS
  <2>3. PICK q : q = Enqueued(p)  OBVIOUS
  <2>4. /\ q \in Seq(Bodies) /\ Rising(q) /\ Follows(q, posts) /\ Members(q) \subseteq 1 .. n
    BY <1>0, <2>1, <2>2, <2>3, PushSound
  <2>5. Drain(q) /\ accepted' = n  BY <1>5, <2>1, <2>2, <2>3 DEF send
  <2>6. Members(posts) \subseteq 1 .. n  BY <1>0, <2>1 DEF Ordered
  <2>7. CASE sending
    <3>1. queue' = q /\ UNCHANGED <<loop, body, posts>>  BY <2>5, <2>7 DEF Drain, loopVars
    <3>2. QED  BY <1>0, <2>4, <2>5, <2>6, <3>1 DEF Ordered
  <2>8. CASE ~sending
    <3>1. Turn(q)  BY <2>5, <2>8 DEF Drain
    <3>2. QED  BY <1>0, <2>4, <2>5, <2>6, <3>1, TurnOrdered
  <2>9. QED  BY <2>7, <2>8
<1>6. ASSUME flush_browser  PROVE Ordered'
  <2>1. /\ posts' = posts \o queue /\ queue' = <<>> /\ UNCHANGED <<accepted, loop, body>>
    BY <1>6 DEF flush_browser
  <2>2. Members(posts') = Members(posts) \cup Members(queue)  BY <1>0, <2>1, Joined
  <2>3. InOrder(posts')  BY <1>0, <2>1, InOrderJoined DEF Ordered
  <2>4. QED  BY <1>0, <1>s, <2>1, <2>2, <2>3 DEF Ordered
<1>7. ASSUME NEW f \in Calls, flush_node(f)  PROVE Ordered'
  <2>1. Drain(queue) /\ accepted' = accepted  BY <1>7 DEF flush_node
  <2>2. UNCHANGED <<queue, posts>> /\ (loop' = "idle" \/ (loop' = loop /\ body' = body))
    <3>1. CASE sending  BY <2>1, <3>1 DEF Drain, loopVars
    <3>2. CASE ~sending
      <4>1. queue = <<>>  BY <1>0, <3>2 DEF Loops, TypeOK
      <4>2. QED  BY <2>1, <3>2, <4>1 DEF Drain, Turn, Stop
    <3>3. QED  BY <3>1, <3>2
  <2>3. QED  BY <1>0, <2>1, <2>2 DEF Ordered
<1>8. ASSUME close \/ \E f \in Calls : FlushEnds(f)  PROVE Ordered'
  <2>1. UNCHANGED <<loop, body, posts, accepted>> /\ (queue' = queue \/ queue' = <<>>)
    BY <1>8 DEF FlushEnds, close, loopVars
  <2>2. QED  BY <1>0, <1>s, <2>1 DEF Ordered
<1>9. QED
  BY <1>2, <1>3, <1>4, <1>5, <1>6, <1>7, <1>8 DEF Next, Loop, Application

-----------------------------------------------------------------------------
(* What is lost.                                                           *)

\* A finite set that loses members, or gains at most one.
LEMMA AtMostOneMore ==
    ASSUME NEW S, IsFiniteSet(S), NEW T, NEW x, T \subseteq S \cup {x}
    PROVE  /\ Cardinality(T) \in Nat /\ Cardinality(S) \in Nat
           /\ Cardinality(T) <= Cardinality(S) + 1
           /\ T \subseteq S => Cardinality(T) <= Cardinality(S)
<1>0. Cardinality(S) \in Nat  BY FS_CardinalityType
<1>1. IsFiniteSet(S \cup {x}) /\ Cardinality(S \cup {x}) <= Cardinality(S) + 1
  <2>1. CASE x \in S
    <3>1. S \cup {x} = S  BY <2>1
    <3>2. QED  BY <1>0, <3>1
  <2>2. CASE x \notin S
    <3>1. IsFiniteSet(S \cup {x}) /\ Cardinality(S \cup {x}) = Cardinality(S) + 1
      BY <2>2, FS_AddElement
    <3>2. QED  BY <1>0, <3>1
  <2>3. QED  BY <2>1, <2>2
<1>2. IsFiniteSet(T) /\ Cardinality(T) <= Cardinality(S \cup {x})
  BY <1>1, FS_Subset
<1>3. Cardinality(T) \in Nat /\ Cardinality(S \cup {x}) \in Nat
  BY <1>1, <1>2, FS_CardinalityType
<1>4. T \subseteq S => Cardinality(T) <= Cardinality(S)  BY FS_Subset
<1>5. QED  BY <1>0, <1>1, <1>2, <1>3, <1>4

\* The step in terms of what it loses and whether the head slips.
LEMMA LossStep ==
    ASSUME TypeOK, overflows' \in Nat, LossCounted, NEW x,
           ~closed' /\ (sdk' = "browser" => flushes' = 0) =>
               /\ ~closed /\ (sdk = "browser" => flushes = 0)
               /\ \/ Lost' \subseteq Lost /\ Slip' <= Slip /\ overflows' = overflows
                  \/ Lost' \subseteq Lost \cup {x} /\ Slip = 1 /\ Slip' = 0
                     /\ overflows' = overflows
                  \/ Lost' \subseteq Lost /\ overflows' = overflows + 1
                  \/ Lost' \subseteq Lost \cup {x} /\ Slip = 1 /\ overflows' = overflows + 1
    PROVE  LossCounted'
<1>1. Slip \in {0, 1} /\ Slip' \in {0, 1}  BY DEF Slip
<1>2. IsFiniteSet(Lost)
  <2>1. accepted \in Nat /\ Lost \in SUBSET (1 .. accepted)  BY DEF TypeOK, Lost
  <2>2. IsFiniteSet(1 .. accepted)  BY <2>1, FS_Interval
  <2>3. QED  BY <2>1, <2>2, FS_Subset
<1>3. PICK T : T = Lost'  OBVIOUS
<1>4. overflows \in Nat  BY DEF TypeOK
<1> SUFFICES ASSUME ~closed', sdk' = "browser" => flushes' = 0
             PROVE  Cardinality(T) + Slip' <= overflows'
  BY <1>3 DEF LossCounted
<1>5. Cardinality(Lost) + Slip <= overflows  BY DEF LossCounted
<1>6. T \subseteq Lost \cup {x}  BY <1>3
<1>7. /\ Cardinality(T) \in Nat /\ Cardinality(Lost) \in Nat
      /\ Cardinality(T) <= Cardinality(Lost) + 1
      /\ T \subseteq Lost => Cardinality(T) <= Cardinality(Lost)
  BY <1>2, <1>6, AtMostOneMore
<1>8. QED  BY <1>1, <1>3, <1>4, <1>5, <1>7

\* A turn of the loop posts the head of what it finds.
LEMMA TurnSends ==
    ASSUME NEW q \in Seq(Bodies), posts \in Seq(Bodies), Turn(q)
    PROVE  /\ queue' = q /\ Slip' = 0 /\ Members(posts) \subseteq Members(posts')
           /\ q # <<>> /\ ~closed => Members(posts') = Members(posts) \cup {Head(q)}
<1>1. CASE q # <<>> /\ ~closed
  <2>1. PICK h : h = Head(q)  OBVIOUS
  <2>2. h \in Bodies  BY <1>1, <2>1, Shifted
  <2>3. queue' = q /\ loop' = "posting" /\ body' = h /\ posts' = Append(posts, h)
    BY <1>1, <2>1 DEF Turn, Post
  <2>4. Members(Append(posts, h)) = Members(posts) \cup {h}  BY <2>2, Appended
  <2>5. Slip' = 0  BY <1>1, <2>1, <2>3 DEF Slip
  <2>6. QED  BY <2>1, <2>3, <2>4, <2>5
<1>2. CASE ~ (q # <<>> /\ ~closed)
  BY <1>2 DEF Turn, Stop, Slip
<1>3. QED  BY <1>1, <1>2

LEMMA StepLossCounted ==
    ASSUME Inv, Next
    PROVE  LossCounted'
<1>0. /\ TypeOK /\ Ordered /\ Loops /\ LossCounted /\ accepted \in Nat
      /\ posts \in Seq(Bodies) /\ queue \in Seq(Bodies) /\ overflows \in Nat
  BY DEF Inv, TypeOK
<1>t. overflows' \in Nat  BY StepTypeOK DEF TypeOK
<1>1. ASSUME Turn(Rest(queue)), UNCHANGED Outside, loop # "idle"  PROVE LossCounted'
  <2>1. UNCHANGED <<accepted, overflows, closed, sdk, flushes>>  BY <1>1 DEF Outside
  <2>2. Rest(queue) \in Seq(Bodies)  BY <1>0, RestSound
  <2>3. queue' = Rest(queue) /\ Slip' = 0 /\ Members(posts) \subseteq Members(posts')
    BY <1>0, <1>1, <2>2, TurnSends
  <2>4. CASE queue = <<>>
    <3>1. queue' = queue  BY <2>3, <2>4 DEF Rest
    <3>2. Lost' \subseteq Lost  BY <2>1, <2>3, <3>1 DEF Lost
    <3>3. Slip' <= Slip  BY <2>3 DEF Slip
    <3>4. QED  BY <1>0, <1>t, <2>1, <3>2, <3>3, LossStep
  <2>5. CASE queue # <<>>
    <3>1. PICK h : h = Head(queue)  OBVIOUS
    <3>2. Members(queue) = Members(Tail(queue)) \cup {h}  BY <1>0, <2>5, <3>1, Shifted
    <3>3. Members(queue) = Members(queue') \cup {h}  BY <2>3, <2>5, <3>2 DEF Rest
    <3>4. Lost' \subseteq Lost \cup {h}  BY <2>1, <2>3, <3>3 DEF Lost
    <3>5. CASE h = body
      <4>1. h \in Members(posts)  BY <1>0, <1>1, <3>5 DEF Ordered
      <4>2. Lost' \subseteq Lost  BY <2>1, <2>3, <3>3, <4>1 DEF Lost
      <4>3. Slip' <= Slip  BY <2>3 DEF Slip
      <4>4. QED  BY <1>0, <1>t, <2>1, <4>2, <4>3, LossStep
    <3>6. CASE h # body
      <4>1. Slip = 1  BY <1>1, <3>1, <3>6 DEF Slip
      <4>2. QED  BY <1>0, <1>t, <2>1, <2>3, <3>4, <4>1, LossStep
    <3>7. QED  BY <3>5, <3>6
  <2>6. QED  BY <2>4, <2>5
<1>2. ASSUME UNCHANGED <<accepted, overflows, closed, sdk, flushes, queue, posts>>, Slip' <= Slip
      PROVE  LossCounted'
  <2>1. Lost' \subseteq Lost  BY <1>2 DEF Lost
  <2>2. QED  BY <1>0, <1>t, <1>2, <2>1, LossStep
<1>3. ASSUME NEW o \in Outcomes, Reply(o)  PROVE LossCounted'
  <2>1. CASE Shift  BY <1>1, <1>3, <2>1 DEF Reply, Shift
  <2>2. CASE /\ loop' \in {"delay", "limited"} /\ loop = "posting"
             /\ UNCHANGED <<queue, sending, body, attempt, posts, Outside>>
    BY <1>2, <2>2 DEF Slip, Outside
  <2>3. QED  BY <1>3, <2>1, <2>2 DEF Reply
<1>4. ASSUME Retry  PROVE LossCounted'
  <2>1. /\ body' = body /\ posts' = Append(posts, body) /\ loop # "idle" /\ loop' # "idle"
        /\ UNCHANGED <<queue, accepted, overflows, closed, sdk, flushes>>
    BY <1>4 DEF Retry, Post, Outside
  <2>2. body \in Bodies  BY <1>0, <2>1 DEF Ordered, TypeOK, Members
  <2>3. Members(Append(posts, body)) = Members(posts) \cup {body}  BY <1>0, <2>2, Appended
  <2>4. Lost' \subseteq Lost  BY <2>1, <2>3 DEF Lost
  <2>5. Slip' <= Slip  BY <2>1 DEF Slip
  <2>6. QED  BY <1>0, <1>t, <2>1, <2>4, <2>5, LossStep
<1>5. ASSUME GiveUp  PROVE LossCounted'
  BY <1>1, <1>5 DEF GiveUp, Shift
<1>6. ASSUME send  PROVE LossCounted'
  <2>1. PICK n \in Nat : n = accepted + 1 /\ n <= MaxEvents
    BY <1>0, <1>6, BodiesAre DEF send, TypeOK
  <2>2. PICK p : p = Append(queue, n)  OBVIOUS
  <2>3. PICK q : q = Enqueued(p)  OBVIOUS
  <2>4. /\ q \in Seq(Bodies) /\ n \in Members(q) /\ q # <<>>
        /\ Len(p) > MaxQueue => /\ queue # <<>>
                                /\ Members(queue) \subseteq Members(q) \cup {Head(queue)}
        /\ ~ (Len(p) > MaxQueue) => /\ q = p /\ Members(queue) \subseteq Members(q)
                                    /\ queue # <<>> => Head(q) = Head(queue)
    BY <1>0, <2>1, <2>2, <2>3, PushSound, ZenonT(40)
  <2>5. /\ accepted' = n /\ overflows' = overflows + Overflows(p) /\ Drain(q)
        /\ UNCHANGED <<sdk, closed, flush, flushes, thrown>>
    BY <1>6, <2>1, <2>2, <2>3 DEF send
  <2>6. 1 .. accepted' = (1 .. accepted) \cup {n}  BY <1>0, <2>1, <2>5
  <2>7. CASE ~sending
    <3>1. queue = <<>>  BY <1>0, <2>7 DEF Loops, TypeOK
    <3>2. overflows' = overflows  BY <1>0, <2>4, <2>5, <3>1 DEF Overflows
    <3>3. queue' = q /\ Slip' = 0 /\ Members(posts) \subseteq Members(posts')
      BY <1>0, <2>4, <2>5, <2>7, TurnSends DEF Drain
    <3>4. Members(queue) \subseteq Members(queue')  BY <2>4, <3>1, <3>3
    <3>5. Lost' \subseteq Lost  BY <2>4, <2>6, <3>3, <3>4 DEF Lost
    <3>6. Slip' <= Slip  BY <3>3 DEF Slip
    <3>7. QED  BY <1>0, <1>t, <2>5, <3>2, <3>5, <3>6, LossStep
  <2>8. CASE sending
    <3>1. queue' = q /\ UNCHANGED <<loop, body, posts>>  BY <2>5, <2>8 DEF Drain, loopVars
    <3>2. loop # "idle"  BY <1>0, <2>8 DEF TypeOK
    <3>3. CASE Len(p) > MaxQueue
      <4>1. PICK h : h = Head(queue)  OBVIOUS
      <4>2. Members(queue) \subseteq Members(queue') \cup {h} /\ queue # <<>>
        BY <2>4, <3>1, <3>3, <4>1
      <4>3. overflows' = overflows + 1  BY <2>5, <3>3 DEF Overflows
      <4>4. Lost' \subseteq Lost \cup {h}  BY <2>4, <2>6, <3>1, <4>2 DEF Lost
      <4>5. CASE h = body
        <5>1. h \in Members(posts)  BY <1>0, <3>2, <4>5 DEF Ordered
        <5>2. Lost' \subseteq Lost  BY <2>4, <2>6, <3>1, <4>2, <5>1 DEF Lost
        <5>3. QED  BY <1>0, <1>t, <2>5, <4>3, <5>2, LossStep
      <4>6. CASE h # body
        <5>1. Slip = 1  BY <3>2, <4>1, <4>6 DEF Slip
        <5>2. QED  BY <1>0, <1>t, <2>5, <4>3, <4>4, <5>1, LossStep
      <4>7. QED  BY <4>5, <4>6
    <3>4. CASE ~ (Len(p) > MaxQueue)
      <4>1. overflows' = overflows  BY <1>0, <2>5, <3>4 DEF Overflows
      <4>2. Lost' \subseteq Lost  BY <2>4, <2>6, <3>1, <3>4 DEF Lost
      <4>3. Slip' <= Slip  BY <2>4, <3>1, <3>4 DEF Slip
      <4>4. QED  BY <1>0, <1>t, <2>5, <4>1, <4>2, <4>3, LossStep
    <3>5. QED  BY <3>3, <3>4
  <2>9. QED  BY <2>7, <2>8
<1>7. ASSUME flush_browser  PROVE LossCounted'
  <2>1. flushes' # 0 /\ sdk' = "browser"  BY <1>0, <1>7 DEF flush_browser, TypeOK
  <2>2. QED  BY <2>1 DEF LossCounted
<1>8. ASSUME NEW f \in Calls, flush_node(f)  PROVE LossCounted'
  <2>1. Drain(queue) /\ UNCHANGED <<sdk, closed, accepted, overflows>> /\ sdk = "node"
    BY <1>8 DEF flush_node
  <2>2. UNCHANGED <<queue, posts>> /\ Slip' <= Slip
    <3>1. CASE sending  BY <2>1, <3>1 DEF Drain, loopVars, Slip
    <3>2. CASE ~sending
      <4>1. queue = <<>>  BY <1>0, <3>2 DEF Loops, TypeOK
      <4>2. QED  BY <2>1, <3>2, <4>1 DEF Drain, Turn, Stop, Slip
    <3>3. QED  BY <3>1, <3>2
  <2>3. Lost' \subseteq Lost  BY <2>1, <2>2 DEF Lost
  <2>4. QED  BY <1>0, <1>t, <2>1, <2>2, <2>3, LossStep
<1>9. ASSUME close \/ \E f \in Calls : FlushEnds(f)  PROVE LossCounted'
  <2>1. CASE close
    <3>1. closed'  BY <2>1 DEF close
    <3>2. QED  BY <3>1 DEF LossCounted
  <2>2. CASE \E f \in Calls : FlushEnds(f)
    <3>1. UNCHANGED <<accepted, overflows, closed, sdk, flushes, queue, posts, loop, body>>
      BY <2>2 DEF FlushEnds, loopVars
    <3>2. QED  BY <1>2, <3>1 DEF Slip
  <2>3. QED  BY <1>9, <2>1, <2>2
<1>10. QED
  BY <1>3, <1>4, <1>5, <1>6, <1>7, <1>8, <1>9 DEF Next, Loop, Application

\* A closed transport accepts nothing and its queue stays empty: what it lost only shrinks.
LEMMA StepThrownCounted ==
    ASSUME Inv, Next
    PROVE  ThrownCounted'
<1>0. /\ TypeOK /\ Loops /\ ThrownCounted /\ posts \in Seq(Bodies) /\ queue \in Seq(Bodies)
      /\ overflows \in Nat /\ accepted \in Nat
  BY DEF Inv, TypeOK
<1>f. IsFiniteSet(Lost)
  <2>1. IsFiniteSet(1 .. accepted)  BY <1>0, FS_Interval
  <2>2. Lost \subseteq 1 .. accepted  BY DEF Lost
  <2>3. QED  BY <2>1, <2>2, FS_Subset
<1> SUFFICES ASSUME sdk' = "node", closed'  PROVE Cardinality((Lost \ thrown)') <= overflows'
  BY DEF ThrownCounted
<1>1. CASE closed
  <2>0. sdk = "node"
    BY DEF Next, Loop, Application, Reply, Retry, GiveUp, send, flush_browser, flush_node,
           FlushEnds, close, Outside
  <2>1. queue = <<>> /\ flush[0] # "none"  BY <1>0, <1>1, <2>0 DEF Loops
  <2>2. ~send /\ ~flush_browser /\ ~close  BY <1>1 DEF send, flush_browser, close
  <2>3. \A f \in Calls : ~flush_node(f)  BY <1>1 DEF flush_node
  <2>4. UNCHANGED <<accepted, overflows, thrown>>
    BY <2>2, <2>3 DEF Next, Loop, Application, Reply, Retry, GiveUp, FlushEnds, Outside
  <2>5. Members(posts) \subseteq Members(posts')
    <3>1. CASE Shift
      <4>1. Turn(<<>>)  BY <2>1, <3>1 DEF Shift, Rest
      <4>2. <<>> \in Seq(Bodies)  OBVIOUS
      <4>3. QED  BY <1>0, <4>1, <4>2, TurnSends
    <3>2. CASE Retry
      <4>1. posts' = Append(posts, body) /\ body \in Bodies
        <5>1. loop # "idle" /\ posts' = Append(posts, body)  BY <3>2 DEF Retry, Post
        <5>2. body \in Members(posts)  BY <5>1 DEF Inv, Ordered
        <5>3. QED  BY <1>0, <5>1, <5>2 DEF Members
      <4>2. QED  BY <1>0, <4>1, Appended
    <3>3. CASE posts' = posts  BY <3>3
    <3>4. QED
      BY <2>2, <2>3, <3>1, <3>2, <3>3
         DEF Next, Loop, Application, Reply, GiveUp, FlushEnds, loopVars
  <2>6. (Lost \ thrown)' \subseteq Lost \ thrown
    <3>1. Members(queue) = {}  BY <2>1 DEF Members
    <3>2. QED  BY <2>4, <2>5, <3>1 DEF Lost
  <2>7. IsFiniteSet(Lost \ thrown)  BY <1>f, FS_Subset
  <2>8. QED
    <3>1. Cardinality(Lost \ thrown) <= overflows  BY <1>0, <1>1, <2>0 DEF ThrownCounted
    <3>2. PICK T : T = (Lost \ thrown)'  OBVIOUS
    <3>3. PICK S : S = Lost \ thrown  OBVIOUS
    <3>4. IsFiniteSet(S) /\ T \subseteq S  BY <2>6, <2>7, <3>2, <3>3
    <3>5. Cardinality(T) <= Cardinality(S) /\ Cardinality(T) \in Nat /\ Cardinality(S) \in Nat
      BY <3>4, FS_Subset, FS_CardinalityType
    <3>6. QED  BY <1>0, <2>4, <3>1, <3>2, <3>3, <3>5
<1>2. CASE ~closed
  <2>1. close
    BY <1>2 DEF Next, Loop, Application, Reply, Retry, GiveUp, send, flush_browser, flush_node,
                FlushEnds, Outside
  <2>2. /\ sdk = "node" /\ queue' = <<>> /\ thrown' = Members(queue)
        /\ UNCHANGED <<posts, accepted, overflows>>
    BY <2>1 DEF close, loopVars
  <2>3. (Lost \ thrown)' \subseteq Lost  BY <2>2 DEF Lost
  <2>4. Cardinality(Lost) <= overflows /\ Cardinality(Lost) \in Nat
    BY <1>0, <1>2, <1>f, <2>2, FS_CardinalityType DEF Inv, LossCounted, Slip
  <2>5. PICK T : T = (Lost \ thrown)'  OBVIOUS
  <2>6. Cardinality(T) <= Cardinality(Lost) /\ Cardinality(T) \in Nat
    <3>1. T \subseteq Lost  BY <2>3, <2>5
    <3>2. QED  BY <1>f, <3>1, FS_Subset, FS_CardinalityType
  <2>7. QED  BY <1>0, <2>2, <2>4, <2>5, <2>6
<1>3. QED  BY <1>1, <1>2

LEMMA InvHolds == Spec => []Inv
<1>1. Inv /\ [Next]_vars => Inv'
  <2>1. Inv /\ Next => Inv'
    BY StepTypeOK, StepLoops, StepOrdered, StepLossCounted, StepThrownCounted DEF Inv
  <2>2. Inv /\ UNCHANGED vars => Inv'
    BY DEF vars, loopVars, Inv, TypeOK, Loops, Ordered, LossCounted, ThrownCounted, Lost, Slip
  <2>3. QED  BY <2>1, <2>2
<1>2. QED  BY InitInv, <1>1, PTL DEF Spec

\* What the invariant bounds: Slip is never negative.
LEMMA LossWithinBound ==
    ASSUME Inv
    PROVE  LossBound
<1>1. overflows \in Nat /\ accepted \in Nat /\ Lost \in SUBSET (1 .. accepted)
  BY DEF Inv, TypeOK, Lost
<1>2. Cardinality(Lost) \in Nat
  <2>1. IsFiniteSet(1 .. accepted)  BY <1>1, FS_Interval
  <2>2. QED  BY <1>1, <2>1, FS_Subset, FS_CardinalityType
<1>3. QED  BY <1>1, <1>2 DEF Inv, LossCounted, LossBound, Slip

\* Every variable has its type, the queue its bound, and the flag "sending" tells whether
\* the loop runs.
THEOREM TypeOKHolds == Spec => []TypeOK
<1>1. Inv => TypeOK  BY DEF Inv
<1>2. QED  BY <1>1, InvHolds, PTL

\* Events leave for the first time in the order they were captured, whatever sends, retries
\* and overflows run beside each other; and a transport that was not flushed past its loop
\* or closed loses no more of them than a full queue pushed out.
THEOREM DropsOldestHolds == Spec => []DropsOldest
<1>1. Inv => DropsOldest
  <2> SUFFICES ASSUME Inv  PROVE DropsOldest  OBVIOUS
  <2>1. FirstPostsInOrder  BY DEF Inv, Ordered, InOrder, FirstPostsInOrder
  <2>2. QED  BY <2>1, LossWithinBound DEF DropsOldest
<1>2. QED  BY <1>1, InvHolds, PTL

\* A flush of the Node client that answers true sees no request under way and nothing lost
\* that a full queue did not push out, however many flushes poll beside it; unless close()
\* emptied the queue under it, whose own flush had run out of time: then what is lost
\* beside is what was pushed out.
THEOREM FlushIsHonestHolds == Spec => FlushIsHonest
<1>1. Inv /\ [Next]_vars
        => [\A f \in Calls : Answered(f) =>
              \/ loop = "idle" /\ Cardinality(Lost) <= overflows
              \/ /\ closed /\ flush[0] = "late"
                 /\ Cardinality(Lost \ thrown) <= overflows]_vars
  <2> SUFFICES ASSUME Inv, Next, NEW f \in Calls, flush[f] # "drained", flush'[f] = "drained"
               PROVE  \/ loop = "idle" /\ Cardinality(Lost) <= overflows
                      \/ /\ closed /\ flush[0] = "late"
                         /\ Cardinality(Lost \ thrown) <= overflows
    BY DEF Answered
  <2>0. flush \in [Calls -> {"none", "waiting", "drained", "late"}]  BY DEF Inv, TypeOK
  <2>1. queue = <<>> /\ sdk = "node" /\ (closed => flush[f] = "waiting")
    <3>1. ASSUME NEW o \in Outcomes, Reply(o)  PROVE FALSE  BY <3>1 DEF Reply, Outside
    <3>2. ~Retry /\ ~GiveUp  BY DEF Retry, GiveUp, Outside
    <3>3. ~send /\ ~flush_browser /\ ~close  BY DEF send, flush_browser, close
    <3>4. PICK g \in Calls : flush_node(g) \/ FlushEnds(g)
      BY <3>1, <3>2, <3>3 DEF Next, Loop, Application
    <3>5. CASE flush_node(g)
      <4>1. flush' = [flush EXCEPT ![g] = IF queue = <<>> THEN "drained" ELSE "waiting"]
        BY <3>5 DEF flush_node
      <4>2. g = f /\ queue = <<>>  BY <2>0, <4>1
      <4>3. QED  BY <3>5, <4>2 DEF flush_node
    <3>6. CASE FlushEnds(g)
      <4>1. flush' = [flush EXCEPT ![g] = Answer] /\ flush[g] = "waiting"
        BY <3>6 DEF FlushEnds
      <4>2. g = f /\ queue = <<>>  BY <2>0, <4>1 DEF Answer
      <4>3. QED  BY <4>1, <4>2 DEF Inv, Loops
    <3>7. QED  BY <3>4, <3>5, <3>6
  <2>2. CASE ~closed
    <3>1. loop = "idle"  BY <2>1, <2>2 DEF Inv, Loops
    <3>2. QED  BY <2>1, <2>2, <3>1, LossWithinBound DEF LossBound
  <2>3. CASE closed
    <3>1. flush[0] \in {"drained", "late"} /\ Cardinality(Lost \ thrown) <= overflows
      BY <2>1, <2>3 DEF Inv, Loops, ThrownCounted
    <3>2. CASE flush[0] = "drained"
      <4>1. loop = "idle" /\ thrown = {}  BY <2>1, <3>2 DEF Inv, Loops
      <4>2. Lost \ thrown = Lost  BY <4>1
      <4>3. QED  BY <3>1, <4>1, <4>2
    <3>3. QED  BY <2>3, <3>1, <3>2
  <2>4. QED  BY <2>2, <2>3
<1>2. QED  BY <1>1, InvHolds, PTL DEF Spec, FlushIsHonest

=============================================================================
