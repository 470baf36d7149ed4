-------------------------- MODULE PyTransportProofs --------------------------
(***************************************************************************)
(* Theorems about PyTransport, for every number of threads and every size  *)
(* of the queue.                                                           *)
(***************************************************************************)
EXTENDS PyTransport, FiniteSetTheorems, TLAPS

-----------------------------------------------------------------------------
(* Queues and counts.                                                      *)

\* The events of a queue: all of its entries but SHUTDOWN.
EventsOf(q) == Members(q) \ {SHUTDOWN}

\* No event is in a queue twice.
NoRepeats(q) == \A i, j \in DOMAIN q : q[i] = q[j] /\ q[i] # SHUTDOWN => i = j

LEMMA AfterAppend ==
    ASSUME NEW E, NEW q \in Seq(E), NEW e \in E, NoRepeats(q), e \notin EventsOf(q)
    PROVE  /\ EventsOf(Append(q, e)) = EventsOf(q) \cup ({e} \ {SHUTDOWN})
           /\ NoRepeats(Append(q, e))
<1> DEFINE r == Append(q, e)
<1>1. /\ Len(q) \in Nat /\ DOMAIN q = 1..Len(q) /\ DOMAIN r = 1..(Len(q) + 1)
      /\ r[Len(q) + 1] = e /\ \A i \in 1..Len(q) : r[i] = q[i]
  OBVIOUS
<1> HIDE DEF r
<1>2. \A i \in DOMAIN r : i \in DOMAIN q \/ i = Len(q) + 1  BY <1>1
<1>3. Members(r) = Members(q) \cup {e}  BY <1>1, <1>2 DEF Members
<1>4. NoRepeats(r)
  <2> SUFFICES ASSUME NEW i \in DOMAIN r, NEW j \in DOMAIN r, r[i] = r[j], r[i] # SHUTDOWN
               PROVE  i = j
    BY DEF NoRepeats
  <2>1. ASSUME NEW k \in DOMAIN q, q[k] = e  PROVE e = SHUTDOWN
    BY <2>1 DEF EventsOf, Members
  <2>2. QED  BY <1>1, <1>2, <2>1 DEF NoRepeats
<1>5. QED  BY <1>3, <1>4 DEF EventsOf, r

LEMMA AfterTail ==
    ASSUME NEW E, NEW q \in Seq(E), q # <<>>, NoRepeats(q)
    PROVE  /\ EventsOf(Tail(q)) = EventsOf(q) \ {Head(q)}
           /\ Head(q) # SHUTDOWN => Head(q) \in EventsOf(q)
           /\ NoRepeats(Tail(q))
<1> DEFINE r == Tail(q)
<1>1. /\ Len(q) \in Nat \ {0} /\ DOMAIN q = 1..Len(q) /\ DOMAIN r = 1..(Len(q) - 1)
      /\ Head(q) = q[1] /\ \A i \in 1..(Len(q) - 1) : r[i] = q[i + 1]
  OBVIOUS
<1> HIDE DEF r
<1>2. NoRepeats(r)
  <2> SUFFICES ASSUME NEW i \in DOMAIN r, NEW j \in DOMAIN r, r[i] = r[j], r[i] # SHUTDOWN
               PROVE  i = j
    BY DEF NoRepeats
  <2>1. i + 1 \in DOMAIN q /\ j + 1 \in DOMAIN q /\ r[i] = q[i + 1] /\ r[j] = q[j + 1]
    BY <1>1
  <2>2. i + 1 = j + 1  BY <2>1 DEF NoRepeats
  <2>3. QED  BY <1>1, <2>2
<1>3. ASSUME NEW e, e # SHUTDOWN  PROVE e \in Members(r) <=> e \in Members(q) /\ e # Head(q)
  <2>1. ASSUME e \in Members(r)  PROVE e \in Members(q) /\ e # Head(q)
    <3>1. PICK i \in DOMAIN r : e = r[i]  BY <2>1 DEF Members
    <3>2. i + 1 \in DOMAIN q /\ e = q[i + 1] /\ 1 \in DOMAIN q /\ i + 1 # 1  BY <1>1, <3>1
    <3>3. q[1] # e  BY <1>3, <3>2 DEF NoRepeats
    <3>4. QED  BY <1>1, <3>2, <3>3 DEF Members
  <2>2. ASSUME e \in Members(q), e # Head(q)  PROVE e \in Members(r)
    <3>1. PICK i \in DOMAIN q : e = q[i]  BY <2>2 DEF Members
    <3>2. i - 1 \in DOMAIN r /\ e = r[i - 1]  BY <1>1, <2>2, <3>1
    <3>3. QED  BY <3>2 DEF Members
  <2>3. QED  BY <2>1, <2>2
<1>4. Head(q) \in Members(q)  BY <1>1 DEF Members
<1>5. QED  BY <1>2, <1>3, <1>4 DEF EventsOf, r

-----------------------------------------------------------------------------
(* The invariant.                                                          *)

Submitting == {t \in Threads : pc[t] = "submit"}
Counting == {t \in Threads : pc[t] = "count"}
InHand == {inHand} \ {SHUTDOWN}

\* Every submit that was let in will find its place below the bound.
Bounded ==
    /\ IsFiniteSet(Submitting)
    /\ puts + Cardinality(Submitting) <= MaxEvents

\* An event that was put is in exactly one place: queued, in the worker's hand, done, or
\* thrown out by close.
Placed ==
    /\ NoRepeats(queue)
    /\ 1 .. puts = EventsOf(queue) \cup InHand \cup handled \cup evicted
    /\ EventsOf(queue) \cap (InHand \cup handled \cup evicted) = {}
    /\ InHand \cap (handled \cup evicted) = {}
    /\ handled \cap evicted = {}
    /\ worker \in {"waiting", "ended"} <=> inHand = SHUTDOWN
    /\ \A t \in Threads : before[t] <= puts

Inv == TypeOK /\ Bounded /\ Placed /\ PendingCounts /\ FlushIsHonest

\* What PendingCounts counts are finite sets of which the next steps change one member.
CountsAreFinite ==
    /\ IsFiniteSet(EventsOf(queue)) /\ IsFiniteSet(evicted) /\ IsFiniteSet(InHand)
    /\ Cardinality(EventsOf(queue)) \in Nat /\ Cardinality(evicted) \in Nat
    /\ Cardinality(InHand) = IF inHand = SHUTDOWN THEN 0 ELSE 1
    /\ Cardinality(Counting) = IF cond = NoThread THEN 0 ELSE 1

LEMMA Finite == TypeOK /\ Placed => CountsAreFinite
<1> SUFFICES ASSUME TypeOK, Placed  PROVE CountsAreFinite  OBVIOUS
<1>1. IsFiniteSet(1 .. puts)  BY FS_Interval DEF TypeOK
<1>2. EventsOf(queue) \in SUBSET (1 .. puts) /\ evicted \in SUBSET (1 .. puts)  BY DEF Placed
<1>3. IsFiniteSet(EventsOf(queue)) /\ IsFiniteSet(evicted)  BY <1>1, <1>2, FS_Subset
<1>4. InHand = IF inHand = SHUTDOWN THEN {} ELSE {inHand}  BY DEF InHand
<1>5. Counting = IF cond = NoThread THEN {} ELSE {cond}
  BY ThreadsAssumption DEF TypeOK, Counting
<1>6. QED
  BY <1>3, <1>4, <1>5, FS_CardinalityType, FS_EmptySet, FS_Singleton DEF CountsAreFinite

-----------------------------------------------------------------------------
(* Types.                                                                  *)

LEMMA InitInv == Init => Inv
<1> SUFFICES ASSUME Init  PROVE Inv  OBVIOUS
<1>1. TypeOK
  <2>1. queue \in Seq(0 .. MaxEvents) /\ Len(queue) = 0  BY DEF Init
  <2>2. \A t \in Threads : cond # t /\ pc[t] # "count"  BY ThreadsAssumption DEF Init
  <2>3. /\ pc \in [Threads -> {"idle", "submit", "count", "flush", "close", "signal",
                              "evict", "resignal", "join"}]
        /\ inClose \in [Threads -> BOOLEAN] /\ before \in [Threads -> 0 .. MaxEvents]
        /\ result \in [Threads -> {"none", "drained", "late"}]
        /\ 0 \in 0 .. MaxEvents
    BY LimitsAssumption DEF Init
  <2>4. /\ counted = 0 /\ puts = 0 /\ inHand = 0 /\ pending = 0 /\ attempt = 0
        /\ handled = {} /\ evicted = {} /\ cond = NoThread
        /\ closed = FALSE /\ crowded = FALSE /\ worker = "waiting"
    BY DEF Init, SHUTDOWN
  <2>5. /\ counted \in 0 .. puts /\ puts \in 0 .. MaxEvents /\ inHand \in 0 .. MaxEvents
        /\ pending \in Nat /\ attempt \in {0, 1} /\ Len(queue) <= MaxQueue
        /\ handled \subseteq 1 .. MaxEvents /\ evicted \subseteq 1 .. MaxEvents
    BY <2>1, <2>3, <2>4, LimitsAssumption
  <2>6. QED  BY <2>1, <2>2, <2>3, <2>4, <2>5 DEF TypeOK
<1>2. Submitting = {} /\ Counting = {}  BY DEF Init, Submitting, Counting
<1>3. Bounded  BY <1>2, FS_EmptySet, LimitsAssumption DEF Init, Bounded
<1>4. EventsOf(queue) = {} /\ InHand = {} /\ NoRepeats(queue)
  BY DEF Init, EventsOf, Members, InHand, NoRepeats
<1>5. Placed  BY <1>4 DEF Init, Placed
<1>6. PendingCounts
  <2>1. pending = 0 /\ evicted = {}  BY DEF Init
  <2>2. pending + Cardinality(Counting)
          = Cardinality(EventsOf(queue)) + Cardinality(InHand) + Cardinality(evicted)
    BY <1>2, <1>4, <2>1, FS_EmptySet
  <2>3. QED  BY <2>2 DEF PendingCounts, EventsOf, InHand, Counting
<1>7. FlushIsHonest  BY DEF Init, FlushIsHonest
<1>8. QED  BY <1>1, <1>3, <1>5, <1>6, <1>7 DEF Inv

LEMMA PutFits ==
    ASSUME TypeOK, Bounded, NEW t \in Threads, pc[t] = "submit"
    PROVE  puts + 1 \in 0 .. MaxEvents
<1>1. t \in Submitting  BY DEF Submitting
<1>2. Cardinality(Submitting) \in Nat /\ Cardinality(Submitting) # 0
  BY <1>1, FS_CardinalityType, FS_EmptySet DEF Bounded
<1>3. QED  BY <1>2, LimitsAssumption DEF TypeOK, Bounded

\* The worker has an event in hand when it accounts for one, and _pending counts it.
LEMMA OneToAccount ==
    ASSUME TypeOK, Placed, PendingCounts, worker = "accounting", cond = NoThread
    PROVE  pending - 1 \in Nat /\ inHand \in 1 .. MaxEvents
<1>1. inHand # SHUTDOWN  BY DEF Placed
<1>2. pending + Cardinality(Counting)
        = Cardinality(EventsOf(queue)) + Cardinality(InHand) + Cardinality(evicted)
  BY DEF PendingCounts, Counting, EventsOf, InHand
<1>3. QED  BY <1>1, <1>2, Finite DEF CountsAreFinite, TypeOK, SHUTDOWN

\* The queue after a SHUTDOWN that fits, and after its head was taken.
LEMMA SignalFits ==
    ASSUME TypeOK, ~Full
    PROVE  Append(queue, 0) \in Seq(0 .. MaxEvents) /\ Len(Append(queue, 0)) <= MaxQueue
<1>1. /\ queue \in Seq(0 .. MaxEvents) /\ Len(queue) < MaxQueue
      /\ MaxQueue \in Nat /\ 0 \in 0 .. MaxEvents
  BY LimitsAssumption DEF TypeOK, Full
<1>2. QED  BY <1>1

LEMMA ShorterFits ==
    ASSUME TypeOK, queue # <<>>
    PROVE  /\ Tail(queue) \in Seq(0 .. MaxEvents) /\ Len(Tail(queue)) <= MaxQueue
           /\ Head(queue) \in 0 .. MaxEvents
<1>1. queue \in Seq(0 .. MaxEvents) /\ Len(queue) <= MaxQueue /\ MaxQueue \in Nat
  BY LimitsAssumption DEF TypeOK
<1>2. ASSUME NEW E, NEW q \in Seq(E), q # <<>>
      PROVE  Tail(q) \in Seq(E) /\ Len(Tail(q)) = Len(q) - 1 /\ Len(q) \in Nat /\ Head(q) \in E
  BY <1>2
<1>3. /\ Tail(queue) \in Seq(0 .. MaxEvents) /\ Len(Tail(queue)) = Len(queue) - 1
      /\ Len(queue) \in Nat /\ Head(queue) \in 0 .. MaxEvents
  BY <1>1, <1>2
<1>4. QED  BY <1>1, <1>3

\* A thread that goes from one step to another without _cond's counting.
LEMMA GoesOn ==
    ASSUME TypeOK, NEW t \in Threads, pc[t] # "count", cond' = cond,
           NEW step \in {"idle", "submit", "flush", "close", "signal", "evict", "resignal", "join"},
           Goto(t, step)
    PROVE  /\ cond' \in Threads \cup {NoThread}
           /\ \A u \in Threads : cond' = u <=> pc'[u] = "count"
           /\ pc' \in [Threads -> {"idle", "submit", "count", "flush", "close", "signal",
                                  "evict", "resignal", "join"}]
BY DEF TypeOK, Goto

LEMMA StepTypeOK ==
    ASSUME Inv, Next
    PROVE  TypeOK'
<1> USE DEF Inv, TypeOK, Goto
<1>0. MaxQueue \in Nat \ {0} /\ MaxEvents \in Nat /\ NoThread \notin Threads
  BY LimitsAssumption, ThreadsAssumption
<1>1. ASSUME NEW t \in Threads,
             \/ SubmitCheck(t) \/ FlushCall(t) \/ CloseCheck(t) \/ CloseMark(t) \/ FlushReturn(t)
             \/ Join(t)
      PROVE  TypeOK'
  <2>1. CASE SubmitCheck(t) \/ CloseCheck(t)  BY <2>1 DEF SubmitCheck, CloseCheck
  <2>2. CASE FlushCall(t) \/ CloseMark(t)
    <3>1. counted \in 0 .. MaxEvents  BY <1>0
    <3>2. /\ pc[t] # "count" /\ cond' = cond /\ Goto(t, "flush")
          /\ before' = [before EXCEPT ![t] = counted]
          /\ result' = [result EXCEPT ![t] = "none"]
          /\ inClose' = inClose \/ inClose' = [inClose EXCEPT ![t] = TRUE]
          /\ closed' = closed \/ closed' = TRUE
          /\ UNCHANGED <<queue, pending, worker, attempt, puts, counted, handled, inHand,
                        evicted, crowded>>
      BY <2>2 DEF FlushCall, CloseMark
    <3>3. before' \in [Threads -> 0 .. MaxEvents]  BY <3>1, <3>2
    <3>4. result' \in [Threads -> {"none", "drained", "late"}]  BY <3>2
    <3>5. inClose' \in [Threads -> BOOLEAN] /\ closed' \in BOOLEAN
      <4>1. inClose \in [Threads -> BOOLEAN] /\ closed \in BOOLEAN  OBVIOUS
      <4>2. QED  BY <3>2, <4>1
    <3>6. /\ cond' \in Threads \cup {NoThread}
          /\ \A u \in Threads : cond' = u <=> pc'[u] = "count"
          /\ pc' \in [Threads -> {"idle", "submit", "count", "flush", "close", "signal",
                                 "evict", "resignal", "join"}]
      BY <3>2, GoesOn
    <3>7. QED  BY <3>2, <3>3, <3>4, <3>5, <3>6
  <2>3. CASE FlushReturn(t)  BY <2>3 DEF FlushReturn
  <2>4. CASE Join(t)  BY <2>4 DEF Join
  <2>5. QED  BY <1>1, <2>1, <2>2, <2>3, <2>4
<1>2. ASSUME NEW t \in Threads, Put(t)  PROVE TypeOK'
  <2>1. puts + 1 \in 0 .. MaxEvents  BY <1>2, PutFits DEF Put
  <2>2. CASE Full  BY <1>0, <1>2, <2>2 DEF Put
  <2>3. CASE ~Full
    <3>1. /\ queue' = Append(queue, puts + 1) /\ puts' = puts + 1
          /\ cond' = t /\ pc' = [pc EXCEPT ![t] = "count"]
          /\ cond = NoThread /\ Len(queue) + 1 <= MaxQueue
      BY <1>0, <1>2, <2>3 DEF Put, Full, CondFree
    <3>2. queue' \in Seq(0 .. MaxEvents) /\ Len(queue') <= MaxQueue  BY <2>1, <3>1
    <3>3. \A u \in Threads : cond' = u <=> pc'[u] = "count"  BY <1>0, <3>1
    <3>4. UNCHANGED <<pending, closed, worker, attempt, inClose, before, result, counted,
                      handled, inHand, evicted, crowded>>
      BY <1>2 DEF Put
    <3>5. QED  BY <2>1, <3>1, <3>2, <3>3, <3>4
  <2>4. QED  BY <2>2, <2>3
<1>3. ASSUME NEW t \in Threads, Count(t)  PROVE TypeOK'
  BY <1>0, <1>3 DEF Count
<1>4. ASSUME NEW t \in Threads, Signal(t)  PROVE TypeOK'
  <2>1. /\ cond' = cond /\ pc[t] = "signal"
        /\ pc' \in [Threads -> {"idle", "submit", "count", "flush", "close", "signal",
                                "evict", "resignal", "join"}]
        /\ \A u \in Threads : pc'[u] = "count" <=> pc[u] = "count"
    BY <1>4 DEF Signal
  <2>2. queue' \in Seq(0 .. MaxEvents) /\ Len(queue') <= MaxQueue
    <3>1. queue' = queue \/ (queue' = Append(queue, 0) /\ ~Full)  BY <1>4 DEF Signal, SHUTDOWN
    <3>2. QED  BY <1>0, <3>1, SignalFits
  <2>3. QED  BY <1>4, <2>1, <2>2 DEF Signal
<1>5. ASSUME NEW t \in Threads, Evict(t)  PROVE TypeOK'
  <2>1. queue' \in Seq(0 .. MaxEvents) /\ Len(queue') <= MaxQueue
    BY <1>0, <1>5, ShorterFits DEF Evict
  <2>2. evicted' \subseteq 1 .. MaxEvents
    <3>1. CASE queue = <<>>  BY <1>5, <3>1 DEF Evict
    <3>2. CASE queue # <<>>
      <4>1. PICK h \in 0 .. MaxEvents : h = Head(queue)  BY <3>2, ShorterFits
      <4>2. evicted' = evicted \cup ({h} \ {0}) /\ evicted \subseteq 1 .. MaxEvents
        BY <1>5, <3>2, <4>1 DEF Evict, SHUTDOWN
      <4>3. h # 0 => h \in 1 .. MaxEvents  BY <1>0, <4>1
      <4>4. QED  BY <4>2, <4>3
    <3>3. QED  BY <3>1, <3>2
  <2>3. QED  BY <1>5, <2>1, <2>2 DEF Evict
<1>6. ASSUME NEW t \in Threads, Resignal(t)  PROVE TypeOK'
  <2>1. queue' \in Seq(0 .. MaxEvents) /\ Len(queue') <= MaxQueue
    <3>1. queue' = queue \/ (queue' = Append(queue, 0) /\ ~Full)  BY <1>6 DEF Resignal, SHUTDOWN
    <3>2. QED  BY <1>0, <3>1, SignalFits
  <2>2. crowded' \in BOOLEAN  BY <1>6 DEF Resignal
  <2>3. QED  BY <1>6, <2>1, <2>2 DEF Resignal
<1>7. ASSUME Get  PROVE TypeOK'
  <2>1. queue' \in Seq(0 .. MaxEvents) /\ Len(queue') <= MaxQueue /\ Head(queue) \in 0 .. MaxEvents
    BY <1>0, <1>7 DEF Get
  <2>2. /\ worker' \in {"sending", "ended"} /\ attempt' \in {0, 1} /\ inHand' \in 0 .. MaxEvents
    BY <1>7, <2>1 DEF Get
  <2>3. QED  BY <1>7, <2>1, <2>2 DEF Get
<1>8. ASSUME Reply \/ Wake  PROVE TypeOK'
  BY <1>8 DEF Reply, Wake
<1>9. ASSUME Account  PROVE TypeOK'
  <2>1. pending - 1 \in Nat /\ inHand \in 1 .. MaxEvents
    BY <1>9, OneToAccount DEF Account, CondFree
  <2>2. QED  BY <1>0, <1>9, <2>1 DEF Account, SHUTDOWN
<1>10. QED
  BY <1>1, <1>2, <1>3, <1>4, <1>5, <1>6, <1>7, <1>8, <1>9 DEF Next, Goes, Calls, Network

-----------------------------------------------------------------------------
(* Events and counts.                                                      *)

\* The two sides of PendingCounts, and when they stay.
CountedIn == pending + Cardinality(Counting)
Due == Cardinality(EventsOf(queue)) + Cardinality(InHand) + Cardinality(evicted)

LEMMA CountsAreDue == PendingCounts <=> CountedIn = Due
  BY DEF PendingCounts, CountedIn, Due, Counting, EventsOf, InHand

LEMMA StepBounded ==
    ASSUME Inv, Next
    PROVE  Bounded'
<1>0. /\ IsFiniteSet(Submitting) /\ Cardinality(Submitting) \in Nat
      /\ puts + Cardinality(Submitting) <= MaxEvents /\ puts \in Nat /\ MaxEvents \in Nat
  BY FS_CardinalityType, LimitsAssumption DEF Inv, TypeOK, Bounded
<1>1. CASE UNCHANGED <<puts, Submitting>>  BY <1>1 DEF Inv, Bounded
<1>t. pc \in [Threads -> {"idle", "submit", "count", "flush", "close", "signal",
                          "evict", "resignal", "join"}]
  BY DEF Inv, TypeOK
<1>2. ASSUME NEW t \in Threads, SubmitCheck(t)  PROVE Bounded'
  <2>1. t \notin Submitting /\ Submitting' = Submitting \cup {t}
    BY <1>t, <1>2 DEF SubmitCheck, Goto, Submitting
  <2>2. puts' = puts /\ puts + Cardinality(Submitting) < MaxEvents
    BY <1>2 DEF SubmitCheck, Submitting
  <2>3. IsFiniteSet(Submitting') /\ Cardinality(Submitting') = Cardinality(Submitting) + 1
    BY <1>0, <2>1, FS_AddElement
  <2>4. QED  BY <1>0, <2>2, <2>3 DEF Bounded
<1>3. ASSUME NEW t \in Threads, Put(t)  PROVE Bounded'
  <2>1. t \in Submitting /\ Submitting' = Submitting \ {t}
    BY <1>t, <1>3 DEF Put, Goto, Submitting
  <2>2. puts' \in {puts, puts + 1}  BY <1>3 DEF Put
  <2>3. IsFiniteSet(Submitting') /\ Cardinality(Submitting') = Cardinality(Submitting) - 1
    BY <1>0, <2>1, FS_RemoveElement
  <2>4. QED  BY <1>0, <2>2, <2>3 DEF Bounded
<1>4. ASSUME NEW t \in Threads,
             \/ Count(t) \/ FlushReturn(t) \/ CloseMark(t) \/ Signal(t) \/ Evict(t)
             \/ Resignal(t) \/ Join(t) \/ FlushCall(t) \/ CloseCheck(t)
      PROVE  Bounded'
  <2>1. pc[t] # "submit" /\ puts' = puts /\ \E s : s # "submit" /\ pc' = [pc EXCEPT ![t] = s]
    BY <1>4 DEF Count, FlushReturn, CloseMark, Signal, Evict, Resignal, Join, FlushCall,
                CloseCheck, Goto
  <2>2. Submitting' = Submitting  BY <1>t, <2>1 DEF Submitting
  <2>3. QED  BY <1>1, <2>1, <2>2
<1>5. CASE Get \/ Network \/ Account
  <2>1. pc' = pc /\ puts' = puts  BY <1>5 DEF Get, Network, Reply, Wake, Account
  <2>2. QED  BY <1>1, <2>1 DEF Submitting
<1>6. QED  BY <1>2, <1>3, <1>4, <1>5 DEF Next, Goes, Calls

\* Every step leaves each event in one place and _pending the count of those not done.
LEMMA StepPlaced ==
    ASSUME Inv, Next
    PROVE  Placed' /\ PendingCounts'
<1>0. /\ MaxEvents \in Nat /\ NoThread \notin Threads
      /\ queue \in Seq(0 .. MaxEvents) /\ pending \in Nat
      /\ puts \in Nat /\ counted \in 0 .. puts
      /\ pc \in [Threads -> {"idle", "submit", "count", "flush", "close", "signal",
                             "evict", "resignal", "join"}]
      /\ before \in [Threads -> 0 .. MaxEvents]
      /\ \A t \in Threads : cond = t <=> pc[t] = "count"
      /\ cond \in Threads \cup {NoThread}
  BY LimitsAssumption, ThreadsAssumption DEF Inv, TypeOK
<1>c. CountedIn = Due  BY CountsAreDue DEF Inv
<1>f. /\ IsFiniteSet(EventsOf(queue)) /\ IsFiniteSet(evicted)
      /\ Cardinality(EventsOf(queue)) \in Nat /\ Cardinality(evicted) \in Nat
      /\ Cardinality(InHand) = IF inHand = SHUTDOWN THEN 0 ELSE 1
      /\ Cardinality(Counting) = IF cond = NoThread THEN 0 ELSE 1
  BY Finite DEF Inv, CountsAreFinite
<1>g. Placed' => CountsAreFinite'
  <2>1. TypeOK'  BY StepTypeOK
  <2>2. (TypeOK /\ Placed => CountsAreFinite)'  BY Finite, PTL
  <2>3. QED  BY <2>1, <2>2
<1>d. (CountedIn = Due)' => PendingCounts'
  BY DEF PendingCounts, CountedIn, Due, Counting, EventsOf, InHand
<1>p. Placed  BY DEF Inv
<1>1. ASSUME UNCHANGED <<queue, pending, puts, handled, inHand, evicted, worker, Counting>>,
             \A t \in Threads : before'[t] <= puts
      PROVE  Placed' /\ PendingCounts'
  <2>1. Placed'  BY <1>p, <1>1 DEF Placed, InHand
  <2>2. (CountedIn = Due)'  BY <1>c, <1>1 DEF CountedIn, Due, InHand
  <2>3. QED  BY <2>1, <2>2, <1>d
<1>2. ASSUME NEW t \in Threads,
             \/ SubmitCheck(t) \/ FlushCall(t) \/ CloseCheck(t) \/ CloseMark(t) \/ FlushReturn(t)
             \/ Join(t) \/ (Put(t) /\ Full)
      PROVE  Placed' /\ PendingCounts'
  <2>1. UNCHANGED <<queue, pending, puts, handled, inHand, evicted, worker>>
    BY <1>2 DEF SubmitCheck, FlushCall, CloseCheck, CloseMark, FlushReturn, Join, Put
  <2>2. /\ pc[t] # "count" /\ \E s : s # "count" /\ pc' = [pc EXCEPT ![t] = s]
    BY <1>2 DEF SubmitCheck, FlushCall, CloseCheck, CloseMark, FlushReturn, Join, Put, Goto
  <2>3. Counting' = Counting  BY <1>0, <2>2 DEF Counting
  <2>4. \A u \in Threads : before'[u] <= puts
    <3>1. before' = before \/ before' = [before EXCEPT ![t] = counted]
      BY <1>2 DEF SubmitCheck, FlushCall, CloseCheck, CloseMark, FlushReturn, Join, Put
    <3>2. QED  BY <1>0, <1>p, <3>1 DEF Placed
  <2>5. QED  BY <1>1, <2>1, <2>3, <2>4
<1>3. ASSUME NEW t \in Threads, Put(t), ~Full  PROVE Placed' /\ PendingCounts'
  <2>1. /\ puts' = puts + 1 /\ queue' = Append(queue, puts + 1) /\ cond = NoThread /\ cond' = t
        /\ UNCHANGED <<pending, before, worker, inHand, handled, evicted>>
    BY <1>3 DEF Put, CondFree
  <2>2. puts + 1 \in 0 .. MaxEvents /\ puts + 1 # SHUTDOWN
    BY <1>0, <1>3, PutFits DEF Inv, Put, SHUTDOWN
  <2>3. puts + 1 \notin 1 .. puts  BY <1>0
  <2>4. EventsOf(queue') = EventsOf(queue) \cup {puts + 1} /\ NoRepeats(queue')
    BY <1>0, <1>p, <2>1, <2>2, <2>3, AfterAppend DEF Placed
  <2>5. InHand' = InHand  BY <2>1 DEF InHand
  <2>6. 1 .. puts' = (1 .. puts) \cup {puts + 1}  BY <1>0, <2>1
  <2>7. \A u \in Threads : before'[u] <= puts'  BY <1>0, <1>p, <2>1 DEF Placed
  <2>8. Placed'  BY <1>p, <2>1, <2>3, <2>4, <2>5, <2>6, <2>7 DEF Placed
  <2>9. Cardinality(EventsOf(queue)') = Cardinality(EventsOf(queue)) + 1
    <3>1. puts + 1 \notin EventsOf(queue)  BY <1>p, <2>3 DEF Placed
    <3>2. QED  BY <1>f, <2>4, <3>1, FS_AddElement
  <2>10. Cardinality(Counting') = 1  BY <1>0, <1>g, <2>1, <2>8 DEF CountsAreFinite
  <2>11. (CountedIn = Due)'
    <3>1. Cardinality(Counting) = 0 /\ Cardinality(InHand) \in Nat  BY <1>f, <2>1
    <3>2. /\ pending + 0 = Cardinality(EventsOf(queue)) + Cardinality(InHand)
                          + Cardinality(evicted)
          /\ pending \in Nat
      BY <1>0, <1>c, <3>1 DEF CountedIn, Due
    <3>3. /\ pending' = pending /\ Cardinality(InHand') = Cardinality(InHand)
          /\ Cardinality(evicted') = Cardinality(evicted)
      BY <2>1, <2>5
    <3>4. QED  BY <1>f, <2>9, <2>10, <3>1, <3>2, <3>3 DEF CountedIn, Due
  <2>12. QED  BY <2>8, <2>11, <1>d
<1>4. ASSUME NEW t \in Threads, Count(t)  PROVE Placed' /\ PendingCounts'
  <2>1. /\ UNCHANGED <<queue, before, worker, inHand, handled, evicted, puts>>
        /\ pending' = pending + 1 /\ cond' = NoThread /\ cond = t
    BY <1>0, <1>4 DEF Count
  <2>2. Placed' /\ InHand' = InHand  BY <1>p, <2>1 DEF Placed, InHand
  <2>3. Cardinality(Counting') = 0 /\ Cardinality(Counting) = 1
    BY <1>0, <1>f, <1>g, <2>1, <2>2 DEF CountsAreFinite
  <2>4. (CountedIn = Due)'  BY <1>0, <1>c, <1>f, <2>1, <2>2, <2>3 DEF CountedIn, Due
  <2>5. QED  BY <2>2, <2>4, <1>d
<1>5. ASSUME NEW t \in Threads, Signal(t) \/ Resignal(t)  PROVE Placed' /\ PendingCounts'
  <2>1. /\ UNCHANGED <<before, worker, inHand, handled, evicted, puts, pending>>
        /\ queue' \in {queue, Append(queue, SHUTDOWN)}
        /\ pc[t] # "count" /\ \E s : s # "count" /\ pc' = [pc EXCEPT ![t] = s]
    BY <1>5 DEF Signal, Resignal, Goto
  <2>2. EventsOf(queue') = EventsOf(queue) /\ NoRepeats(queue')
    <3>1. SHUTDOWN \in 0 .. MaxEvents /\ SHUTDOWN \notin EventsOf(queue)
      BY <1>0 DEF SHUTDOWN, EventsOf
    <3>2. EventsOf(Append(queue, SHUTDOWN)) = EventsOf(queue) /\ NoRepeats(Append(queue, SHUTDOWN))
      <4>1. NoRepeats(queue)  BY <1>p DEF Placed
      <4>2. {SHUTDOWN} \ {SHUTDOWN} = {}  OBVIOUS
      <4>3. /\ EventsOf(Append(queue, SHUTDOWN)) = EventsOf(queue) \cup ({SHUTDOWN} \ {SHUTDOWN})
            /\ NoRepeats(Append(queue, SHUTDOWN))
        BY <1>0, <3>1, <4>1, AfterAppend
      <4>4. QED  BY <4>2, <4>3
    <3>3. QED  BY <1>p, <2>1, <3>2 DEF Placed
  <2>3. Counting' = Counting /\ InHand' = InHand  BY <1>0, <2>1 DEF Counting, InHand
  <2>4. Placed'  BY <1>p, <2>1, <2>2, <2>3 DEF Placed
  <2>5. (CountedIn = Due)'  BY <1>c, <2>1, <2>2, <2>3 DEF CountedIn, Due
  <2>6. QED  BY <2>4, <2>5, <1>d
<1>6. ASSUME NEW t \in Threads, Evict(t)  PROVE Placed' /\ PendingCounts'
  <2>1. /\ UNCHANGED <<before, worker, inHand, handled, puts, pending>>
        /\ pc[t] # "count" /\ pc' = [pc EXCEPT ![t] = "resignal"]
    BY <1>6 DEF Evict, Goto
  <2>2. Counting' = Counting /\ InHand' = InHand  BY <1>0, <2>1 DEF Counting, InHand
  <2>3. CASE queue = <<>>
    <3>1. UNCHANGED <<queue, evicted>>  BY <1>6, <2>3 DEF Evict
    <3>2. QED  BY <1>1, <1>p, <2>1, <2>2, <3>1 DEF Placed
  <2>4. CASE queue # <<>>
    <3>1. PICK h : h = Head(queue)  OBVIOUS
    <3>2. queue' = Tail(queue) /\ evicted' = evicted \cup ({h} \ {SHUTDOWN})
      BY <1>6, <2>4, <3>1 DEF Evict
    <3>3. /\ EventsOf(queue') = EventsOf(queue) \ {h} /\ NoRepeats(queue')
          /\ h # SHUTDOWN => h \in EventsOf(queue)
      BY <1>0, <1>p, <2>4, <3>1, <3>2, AfterTail DEF Placed
    <3>4. h = SHUTDOWN => h \notin EventsOf(queue)  BY DEF EventsOf
    <3>5. Placed'  BY <1>p, <2>1, <2>2, <3>2, <3>3, <3>4 DEF Placed
    <3>6. Cardinality(EventsOf(queue)') + Cardinality(evicted')
            = Cardinality(EventsOf(queue)) + Cardinality(evicted)
      <4>1. CASE h = SHUTDOWN
        <5>1. EventsOf(queue') = EventsOf(queue) /\ evicted' = evicted
          BY <3>2, <3>3, <3>4, <4>1
        <5>2. QED  BY <5>1
      <4>2. CASE h # SHUTDOWN
        <5>1. h \notin evicted  BY <1>p, <3>3, <4>2 DEF Placed
        <5>2. Cardinality(evicted') = Cardinality(evicted) + 1
          <6>1. evicted' = evicted \cup {h}  BY <3>2, <4>2
          <6>2. QED  BY <1>f, <5>1, <6>1, FS_AddElement
        <5>3. Cardinality(EventsOf(queue)') = Cardinality(EventsOf(queue)) - 1
          BY <1>f, <3>3, <4>2, FS_RemoveElement
        <5>4. QED  BY <1>f, <5>2, <5>3
      <4>3. QED  BY <4>1, <4>2
    <3>7. Cardinality(EventsOf(queue)') \in Nat /\ Cardinality(evicted') \in Nat
      BY <1>g, <3>5 DEF CountsAreFinite
    <3>8. (CountedIn = Due)'  BY <1>c, <1>f, <2>1, <2>2, <3>6, <3>7 DEF CountedIn, Due
    <3>9. QED  BY <3>5, <3>8, <1>d
  <2>5. QED  BY <2>3, <2>4
<1>7. ASSUME Get  PROVE Placed' /\ PendingCounts'
  <2>1. PICK h : h = Head(queue)  OBVIOUS
  <2>2. /\ UNCHANGED <<before, evicted, handled, puts, pending, pc>>
        /\ queue # <<>> /\ queue' = Tail(queue) /\ worker = "waiting"
        /\ inHand = SHUTDOWN
        /\ h = SHUTDOWN => worker' = "ended" /\ inHand' = inHand
        /\ h # SHUTDOWN => worker' = "sending" /\ inHand' = h
    BY <1>7, <1>p, <2>1 DEF Get, Placed
  <2>3. /\ EventsOf(queue') = EventsOf(queue) \ {h} /\ NoRepeats(queue')
        /\ h # SHUTDOWN => h \in EventsOf(queue)
    BY <1>0, <1>p, <2>1, <2>2, AfterTail DEF Placed
  <2>4. h = SHUTDOWN => h \notin EventsOf(queue)  BY DEF EventsOf
  <2>5. InHand = {} /\ InHand' = {h} \ {SHUTDOWN}  BY <2>2 DEF InHand
  <2>6. Placed'
    <3>1. worker' \in {"waiting", "ended"} <=> inHand' = SHUTDOWN  BY <2>2
    <3>2. QED  BY <1>p, <2>2, <2>3, <2>4, <2>5, <3>1 DEF Placed
  <2>7. Cardinality(EventsOf(queue)') + Cardinality(InHand')
          = Cardinality(EventsOf(queue)) + Cardinality(InHand)
    <3>1. CASE h = SHUTDOWN
      <4>1. EventsOf(queue') = EventsOf(queue) /\ InHand' = InHand
        BY <2>3, <2>4, <2>5, <3>1
      <4>2. QED  BY <4>1
    <3>2. CASE h # SHUTDOWN
      <4>1. Cardinality(EventsOf(queue)') = Cardinality(EventsOf(queue)) - 1
        BY <1>f, <2>3, <3>2, FS_RemoveElement
      <4>2. Cardinality(InHand) = 0 /\ Cardinality(InHand') = 1
        <5>1. InHand' = {h}  BY <2>5, <3>2
        <5>2. QED  BY <2>5, <5>1, FS_EmptySet, FS_Singleton
      <4>3. QED  BY <1>f, <4>1, <4>2
    <3>3. QED  BY <3>1, <3>2
  <2>8. Counting' = Counting  BY <2>2 DEF Counting
  <2>9. (CountedIn = Due)'  BY <1>c, <2>2, <2>7, <2>8 DEF CountedIn, Due
  <2>10. QED  BY <2>6, <2>9, <1>d
<1>8. ASSUME Network  PROVE Placed' /\ PendingCounts'
  <2>1. /\ UNCHANGED <<queue, pending, puts, handled, inHand, evicted, before, pc>>
        /\ worker \notin {"waiting", "ended"} /\ worker' \notin {"waiting", "ended"}
    BY <1>8 DEF Network, Reply, Wake
  <2>2. Placed'  BY <1>p, <2>1 DEF Placed, InHand
  <2>3. (CountedIn = Due)'  BY <1>c, <2>1 DEF CountedIn, Due, InHand, Counting
  <2>4. QED  BY <2>2, <2>3, <1>d
<1>9. ASSUME Account  PROVE Placed' /\ PendingCounts'
  <2>1. /\ UNCHANGED <<queue, puts, evicted, before, pc>>
        /\ pending' = pending - 1 /\ handled' = handled \cup {inHand}
        /\ inHand # SHUTDOWN /\ inHand' = SHUTDOWN /\ worker' = "waiting"
    BY <1>9, <1>p DEF Account, Placed
  <2>2. InHand = {inHand} /\ InHand' = {}  BY <2>1 DEF InHand
  <2>3. Placed'
    <3>1. worker' \in {"waiting", "ended"} <=> inHand' = SHUTDOWN  BY <2>1
    <3>2. QED  BY <1>p, <2>1, <2>2, <3>1 DEF Placed
  <2>4. Cardinality(InHand) = 1 /\ Cardinality(InHand') = 0
    BY <2>2, FS_EmptySet, FS_Singleton
  <2>5. Counting' = Counting  BY <2>1 DEF Counting
  <2>6. (CountedIn = Due)'
    <3>1. /\ pending + Cardinality(Counting)
               = Cardinality(EventsOf(queue)) + 1 + Cardinality(evicted)
          /\ pending \in Nat /\ Cardinality(Counting) \in Nat
      BY <1>0, <1>c, <1>f, <2>4 DEF CountedIn, Due
    <3>2. /\ pending' = pending - 1 /\ Cardinality(Counting') = Cardinality(Counting)
          /\ Cardinality(EventsOf(queue)') = Cardinality(EventsOf(queue))
          /\ Cardinality(evicted') = Cardinality(evicted)
      BY <2>1, <2>5
    <3>3. QED  BY <1>f, <2>4, <3>1, <3>2 DEF CountedIn, Due
  <2>7. QED  BY <2>3, <2>6, <1>d
<1>10. QED
  BY <1>2, <1>3, <1>4, <1>5, <1>6, <1>7, <1>8, <1>9 DEF Next, Goes, Calls

\* A flush ends with a count of zero only when nothing is left, and what is done stays so.
LEMMA StepHonest ==
    ASSUME Inv, Next
    PROVE  FlushIsHonest'
<1>0. /\ result \in [Threads -> {"none", "drained", "late"}]
      /\ before \in [Threads -> 0 .. MaxEvents] /\ puts \in Nat /\ pending \in Nat
  BY DEF Inv, TypeOK
<1>1. handled \subseteq handled'
  BY DEF Next, Goes, Calls, SubmitCheck, FlushCall, CloseCheck, CloseMark, FlushReturn, Join,
         Put, Count, Signal, Resignal, Evict, Get, Network, Reply, Wake, Account
<1>2. ASSUME NEW t \in Threads, FlushReturn(t)  PROVE FlushIsHonest'
  <2>1. /\ result' = [result EXCEPT ![t] = IF pending = 0 THEN "drained" ELSE "late"]
        /\ before' = before /\ handled' = handled /\ cond = NoThread
    BY <1>2 DEF FlushReturn, CondFree, Drained
  <2>2. ASSUME pending = 0  PROVE 1 .. before[t] \subseteq handled
    <3>1. /\ Cardinality(EventsOf(queue)) \in Nat /\ Cardinality(InHand) \in Nat
          /\ Cardinality(evicted) \in Nat /\ Cardinality(Counting) = 0
          /\ IsFiniteSet(EventsOf(queue)) /\ IsFiniteSet(evicted) /\ IsFiniteSet(InHand)
      BY <2>1, Finite DEF Inv, CountsAreFinite
    <3>2. CountedIn = Due  BY CountsAreDue DEF Inv
    <3>3. /\ Cardinality(EventsOf(queue)) = 0 /\ Cardinality(InHand) = 0
          /\ Cardinality(evicted) = 0
      BY <2>2, <3>1, <3>2 DEF CountedIn, Due
    <3>4. EventsOf(queue) = {} /\ InHand = {} /\ evicted = {}  BY <3>1, <3>3, FS_EmptySet
    <3>5. handled = 1 .. puts /\ before[t] <= puts  BY <3>4 DEF Inv, Placed
    <3>6. QED  BY <1>0, <3>5
  <2>3. QED  BY <1>0, <2>1, <2>2 DEF Inv, FlushIsHonest
<1>3. ASSUME NEW t \in Threads, FlushCall(t) \/ CloseMark(t)  PROVE FlushIsHonest'
  <2>1. /\ before' = [before EXCEPT ![t] = counted] /\ result' = [result EXCEPT ![t] = "none"]
        /\ handled' = handled
    BY <1>3 DEF FlushCall, CloseMark
  <2>2. QED  BY <1>0, <2>1 DEF Inv, FlushIsHonest
<1>4. CASE UNCHANGED <<before, result>>
  BY <1>1, <1>4 DEF Inv, FlushIsHonest
<1>5. QED
  BY <1>2, <1>3, <1>4
     DEF Next, Goes, Calls, SubmitCheck, CloseCheck, Join, Put, Count, Signal, Resignal, Evict,
         Get, Network, Reply, Wake, Account

LEMMA InvHolds == Spec => []Inv
<1>1. Inv /\ [Next]_vars => Inv'
  <2>1. Inv /\ Next => Inv'
    BY StepTypeOK, StepBounded, StepPlaced, StepHonest DEF Inv
  <2>2. Inv /\ UNCHANGED vars => Inv'
    BY DEF vars, Inv, TypeOK, Bounded, Submitting, Placed, InHand, PendingCounts, FlushIsHonest
  <2>3. QED  BY <2>1, <2>2
<1>2. QED  BY InitInv, <1>1, PTL DEF Spec

\* Every variable has its type, and _cond is held between steps only from a put to its count.
THEOREM TypeOKHolds == Spec => []TypeOK
<1>1. Inv => TypeOK  BY DEF Inv
<1>2. QED  BY <1>1, InvHolds, PTL

\* _pending counts exactly the events that are queued, in hand or were thrown out by close,
\* and a flush that returns success has seen everything before it done.
THEOREM FlushCountsEverythingHolds == Spec => []FlushCountsEverything
<1>1. Inv => FlushCountsEverything  BY DEF Inv, FlushCountsEverything
<1>2. QED  BY <1>1, InvHolds, PTL

=============================================================================
