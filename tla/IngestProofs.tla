---------------------------- MODULE IngestProofs ----------------------------
(***************************************************************************)
(* Theorems about Ingest for any requests, rates, capacities and times.    *)
(***************************************************************************)
EXTENDS Ingest, TLAPS

-----------------------------------------------------------------------------
(* Arithmetic.                                                             *)

\* Whole seconds, rounded up, cover the ticks they were rounded from.
LEMMA RoundedUp ==
    ASSUME NEW x \in Nat
    PROVE  /\ (x + Second - 1) \div Second \in Nat
           /\ ((x + Second - 1) \div Second) * Second >= x
<1> DEFINE q == (x + Second - 1) \div Second
<1>1. Second \in Nat /\ Second > 0 /\ x + Second - 1 \in Nat
  BY UnitsAssumption
<1>2. q \in Nat /\ x + Second - 1 < q * Second + Second
  BY <1>1
<1>3. q * Second \in Int
  BY <1>1, <1>2
<1> HIDE DEF q
<1>4. q * Second >= x
  BY <1>1, <1>2, <1>3
<1> QED
  BY <1>2, <1>4 DEF q

\* A bucket outlives the time it takes to refill.
LEMMA TTLIsLong == TTL \in Nat /\ TTL >= Capacity /\ TTL > 0
<1> DEFINE q == Capacity \div Second
<1>1. Second \in Nat /\ Second > 0 /\ Capacity \in Nat /\ Margin \in Nat /\ Margin >= 1
  BY UnitsAssumption
<1>2. q \in Nat /\ Capacity < q * Second + Second
  BY <1>1
<1> HIDE DEF q
<1>3. q * Second \in Nat /\ Margin * Second \in Nat /\ Margin * Second >= Second
  BY <1>1, <1>2
<1>4. (q + Margin) * Second = q * Second + Margin * Second
  BY <1>1, <1>2
<1>5. (q + Margin) * Second >= Capacity /\ (q + Margin) * Second > 0
  BY <1>1, <1>2, <1>3, <1>4
<1> QED
  BY <1>3, <1>4, <1>5 DEF TTL, q

-----------------------------------------------------------------------------
(* Types.                                                                  *)

\* The level a script works on is between nothing and the capacity.
LEMMA RefilledType ==
    ASSUME TypeOK, NEW now \in Nat
    PROVE  Refilled(now) \in 0 .. Capacity
BY UnitsAssumption DEF TypeOK, Refilled, Lesser, Elapsed, Absent, NoBucket

LEMMA DenialType ==
    ASSUME TypeOK, NEW r \in Requests, Deny(r)
    PROVE  /\ Refilled(req[r].now) \in Nat /\ Refilled(req[r].now) < Token
           /\ retry_after_seconds(Refilled(req[r].now)) * Second
                 >= Token - Refilled(req[r].now)
           /\ Promised(r) \in Nat
           /\ Promised(r) >= req[r].now + (Token - Refilled(req[r].now))
<1> DEFINE level == Refilled(req[r].now)
           wait == retry_after_seconds(level) * Second
<1>1. req[r].now \in Nat /\ Second \in Nat /\ Token \in Nat
  BY UnitsAssumption DEF TypeOK
<1>2. level \in Nat /\ level < Token
  BY <1>1, RefilledType, UnitsAssumption DEF Deny
<1>3. Token - level \in Nat
  BY <1>1, <1>2
<1> HIDE DEF level
<1>4. /\ (Token - level + Second - 1) \div Second \in Nat
      /\ ((Token - level + Second - 1) \div Second) * Second >= Token - level
  BY <1>3, RoundedUp
<1>5. wait \in Nat /\ wait >= Token - level
  BY <1>1, <1>4 DEF retry_after_seconds
<1> QED
  BY <1>1, <1>2, <1>5 DEF Promised, level

\* A script leaves the types of its bucket.
LEMMA WrittenType ==
    ASSUME TypeOK, NEW level \in 0 .. Capacity, NEW now \in Nat, now <= clock,
           Written(level, now), clock' = clock
    PROVE  /\ bucket' \in [level : 0 .. Capacity, ts : Nat] /\ bucket'.ts <= clock'
           /\ expires' \in Nat /\ back' \in Nat
BY TTLIsLong DEF TypeOK, Written, UpTo, Absent, NoBucket

LEMMA TypeStep == TypeOK /\ [Next]_vars => TypeOK'
<1> SUFFICES ASSUME TypeOK, [Next]_vars PROVE TypeOK'
  OBVIOUS
<1>1. CASE UNCHANGED vars
  BY <1>1 DEF TypeOK, vars, bucketVars, poolVars
<1>2. CASE Tick
  <2>1. clock \in Nat /\ bucket.ts \in Nat /\ \A r \in Requests : req[r].now \in Nat
    BY DEF TypeOK, NoBucket
  <2>2. /\ clock' \in Nat /\ bucket.ts <= clock'
        /\ \A r \in Requests : req[r].now <= clock'
    BY <1>2, <2>1 DEF Tick, TypeOK
  <2> QED
    BY <1>2, <2>2 DEF TypeOK, Tick, bucketVars, poolVars
<1>3. ASSUME NEW r \in Requests, NEW step \in Steps, Goto(r, step), clock' = clock
      PROVE  /\ req' \in [Requests -> [at : Steps, now : Nat]]
             /\ \A q \in Requests : req'[q].now <= clock'
  BY <1>3 DEF TypeOK, Goto
<1>4. ASSUME NEW r \in Requests, Limiting(r), clock' = clock
      PROVE  /\ req' \in [Requests -> [at : Steps, now : Nat]]
             /\ \A q \in Requests : req'[q].now <= clock'
  BY <1>4 DEF TypeOK, Limiting, Steps
<1>5. ASSUME NEW r \in Requests,
             Authenticate(r) \/ PoolCheck(r) \/ PoolLock(r) \/ PoolCreated(r)
               \/ Sample(r) \/ ReadBody(r) \/ Enqueue(r) \/ Answer(r) \/ Fail(r)
      PROVE  TypeOK'
  <2>1. /\ req' \in [Requests -> [at : Steps, now : Nat]]
        /\ \A q \in Requests : req'[q].now <= clock'
    <3>1. clock' = clock
      BY <1>5 DEF Authenticate, PoolCheck, PoolLock, PoolCreated, Sample, ReadBody,
                  Enqueue, Answer, Fail
    <3>2. Limiting(r) \/ \E step \in Steps : Goto(r, step)
      BY <1>5 DEF Authenticate, PoolCheck, PoolLock, PoolCreated, Sample, ReadBody,
                  Enqueue, Answer, Fail, Steps
    <3> QED
      BY <1>3, <1>4, <3>1, <3>2
  <2>2. UNCHANGED <<clock, bucketVars>>
    BY <1>5 DEF Authenticate, PoolCheck, PoolLock, PoolCreated, Sample, ReadBody,
                Enqueue, Answer, Fail
  <2>3. /\ pool' \in BOOLEAN /\ lock' \in Requests \cup {NoRequest} /\ pools' \in Nat
        /\ jobs' \subseteq Requests
    <3>1. CASE UNCHANGED <<poolVars, jobs>>
      BY <3>1 DEF TypeOK, poolVars
    <3>2. CASE PoolLock(r)
      BY <3>2 DEF TypeOK, PoolLock
    <3>3. CASE PoolCreated(r)
      BY <3>3 DEF TypeOK, PoolCreated
    <3>4. CASE Enqueue(r)
      BY <3>4 DEF TypeOK, Enqueue, poolVars
    <3>5. CASE Fail(r)
      BY <3>5 DEF TypeOK, Fail, Unlocked
    <3> QED
      BY <1>5, <3>1, <3>2, <3>3, <3>4, <3>5
         DEF Authenticate, PoolCheck, Sample, ReadBody, Answer
  <2> QED
    BY <2>1, <2>2, <2>3 DEF TypeOK, bucketVars
<1>6. ASSUME NEW r \in Requests, Allow(r) PROVE TypeOK'
  <2>1. Refilled(req[r].now) - Token \in 0 .. Capacity /\ req[r].now \in Nat
    BY <1>6, RefilledType, UnitsAssumption DEF Allow, TypeOK
  <2>2. /\ bucket' \in [level : 0 .. Capacity, ts : Nat] /\ bucket'.ts <= clock'
        /\ expires' \in Nat /\ back' \in Nat
    BY <1>6, <2>1, WrittenType DEF Allow, TypeOK
  <2>3. /\ req' \in [Requests -> [at : Steps, now : Nat]]
        /\ \A q \in Requests : req'[q].now <= clock'
    BY <1>3, <1>6 DEF Allow, Steps
  <2> QED
    BY <1>6, <2>2, <2>3, UnitsAssumption DEF TypeOK, Allow, poolVars
<1>7. ASSUME NEW r \in Requests, Deny(r) PROVE TypeOK'
  <2>1. Refilled(req[r].now) \in 0 .. Capacity /\ req[r].now \in Nat
    BY RefilledType DEF TypeOK
  <2>2. /\ bucket' \in [level : 0 .. Capacity, ts : Nat] /\ bucket'.ts <= clock'
        /\ expires' \in Nat /\ back' \in Nat
    BY <1>7, <2>1, WrittenType DEF Deny, TypeOK
  <2>3. /\ req' \in [Requests -> [at : Steps, now : Nat]]
        /\ \A q \in Requests : req'[q].now <= clock'
    BY <1>3, <1>7 DEF Deny, Steps
  <2>4. promise' \in Nat
    BY <1>7, DenialType DEF Deny, TypeOK, Lesser
  <2> QED
    BY <1>7, <2>2, <2>3, <2>4 DEF TypeOK, Deny, poolVars
<1> QED
  BY <1>1, <1>2, <1>5, <1>6, <1>7 DEF Next

LEMMA TypeInit == Init => TypeOK
<1> SUFFICES ASSUME Init PROVE TypeOK
  OBVIOUS
<1>1. req \in [Requests -> [at : Steps, now : Nat]] /\ \A r \in Requests : req[r].now = 0
  BY DEF Init, Steps
<1>2. bucket = NoBucket /\ bucket.ts = 0 /\ clock = 0
  BY DEF Init, NoBucket
<1>3. pool \in BOOLEAN /\ lock \in Requests \cup {NoRequest} /\ jobs \subseteq Requests
  BY DEF Init
<1>4. pools \in Nat /\ expires \in Nat /\ spent \in Nat /\ back \in Nat /\ promise = NoPromise
  BY DEF Init
<1> QED
  BY <1>1, <1>2, <1>3, <1>4 DEF TypeOK

\* Every variable of the endpoint keeps its type, whatever the requests do.
THEOREM TypeCorrect == Spec => []TypeOK
BY TypeInit, TypeStep, PTL DEF Spec

-----------------------------------------------------------------------------
(* The bucket.                                                             *)

\* What the bucket holds, as far as the next script will find it.
Level == IF Absent THEN Capacity ELSE bucket.level

\* The account of the bucket: what was granted and what is left were in it at the
\* start, refilled since, or refilled twice.
Account == spent + Level <= Capacity + UpTo + back

\* As long as a client waits as it was told to, the level is below one token and
\* will reach one by the time it was told.
Waiting ==
    promise # NoPromise =>
        /\ bucket # NoBucket
        /\ bucket.level < Token
        /\ bucket.level + (promise - bucket.ts) >= Token

BucketInv == TypeOK /\ ExpiryIsHarmless /\ Account /\ Waiting

\* The bucket is refilled up to now at most.
LEMMA UpToNow == TypeOK => UpTo \in Nat /\ UpTo <= clock
BY DEF TypeOK, UpTo, Absent, NoBucket

\* A written bucket is there, up to the time of its script, and outlives its refill.
LEMMA WrittenBucket ==
    ASSUME TypeOK, NEW level \in 0 .. Capacity, NEW now \in Nat, now <= clock,
           Written(level, now), clock' = clock
    PROVE  /\ bucket' # NoBucket /\ bucket'.level = level /\ bucket'.ts = now
           /\ ExpiryIsHarmless' /\ UpTo' = now /\ Level' = level
           /\ back' + now >= back + UpTo
           /\ back' >= back
<1>1. bucket' = [level |-> level, ts |-> now] /\ expires' = clock + TTL
  BY DEF Written
<1>2. bucket' # NoBucket /\ bucket'.level = level /\ bucket'.ts = now
  BY <1>1 DEF NoBucket
<1>3. clock \in Nat /\ TTL \in Nat /\ TTL > 0 /\ TTL >= Capacity /\ Capacity \in Nat
  BY TTLIsLong, UnitsAssumption DEF TypeOK
<1>4. ~Absent'
  BY <1>1, <1>2, <1>3 DEF Absent
<1>5. UpTo' = now /\ Level' = level
  BY <1>2, <1>4 DEF UpTo, Level
<1>6. ExpiryIsHarmless'
  BY <1>1, <1>2, <1>3 DEF ExpiryIsHarmless
<1>7. back' + now >= back + UpTo /\ back' >= back
  BY UpToNow DEF Written, TypeOK
<1> QED
  BY <1>2, <1>5, <1>6, <1>7

\* A refill adds no more than the account grows by.
LEMMA RefillAccounted ==
    ASSUME TypeOK, Account, NEW now \in Nat, NEW b \in Nat,
           b + now >= back + UpTo, b >= back
    PROVE  spent + Refilled(now) <= Capacity + now + b
<1>1. /\ spent \in Nat /\ back \in Nat /\ Capacity \in Nat /\ UpTo \in Nat
      /\ spent + Level <= Capacity + UpTo + back
  BY UpToNow, UnitsAssumption DEF TypeOK, Account
<1>2. CASE Absent
  BY <1>1, <1>2 DEF Level, Refilled
<1>3. CASE ~Absent
  <2>1. bucket.level \in Nat /\ bucket.ts \in Nat /\ UpTo = bucket.ts /\ Level = bucket.level
    BY <1>3 DEF TypeOK, Absent, UpTo, Level
  <2>2. Refilled(now) <= bucket.level + Elapsed(now)
    BY <1>1, <1>3, <2>1 DEF Refilled, Lesser, Elapsed
  <2>3. Refilled(now) \in Nat
    BY RefilledType
  <2> QED
    BY <1>1, <2>1, <2>2, <2>3 DEF Elapsed
<1> QED
  BY <1>2, <1>3

\* Nothing changes for a bucket left alone, except that it may expire.
LEMMA IdleBucket ==
    ASSUME BucketInv, UNCHANGED bucketVars, clock' \in Nat, clock' >= clock
    PROVE  ExpiryIsHarmless' /\ Account' /\ Waiting'
<1> USE DEF BucketInv
<1>1. ExpiryIsHarmless' /\ Waiting'
  BY DEF ExpiryIsHarmless, Waiting, bucketVars
<1>2. /\ spent \in Nat /\ back \in Nat /\ Capacity \in Nat /\ clock \in Nat /\ expires \in Nat
      /\ spent' = spent /\ back' = back /\ bucket' = bucket /\ expires' = expires
      /\ spent + Level <= Capacity + UpTo + back
  BY UnitsAssumption DEF TypeOK, Account, bucketVars
<1>3. CASE Absent' = Absent
  <2>1. Level' = Level /\ UpTo' = UpTo
    BY <1>2, <1>3 DEF Level, UpTo
  <2> QED
    BY <1>1, <1>2, <2>1 DEF Account
<1>4. CASE Absent' # Absent
  <2>1. bucket # NoBucket /\ ~Absent /\ Absent'
    BY <1>2, <1>4 DEF Absent
  <2>2. /\ bucket.level \in Nat /\ bucket.ts \in Nat
        /\ Level = bucket.level /\ UpTo = bucket.ts
        /\ Level' = Capacity /\ UpTo' = expires
        /\ bucket.level + (expires - bucket.ts) >= Capacity
    BY <1>2, <2>1 DEF TypeOK, Level, UpTo, ExpiryIsHarmless
  <2> QED
    BY <1>1, <1>2, <2>2 DEF Account
<1> QED
  BY <1>3, <1>4

\* A token is taken out of the refilled bucket, and nobody waits any more.
LEMMA AllowStep ==
    ASSUME BucketInv, NEW r \in Requests, Allow(r)
    PROVE  ExpiryIsHarmless' /\ Account' /\ Waiting'
<1> USE DEF BucketInv
<1> DEFINE now == req[r].now
           left == Refilled(now) - Token
<1>1. /\ now \in Nat /\ now <= clock /\ clock' = clock
      /\ Refilled(now) \in 0 .. Capacity /\ left \in 0 .. Capacity
  BY RefilledType, UnitsAssumption DEF Allow, TypeOK
<1>2. Written(left, now)
  BY DEF Allow
<1> HIDE DEF left, now
<1>3. /\ ExpiryIsHarmless' /\ UpTo' = now /\ Level' = left
      /\ back' + now >= back + UpTo /\ back' >= back
  BY <1>1, <1>2, WrittenBucket
<1>4. back' \in Nat
  BY <1>1, <1>2, WrittenType
<1>5. spent + Refilled(now) <= Capacity + now + back'
  BY <1>1, <1>3, <1>4, RefillAccounted
<1>6. Account'
  BY <1>1, <1>3, <1>4, <1>5, UnitsAssumption DEF Account, Allow, left, TypeOK
<1>7. Waiting'
  BY DEF Allow, Waiting
<1> QED
  BY <1>3, <1>6, <1>7

\* A denial leaves what is refilled, which reaches a token by the time promised.
LEMMA DenyStep ==
    ASSUME BucketInv, NEW r \in Requests, Deny(r)
    PROVE  ExpiryIsHarmless' /\ Account' /\ Waiting'
<1> USE DEF BucketInv
<1> DEFINE now == req[r].now
           level == Refilled(now)
<1>1. /\ now \in Nat /\ now <= clock /\ clock' = clock /\ level \in 0 .. Capacity
      /\ level < Token /\ Token \in Nat /\ Capacity \in Nat /\ Capacity >= Token
  BY RefilledType, UnitsAssumption DEF Deny, TypeOK
<1>2. Written(level, now)
  BY DEF Deny
<1>3. Promised(r) \in Nat /\ Promised(r) >= now + (Token - level)
  BY DenialType
<1>4. ~Absent /\ level = bucket.level + Elapsed(now)
  <2>1. ~Absent
    BY <1>1 DEF Refilled
  <2>2. bucket.level \in Nat /\ bucket.ts \in Nat
    BY <2>1 DEF TypeOK, Absent
  <2> QED
    BY <1>1, <2>1, <2>2 DEF Refilled, Lesser, Elapsed
<1>5. bucket.level \in Nat /\ bucket.ts \in Nat
  BY <1>4 DEF TypeOK, Absent
<1>6. level >= bucket.level /\ level >= bucket.level + (now - bucket.ts)
  BY <1>1, <1>4, <1>5 DEF Elapsed
<1>7. promise' = IF promise = NoPromise THEN Promised(r) ELSE Lesser(promise, Promised(r))
  BY DEF Deny
<1> HIDE DEF level, now
<1>8. /\ bucket' # NoBucket /\ bucket'.level = level /\ bucket'.ts = now
      /\ ExpiryIsHarmless' /\ UpTo' = now /\ Level' = level
      /\ back' + now >= back + UpTo /\ back' >= back
  BY <1>1, <1>2, WrittenBucket
<1>9. back' \in Nat
  BY <1>1, <1>2, WrittenType
<1>10. spent + level <= Capacity + now + back'
  BY <1>1, <1>8, <1>9, RefillAccounted DEF level
<1>11. Account'
  BY <1>8, <1>10 DEF Account, Deny
<1>12. promise # NoPromise => promise \in Nat /\ level + (promise - now) >= Token
  <2> SUFFICES ASSUME promise # NoPromise
               PROVE  promise \in Nat /\ level + (promise - now) >= Token
    OBVIOUS
  <2>1. promise \in Nat /\ bucket.level + (promise - bucket.ts) >= Token
    BY DEF TypeOK, Waiting
  <2> QED
    BY <1>1, <1>5, <1>6, <2>1
<1>13. promise' \in Nat /\ level + (promise' - now) >= Token
  BY <1>1, <1>3, <1>7, <1>12 DEF Lesser
<1>14. Waiting'
  BY <1>1, <1>8, <1>13 DEF Waiting
<1> QED
  BY <1>8, <1>11, <1>14

LEMMA BucketStep == BucketInv /\ [Next]_vars => BucketInv'
<1> SUFFICES ASSUME BucketInv, [Next]_vars PROVE BucketInv'
  OBVIOUS
<1>1. TypeOK /\ TypeOK'
  BY TypeStep DEF BucketInv
<1>2. CASE UNCHANGED bucketVars /\ clock' \in Nat /\ clock' >= clock
  BY <1>1, <1>2, IdleBucket DEF BucketInv
<1>3. CASE \E r \in Requests : Allow(r) \/ Deny(r)
  BY <1>1, <1>3, AllowStep, DenyStep DEF BucketInv
<1>4. CASE Tick \/ UNCHANGED vars
  <2>1. UNCHANGED bucketVars /\ (clock' = clock + 1 \/ clock' = clock)
    BY <1>4 DEF Tick, vars, bucketVars
  <2> QED
    BY <1>1, <1>2, <2>1 DEF TypeOK
<1>5. ASSUME NEW r \in Requests,
             Authenticate(r) \/ PoolCheck(r) \/ PoolLock(r) \/ PoolCreated(r)
               \/ Sample(r) \/ ReadBody(r) \/ Enqueue(r) \/ Answer(r) \/ Fail(r)
      PROVE  BucketInv'
  <2>1. UNCHANGED <<clock, bucketVars>>
    BY <1>5 DEF Authenticate, PoolCheck, PoolLock, PoolCreated, Sample, ReadBody,
                Enqueue, Answer, Fail
  <2> QED
    BY <1>1, <1>2, <2>1 DEF TypeOK
<1> QED
  BY <1>3, <1>4, <1>5 DEF Next

LEMMA BucketHolds == Spec => []BucketInv
<1>1. Init => BucketInv
  <2>1. Init => TypeOK
    BY TypeInit
  <2>2. Init => ExpiryIsHarmless /\ Account /\ Waiting
    BY UnitsAssumption DEF Init, ExpiryIsHarmless, Account, Waiting, Level, UpTo, Absent
  <2> QED
    BY <2>1, <2>2 DEF BucketInv
<1> QED
  BY <1>1, BucketStep, PTL DEF Spec

\* A key is never granted more than a burst, what the time refilled, and what scripts
\* that ran out of order let the limiter refill twice.
THEOREM GrantsAreBounded == Spec => []GrantsBounded
<1>1. BucketInv => GrantsBounded
  <2> SUFFICES ASSUME BucketInv PROVE GrantsBounded
    OBVIOUS
  <2>1. UpTo \in Nat /\ UpTo <= clock /\ Level >= 0 /\ Level \in Nat
    BY UpToNow, UnitsAssumption DEF BucketInv, TypeOK, Level, Absent
  <2> QED
    BY <2>1, UnitsAssumption DEF BucketInv, Account, GrantsBounded, TypeOK
<1> QED
  BY <1>1, BucketHolds, PTL

\* A bucket that Redis removes would have been full: TTL_SECONDS is long enough for
\* every capacity and refill rate.
THEOREM ExpiryHolds == Spec => []ExpiryIsHarmless
<1>1. BucketInv => ExpiryIsHarmless
  BY DEF BucketInv
<1> QED
  BY <1>1, BucketHolds, PTL

\* Retry-After is long enough: whoever waited is granted, unless another was.
THEOREM RetryAfterHolds == Spec => RetryAfterIsEnough
<1>1. ASSUME BucketInv, NEW r \in Requests, Deny(r), promise # NoPromise
      PROVE  req[r].now < promise
  <2> DEFINE now == req[r].now
  <2>1. /\ now \in Nat /\ promise \in Nat /\ Refilled(now) < Token
        /\ Token \in Nat /\ Capacity \in Nat /\ Capacity >= Token
        /\ bucket.level < Token /\ bucket.level + (promise - bucket.ts) >= Token
    BY <1>1, UnitsAssumption, RefilledType DEF BucketInv, TypeOK, Waiting, Deny
  <2>2. ~Absent
    BY <2>1 DEF Refilled
  <2>3. bucket.level \in Nat /\ bucket.ts \in Nat
    BY <1>1, <2>2 DEF BucketInv, TypeOK, Absent
  <2>4. bucket.level + Elapsed(now) < Token
    BY <2>1, <2>2, <2>3 DEF Refilled, Lesser, Elapsed
  <2> QED
    BY <2>1, <2>3, <2>4 DEF Elapsed
<1>2. BucketInv => \A r \in Requests : Deny(r) /\ promise # NoPromise => req[r].now < promise
  BY <1>1
<1> QED
  BY <1>2, BucketHolds, PTL DEF RetryAfterIsEnough

-----------------------------------------------------------------------------
(* The pool.                                                               *)

\* Only the holder of the lock creates a pool, and only while there is none.
PoolInv ==
    /\ \A r \in Requests : At(r, "creating") => lock = r /\ ~pool
    /\ pools = IF pool THEN 1 ELSE 0

LEMMA PoolStep == TypeOK /\ PoolInv /\ [Next]_vars => PoolInv'
<1> SUFFICES ASSUME TypeOK, PoolInv, [Next]_vars PROVE PoolInv'
  OBVIOUS
<1> USE DEF TypeOK, PoolInv, At, Goto, Limiting, Steps
<1>1. CASE Tick \/ UNCHANGED vars
  BY <1>1 DEF Tick, vars, poolVars
<1>2. ASSUME NEW r \in Requests,
             Authenticate(r) \/ PoolCheck(r) \/ Allow(r) \/ Deny(r) \/ Sample(r)
               \/ ReadBody(r) \/ Enqueue(r) \/ Answer(r)
      PROVE  PoolInv'
  <2>1. /\ UNCHANGED poolVars
        /\ \A q \in Requests : req'[q].at = "creating" => req[q].at = "creating"
    BY <1>2 DEF Authenticate, PoolCheck, Allow, Deny, Sample, ReadBody, Enqueue, Answer
  <2> QED
    BY <2>1 DEF poolVars
<1>3. ASSUME NEW r \in Requests, PoolLock(r) PROVE PoolInv'
  BY <1>3, RequestsAssumption DEF PoolLock
<1>4. ASSUME NEW r \in Requests, PoolCreated(r) PROVE PoolInv'
  BY <1>4, RequestsAssumption DEF PoolCreated
<1>5. ASSUME NEW r \in Requests, Fail(r) PROVE PoolInv'
  BY <1>5, RequestsAssumption DEF Fail, Unlocked
<1> QED
  BY <1>1, <1>2, <1>3, <1>4, <1>5 DEF Next

\* However many first requests come together, one pool is created.
THEOREM OnePoolHolds == Spec => []OnePool
<1>1. Init => PoolInv
  BY DEF Init, PoolInv, At
<1>2. PoolInv => OnePool
  BY DEF PoolInv, OnePool
<1> QED
  BY <1>1, <1>2, PoolStep, TypeCorrect, PTL DEF Spec
=============================================================================
