------------------------------- MODULE Ingest -------------------------------
(***************************************************************************)
(* The ingest endpoint for one DSN key: ingest_event with the pool it      *)
(* shares and the token bucket it keeps in Redis.  An action is what runs  *)
(* between two awaits; the Lua script is atomic.  A request reads the time *)
(* before it sends the script, so scripts may run in another order than    *)
(* their times.                                                            *)
(*                                                                         *)
(* Time is counted in ticks and tokens in what one tick refills, so that   *)
(* fractions of a second and of a token are whole numbers here.            *)
(***************************************************************************)
EXTENDS Integers, FiniteSets

CONSTANTS
    Requests,     \* requests that present the key
    NoRequest,    \* nobody holds _pool_lock
    Token,        \* ticks that refill one token
    Second,       \* ticks of a second
    Capacity,     \* BUCKET_CAPACITY, in refilled ticks
    Margin,       \* the seconds TTL_SECONDS adds
    MaxClock      \* bound: ticks in one behaviour

ASSUME RequestsAssumption == NoRequest \notin Requests
ASSUME UnitsAssumption    == /\ Token \in Nat \ {0} /\ Second \in Nat \ {0}
                             /\ Capacity \in Nat /\ Capacity >= Token
                             /\ Margin \in Nat \ {0} /\ MaxClock \in Nat

VARIABLES
    clock,      \* the time, as API and Redis tell it
    bucket,     \* the hash of the key as it was last written, or NoBucket
    expires,    \* from when on Redis does not find it any more
    pool,       \* app.state.arq_pool is set
    lock,       \* who holds _pool_lock
    pools,      \* history: pools created
    req,        \* req[r]: where request r is, and the time its script carries
    jobs,       \* requests whose process_event job is in Redis
    spent,      \* history: the tokens granted, in refilled ticks
    back,       \* history: how far the time of the bucket went back, in all
    promise     \* history: when the first client told to wait since the last
                \* grant may come back, or NoPromise

bucketVars == <<bucket, expires, spent, back, promise>>
poolVars == <<pool, lock, pools>>
vars == <<clock, bucketVars, poolVars, req, jobs>>

NoBucket == [level |-> -1, ts |-> 0]
NoPromise == -1

At(r, step) == req[r].at = step
Goto(r, step) == req' = [req EXCEPT ![r] = [at |-> step, now |-> 0]]

-----------------------------------------------------------------------------
(* Authentication and the pool.                                            *)

\* A missing, unknown, inactive or foreign key is refused; which it is depends on
\* the request and on the dsn_keys row of the moment.
Authenticate(r) ==
    /\ At(r, "new")
    /\ Goto(r, "refused") \/ Goto(r, "resolved")
    /\ UNCHANGED <<clock, bucketVars, poolVars, jobs>>

\* time.time(), and the script is on its way.
Limiting(r) == req' = [req EXCEPT ![r] = [at |-> "limiting", now |-> clock]]

\* get_ingest_pool: the check outside the lock.
PoolCheck(r) ==
    /\ At(r, "resolved")
    /\ IF pool THEN Limiting(r) ELSE Goto(r, "waiting")
    /\ UNCHANGED <<clock, bucketVars, poolVars, jobs>>

\* The check inside the lock.
PoolLock_NoRecheck(r) ==           \* creates it regardless: OnePool
    /\ At(r, "waiting") /\ lock = NoRequest
    /\ lock' = r /\ Goto(r, "creating")
    /\ UNCHANGED <<clock, bucketVars, pool, pools, jobs>>

PoolLock(r) ==
    /\ At(r, "waiting") /\ lock = NoRequest
    /\ IF pool THEN Limiting(r) /\ UNCHANGED lock
               ELSE lock' = r /\ Goto(r, "creating")
    /\ UNCHANGED <<clock, bucketVars, pool, pools, jobs>>

PoolCreated(r) ==
    /\ At(r, "creating")
    /\ pool' = TRUE
    /\ pools' = pools + 1
    /\ lock' = NoRequest
    /\ Limiting(r)
    /\ UNCHANGED <<clock, bucketVars, jobs>>

-----------------------------------------------------------------------------
(* The token bucket.                                                       *)

Lesser_First(a, b) == a            \* no cap: TypeOK

Lesser(a, b) == IF a <= b THEN a ELSE b

Absent == bucket = NoBucket \/ clock >= expires

\* The level after the refill up to the given time; an absent bucket is full.
Elapsed_Absolute(now) ==           \* abs(now - ts): GrantsBounded
    IF now >= bucket.ts THEN now - bucket.ts ELSE bucket.ts - now

Elapsed(now) == IF now >= bucket.ts THEN now - bucket.ts ELSE 0

Refilled(now) ==
    IF Absent THEN Capacity
    ELSE Lesser(bucket.level + Elapsed(now), Capacity)

TTL_Flat == Margin * Second        \* one flat minute: ExpiryIsHarmless

TTL == (Capacity \div Second + Margin) * Second

\* Whole seconds until the level reaches one token, rounded up.
retry_after_seconds_Down(level) == (Token - level) \div Second   \* RetryAfterIsEnough

retry_after_seconds(level) == (Token - level + Second - 1) \div Second

\* History: up to when the bucket is refilled; one that expires is full then.
UpTo == IF bucket = NoBucket THEN 0 ELSE IF Absent THEN expires ELSE bucket.ts

\* The bucket is written back with the time of the request, whichever was later.
Written(level, now) ==
    /\ bucket' = [level |-> level, ts |-> now]
    /\ expires' = clock + TTL
    /\ back' = back + IF now < UpTo THEN UpTo - now ELSE 0

Allow(r) ==
    /\ At(r, "limiting")
    /\ Refilled(req[r].now) >= Token
    /\ Written(Refilled(req[r].now) - Token, req[r].now)
    /\ spent' = spent + Token
    /\ promise' = NoPromise
    /\ Goto(r, "admitted")
    /\ UNCHANGED <<clock, poolVars, jobs>>

\* History: a client that was told to wait counts from the time its request read.
Promised(r) ==
    req[r].now + retry_after_seconds(Refilled(req[r].now)) * Second

Deny(r) ==
    /\ At(r, "limiting")
    /\ Refilled(req[r].now) < Token
    /\ Written(Refilled(req[r].now), req[r].now)
    /\ promise' = IF promise = NoPromise THEN Promised(r)
                  ELSE Lesser(promise, Promised(r))
    /\ Goto(r, "throttled")
    /\ UNCHANGED <<clock, spent, poolVars, jobs>>

-----------------------------------------------------------------------------
(* The body, the job and the answer.                                       *)

\* _sampled_out: 202 without an id, and the body stays unread.
Sample(r) ==
    /\ At(r, "admitted")
    /\ Goto(r, "sampled") \/ Goto(r, "kept")
    /\ UNCHANGED <<clock, bucketVars, poolVars, jobs>>

\* The body arrives: too large or malformed, or an envelope.
ReadBody(r) ==
    /\ At(r, "kept")
    /\ Goto(r, "refused") \/ Goto(r, "valid")
    /\ UNCHANGED <<clock, bucketVars, poolVars, jobs>>

Enqueue(r) ==
    /\ At(r, "valid")
    /\ jobs' = jobs \cup {r}
    /\ Goto(r, "queued")
    /\ UNCHANGED <<clock, bucketVars, poolVars>>

Answer(r) ==
    /\ At(r, "queued")
    /\ Goto(r, "accepted")
    /\ UNCHANGED <<clock, bucketVars, poolVars, jobs>>

\* PostgreSQL, Redis or the connection fails: what was done stays, a reply that was
\* under way is lost, and the client sees an error.
Unlocked(r) == IF lock = r THEN NoRequest ELSE lock

Fail(r) ==
    /\ req[r].at \in {"new", "creating", "limiting", "admitted", "kept", "valid", "queued"}
    /\ Goto(r, "error")
    /\ lock' = Unlocked(r)
    /\ UNCHANGED <<clock, bucketVars, pool, pools, jobs>>

-----------------------------------------------------------------------------
Init ==
    /\ clock = 0
    /\ bucket = NoBucket /\ expires = 0
    /\ pool = FALSE /\ lock = NoRequest /\ pools = 0
    /\ req = [r \in Requests |-> [at |-> "new", now |-> 0]]
    /\ jobs = {} /\ spent = 0 /\ back = 0 /\ promise = NoPromise

Tick ==
    /\ clock < MaxClock
    /\ clock' = clock + 1
    /\ UNCHANGED <<bucketVars, poolVars, req, jobs>>

Next ==
    \/ Tick
    \/ \E r \in Requests :
          \/ Authenticate(r) \/ PoolCheck(r) \/ PoolLock(r) \/ PoolCreated(r)
          \/ Allow(r) \/ Deny(r) \/ Sample(r) \/ ReadBody(r) \/ Enqueue(r)
          \/ Answer(r) \/ Fail(r)

Spec == Init /\ [][Next]_vars

-----------------------------------------------------------------------------
(* Correctness.                                                            *)

Steps == {"new", "refused", "resolved", "waiting", "creating", "limiting", "admitted",
          "throttled", "sampled", "kept", "valid", "queued", "accepted", "error"}

\* Every variable has its type; the level stays within the capacity, and no request
\* has read a time to come.
TypeOK ==
    /\ clock \in Nat /\ expires \in Nat
    /\ bucket = NoBucket \/ bucket \in [level : 0 .. Capacity, ts : Nat]
    /\ bucket.ts <= clock
    /\ pool \in BOOLEAN /\ lock \in Requests \cup {NoRequest} /\ pools \in Nat
    /\ req \in [Requests -> [at : Steps, now : Nat]]
    /\ \A r \in Requests : req[r].now <= clock
    /\ jobs \subseteq Requests
    /\ spent \in Nat /\ back \in Nat /\ promise \in Nat \cup {NoPromise}

\* "A client may burst up to 120 events, then sustain 1 event/second": what a key is
\* granted is the capacity and what the time refilled, the bucket's expiry included;
\* and on top of it, every interval by which a script's time lies before what is
\* refilled already, which the next script refills again.
GrantsBounded == spent <= Capacity + clock + back

\* "rounded UP so the client never retries a shade too early": a request that comes
\* when an earlier one was told to is not denied, unless one was granted in between.
RetryAfterIsEnough ==
    [][\A r \in Requests : Deny(r) /\ promise # NoPromise => req[r].now < promise]_vars

\* "any expired bucket was already back to full": a client gains and loses nothing
\* when its bucket expires, though the bucket's time may be older than its writing.
ExpiryIsHarmless ==
    bucket # NoBucket => bucket.level + (expires - bucket.ts) >= Capacity

\* "a burst of concurrent first requests makes exactly one pool", failed attempts
\* to create it included.
OnePool == pools <= 1 /\ (pool <=> pools = 1)
=============================================================================
