------------------------------- MODULE Login -------------------------------
(***************************************************************************)
(* authenticate: the lockout counter of one account, under sign-in attempts *)
(* that overlap.  An attempt reads the clock, then the user's row; while it *)
(* verifies the password others run; then it writes the fields it changed  *)
(* from what it had read, and commits.  Nothing locks the row in between.  *)
(***************************************************************************)
EXTENDS Naturals, FiniteSets, Combinatorics

CONSTANTS
    Attempts,            \* sign-in requests handled at the same time
    LOCKOUT_THRESHOLD,
    LOCKOUT_DURATION,
    MaxTime              \* bound: the clock

ASSUME LockoutAssumption ==
    /\ LOCKOUT_THRESHOLD \in Nat \ {0} /\ LOCKOUT_DURATION \in Nat \ {0}
    /\ MaxTime \in Nat

ASSUME AttemptsAssumption == Attempts # {} /\ IsFiniteSet(Attempts)

VARIABLES
    user,          \* failed_login_count and locked_until of the row
    now,
    attempt,       \* attempt[a]: where it is, its clock, and the row it read
    guesses,       \* history: wrong passwords since the last sign-in or lock
    lockedAfter,   \* history: how many of them the last lock took
    overlapped     \* history: an attempt committed while another held its read

rowVars == <<user, now>>
loginHistory == <<guesses, lockedAfter, overlapped>>
loginVars == <<rowVars, attempt, loginHistory>>

Never == 0                         \* locked_until IS NULL; the clock starts at 1
Waiting == [at |-> "waiting"]

Goes(a, next) == attempt' = [attempt EXCEPT ![a] = next]

\* now = _utcnow()
TakeClock(a) ==
    /\ attempt[a] = Waiting
    /\ Goes(a, [at |-> "clock", now |-> now])
    /\ UNCHANGED <<rowVars, loginHistory>>

Locked_Never(until, time) == FALSE            \* the check is lost: LockoutCountsGuesses

Locked(until, time) == until # Never /\ until > time

\* SELECT the user; a locked account ends the attempt without a change.
LoadUser(a) ==
    /\ attempt[a].at = "clock"
    /\ Goes(a, IF Locked(user.until, attempt[a].now) THEN Waiting
               ELSE [at |-> "verify", now |-> attempt[a].now,
                     count |-> user.count, until |-> user.until])
    /\ UNCHANGED <<rowVars, loginHistory>>

\* A lock that has passed starts the attempt from a clean counter.
effective_count(read) ==
    IF read.until # Never /\ read.until <= read.now THEN 0 ELSE read.count

new_count_Forgotten(read) == effective_count(read)      \* LostCountsAreBounded

new_count(read) == effective_count(read) + 1

\* The UPDATE names the fields whose values differ from those that were read.
Flushed(read, count, until) ==
    [count |-> IF count = read.count THEN user.count ELSE count,
     until |-> IF until = read.until THEN user.until ELSE until]

Overlaps(a) == \E b \in Attempts \ {a} : attempt[b].at = "verify"

\* The password is right.
Accepted(a) ==
    /\ attempt[a].at = "verify"
    /\ user' = Flushed(attempt[a], 0, Never)
    /\ guesses' = 0
    /\ overlapped' = (overlapped \/ Overlaps(a))
    /\ Goes(a, Waiting)
    /\ UNCHANGED <<now, lockedAfter>>

\* The password is wrong.
Refused(a) ==
    /\ attempt[a].at = "verify"
    /\ LET read == attempt[a]
           locks == new_count(read) >= LOCKOUT_THRESHOLD
       IN  /\ user' = Flushed(read, new_count(read),
                              IF locks THEN read.now + LOCKOUT_DURATION ELSE Never)
           /\ guesses' = IF locks THEN 0 ELSE guesses + 1
           /\ lockedAfter' = IF locks THEN guesses + 1 ELSE lockedAfter
    /\ overlapped' = (overlapped \/ Overlaps(a))
    /\ Goes(a, Waiting)
    /\ UNCHANGED now

\* The connection is lost, or the server is killed: the transaction rolls back.
GiveUp(a) ==
    /\ attempt[a] # Waiting
    /\ Goes(a, Waiting)
    /\ UNCHANGED <<rowVars, loginHistory>>

TimePasses ==
    /\ now < MaxTime
    /\ now' = now + 1
    /\ UNCHANGED <<user, attempt, loginHistory>>

LoginInit ==
    /\ user = [count |-> 0, until |-> Never]
    /\ now = 1
    /\ attempt = [a \in Attempts |-> Waiting]
    /\ guesses = 0 /\ lockedAfter = 0 /\ overlapped = FALSE

LoginNext ==
    \/ \E a \in Attempts :
          TakeClock(a) \/ LoadUser(a) \/ Accepted(a) \/ Refused(a) \/ GiveUp(a)
    \/ TimePasses

LoginSpec == LoginInit /\ [][LoginNext]_loginVars

-----------------------------------------------------------------------------
\* An account locks after THRESHOLD wrong passwords, not earlier or later, when no
\* attempt commits while another holds its read, however long a lock lasts and whatever
\* happens around its end.
LockoutCountsGuesses ==
    ~overlapped => guesses < LOCKOUT_THRESHOLD /\ lockedAfter \in {0, LOCKOUT_THRESHOLD}

\* Overlapping attempts lose counts, but the loss is bounded: each write is one above what
\* its attempt had read, so the smallest count anyone holds never falls, and with N
\* attempts at a time no more than this many wrong passwords are judged before a lock.
LostCountsAreBounded ==
    LET N == Cardinality(Attempts)
    IN  guesses + 2 <= choose(LOCKOUT_THRESHOLD + N - 1, N) + N
=============================================================================
