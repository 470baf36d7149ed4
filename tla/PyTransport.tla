---------------------------- MODULE PyTransport ----------------------------
(***************************************************************************)
(* The Transport class of the Python SDK: application threads submit,      *)
(* flush and close; one daemon thread takes events off a bounded           *)
(* queue.Queue and posts them.  The condition _cond guards _pending; the   *)
(* queue has a lock of its own, so each queue call is one step, and steps  *)
(* of other threads fall between it and the code around it.                *)
(***************************************************************************)
EXTENDS Naturals, Sequences, FiniteSets

CONSTANTS
    Threads,     \* application threads
    NoThread,    \* _cond is free
    MaxQueue,    \* max_queue (100)
    MaxEvents    \* bound: events put on the queue in one behaviour

ASSUME ThreadsAssumption == NoThread \notin Threads
ASSUME LimitsAssumption  == MaxQueue \in Nat \ {0} /\ MaxEvents \in Nat

SHUTDOWN == 0

VARIABLES
    queue,      \* events, numbered in the order they were put, and SHUTDOWN
    cond,       \* the thread that holds _cond between two of its steps
    pending,    \* _pending
    closed,     \* _closed
    worker,     \* the daemon thread: where it is
    attempt,    \* its attempt at the event in hand, 0 or 1
    pc,         \* pc[t]: where thread t is in submit, flush or close
    inClose,    \* inClose[t]: the flush of t is the one inside close
    before,     \* history: events counted when the last flush of t was called
    result,     \* result[t]: what the last flush of t returned
    puts,       \* history: events put on the queue
    counted,    \* history: of those, the ones counted in _pending
    handled,    \* history: the events the worker is done with
    inHand,     \* the event the worker is sending
    evicted,    \* history: events thrown out by close
    crowded     \* history: a close could not queue its SHUTDOWN

vars == <<queue, cond, pending, closed, worker, attempt, pc, inClose, before, result,
          puts, counted, handled, inHand, evicted, crowded>>

CondFree_HeldWhileSending ==      \* the worker sends inside "with _cond": CallsReturn
    cond = NoThread /\ worker \notin {"sending", "delay", "limited"}

CondFree == cond = NoThread

Full_OneMore == Len(queue) > MaxQueue          \* TypeOK

Full == Len(queue) >= MaxQueue
Goto(t, step) == pc' = [pc EXCEPT ![t] = step]

-----------------------------------------------------------------------------
(* submit.                                                                 *)

\* The check of _closed, outside the lock.
SubmitCheck(t) ==
    /\ pc[t] = "idle" /\ ~closed
    /\ puts + Cardinality({u \in Threads : pc[u] = "submit"}) < MaxEvents
    /\ Goto(t, "submit")
    /\ UNCHANGED <<queue, cond, pending, closed, worker, attempt, inClose, before,
                   result, puts, counted, handled, inHand, evicted, crowded>>

\* put_nowait under _cond; a full queue drops the new event.
Put_CountsDropped(t) ==           \* no return after queue.Full: FlushCountsEverything
    /\ pc[t] = "submit" /\ CondFree
    /\ Goto(t, "count") /\ cond' = t
    /\ IF Full THEN UNCHANGED <<queue, puts>>
               ELSE puts' = puts + 1 /\ queue' = Append(queue, puts')
    /\ UNCHANGED <<pending, closed, worker, attempt, inClose, before, result, counted,
                   handled, inHand, evicted, crowded>>

Put(t) ==
    /\ pc[t] = "submit" /\ CondFree
    /\ IF Full
       THEN Goto(t, "idle") /\ UNCHANGED <<queue, puts, cond>>
       ELSE /\ puts' = puts + 1
            /\ queue' = Append(queue, puts')
            /\ cond' = t
            /\ Goto(t, "count")
    /\ UNCHANGED <<pending, closed, worker, attempt, inClose, before, result, counted,
                   handled, inHand, evicted, crowded>>

\* _pending += 1, and _cond is released.
Count(t) ==
    /\ pc[t] = "count"
    /\ pending' = pending + 1
    /\ counted' = puts
    /\ cond' = NoThread
    /\ Goto(t, "idle")
    /\ UNCHANGED <<queue, closed, worker, attempt, inClose, before, result, puts,
                   handled, inHand, evicted, crowded>>

-----------------------------------------------------------------------------
(* flush and close.                                                        *)

FlushCall(t) ==
    /\ pc[t] = "idle"
    /\ Goto(t, "flush")
    /\ before' = [before EXCEPT ![t] = counted]
    /\ result' = [result EXCEPT ![t] = "none"]
    /\ UNCHANGED <<queue, cond, pending, closed, worker, attempt, inClose, puts,
                   counted, handled, inHand, evicted, crowded>>

\* The loop on _cond ends with _pending = 0, or at the deadline with more to do.
\* (A wait gives _cond up, and every return to 0 is notified.)
Drained_QueueEmpty == queue = <<>>        \* forgets the event in hand: FlushCountsEverything

Drained == pending = 0

FlushReturn(t) ==
    /\ pc[t] = "flush" /\ CondFree
    /\ result' = [result EXCEPT ![t] = IF Drained THEN "drained" ELSE "late"]
    /\ Goto(t, IF inClose[t] THEN "signal" ELSE "idle")
    /\ UNCHANGED <<queue, cond, pending, closed, worker, attempt, inClose, before, puts,
                   counted, handled, inHand, evicted, crowded>>

CloseCheck(t) ==
    /\ pc[t] = "idle" /\ ~closed
    /\ Goto(t, "close")
    /\ UNCHANGED <<queue, cond, pending, closed, worker, attempt, inClose, before,
                   result, puts, counted, handled, inHand, evicted, crowded>>

\* _closed = True, then flush.
CloseMark(t) ==
    /\ pc[t] = "close"
    /\ closed' = TRUE
    /\ inClose' = [inClose EXCEPT ![t] = TRUE]
    /\ before' = [before EXCEPT ![t] = counted]
    /\ result' = [result EXCEPT ![t] = "none"]
    /\ Goto(t, "flush")
    /\ UNCHANGED <<queue, cond, pending, worker, attempt, puts, counted, handled, inHand,
                   evicted, crowded>>

\* put_nowait(_SHUTDOWN), or room is made first.
Signal_GivesUp(t) ==              \* a full queue ends the attempt: WorkerStops
    /\ pc[t] = "signal"
    /\ queue' = IF Full THEN queue ELSE Append(queue, SHUTDOWN)
    /\ Goto(t, "join")
    /\ UNCHANGED <<cond, pending, closed, worker, attempt, inClose, before, result,
                   puts, counted, handled, inHand, evicted, crowded>>

Signal(t) ==
    /\ pc[t] = "signal"
    /\ IF Full THEN Goto(t, "evict") /\ UNCHANGED queue
               ELSE Goto(t, "join") /\ queue' = Append(queue, SHUTDOWN)
    /\ UNCHANGED <<cond, pending, closed, worker, attempt, inClose, before, result,
                   puts, counted, handled, inHand, evicted, crowded>>

\* get_nowait: the oldest entry goes, and nothing takes it off _pending.
Evict(t) ==
    /\ pc[t] = "evict"
    /\ IF queue = <<>> THEN UNCHANGED <<queue, evicted>>
       ELSE /\ queue' = Tail(queue)
            /\ evicted' = evicted \cup ({Head(queue)} \ {SHUTDOWN})
    /\ Goto(t, "resignal")
    /\ UNCHANGED <<cond, pending, closed, worker, attempt, inClose, before, result,
                   puts, counted, handled, inHand, crowded>>

\* The second put_nowait; a submit that was under way may have taken the room.
Resignal(t) ==
    /\ pc[t] = "resignal"
    /\ IF Full THEN crowded' = TRUE /\ UNCHANGED queue
               ELSE queue' = Append(queue, SHUTDOWN) /\ UNCHANGED crowded
    /\ Goto(t, "join")
    /\ UNCHANGED <<cond, pending, closed, worker, attempt, inClose, before, result,
                   puts, counted, handled, inHand, evicted>>

\* join returns when the worker has ended, or after its timeout.
Join(t) ==
    /\ pc[t] = "join"
    /\ inClose' = [inClose EXCEPT ![t] = FALSE]
    /\ Goto(t, "idle")
    /\ UNCHANGED <<queue, cond, pending, closed, worker, attempt, before, result, puts,
                   counted, handled, inHand, evicted, crowded>>

-----------------------------------------------------------------------------
(* The daemon thread: _run and _send.                                      *)

Get ==
    /\ worker = "waiting" /\ queue # <<>>
    /\ queue' = Tail(queue)
    /\ IF Head(queue) = SHUTDOWN
       THEN worker' = "ended" /\ UNCHANGED <<attempt, inHand>>
       ELSE /\ worker' = "sending"
            /\ attempt' = 0
            /\ inHand' = Head(queue)
    /\ UNCHANGED <<cond, pending, closed, pc, inClose, before, result, puts, counted,
                   handled, evicted, crowded>>

\* The request ends: a connection error or 5xx is retried once after a pause, a 429
\* pauses and drops; any other answer, or exception, is final.
Reply ==
    /\ worker = "sending"
    /\ worker' \in {"accounting", "limited"} \cup (IF attempt = 0 THEN {"delay"} ELSE {})
    /\ UNCHANGED <<queue, cond, pending, closed, attempt, pc, inClose, before, result,
                   puts, counted, handled, inHand, evicted, crowded>>

\* A sleep ends.
Wake ==
    /\ \/ worker = "delay" /\ worker' = "sending" /\ attempt' = 1
       \/ worker = "limited" /\ worker' = "accounting" /\ UNCHANGED attempt
    /\ UNCHANGED <<queue, cond, pending, closed, pc, inClose, before, result, puts,
                   counted, handled, inHand, evicted, crowded>>

\* The finally clause: _pending -= 1 under _cond.
Account ==
    /\ worker = "accounting" /\ CondFree
    /\ pending' = pending - 1
    /\ worker' = "waiting"
    /\ handled' = handled \cup {inHand}
    /\ inHand' = SHUTDOWN
    /\ UNCHANGED <<queue, cond, closed, attempt, pc, inClose, before, result, puts,
                   counted, evicted, crowded>>

-----------------------------------------------------------------------------
Init ==
    /\ queue = <<>> /\ cond = NoThread /\ pending = 0 /\ closed = FALSE
    /\ worker = "waiting" /\ attempt = 0 /\ inHand = SHUTDOWN
    /\ pc = [t \in Threads |-> "idle"]
    /\ inClose = [t \in Threads |-> FALSE]
    /\ before = [t \in Threads |-> 0]
    /\ result = [t \in Threads |-> "none"]
    /\ puts = 0 /\ counted = 0 /\ handled = {} /\ evicted = {} /\ crowded = FALSE

\* The steps of a call under way; a thread starts calls as it likes.
Goes(t) ==
    \/ Put(t) \/ Count(t) \/ FlushReturn(t) \/ CloseMark(t)
    \/ Signal(t) \/ Evict(t) \/ Resignal(t) \/ Join(t)

Calls(t) == SubmitCheck(t) \/ FlushCall(t) \/ CloseCheck(t)

Network == Reply \/ Wake

Next == (\E t \in Threads : Goes(t) \/ Calls(t)) \/ Get \/ Network \/ Account

Spec == Init /\ [][Next]_vars

\* Threads are scheduled; whether the server ever answers is left open.
FairSpec ==
    /\ Spec
    /\ \A t \in Threads : SF_vars(Goes(t))
    /\ WF_vars(Get) /\ SF_vars(Account)

-----------------------------------------------------------------------------
(* Correctness.                                                            *)

Members(q) == {q[i] : i \in DOMAIN q}

\* Every variable has its type; the queue keeps its bound, and _cond is held between
\* steps only from a put to its count.
TypeOK ==
    /\ queue \in Seq(0 .. MaxEvents) /\ Len(queue) <= MaxQueue
    /\ cond \in Threads \cup {NoThread}
    /\ \A t \in Threads : cond = t <=> pc[t] = "count"
    /\ pending \in Nat /\ closed \in BOOLEAN
    /\ worker \in {"waiting", "sending", "delay", "limited", "accounting", "ended"}
    /\ attempt \in {0, 1} /\ inHand \in 0 .. MaxEvents
    /\ pc \in [Threads -> {"idle", "submit", "count", "flush", "close", "signal",
                           "evict", "resignal", "join"}]
    /\ inClose \in [Threads -> BOOLEAN]
    /\ before \in [Threads -> 0 .. MaxEvents]
    /\ result \in [Threads -> {"none", "drained", "late"}]
    /\ counted \in 0 .. puts /\ puts \in 0 .. MaxEvents
    /\ handled \subseteq 1 .. MaxEvents /\ evicted \subseteq 1 .. MaxEvents
    /\ crowded \in BOOLEAN

\* _pending counts the events that are queued or in hand and, for ever, those that
\* close threw out; it lags by the put that is being counted.
PendingCounts ==
    pending + Cardinality({t \in Threads : pc[t] = "count"})
      = Cardinality(Members(queue) \ {SHUTDOWN})
        + Cardinality({inHand} \ {SHUTDOWN}) + Cardinality(evicted)

\* A flush that returns success has seen the worker finish with everything submitted
\* before it, retries and pauses included.
FlushIsHonest ==
    \A t \in Threads : result[t] = "drained" => 1 .. before[t] \subseteq handled

\* The condition that flush waits for is the right one: the count misses nothing, and
\* a count of zero means that everything was dealt with.
FlushCountsEverything == PendingCounts /\ FlushIsHonest

\* "The app thread NEVER blocks": no call of an application thread needs an answer
\* of the server to return, not even flush and close.
CallsReturn == \A t \in Threads : pc[t] # "idle" ~> pc[t] = "idle"

\* "Flush, stop the worker, and join it": if the server answers, a close ends the
\* worker, unless a submit under way took the room it had made.
WorkerStops ==
    WF_vars(Network) =>
        \A t \in Threads : pc[t] = "join" ~> worker = "ended" \/ crowded
=============================================================================
