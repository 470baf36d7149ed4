---------------------------- MODULE JsTransport ----------------------------
(***************************************************************************)
(* The Transport classes of the Node and the browser SDK: a bounded queue, *)
(* one send loop, flush and close.  JavaScript runs to completion, so an   *)
(* action is everything that happens between two awaits.  The loop reads   *)
(* the head of the queue, awaits its transmission and removes the head     *)
(* afterwards; send(), flush() and close() run while it waits.             *)
(*                                                                         *)
(* Operators whose name ends in _<Slip> restate the operator below them    *)
(* with one slip, for the mutation runs.                                   *)
(***************************************************************************)
EXTENDS Naturals, Sequences, FiniteSets

CONSTANTS
    Sdks,         \* which of "node" and "browser" is looked at
    MaxQueue,     \* maxQueue (100 in Node, 30 in the browser)
    MaxEvents,    \* bound: calls of send() that are accepted
    MaxFlushes    \* bound: calls of flush(), the one inside close() aside

ASSUME SdksAssumption   == Sdks \subseteq {"node", "browser"}
ASSUME LimitsAssumption == /\ MaxQueue \in Nat \ {0}
                           /\ MaxEvents \in Nat /\ MaxFlushes \in Nat

VARIABLES
    sdk,        \* the SDK this transport belongs to
    queue,      \* bodies waiting, the one in flight at the head; a body is its rank
    sending,    \* the flag that keeps the send loop single
    loop,       \* where the loop waits: "idle", "posting", "delay", "limited"
    body,       \* the body the loop is transmitting
    attempt,    \* 0 for its first request, 1 for the retry
    closed,     \* the transport was closed
    flush,      \* Node: where each call of flush() is, call 0 the one inside close()
    accepted,   \* history: bodies accepted by send()
    flushes,    \* history: calls of flush()
    overflows,  \* history: bodies pushed out of a full queue
    thrown,     \* history: the bodies close() found in the queue
    posts       \* history: the requests made, in order, by body

loopVars == <<sending, loop, body, attempt, posts>>
vars == <<sdk, queue, loopVars, closed, flush, accepted, flushes, overflows, thrown>>

Calls == 0 .. MaxFlushes                          \* of flush(); several may poll at once
Members(q) == {q[i] : i \in DOMAIN q}

Rest(q) == IF q = <<>> THEN <<>> ELSE Tail(q)     \* Array.shift()

-----------------------------------------------------------------------------
(* The send loop.                                                          *)

Stop(q) ==
    /\ queue' = q
    /\ sending' = FALSE
    /\ loop' = "idle"
    /\ UNCHANGED <<body, attempt, posts>>

Post(b, n) ==
    /\ sending' = TRUE
    /\ loop' = "posting"
    /\ body' = b
    /\ attempt' = n
    /\ posts' = Append(posts, b)

\* The turn of the loop: the head is read, not removed, and its request goes out.
Turn_Popped(q) ==              \* removes it first: FlushIsHonest
    IF q # <<>> /\ ~closed THEN queue' = Tail(q) /\ Post(Head(q), 0) ELSE Stop(q)
Turn_Newest(q) ==              \* takes the newest: DropsOldest
    IF q # <<>> /\ ~closed THEN queue' = q /\ Post(q[Len(q)], 0) ELSE Stop(q)
Turn_FlagKept(q) ==            \* no finally clause: QueueDrains
    IF q # <<>> /\ ~closed
    THEN queue' = q /\ Post(Head(q), 0)
    ELSE queue' = q /\ loop' = "idle" /\ UNCHANGED <<sending, body, attempt, posts>>

Turn(q) == IF q # <<>> /\ ~closed THEN queue' = q /\ Post(Head(q), 0) ELSE Stop(q)

\* void this.drain(): starts the loop unless it runs.
Drain(q) == IF sending THEN queue' = q /\ UNCHANGED loopVars ELSE Turn(q)

\* The loop's next turn: what is now the head goes, whatever it is.
Shift == Turn(Rest(queue))

\* What a request comes to: a final answer (2xx, 4xx, and 5xx in the browser), a
\* socket error or a 5xx, or 429.  Node repeats the second, the browser the third
\* if its Retry-After is at most MAX_RETRY_MS.
Outcomes == {"final", "failed", "limited"}
Repeatable == IF sdk = "node" THEN "failed" ELSE "limited"

Outside == <<sdk, closed, flush, accepted, flushes, overflows, thrown>>

Reply(o) ==
    /\ loop = "posting"
    /\ \/ /\ o = Repeatable /\ attempt = 0        \* wait, then retry once
          /\ loop' = "delay"
          /\ UNCHANGED <<queue, sending, body, attempt, posts>>
       \/ /\ sdk = "node" /\ o = "limited"        \* honour Retry-After, then drop
          /\ loop' = "limited"
          /\ UNCHANGED <<queue, sending, body, attempt, posts>>
       \/ /\ ~(sdk = "node" /\ o = "failed" /\ attempt = 0)
          /\ Shift
    /\ UNCHANGED Outside

Retry ==
    /\ loop = "delay"
    /\ Post(body, 1)
    /\ UNCHANGED <<queue, Outside>>

GiveUp ==
    /\ loop = "limited"
    /\ Shift
    /\ UNCHANGED Outside

-----------------------------------------------------------------------------
(* The calls of the application.                                           *)

\* enqueue: a push that makes the queue too long drops its oldest entry.
Enqueued_OneShort(q) == IF Len(q) >= MaxQueue THEN Tail(q) ELSE q   \* DropsOldest

Enqueued_Unbounded(q) == q                                          \* TypeOK

Enqueued(q) == IF Len(q) > MaxQueue THEN Tail(q) ELSE q

Overflows(q) == IF Len(q) > MaxQueue THEN 1 ELSE 0

\* The client's close() has begun: index.ts let go of the client before, so that no
\* send() and no other flush() reaches the transport.
Closing == flush[0] # "none"

\* send(): a closed transport accepts nothing.
send ==
    /\ ~closed /\ ~Closing
    /\ accepted < MaxEvents
    /\ accepted' = accepted + 1
    /\ LET pushed == Append(queue, accepted')
       IN  /\ overflows' = overflows + Overflows(pushed)
           /\ Drain(Enqueued(pushed))
    /\ UNCHANGED <<sdk, closed, flush, flushes, thrown>>

\* flush() of the browser: everything queued goes out at once, past the loop.
flush_browser ==
    /\ sdk = "browser" /\ ~closed
    /\ flushes < MaxFlushes
    /\ flushes' = flushes + 1
    /\ posts' = posts \o queue
    /\ queue' = <<>>
    /\ UNCHANGED <<sdk, sending, loop, body, attempt, closed, flush, accepted,
                   overflows, thrown>>

\* "return this.queue.length === 0".
Answer == IF queue = <<>> THEN "drained" ELSE "late"

\* flush() of Node returns at once when there is nothing to wait for, and polls else.
\* The client calls it for the application, for its own handlers, and in close().
flush_node(f) ==
    /\ sdk = "node" /\ ~closed /\ ~Closing
    /\ f = 0 \/ f = flushes + 1
    /\ flushes' = IF f = 0 THEN flushes ELSE f
    /\ flush' = [flush EXCEPT ![f] = IF queue = <<>> THEN "drained" ELSE "waiting"]
    /\ Drain(queue)
    /\ UNCHANGED <<sdk, closed, accepted, overflows, thrown>>

\* A poll ends when the queue is empty, the transport is closed, or at any time: its
\* deadline may have passed.
FlushEnds(f) ==
    /\ flush[f] = "waiting"
    /\ flush' = [flush EXCEPT ![f] = Answer]
    /\ UNCHANGED <<sdk, queue, loopVars, closed, accepted, flushes, overflows, thrown>>

\* Transport.close(): in Node once the flush inside the client's close() has returned,
\* whatever it answered and whoever else polls.
close ==
    /\ ~closed
    /\ sdk = "node" => flush[0] \in {"drained", "late"}
    /\ closed' = TRUE
    /\ thrown' = Members(queue)
    /\ queue' = <<>>
    /\ UNCHANGED <<sdk, loopVars, flush, accepted, flushes, overflows>>

-----------------------------------------------------------------------------
Init ==
    /\ sdk \in Sdks
    /\ queue = <<>> /\ posts = <<>>
    /\ sending = FALSE /\ loop = "idle" /\ body = 0 /\ attempt = 0
    /\ closed = FALSE /\ flush = [f \in Calls |-> "none"]
    /\ accepted = 0 /\ flushes = 0 /\ overflows = 0 /\ thrown = {}

Loop == (\E o \in Outcomes : Reply(o)) \/ Retry \/ GiveUp

Application ==
    \/ send \/ flush_browser \/ close
    \/ \E f \in Calls : flush_node(f) \/ FlushEnds(f)

Next == Loop \/ Application

Spec == Init /\ [][Next]_vars

\* Every request ends (Node sets a timeout, browsers fail a fetch in the end), and
\* timers fire.
FairSpec == Spec /\ WF_vars(Loop)

-----------------------------------------------------------------------------
(* Correctness.                                                            *)

Bodies == 1 .. MaxEvents

\* Every variable has its type, the queue its bound, and the flag tells whether the
\* loop runs.
TypeOK ==
    /\ sdk \in Sdks
    /\ queue \in Seq(Bodies) /\ Len(queue) <= MaxQueue
    /\ sending = (loop # "idle")
    /\ loop \in {"idle", "posting", "delay", "limited"}
    /\ body \in Bodies \cup {0} /\ attempt \in {0, 1}
    /\ closed \in BOOLEAN
    /\ flush \in [Calls -> {"none", "waiting", "drained", "late"}]
    /\ accepted \in 0 .. MaxEvents /\ flushes \in 0 .. MaxFlushes
    /\ overflows \in Nat /\ thrown \subseteq Bodies
    /\ posts \in Seq(Bodies)

\* Bodies accepted that were never sent and are not waiting to be.
Lost == {b \in 1 .. accepted : b \notin Members(posts) /\ b \notin Members(queue)}

\* "drop-oldest": the events leave in the order they were captured; no body is sent
\* for the first time after a younger one.
FirstPostsInOrder ==
    \A i \in DOMAIN posts :
        (\A k \in 1 .. i - 1 : posts[k] # posts[i])
            => \A k \in 1 .. i - 1 : posts[k] < posts[i]

\* "Returns true if the queue emptied": a flush() that answers true finds no request
\* under way, and what was accepted has been sent or was pushed out of a full queue.
\* The exception is a close() whose own flush ran out of time: it throws away what is
\* queued, and a flush() that still polls answers true of a queue it emptied.  Even
\* then no more is lost than what was pushed out and what close() threw away.
Answered(f) == flush[f] # "drained" /\ flush'[f] = "drained"

FlushIsHonest ==
    [][\A f \in Calls : Answered(f) =>
          \/ loop = "idle" /\ Cardinality(Lost) <= overflows
          \/ /\ closed /\ flush[0] = "late"
             /\ Cardinality(Lost \ thrown) <= overflows]_vars

\* A queue that was never flushed or closed loses no more events than a full queue
\* pushed out.
LossBound ==
    ~closed /\ (sdk = "browser" => flushes = 0) => Cardinality(Lost) <= overflows

\* What leaves and what is lost is what drop-oldest says: in order, and only when full.
DropsOldest == FirstPostsInOrder /\ LossBound

\* The loop never strands a queued event: once the application is quiet, the queue
\* is empty and the loop has stopped.
QueueDrains == <>[](queue = <<>> /\ loop = "idle")

\* What the header says: "MAX_QUEUE = 30, drop-oldest on overflow"; an open
\* transport drops for no other reason.  A flush during a request breaks it.
DropsOnlyOnOverflow == ~closed => Cardinality(Lost) <= overflows
=============================================================================
