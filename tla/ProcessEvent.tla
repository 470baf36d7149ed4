---------------------------- MODULE ProcessEvent ----------------------------
(***************************************************************************)
(* The arq job process_event and the triage actions of the dashboard, for  *)
(* one grouping key (project_id, fingerprint), at the grain of the SQL     *)
(* statements they run.                                                    *)
(*                                                                         *)
(* Every attempt of a job is one PostgreSQL transaction at READ COMMITTED: *)
(* a statement sees what was committed when the STATEMENT started, an      *)
(* INSERT on a unique key waits for the transaction that holds an          *)
(* uncommitted row of that key, and an upsert or UPDATE that waited acts   *)
(* on the row as it is after the wait.  The uncommitted writes of an       *)
(* attempt are kept in write (and txn.newRelease) until Commit.            *)
(* An attempt may end at any step (an error, a timeout, a killed worker);  *)
(* arq then runs the job again, or gives it up.                            *)
(*                                                                         *)
(* Operators whose name ends in _<Slip> restate the operator below them    *)
(* with one slip; the mutation runs put them in its place and expect TLC   *)
(* to refute the property named in their comment.                          *)
(***************************************************************************)
EXTENDS Naturals, Sequences, FiniteSets

CONSTANTS
    Jobs,         \* enqueued process_event jobs; a client resend is another job
    EventIds,     \* client-chosen event ids
    Releases,     \* release versions; their order stands for the string order
    Users,        \* requests of members that may be in flight together
    Workload,     \* the envelopes the jobs may carry: a set of functions on Jobs
    NoJob,        \* no open transaction holds the issue row
    MaxTries,     \* WorkerSettings.max_tries
    MaxActions    \* bound: triage actions applied, for each workload

NoRelease == 0

Envelopes == [event_id : EventIds, release : Releases \cup {NoRelease},
              received_at : Nat \ {0}, poison : BOOLEAN]

ASSUME ReleasesAssumption == Releases \subseteq Nat \ {0}
ASSUME JobsAssumption     == NoJob \notin Jobs
ASSUME WorkloadAssumption == Workload \subseteq [Jobs -> Envelopes]
ASSUME BoundsAssumption   == MaxTries \in Nat \ {0} /\ MaxActions \in [Workload -> Nat]

VARIABLES
    env,        \* env[j]: the envelope and routing data of job j (never changes)
    now,        \* the database clock, as far as transaction starts tell it apart
    releases,   \* releases[v]: created_at of the committed row, 0 if there is none
    issue,      \* the committed issues row of the key, or NoIssue
    events,     \* the committed events rows of the key
    nextId,     \* the id the next issue row gets
    rowLock,    \* the job whose open transaction wrote the issue row, or NoJob
    pc,         \* pc[j]: the next step of job j
    tries,      \* tries[j]: attempts of job j that started
    txn,        \* txn[j]: what the open transaction of job j has read
    write,      \* write[j]: the issue row the open transaction of job j wrote
    request,    \* request[u]: the UPDATE or DELETE of u that has started
    audit,      \* audit_log rows of the triage actions, in commit order
    alerts,     \* dispatch_alerts jobs handed to Redis
    flips       \* history: the resolved -> regressed transitions that committed

vars == <<env, now, releases, issue, events, nextId, rowLock, pc, tries, txn,
          write, request, audit, alerts, flips>>

-----------------------------------------------------------------------------
(* Rows.                                                                   *)

NoIssue == [id |-> 0, status |-> "absent", event_count |-> 0,
            first_seen |-> 0, last_seen |-> 0,
            resolved_in_release |-> NoRelease,
            regressed_in_release |-> NoRelease]

Greatest_Excluded(a, b) == b      \* last_seen = excluded.last_seen: IssueMatchesRows

Greatest(a, b) == IF a >= b THEN a ELSE b

\* _DEDUPE_EVENT_SQL: is some committed row of this event id visible?
Stored(eid) == \E r \in events : r.event_id = eid

\* The subquery of "resolve": the version with the latest created_at, ties by
\* version; NoRelease stands for NULL when the project has no release yet.  (A
\* set with one member.)
Known_Dirty ==     \* the subquery sees uncommitted rows: RegressionsFollowReleases
    {v \in Releases : releases[v] # 0 \/ \E j \in Jobs : txn[j].newRelease /\ env[j].release = v}

Known == {v \in Releases : releases[v] # 0}

Latest == {v \in Known : \A w \in Known :
              \/ releases[w] < releases[v]
              \/ releases[w] = releases[v] /\ w <= v}

LatestRelease == IF Known = {} THEN {NoRelease} ELSE Latest

-----------------------------------------------------------------------------
(* The record of a job: its attempt and the transaction it has open.       *)

InTransaction == {"dedupe", "release", "preread", "decide", "upsert",
                  "apply", "insert", "commit"}
Ended == {"done", "failed"}

\* A transaction that began at the given time and has read nothing yet; late
\* is history: the event id was stored when it began.
Opened(time, late) ==
    [start |-> time, late |-> late, newRelease |-> FALSE, fix |-> NoRelease,
     should |-> FALSE, prior |-> [id |-> 0, status |-> "absent"]]

NoTxn == Opened(0, FALSE)
NoWrite == [row |-> NoIssue, created |-> FALSE, regressed |-> FALSE]

At(j, step) == pc[j] = step

\* Some other open transaction holds an uncommitted releases row of version v.
ReleaseLocked(j, v) ==
    \E k \in Jobs \ {j} : txn[k].newRelease /\ env[k].release = v

\* created_at of version v as the transaction of j sees it: its own row carries
\* its start time (server_default now()), 0 stands for "no such row".
CreatedAt(j, v) ==
    IF txn[j].newRelease /\ env[j].release = v THEN txn[j].start ELSE releases[v]

Newer_OrSame(j) ==        \* >= for >: RegressionsFollowReleases
    CreatedAt(j, env[j].release) >= CreatedAt(j, txn[j].fix)

Newer(j) == CreatedAt(j, env[j].release) > CreatedAt(j, txn[j].fix)

decide_regression(j) ==
    \/ txn[j].fix = NoRelease
    \/ env[j].release = NoRelease
    \/ CreatedAt(j, env[j].release) = 0 \/ CreatedAt(j, txn[j].fix) = 0
    \/ Newer(j)

\* The CASE of the upsert re-reads issues.status under the row lock.
Regresses_Unchecked(j) == txn[j].should            \* StatusTellsHistory
Regresses_Snapshot(j) ==                           \* ImplementsStore
    txn[j].prior.status = "resolved" /\ txn[j].should

Regresses(j) == issue.status = "resolved" /\ txn[j].should

\* The row the upsert of j writes: inserted, or over the committed row.
InsertedRow(j) ==
    [id |-> nextId, status |-> "unresolved", event_count |-> 1,
     first_seen |-> env[j].received_at, last_seen |-> env[j].received_at,
     resolved_in_release |-> NoRelease, regressed_in_release |-> NoRelease]

UpdatedRow(j) ==
    [id |-> issue.id,
     status |-> IF Regresses(j) THEN "regressed" ELSE issue.status,
     event_count |-> issue.event_count + 1,
     first_seen |-> issue.first_seen,
     last_seen |-> Greatest(issue.last_seen, env[j].received_at),
     resolved_in_release |-> issue.resolved_in_release,
     regressed_in_release |-> IF Regresses(j) THEN env[j].release
                              ELSE issue.regressed_in_release]

UpsertedRow(j) == IF issue = NoIssue THEN InsertedRow(j) ELSE UpdatedRow(j)

\* (xmax = 0): the row was inserted by this statement.
Created_Snapshot(j) == txn[j].prior.id = 0          \* AlertsAreEarned

Created(j) == issue = NoIssue

\* "prior" joins on the id, so it counts only if it saw the same row.
Transition_StatusOnly(j) ==                        \* AlertsAreEarned
    txn[j].prior.id = issue.id /\ txn[j].prior.status = "resolved"

Transition(j) ==
    /\ ~Created(j)
    /\ txn[j].prior.id = issue.id
    /\ txn[j].prior.status = "resolved"
    /\ UpsertedRow(j).status = "regressed"

\* The events row of the attempt.  job and late are history: the job that
\* stored it, and whether its transaction began with the event id stored.
EventRow(j) ==
    [job |-> j, event_id |-> env[j].event_id, received_at |-> env[j].received_at,
     release |-> env[j].release, issue_id |-> write[j].row.id, late |-> txn[j].late]

\* The primary key (project_id, event_id, received_at) of events is taken.
KeyTaken_Never(j) == FALSE         \* no such key: DeliveredOnce

KeyTaken(j) ==
    \E r \in events : /\ r.event_id = env[j].event_id
                      /\ r.received_at = env[j].received_at

\* The duplicate check goes by event id alone.
Duplicate_ByKey(j) == KeyTaken(j)  \* goes by the primary key: DeliveredOnce

Duplicate(j) == Stored(env[j].event_id)

\* The issue row can be locked: no open transaction wrote it.
RowFree == rowLock = NoJob

\* Rolling back gives up the lock j may hold.
Unlocked_Leaked(j) == rowLock      \* EveryJobEnds

Unlocked(j) == IF rowLock = j THEN NoJob ELSE rowLock

\* Where arq leaves a job whose attempt ended early.
Outcomes_Swallowed(j) == {"done"}  \* errors caught as poison: DeliveredOnce

Outcomes(j) == {"failed"} \cup (IF tries[j] < MaxTries THEN {"queued"} ELSE {})

-----------------------------------------------------------------------------
(* The steps of an attempt, in the order of process_event.                 *)

Tables == <<releases, issue, events, nextId>>
Outside == <<request, audit, alerts, flips>>

Goto(j, step) == pc' = [pc EXCEPT ![j] = step]

\* The transaction of j is over; its locks and reads are gone.
Close(j) ==
    /\ txn' = [txn EXCEPT ![j] = NoTxn]
    /\ write' = [write EXCEPT ![j] = NoWrite]

\* A step inside the transaction that writes no table and takes no row lock.
Reads == UNCHANGED <<env, now, Tables, rowLock, tries, write, Outside>>

\* The poison guard: an envelope that cannot be normalized or fingerprinted is
\* dropped before any database work.
DropPoison(j) ==
    /\ At(j, "queued")
    /\ env[j].poison
    /\ Goto(j, "done")
    /\ tries' = [tries EXCEPT ![j] = @ + 1]
    /\ UNCHANGED <<env, now, Tables, rowLock, txn, write, Outside>>

\* tenant_session opens the transaction; two may start at the same instant.
Begin(j) ==
    /\ At(j, "queued")
    /\ ~env[j].poison
    /\ Goto(j, "dedupe")
    /\ tries' = [tries EXCEPT ![j] = @ + 1]
    /\ now' \in {now, now + 1}
    /\ txn' = [txn EXCEPT ![j] = Opened(now', Stored(env[j].event_id))]
    /\ UNCHANGED <<env, Tables, rowLock, write, Outside>>

\* 1. Idempotency: a visible row of the event id ends the job.
Dedupe(j) ==
    /\ At(j, "dedupe")
    /\ \/ /\ Duplicate(j)
          /\ Goto(j, "done")
          /\ Close(j)
       \/ /\ ~Duplicate(j)
          /\ Goto(j, IF env[j].release = NoRelease THEN "preread" ELSE "release")
          /\ UNCHANGED <<txn, write>>
    /\ UNCHANGED <<env, now, Tables, rowLock, tries, Outside>>

\* 2. INSERT ... ON CONFLICT DO NOTHING: waits for an uncommitted row of the
\* version, then inserts only if there is none.
RecordRelease(j) ==
    /\ At(j, "release")
    /\ ~ReleaseLocked(j, env[j].release)
    /\ Goto(j, "preread")
    /\ txn' = [txn EXCEPT ![j].newRelease = releases[env[j].release] = 0]
    /\ Reads

\* 3. The pre-read of the fix release (NULL when the key has no row).
PreRead(j) ==
    /\ At(j, "preread")
    /\ Goto(j, "decide")
    /\ txn' = [txn EXCEPT ![j].fix = issue.resolved_in_release]
    /\ Reads

\* The two created_at reads and the decision.  Releases rows are never updated
\* or deleted while the project lives, so reading both in one step loses nothing.
Decide(j) ==
    /\ At(j, "decide")
    /\ Goto(j, "upsert")
    /\ txn' = [txn EXCEPT ![j].should = decide_regression(j)]
    /\ Reads

\* 4a. The upsert statement starts: its snapshot, hence the CTE "prior", is
\* fixed here, before any wait for the row.
UpsertStart(j) ==
    /\ At(j, "upsert")
    /\ Goto(j, "apply")
    /\ txn' = [txn EXCEPT ![j].prior = [id |-> issue.id, status |-> issue.status]]
    /\ Reads

\* 4b. The upsert takes the row lock and writes over the row as it is now.
UpsertApply(j) ==
    /\ At(j, "apply")
    /\ RowFree
    /\ rowLock' = j
    /\ Goto(j, "insert")
    /\ write' = [write EXCEPT ![j] = [row |-> UpsertedRow(j), created |-> Created(j),
                                      regressed |-> Transition(j)]]
    /\ UNCHANGED <<env, now, Tables, tries, txn, Outside>>

\* 5. The events row; a taken primary key raises instead (DuplicateKey).
InsertEvent(j) ==
    /\ At(j, "insert")
    /\ ~KeyTaken(j)
    /\ Goto(j, "commit")
    /\ UNCHANGED txn
    /\ Reads

\* History: the transition that the commit of j makes.
Flip(j) ==
    [issue |-> issue.id, job |-> j, fix |-> issue.resolved_in_release,
     seenFix |-> txn[j].fix, release |-> env[j].release]

\* The transaction commits: release, issue and event become visible together.
Commit(j) ==
    /\ At(j, "commit")
    /\ Goto(j, "committed")
    /\ releases' = IF txn[j].newRelease
                   THEN [releases EXCEPT ![env[j].release] = txn[j].start]
                   ELSE releases
    /\ issue' = write[j].row
    /\ events' = events \cup {EventRow(j)}
    /\ nextId' = IF write[j].created THEN nextId + 1 ELSE nextId
    /\ rowLock' = NoJob
    /\ flips' = IF issue.status = "resolved" /\ write[j].row.status = "regressed"
                THEN flips \cup {Flip(j)} ELSE flips
    /\ txn' = [txn EXCEPT ![j] = NoTxn]
    /\ UNCHANGED <<env, now, tries, write, request, audit, alerts>>

\* After the commit: dispatch_alerts is enqueued for a new or returned issue;
\* an error of that enqueue is swallowed and the alert is lost.
Alert(j) ==
    [job |-> j, try |-> tries[j], issue |-> write[j].row.id,
     kind |-> IF write[j].regressed THEN "regression" ELSE "new"]

Finish(j) ==
    /\ At(j, "committed")
    /\ Goto(j, "done")
    /\ \/ /\ write[j].created \/ write[j].regressed
          /\ alerts' = alerts \cup {Alert(j)}
       \/ UNCHANGED alerts
    /\ Close(j)
    /\ UNCHANGED <<env, now, Tables, rowLock, tries, request, audit, flips>>

\* What is left of an attempt that ends early: PostgreSQL rolls its transaction
\* back, a committed one stays, and arq runs the job again while it has tries
\* left, or records it as failed.
EndAttempt_UpsertKept(j) ==    \* the upsert in a transaction of its own: IssueMatchesRows
    /\ \E step \in Outcomes(j) : Goto(j, step)
    /\ rowLock' = Unlocked(j)
    /\ issue' = IF rowLock = j THEN write[j].row ELSE issue
    /\ Close(j)
    /\ UNCHANGED <<env, now, releases, events, nextId, tries, Outside>>

EndAttempt(j) ==
    /\ \E step \in Outcomes(j) : Goto(j, step)
    /\ rowLock' = Unlocked(j)
    /\ Close(j)
    /\ UNCHANGED <<env, now, Tables, tries, Outside>>

\* The primary key of events refuses the row: this job's own event is stored.
DuplicateKey(j) == At(j, "insert") /\ KeyTaken(j) /\ EndAttempt(j)

\* A database error, a missing partition, the job timeout, a killed worker: at
\* any statement, and after the commit but before the alert is enqueued.
Raise(j) == pc[j] \in InTransaction \cup {"committed"} /\ EndAttempt(j)

-----------------------------------------------------------------------------
(* Triage: set_issue_status (resolve, ignore, reopen) and delete_issue.    *)

Actions == {"resolve", "ignore", "reopen", "delete"}
Idle == [action |-> "none", id |-> 0, latest |-> NoRelease]

\* The UPDATE or DELETE starts on a visible row; "resolve" computes its subquery
\* on this snapshot.
StartAction(u, a) ==
    /\ request[u] = Idle
    /\ issue # NoIssue
    /\ Len(audit) + Cardinality({v \in Users : request[v] # Idle}) < MaxActions[env]
    /\ \E latest \in LatestRelease :
          request' = [request EXCEPT ![u] =
                        [action |-> a, id |-> issue.id, latest |-> latest]]
    /\ UNCHANGED <<env, now, Tables, rowLock, pc, tries, txn, write, audit, alerts, flips>>

\* _ACTION_SET_SQL.
Resolved_Verb(r) ==                \* stores the verb, not the status: TypeOK
    [issue EXCEPT !.status = "resolve", !.resolved_in_release = r.latest,
                  !.regressed_in_release = NoRelease]
Resolved_KeepsMarker(r) ==         \* StatusTellsHistory
    [issue EXCEPT !.status = "resolved", !.resolved_in_release = r.latest]

Resolved(r) ==
    [issue EXCEPT !.status = "resolved", !.resolved_in_release = r.latest,
                  !.regressed_in_release = NoRelease]

Rewritten(r) ==
    CASE r.action = "resolve" -> Resolved(r)
      [] r.action = "ignore"  -> [issue EXCEPT !.status = "ignored",
                                     !.regressed_in_release = NoRelease]
      [] r.action = "reopen"  -> [issue EXCEPT !.status = "unresolved",
                                     !.resolved_in_release = NoRelease,
                                     !.regressed_in_release = NoRelease]

\* The statement gets the row lock, writes the row, records its audit row and
\* commits.  Its lock is held for no step of another transaction, so taking it,
\* writing and committing is one step.  A row deleted during the wait is a 404.
Complete(u, row) ==
    /\ RowFree
    /\ IF issue.id = request[u].id
       THEN /\ issue' = row
            /\ audit' = Append(audit, [action |-> request[u].action,
                                       issue |-> issue.id])
       ELSE UNCHANGED <<issue, audit>>
    /\ request' = [request EXCEPT ![u] = Idle]
    /\ UNCHANGED <<env, now, releases, events, nextId, rowLock, pc, tries, txn, write,
                   alerts, flips>>

set_issue_status(u) ==
    /\ request[u].action \in {"resolve", "ignore", "reopen"}
    /\ Complete(u, Rewritten(request[u]))

\* Only the issue row goes; its events stay as orphans.
delete_issue(u) ==
    /\ request[u].action = "delete"
    /\ Complete(u, NoIssue)

\* The request fails before its commit and is rolled back.
AbandonAction(u) ==
    /\ request[u] # Idle
    /\ request' = [request EXCEPT ![u] = Idle]
    /\ UNCHANGED <<env, now, Tables, rowLock, pc, tries, txn, write, audit, alerts, flips>>

-----------------------------------------------------------------------------
Init ==
    /\ env \in Workload
    /\ now = 1
    /\ releases = [v \in Releases |-> 0]
    /\ issue = NoIssue
    /\ events = {}
    /\ nextId = 1
    /\ rowLock = NoJob
    /\ pc = [j \in Jobs |-> "queued"]
    /\ tries = [j \in Jobs |-> 0]
    /\ txn = [j \in Jobs |-> NoTxn]
    /\ write = [j \in Jobs |-> NoWrite]
    /\ request = [u \in Users |-> Idle]
    /\ audit = <<>>
    /\ alerts = {}
    /\ flips = {}

\* The steps a live worker takes on job j.
Work(j) ==
    \/ DropPoison(j) \/ Begin(j) \/ Dedupe(j) \/ RecordRelease(j) \/ PreRead(j)
    \/ Decide(j) \/ UpsertStart(j) \/ UpsertApply(j) \/ InsertEvent(j)
    \/ DuplicateKey(j) \/ Commit(j) \/ Finish(j)

Triage(u) ==
    \/ \E a \in Actions : StartAction(u, a)
    \/ set_issue_status(u)
    \/ delete_issue(u)
    \/ AbandonAction(u)

\* The queue is drained and no request is open: the system rests.
Rest ==
    /\ \A j \in Jobs : pc[j] \in Ended
    /\ UNCHANGED vars

Next ==
    \/ \E j \in Jobs : Work(j) \/ Raise(j)
    \/ \E u \in Users : Triage(u)
    \/ Rest

Spec == Init /\ [][Next]_vars

\* arq keeps a live worker on every job it has queued, and PostgreSQL completes
\* every statement it can: no step of an attempt is put off forever.
Fairness == \A j \in Jobs : WF_vars(Work(j))

FairSpec == Spec /\ Fairness

-----------------------------------------------------------------------------
(* Correctness.                                                            *)

Statuses == {"absent", "unresolved", "resolved", "ignored", "regressed"}

IssueRows == [id : Nat, status : Statuses,
              event_count : Nat, first_seen : Nat, last_seen : Nat,
              resolved_in_release : Releases \cup {NoRelease},
              regressed_in_release : Releases \cup {NoRelease}]

EventRows == [job : Jobs, event_id : EventIds, received_at : Nat \ {0},
              release : Releases \cup {NoRelease}, issue_id : Nat,
              late : BOOLEAN]

Steps == InTransaction \cup Ended \cup {"queued", "committed"}

Txns == [start : Nat, late : BOOLEAN, newRelease : BOOLEAN,
         fix : Releases \cup {NoRelease}, should : BOOLEAN,
         prior : [id : Nat, status : Statuses]]

Writes == [row : IssueRows, created : BOOLEAN, regressed : BOOLEAN]

Alerts == [job : Jobs, try : Nat, issue : Nat, kind : {"new", "regression"}]

Flips == [issue : Nat, job : Jobs, fix : Releases \cup {NoRelease},
          seenFix : Releases \cup {NoRelease},
          release : Releases \cup {NoRelease}]

\* Every variable has its type.
TypeOK ==
    /\ env \in [Jobs -> Envelopes]
    /\ now \in Nat \ {0}
    /\ releases \in [Releases -> Nat]
    /\ issue \in IssueRows
    /\ events \subseteq EventRows
    /\ nextId \in Nat \ {0}
    /\ rowLock \in Jobs \cup {NoJob}
    /\ pc \in [Jobs -> Steps]
    /\ tries \in [Jobs -> Nat]
    /\ txn \in [Jobs -> Txns]
    /\ write \in [Jobs -> Writes]
    /\ request \in [Users -> [action : Actions \cup {"none"}, id : Nat,
                              latest : Releases \cup {NoRelease}]]
    /\ audit \in Seq([action : Actions, issue : Nat])
    /\ alerts \subseteq Alerts
    /\ flips \subseteq Flips

\* The rows that point at the live issue row.
OwnRows == {r \in events : r.issue_id = issue.id}

\* event_count of the issue is the number of event rows stored for it, whatever
\* races, rollbacks and retries happened ("UPSERT the Issue (atomic with the
\* event insert below)").
CountMatchesRows == issue # NoIssue => issue.event_count = Cardinality(OwnRows)

\* last_seen is the newest received_at of the issue's rows although jobs are
\* processed out of order, and first_seen is the received_at of one of them.
SeenTimesMatchRows ==
    issue # NoIssue =>
        /\ \A r \in OwnRows : r.received_at <= issue.last_seen
        /\ \E r \in OwnRows : r.received_at = issue.last_seen
        /\ \E r \in OwnRows : r.received_at = issue.first_seen

\* The "came back in" marker only ever shows on a regressed issue, and an
\* unresolved issue carries neither marker: a triage action racing a worker
\* leaves no stale marker behind.
MarkersFollowStatus ==
    /\ issue.regressed_in_release # NoRelease => issue.status = "regressed"
    /\ issue.status = "unresolved" => issue.resolved_in_release = NoRelease

\* The fix release always has a committed releases row to order it by, though no
\* foreign key says so: the "unorderable" branch of decide_regression is dead.
FixReleaseExists ==
    issue.resolved_in_release # NoRelease => releases[issue.resolved_in_release] # 0

\* One row per (event_id, received_at): a job that arq runs again, even while an
\* attempt it took for dead is still going, stores its event once.
OneRowPerDelivery ==
    \A r, s \in events :
        r.event_id = s.event_id /\ r.received_at = s.received_at => r = s

\* A resend whose transaction begins once the event is stored adds nothing: only
\* transactions that overlap can store one event id twice.
NoLateDuplicate == \A r \in events : ~r.late

\* An alert is only about a stored event: the job that sent it stored a row of the
\* issue it names, and a regression alert names an issue that did come back.
AlertsAreBacked ==
    \A a \in alerts :
        /\ \E r \in events : r.job = a.job /\ r.issue_id = a.issue
        /\ a.kind = "regression" => \E f \in flips : f.issue = a.issue

\* A new issue is announced at most once, retries and concurrent first events
\* included.
OneNewAlert ==
    \A a, b \in alerts :
        a.kind = "new" /\ b.kind = "new" /\ a.issue = b.issue => a = b

\* An attempt that decided on the fix release the issue still carries brings the
\* issue back only for a release first seen strictly after the fix.
FreshDecisionsFollowOrder ==
    \A f \in flips :
        /\ f.fix = f.seenFix
        /\ f.fix # NoRelease /\ f.release # NoRelease
        => releases[f.release] > releases[f.fix]

\* The status shown is explained by the last audit row of the issue: no worker
\* overwrites a triage action it did not see.
LastAction ==
    LET own == {i \in DOMAIN audit : audit[i].issue = issue.id}
    IN  IF own = {} THEN "none"
        ELSE audit[CHOOSE i \in own : \A k \in own : k <= i].action

StatusIsExplained ==
    CASE issue.status = "resolved"   -> LastAction = "resolve"
      [] issue.status = "regressed"  -> LastAction = "resolve"
      [] issue.status = "ignored"    -> LastAction = "ignore"
      [] issue.status = "unresolved" -> LastAction \in {"none", "reopen"}
      [] OTHER -> TRUE

\* Committed rows move as the atomic IssueStore allows: the statements, locks and
\* rollbacks of the transactions do not show.
Store == INSTANCE IssueStore
         WITH Releases <- Releases, issue <- issue, events <- events
ImplementsStore == Store!Spec

\* A job that ended well without being poison left its event stored, by itself or
\* by the transaction its duplicate check saw.
DoneMeansStored ==
    \A j \in Jobs : At(j, "done") /\ ~env[j].poison => Stored(env[j].event_id)

\* No lock wait, retry or duplicate check leaves a job hanging: every job is done
\* or given up in the end.
EveryJobEnds == <>(\A j \in Jobs : pc[j] \in Ended)

\* What the issue row says of its events is what the event rows say: how many there
\* are, and when the newest and one of them were received.
IssueMatchesRows == CountMatchesRows /\ SeenTimesMatchRows

\* Each delivery is stored once: retries and resends add no row, and no job reports
\* success without one.
DeliveredOnce == OneRowPerDelivery /\ NoLateDuplicate /\ DoneMeansStored

\* Status and markers tell what happened to the issue: the last triage action that
\* committed, and whether the issue came back after it.
StatusTellsHistory == MarkersFollowStatus /\ StatusIsExplained

\* The releases of a fix and of a return can be ordered, and are: an attempt that
\* decided on the current fix brings the issue back for a newer release only.
RegressionsFollowReleases == FixReleaseExists /\ FreshDecisionsFollowOrder

\* An alert tells what is stored, and a new issue is announced once.
AlertsAreEarned == AlertsAreBacked /\ OneNewAlert

\* What comments of the source say, and what the code does not keep:
\* "... let the caller distinguish 'a NEW event flipped a resolved Issue to
\* regressed on THIS event' from 'an already-regressed Issue got another event'".
RegressionAlertIsPrecise ==
    \A a \in alerts :
        a.kind = "regression" =>
            \E f \in flips : f.issue = a.issue /\ f.job = a.job

\* "Same/older-build stragglers still increment counts but do NOT regress."
StragglersDoNotRegress ==
    \A f \in flips :
        f.fix # NoRelease /\ f.release # NoRelease =>
            releases[f.release] > releases[f.fix]

=============================================================================
