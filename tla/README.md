# CrashLens: models, checks and proofs

TLA+ modules for the server and the SDKs of CrashLens, a self-hosted error
tracker: client SDKs capture exceptions, an ingest endpoint accepts them, a
worker groups them into issues in PostgreSQL, members triage the issues in a
dashboard, and alerts go out when an issue is new or comes back.

Every definition is translated from the source; `PROJECT.json` maps each one to
the lines it stands for. TLC checks small instances, TLAPS proves the theorems
for every value of the constants.

## 1. The system

```
 application                                                  dashboard
   | capture                                                    |  HTTP
   v                                                            v
 SDK transport --HTTP POST--> ingest route --enqueue--> Redis (arq)   triage routes
 (Python: thread;             DSN key, rate limiter,     |                |
  JS: send loop)              sampling, validation       v                |
                                                    process_event ---> PostgreSQL <--- accounts, admin
                                                         |             (RLS)  ^
                                                         v                    |
                                                    dispatch_alerts     retention, maintain (cron)
                                                    (email, chat)       source maps (disk)
```

### Inventory

| Component | Source | State | Operations | Modelled |
|---|---|---|---|---|
| Event processor | `server/app/jobs/process_event.py`, `worker.py` | rows of `events`, `issues`, `releases`; the open transaction of each attempt; alert jobs handed to Redis | poison guard, duplicate check, release insert, pre-read and decision, upsert, event insert, commit, alert enqueue; failure and retry; normalisation, fingerprint | `ProcessEvent`, `Grouping` |
| Issue triage | `server/app/issues.py`, `routes/issues.py`, `models/schema.py` | `issues.status` and the release markers, assignee, comments, `audit_log` | resolve, ignore, reopen, delete; assign, comment; list, chart | `ProcessEvent`, `Projects`, `Listing` |
| Tenant sessions | `server/app/db.py`, `alembic/` policies and grants | organization and role of a pooled connection | `tenant_session`, `system_session`, `admin_session`, plain | `TenantScope` |
| Ingest and rate limiter | `routes/ingest.py`, `ingest.py`, `ratelimit.py` | token bucket and jobs in Redis, the shared pool | authenticate, limit, sample, validate, enqueue | `Ingest` |
| Alert dispatch | `jobs/alerts.py`, `alerts.py` | `alert_channels`; sender threads of a job | fan-out over channels, two job tries; create, switch, delete | `AlertDispatch`, `Projects` |
| Retention and partitions | `jobs/retention.py` | partitions of `events`, per-project age | create partitions, drop, trim, prune source maps | `Retention` |
| Source maps | `sourcemaps.py`, `routes/sourcemaps.py` | files per project and release, a parse cache per worker | upload, delete, prune, cached read, symbolicate; list | `SourceMaps`, `SourceMapDecode`; not the list |
| Accounts | `accounts.py`, `auth.py`, `routes/auth.py`, `routes/orgs.py` | `users`, `orgs`, `org_memberships`, `org_invites`, login counters | signup, invite, accept, login with lockout | `Accounts`, `Login`; not the session cookies |
| Instance administration | `admin.py`, `cli.py`, `routes/admin.py` | `users.is_instance_admin` | toggle with the last-admin guard, `make-admin`; overview | `Accounts`; not the overview |
| Projects, DSN keys, audit | `projects.py`, `audit.py` | `projects`, `dsn_keys`, `audit_log` | create, sampling, revoke, delete | `Projects` |
| Python SDK transport | `sdks/python/src/crashlens/_transport.py` | `queue.Queue`, `_pending`, `_closed`, the daemon thread | `submit`, `flush`, `close`, `_run`, `_send` | `PyTransport` |
| JS SDK transports | `sdks/node/src/transport.ts`, `sdks/browser/src/transport.ts` | `queue`, `sending`, `closed` | `send`, `drain`, `flush`, `close` | `JsTransport` |
| SDK capture | the rest of `sdks/` | global handlers, scope, breadcrumbs | init, close, capture, build an envelope | `SdkHooks`, `SdkScope`, `Grouping`; not the framework integrations |
| Routes and shell | `main.py`, `health.py`, `routes/` | none | parse, call, answer | no: no state of their own |
| Dashboard | `dashboard/` | UI state | render the API | no: user interface |
| Migrations, scripts | `alembic/`, `scripts/`, `deploy/` | none | operator tooling | no: run while the system is stopped |

### How the parts interact

* SDK to server: one HTTP request per event, retried at most once. A lost answer
  makes the client resend the same `event_id`, so one event can become two jobs.
* Ingest to worker: an arq job in Redis. arq runs a job again after an error, a
  timeout or a killed worker (`max_tries`), possibly while the first attempt is
  still going.
* Worker, triage and cron jobs share PostgreSQL at READ COMMITTED. They
  synchronise by row locks and unique keys and by nothing else.
* Worker to alerts: a second arq job, enqueued after the commit. Its failure is
  swallowed, so an alert can be lost but never announces a rollback.
* Accounts, invites and the administrator flag are read in one session (a
  FastAPI dependency) and written in a later one.
* Every request and job borrows a connection of one pool; the organization it may
  see is a setting of that connection, made for one transaction.
* The API process writes source maps to a directory that the workers read and the
  retention job prunes. They share no lock, only the file system.

### What is hard, and what makes each part correct

* **Event processor.** Statements of several transactions interleave, wait for
  each other and act on a row newer than their snapshot. Correct means: the
  count is the number of rows, times are those of stored rows, one row per
  delivery, markers agree with the status, an issue comes back only out of
  `resolved` and only for a newer release, an alert tells of something that
  happened, and every job ends.
* **Triage.** An UPDATE waits for a worker and meets a row that changed or went.
  The status a member set must not be overwritten by a decision made before it.
* **Transports.** The queue changes while the loop awaits (JS) or while a thread
  is between two queue operations (Python). Correct means: order kept, losses
  only where the documentation admits them, a flush that reports success is
  right, no event stranded, no call that blocks on the network.
* **Accounts.** Checks made in one transaction authorise writes in another. An
  organization keeps an admin, a membership has a reason, the instance keeps an
  administrator.
* **Ingest.** Requests read the time before their script reaches Redis, so the
  bucket's time can go back. Correct means: grants stay within a bound,
  Retry-After is long enough, expiry changes nothing, one pool is shared.
* **Sign-in.** Nothing locks the user's row while a password is verified, so
  overlapping attempts overwrite each other's count. Correct means: an account
  locks after the threshold when attempts do not overlap, and within a stated bound
  when they do.
* **Rows of an organization.** Checks and writes are separate statements, and
  deletions cascade in between. Correct means: nothing outlives what it belongs to,
  and the audit log replays to the tables.
* **Tenant sessions.** A connection goes from one organization to the next. Correct
  means: the scope of a block is exactly its own, whatever was left on it before.
* **Alerts.** One channel fails, an admin switches another off, the job is cut off
  and its sender thread goes on. Correct means: everyone is tried, and who hears
  twice hears twice for a reason.
* **Retention.** A period is read in one transaction and used in others, among
  inserts and operators. Correct means: what is past its window goes, nothing else
  does, and today has a partition.
* **Source maps.** Uploads are cut off, overlap, and are pruned while they arrive;
  readers stat first and open later. Correct means: a name holds a whole upload, the
  newest, and a cache entry that can be hit is current. The decoder is a pure
  function with cumulative fields.
* **Capture and grouping.** Handlers are installed over those of others and removed
  in any order; scopes are shared by reference; caps of the SDK and of the server cut
  stacks and cause chains. Correct means: one report per crash, no crumbs of another
  request, and one issue per root cause and place.
* **Reading.** Pages are read one by one while events reorder them.

The hazards in `PROJECT.json` each name the line at which it bites and the properties
that would notice.

## 2. Modules

| Module | What it is |
|---|---|
| `IssueStore` | abstract: what `issues` and `events` promise for one grouping key |
| `ProcessEvent` | the worker job and the triage actions, statement by statement |
| `MCProcessEvent` | workloads for TLC |
| `ProcessEventProofs` | theorems about `ProcessEvent`, refinement included |
| `JsTransport` | the Node and the browser transport |
| `JsTransportProofs` | theorems about `JsTransport` |
| `PyTransport`, `MCPyTransport` | the Python transport; two threads for TLC |
| `PyTransportProofs` | theorems about `PyTransport` |
| `Ingest`, `MCIngest` | the ingest endpoint and the token bucket of one DSN key; four requests |
| `IngestProofs` | theorems about `Ingest` |
| `Accounts`, `MCAccounts` | signup, invites, administrators; a small address book |
| `Login`, `MCSignIn` | `authenticate` and its lockout counter; `Accounts` and `Login` for TLC |
| `AccountsProofs` | theorems about `Accounts` and `Login` |
| `Projects` | what members do to one organization's rows, with the audit log |
| `AlertDispatch` | the alert job beside them; extends `Projects` |
| `TenantScope` | the sessions of `db.py` on a pool, and the row policies |
| `MCTenancy` | plans for `AlertDispatch`, and an instance of `TenantScope` |
| `TenancyProofs` | theorems about `TenantScope`, `Projects` and `AlertDispatch` |
| `SourceMaps` | the directory of source maps: uploads, readers, deletion, prune |
| `Retention`, `MCHousekeeping` | both cron jobs, beside inserts; extends `SourceMaps` |
| `HousekeepingProofs` | theorems about `SourceMaps` and `Retention` |
| `SdkHooks` | the global handlers of the three SDKs |
| `SdkScope` | breadcrumbs, tags and user of concurrent requests (Python, Node) |
| `Grouping` | from an error to its fingerprint, as functions |
| `SourceMapDecode` | reading a source map and naming a frame by it, as functions |
| `Listing` | pages of issues and the occurrence chart while events arrive |
| `MCDataPath` | instances of the five above |
| `DataPathProofs` | theorems about `SdkHooks`, `SdkScope`, `Listing`, `Grouping` and `SourceMapDecode` |

Operators named `<Operator>_<Slip>` are an operator of the model with one slip in
it (a lost guard, a missing reset, an off-by-one). They are used by nothing: each
is put in the operator's place to see that the property named beside it then
fails, so that no property holds for want of trying.

### ProcessEvent

One grouping key `(project_id, fingerprint)`; any number of jobs and of members.
An attempt of a job is one transaction, and its program counter walks through
the statements of `process_event`:

| Action | Code |
|---|---|
| `DropPoison` | envelope that cannot be normalised: dropped before any database work |
| `Begin` | `tenant_session` opens the transaction; `now()` is fixed |
| `Dedupe` | the `event_id` lookup; a visible row ends the job |
| `RecordRelease` | `INSERT INTO releases ... ON CONFLICT DO NOTHING`; waits for an uncommitted row of the version |
| `PreRead`, `Decide` | `resolved_in_release`, the two `created_at`, `decide_regression` |
| `UpsertStart` | the upsert statement takes its snapshot, which fixes the CTE `prior` |
| `UpsertApply` | it gets the row lock and writes over the row as it is now |
| `InsertEvent`, `DuplicateKey` | the `events` row, or the primary key refuses it |
| `Commit` | release, issue and event become visible together |
| `Finish` | `dispatch_alerts` is enqueued, or its error swallowed |
| `Raise` | error, timeout or killed worker at any of these; arq retries or gives up |

`StartAction`, `set_issue_status`, `delete_issue` and `AbandonAction` are a
member's request: the statement starts on a snapshot (which computes the
"latest release" subquery of *resolve*), waits for the row, writes it, adds the
audit row and commits. A row deleted meanwhile is a 404.

The split of the upsert in two is the point of the model: under READ COMMITTED
the CTE sees the snapshot of the statement, the `DO UPDATE` sees the row after
the wait. Two of the findings live in that gap.

`env` is chosen once from `Workload`; `audit`, `alerts`, `flips` and the fields
`late` and `job` record history for the properties. `now` grows only as far as
transaction starts are told apart, since `releases.created_at` is `now()`.

Abstractions:

* Envelopes are an id, a release, a receive time and whether normalisation fails.
* Steps are merged only where no other transaction can tell: the two `created_at`
  reads (release rows are never changed while the project lives), and the wait,
  write and commit of a triage statement (nothing else runs under its lock).
* Events are not deleted (retention is a component of its own) and the project is
  not deleted.
* A dead attempt is one `Raise`; PostgreSQL's rollback gives its lock up.

### IssueStore

Four atomic steps over the committed rows: `NewIssue`, `Occurrence`,
`Regression` (each adds one event row together with its count) and `Triage`. The
refinement mapping is the identity on `issue` and `events`: locks, snapshots,
retries and rollbacks are stutters. `ProcessEvent!ImplementsStore` is this
specification as a property.

### JsTransport

One action is all that runs between two awaits. `sdk` is chosen in `Init`, and
one module serves both because the queue and the loop are the same; what differs
is guarded by `sdk`: which answer is retried, that Node sits out a `429` before it
drops, that the browser's flush sends everything at once past the loop while
Node's polls. `Drain` is `void this.drain()`, `Turn` the head of its `while`,
`Shift` its `queue.shift()` and next turn. Bodies are numbered in the order they
were accepted; `posts` lists the requests in order. Sizes, gzip and
`sendBeacon` are left out: they change how a body travels, not which. `flush` has an
entry for each call of Node's `flush()`, and entry 0 for the one inside the client's
`close()`; any of them may poll at once (the application's, those of the handlers
of `instrument.ts`, and `close()`'s), and `close` empties the queue whoever else still
polls. Once the client's `close()` has begun `index.ts` has let go of the client: no
`send()` and no new `flush()` reaches the transport (the package's `flush()` then
answers `true` without asking it, `index.ts:114`).

### PyTransport

One action per operation on the queue or on `_cond`, since other threads run
between any two of them: `SubmitCheck`, `Put`, `Count` are `submit`; `FlushCall`,
`FlushReturn` are `flush`; `CloseCheck`, `CloseMark`, the flush inside, `Signal`,
`Evict`, `Resignal`, `Join` are `close`; `Get`, `Reply`, `Wake`, `Account` are the
daemon thread. `cond` says who holds the condition's lock from one step to the
next, which is only ever between a put and its count. Deadlines may pass at any
time, so a flush may give up whenever it is asked.

### Ingest

`ingest_event` for one DSN key. `Authenticate` is the key lookup; `PoolCheck`,
`PoolLock` and `PoolCreated` are `get_ingest_pool` with its double check, after
which the request reads the time; `Allow` and `Deny` are the Lua script, atomic in
Redis, with the time the request carries; `Sample`, `ReadBody`, `Enqueue` and
`Answer` are the rest of the handler, and `Fail` an error at any await, including
one that loses the reply of a step that was done.

Time is counted in ticks and tokens in what one tick refills, so one token is
`Token` ticks and fractions are whole numbers. Which key is active, which event is
sampled out and which body is malformed are choices of the environment. Floating
point rounding is left out, and the API and Redis agree on the time. An expired
hash is not removed by an action: the script does not find it from `expires` on.

The history variable `back` adds up how far a script's time lies before what the
bucket is refilled up to. It is not slack: for scripts that run in the order of
their times it stays 0, and the bound is then the documented burst and rate. For
others `ts` is set back and the next script refills the same interval again.

### Accounts

Signup, invites and the administrator flag. Each read that another transaction
can overtake is an action; the writes of a transaction and its commit are one,
since they come at its end and nothing in it reads them. A user is known by the
address of the account, which is unique and never changes, and an organization by
its founder, since a signup founds exactly one. Addresses may differ in case:
`Lower` is the constant the code's `.lower()` stands for. A wrong password, a
lost connection and a killed process all end a request by `Abandon`.

### Login

`TakeClock`, `LoadUser` and `Refused` or `Accepted` are one attempt; others run
between any two. A commit writes only the columns whose value differs from what the
attempt read, as the ORM does (`Flushed`): an attempt that leaves `locked_until` as
it read it does not lift a lock made meanwhile, one that read an expired lock may.

### Projects and AlertDispatch

A transaction of one statement is one action; one that checks first and writes later
is two (`CheckKey` and `InsertKey`, `CheckAssignee` and `WriteAssignee`, ...), with
the caller's `request` holding what it read. `Cascade` is the foreign keys. The audit
row is part of the action that writes, as it is of the transaction. There is no
operation that removes a member, which is why the claim that an issue is never
assigned to an outsider holds.

`AlertDispatch` adds the job: `LoadChannels`, `LoadMembers`, then one `Deliver` per
channel, whose send runs in a thread with up to `HTTP_ATTEMPTS` posts. `Interrupt`
cuts the job off; its thread may go on, and a retry starts over. An attempt that
raises may have arrived all the same. Which exception it raises matters: `SendRaises`
is one of the three that `_post_json` catches and tries again after, `SendBreaks` any
other (`http.client.IncompleteRead`, `BadStatusLine`), which ends the send with the
attempts it still had.

### TenantScope

A connection is what the next statement finds on it: an organization (never set,
or set and reverted, which reads as the empty string) and a role. `Begin` takes a
connection nobody holds, used before or new; `tenant_session`, `system_session` and
`admin_session` are the first statement of each; `End` is commit, rollback or an
abandoned request, before that statement or after. The policy and the grants decide
what a statement may touch. The login role is not a superuser, as the deployment
requires; a superuser would bypass every policy.

### SourceMaps and Retention

The file system is modelled by inodes, since an open handle keeps writing to its
inode whatever happens to the name. `MakeDir`, `OpenTmp`, `WriteChunk`, `Replace`
are an upload, `Abort` and `Kill` its ends at any point; `Stat` and `ParseCached` a
reader; `WalkReleaseDirs`, `Unlink`, `Rmdir` a prune. `clash` records that two
uploads of a name were open together, since both write `{dest}.tmp`. The key of a cached
parse is the path and the `mtime` of the inode, no more: each write gives its inode some
stamp of `Stamps`, whatever the clock of the model says, so that writes can fall in one
tick of the file system's clock or follow a clock set back. `stamps` and `repeats`
record what a name has shown and whether two contents of it have shown one stamp.

`Retention` has `maintain_event_partitions`, and `enforce_retention` transaction by
transaction: `LoadProjects` per organization, `DropPartitions`, `TrimOrg` per
organization, then the prune. Rows arrive up to `MaxDelay` ticks after receipt, and
operators create, change and delete projects between any two. The worker's local
date is taken for UTC.

### SdkHooks, SdkScope, Grouping, SourceMapDecode, Listing

`SdkHooks`: `slot` is the chain of handlers a crash reaches. Python and the browser
replace the one handler there is and keep the one they found; Node appends to a list
and takes out one listener at a time.
The browser's `close()` puts back what `init` found, over whatever was installed
since; Python's hooks stay with the first client for good.

`SdkScope`: contexts hold references into a heap of lists. Python binds a new list,
Node writes to the object that the request owns; an event holds a copy.

`Grouping` builds the exception as the SDKs do (chain of causes, frames, caps),
normalises it as the worker does, and gives the fingerprint as the tuple that is
hashed. `reports` is what was reported. `SameCrash` is the reference: the root cause and
the last frames of the program's own code. Every report is of an error, so the branch of
`compute_fingerprint` for an event with a message only is there, and not reached.

`SourceMapDecode` has the decoder on one side and, as reference, an encoder written
from the format, with `Origin`: where generated code comes from, as revision 3 has it: a
segment holds up to the next one, bound to a source or not. Decoding what was encoded
gives back the origin of every position. The code has one exception, which the property
states (`FromNowhere`): the parser drops unbound segments, so that code from nowhere is
reported at the place before it on its line (`BoundBefore`). What a map lacks
(a path, a name, the content of a source, the line in it) leaves the frame's own in place,
and a frame without a line or a column is left alone.
`program` is a compiled program, which grows by a segment or a line; a character is its
value, so that `_B64_INDEX` and the splitting at `;` and `,` are not modelled. The loops of
the decoder are recursive functions of what they have read (`DigitRun`, `LineRun`,
`FileRun`).

`Listing`: a reader asks for page after page, each in its own transaction, while
`StoreEvent` moves issues to the front; `get_issue` counts a window of days.

## 3. Checks

| Run | Instance | Distinct states | What it shows |
|---|---|---|---|
| `pair` | 2 jobs, 5 workloads, 2 tries, 1 to 3 triage actions by workload | 0.61 million | the safety properties of `ProcessEvent`, that it implements `IssueStore`, and that every job ends |
| `alert_race` | 3 jobs, 1 try, 1 triage action | counterexample | two alerts for one regression |
| `straggler` | 2 jobs, 1 try, 1 triage action | counterexample | an event of the fixed build reopens the issue |
| `js_transport` | both SDKs, queue of 3, 5 events, 2 flushes beside the one of `close` | 49,802 | order, loss, honest flush, nothing stranded |
| `js_flush` | browser, queue of 2, 3 events, 1 flush | counterexample | a flush during a request loses an event |
| `py_transport` | 2 threads, queue of 1, 3 events | 58,936 | counting, honest flush, calls return, close stops the worker |
| `ingest` | 4 requests, a token of 2 ticks, capacity of 2 tokens, 6 ticks | 2.33 million | bound on grants, Retry-After, expiry, one pool |
| `accounts` | 2 requests, 3 addresses, and 1 invite or 3 toggles; or 2 sign-ins, threshold 3, lock of 2 ticks, 4 ticks | 0.20 million | admins, memberships, administrators; lockout |
| `last_admin` | the same requests, no invite | counterexample | two demotions leave no administrator |
| `data_path` | one part per behaviour: 2 other handlers and 3 clients; 3 contexts, 4 crumbs; 2 errors, stacks of 4; 3 segments on 2 lines; 3 issues, 2 arrivals | 0.43 million | one report per crash, no bleeding, grouping, decoding, pages and chart |
| `housekeeping` | 5 plans: 2 projects in 2 organizations, 2 rows, 1 or 2 runs of retention, up to 6 ticks; 2 uploads of one name with a reader, or with a prune, 2 stamps | 3.39 million | retention is exact, today has a partition, stored maps are whole, the cache is current |
| `tenancy` | 7 plans: 2 admins with up to 5 changes, or 1 admin and an alert with up to 2 tries over 3 channels; or 3 sessions on 2 connections | 1.39 million | nothing dangles, the log replays, every channel is tried, scopes are exact |

### Properties

`ProcessEvent`: `IssueMatchesRows` (no lost update; times although jobs run out of
receive order), `DeliveredOnce` (an attempt overtaken by its own retry; only
overlapping transactions can store an id twice; success means stored),
`StatusTellsHistory` (status and markers against the last audit row),
`RegressionsFollowReleases` (the fix release has a row, though no foreign key says
so, and a decision made on the fix that is still recorded is by strict order of first
sight), `AlertsAreEarned`, `ImplementsStore`, `EveryJobEnds`.

`JsTransport`: `DropsOldest` (order of first posts, and loss within what overflow
accounts for), `FlushIsHonest` (an answer of `true` is right, however many flushes
poll, unless `close()`, its own flush out of time, emptied the queue under them),
`QueueDrains`.

`PyTransport`: `FlushCountsEverything` (an event evicted by `close` stays on
`_pending` for ever, and the invariant says exactly by how much; a flush that reports
success is right), `CallsReturn`, `WorkerStops`.

`Ingest`: `GrantsBounded`, `RetryAfterIsEnough` (of everyone who was told to wait
since the last grant, whoever waits is not denied before another is granted),
`ExpiryIsHarmless`, `OnePool`.

`Accounts`: `MembershipsAreExplained` (every organization keeps an admin, every
membership was earned, one role each), `AdminsRemainUnlessRaced`. `Login`: `LockoutCountsGuesses` (exactly the threshold
while sign-ins do not overlap), `LostCountsAreBounded`: with `N` attempts at a time and threshold `T`, at most
`C(T+N-1, N) + N - 2` wrong passwords are judged before a lock. With the threshold of
10 that is 55 for two at a time and 221 for three.

`Projects`: `NothingDangles`, `AuditIsExact`. `AlertDispatch`: `ChannelsAreServed`
(every channel that was on all along is notified, fails in every attempt, has
nobody to write to, or had its send broken off in this try; a further notice takes a
failed attempt or a try cut off).
`TenantScope`: `ScopeIsExact`.

`Retention`: `RetentionIsExact` (a row of a live project goes only past the period the
run read, and a run leaves no row it found that is past it), `TodayHasPartition`.
`SourceMaps`: `StoredIsLatest`, `CacheIsCurrent` (what an entry that can be hit holds is on
disk, unless two contents of the name have shown one mtime), `PruneSparesFresh`.

`SdkHooks`: `CrashIsReportedOnce`. `SdkScope`: `ScopesDoNotBleed`. `Grouping`:
`IssuesAreCrashes`. `SourceMapDecode`: `MapsAreRead` (a frame is reported where it was
compiled from, code from nowhere where the code before it was). `Listing`:
`UntouchedIsShown` (a reader of every page misses no issue that stood still),
`ChartAddsUp`.

### Why the bounds are enough

* The races of `ProcessEvent` are between two transactions on one row, with a
  member's statement between them; two jobs with two tries give four transactions.
  The workloads are the pairs that differ to the code: the same event resent, the same
  job delivered twice, two builds received in the other order, an untagged build,
  poison. One triage action puts a statement between any two of theirs; beside an untagged
  build, which after any resolve counts as a return, there are two, a resolve with something
  after it; and beside poison, which leaves one job that writes, there are three. The alert race needs a third event,
  to create the issue.
* A queue of 3 with 5 events overflows twice while a body is in flight; two
  flushes can fall in one request. A queue of 1 makes every `put` of the Python
  transport meet a full queue, and lets a submit take the room `close` made.
* In `Ingest` the third request finds an empty bucket and the fourth what disorder
  made of it; a token of two ticks leaves halves of tokens, and 6 ticks outlast the
  bucket's time to live of 4. Requests are symmetric; one request is one script, so
  five would be needed to spend a bucket, let it expire, and run a script older
  than the expiry before another full burst. That case is covered by the proof.
* Two requests, since every race of `Accounts` is between a check and a write of
  another request; an overtaking third is a second turn of the other one. A
  behaviour has invites or toggles beside the signups, as neither reads what the other
  writes: an invite is about memberships, a toggle about the flag. Three toggles are a
  promotion and two demotions. `Interchangeable` makes the requests symmetric,
  which is sound as the run checks invariants only.
* In `Login` two attempts lose counts to each other, and a threshold of 3 leaves
  room for one count lost and one kept; 4 ticks outlast a lock of 2.
* Plans (`MCTenancy`, `MCHousekeeping`) and subjects (`MCDataPath`, `MCSignIn`) are
  behaviours beside each other, never mixed: what they leave out of one another does
  not read or write the same state. A race in `Projects` is between one caller's
  check and another's write, so two callers and five changes give create, race and
  the deletion that follows. Two connections for three sessions make each of them
  meet what another left.
* Two values of `retention_days`, one project each in two organizations and two
  ticks to a day put a row on either side of every cutoff, and six ticks are three
  days, one more than the longest period. Two chunks leave a cut in the middle of a
  file. Two stamps let the second content of a name have the first one's or another.
* Three frames kept of four, three causes kept of rings of one and two errors, and
  two frames that count for the fingerprint put every cap inside the instance. Three
  segments are enough for a number to depend on one written two segments before, over
  a line break, and for an unbound segment between two bound ones. The segments point into a
  source, past its content, to one without path and content, and to one that is not there. The listing has more issues than a page holds.
* Two other handlers, one that passes a crash on and one that does not, can be put
  over and under the SDK's; three clients are an `init` after a `close` twice.

`MaxTries` is arq's own limit. `MaxClock`, `MaxActions`, `MaxEvents`, `MaxFlushes`,
`MaxInvites`, `MaxToggles`, `MaxTime`, `MaxCrumbs`, `MaxArrivals`, `MaxClients`,
`MaxDelay` and the fields of the plans are bounds on the exploration. The proofs assume no
more of any of them than that it is a natural number.

### Fairness and deadlock

* `ProcessEvent` (`FairSpec`): weak fairness of `Work(j)` for each job. arq keeps a live worker
  on what it has queued and PostgreSQL completes what it can. Failing is never
  required and never forbidden, members act if they like. Weak fairness is enough
  because a lock is held only by an attempt that itself goes on or is rolled back.
* `JsTransport`: weak fairness of the loop. Node sets a timeout on its requests,
  a browser fails a fetch in the end, and timers fire.
* `PyTransport`: strong fairness of each thread and of `Account`, since the lock
  they wait for comes and goes, weak fairness of `Get`. That the server answers
  is not assumed: it is the premise of `WorkerStops` alone, and `CallsReturn`
  holds without it.
* Deadlock is not checked in `JsTransport`, whose application may close the transport
  or say nothing more, in `Ingest`, where every request is answered in the end and
  time is bounded, and in `data_path` and `tenancy`, whose bounded behaviours
  end. It is checked elsewhere. `ProcessEvent` rests by `Rest` only when
  every job has ended, so a worker waiting for a lock nobody holds is a deadlock.

### Where code and comments part

1. `process_event.py:354-360` says the CTE tells the event that flipped an issue
   from one that found it flipped. Two events whose upserts start while the issue
   is resolved both take themselves for the one that flipped it, and both
   announce it (`alert_race`).
2. `process_event.py:34-35` says stragglers "do NOT regress". A member who
   resolves between the pre-read and the upsert meets a decision made for an
   issue without a fix release (`straggler`). `RegressionsFollowReleases` is what
   does hold.
3. `transport.ts:6` of the browser says bodies are dropped on overflow only. A
   flush during a request empties the queue, and the loop's `shift()` then takes a
   body captured later, which is never sent; the body in flight is sent twice
   (`js_flush`). `DropsOldest` is what holds without a flush.
4. `admin.py:314-316` says the count and the update cannot race a concurrent
   demotion. A count locks nothing, and the caller's own authorisation is read
   earlier still (`last_admin`). `AdminsRemainUnlessRaced` is what holds.

### Seen while modelling

Behaviours of the code that no comment denies, and that the properties therefore
state with their exception:

* Two overlapping uploads of one file name write the same temporary file; the map
  that is left can be a mixture (`StoredIsLatest` excepts a `clash`). An upload whose
  directory is pruned under it ends in an error or in an empty listing
  (`routes/sourcemaps.py:246-248`).
* In Python, a second `init` leaves the excepthooks with the first client
  (`_hooks.py:25-26`), and after `get_client().close()` and another `init` uncaught
  exceptions go to the closed client, which drops them. In the browser, `close()`
  removes handlers installed after `init`. `CrashIsReportedOnce` is about a client
  that is open and a handler nobody covered.
* The ASGI middleware captures an exception and raises it again, so a logging handler
  on the root logger may report it a second time.
* A sign-in that read an expired lock clears the columns and with them a lock made
  since.
* `created_at` of an audit row is the start of its transaction: two overlapping
  changes can be listed in the other order than they took effect.
* "A new mtime (a re-upload) is a distinct key, so a stale parse is never served"
  (`sourcemaps.py:69-71`), but a re-upload need not have a new mtime: two contents of a name
  written within one tick of the file system's clock, or after that clock went back, share
  the key, and a worker that parsed the first serves it. `CacheIsCurrent` excepts a name
  that has shown one mtime twice.
* A segment without a source is skipped, "it can never produce an original position"
  (`sourcemaps.py:485-486`), but in revision 3 it ends the mapping before it. A frame in
  generated code from nowhere is therefore given the file, line and name of the code that
  precedes it on the line, where `_symbolicate_frame` promises that "any missing or
  out-of-range position leaves the frame unchanged" (`sourcemaps.py:535-536`). The exception
  is stated in `FrameIsOriginal`.
* `_post_json` is documented with one retry (`jobs/alerts.py:171-175`), but an answer it
  cannot parse or read to its end is no `OSError`, and the channel has failed after one
  post. The exception is stated in `EveryChannelIsTried`.
* `flush()` of the Node SDK answers `true` if `close()` empties the queue under it; the
  exception is stated in `FlushIsHonest`. A `flush()` that is called once `close()` has begun
  answers `true` at once (`index.ts:114`).
* The total and the rows of `list_issues` are separate statements. A list filtered by
  status (`issues.py:257-259`) is not modelled: a regression can take an issue off
  the list between two pages and the one after it is then skipped. `list_members` is
  documented as newest first and ordered ascending (`projects.py:371-393`).
* `update_channel` raises if the channel is deleted between its update and its read
  (`alerts.py:296-315`); the request fails and nothing is lost.

## 4. Proofs

`tlapm` checks every proof to the last leaf. Except for what rests on fairness (see below),
every property of a passing run is a theorem, for every value of the constants.

The assumptions are those the modules name. Most say what kind of value a constant is:
releases are positive numbers, workloads map jobs to envelopes, bounds are natural
numbers, sizes and units positive ones, plans are plans. Others keep a placeholder
apart from what it stands in for: `NoJob`, `NoThread`, `NoConn` and `NoRequest` are
none of theirs, `Nobody` is no user, no upload and no directory, the id of an organization
is not what an unset setting reads as, `"sdk"` names no other handler. The rest is what the
code or the schema says: `Lower` maps addresses to addresses, a source map of an upload
goes to one directory, `retention_days` is an integer column (so at most `MaxInteger`)
and a retention is never 0 days, only an email channel has a list of recipients, and
`FullRate` is a rate. Nothing is assumed about how many jobs, members, addresses, requests,
threads, channels, projects or clients there are, and nothing is finite unless it has to be:
that `events`, the senders of an alert or the threads between a put and its count are
finitely many is part of an invariant, the table of issues that a reader pages
through is finite, and so are the sign-ins that overlap, of which there is at least one.

Some results need an induction, which the provers do not offer for a predicate. It is had
from sets: a set of numbers that is not empty has a least member (`LeastExists`), so a
set that holds 0 and, with `n`, `n + 1` holds all (`AllFollow`), and a function may be
defined by its value at 0 and each next one by the last (`RecursionExists`), which is
what makes a recursive function of the model one that can be reasoned about.
`FoldExists` says the same of a function that ends, which each loop of the decoder is.

### ProcessEvent

`TypeCorrect` comes first. Then `LockingHolds`: none of the safety properties is
inductive, because a step writes what an earlier step computed. The invariant
`Locking` bridges the two:

* `LockHeld`: the row lock is held by exactly the job whose attempt is between its
  upsert and its commit;
* `WriteCurrent`: what such an attempt will commit is still what its upsert would
  write over the committed row, since nobody else can write the row meanwhile;
* `IdsFresh`: the next id is above every id in use, orphan rows included;
* `RequestsNamed`: a request names an id that was given out.

With it, a commit is a step of `IssueStore` (`StoreStep`), every other worker
step is a stutter and every completed triage statement is a `Triage` step: that
is `StoreImplemented`. The properties of rows (`CountHolds`, `SeenTimesHold`,
`MarkersHold`) are then proved of `IssueStore` steps alone and carried over.
`OneRowHolds`, `NoLateDuplicateHolds`, `DoneHolds`, `FixReleaseHolds` and
`FreshDecisionsHold` have invariants of their own over `Locking`, saying what an
attempt knows at each step: that a visible row stays visible, that a release read
from the issue has a committed row, that a decision was made on the fix recorded.
`IssueMatchesRowsHolds`, `DeliveredOnceHolds` and `RegressionsFollowReleasesHolds`
put them together as the run states them.

`AlertsAreEarnedHolds` rests on `Earned`: an attempt past its commit has a row to show
and, if it claims a return, a return; and of the attempts past their commit and the
alerts already sent, one at most announces an issue as new, because `IdsFresh` gives
each created row an id of its own. `StatusTellsHistoryHolds` adds to `MarkersHold` that
the log only names ids given out, so that a new row has no past.

### Accounts

`TypeCorrect` (which here is proved only, and spares its run), then `EveryOrgKeepsAdmin`: the founder's row is written with the
organization, and no statement changes or removes a membership. `MembershipsHold`
needs `Linked`: an accepting request names an invite that exists and is addressed
to it, which stays true as invites are only added and their state changed.
`AdminsRemainHolds` is the delicate one. `AdminInv` says of every request about
to demote that, unless a demotion happened since it was authorised, its caller is
still an administrator; a demotion of another leaves the caller, one of oneself
was counted with a second administrator present, who is still there; and of every
signup that did not find the table empty that there are accounts already, so
that only a signup carrying the flag makes an empty instance a non-empty one.

`Login`: `LockoutCountsGuessesHolds` rests on `CountIsGuesses`: as long as no sign-in
commits while another holds its read, what a sign-in has read is what is stored, and the
stored count is that of the wrong passwords since the last lock or success. An expired
lock counts as zero for both, which is what `effective_count` is for.

`LostCountsAreBoundedHolds` is about the counts that overlapping sign-ins overwrite. Each
write is one above what its attempt had read, so an attempt that holds a low count may
take the stored one back, but only once: then it reads again what is stored. `Free` says for
each count `w` how many attempts do not hold one below `w`, and `LossInv` that the guesses so
far fit in a sum of rooms, one `Room(w, Free[w])` for each `w` up to the stored count. A
write that takes the count back to `w` gives up the rooms above `w`, and leaves one more
attempt free at `w`: that makes the room there larger by more than all it gave up, which is
Pascal's rule (`RoomAbove`), as rooms are binomial coefficients. The rest of the bound is for
what a lock leaves behind: an attempt may have read a lock that passed and write, after another did,
a row that looks as before. There is at most one such write for each attempt but the one
that guesses (`Stale`, `Stragglers`).

### Ingest

`Account` is an equation of bookkeeping turned into an inequality: what was granted
and what is left never exceed the capacity, the time up to which the bucket is
refilled, and `back`. A grant moves tokens from left to granted, a refill moves the
time, an older script moves `back` by what it takes off the time, and an expiry
replaces the level by the capacity and the time by the moment of the expiry, which
`ExpiryIsHarmless` pays for. `GrantsAreBounded` follows as the bucket is never
refilled beyond now. `RetryAfterHolds` needs `Waiting`: while a promise stands, the
level is below one token and reaches one by the time promised; scripts that run
out of order only raise it. Two lemmas of arithmetic say that rounding up to
seconds covers the ticks, and that `TTL_SECONDS`, whose division rounds down,
still outlasts the refill because of its margin. `OnePoolHolds` rests on `PoolInv`:
whoever creates a pool holds the lock, and there is none yet.

### Transports

`PyTransport`: `PendingCounts` is an equation between `_pending` and the sizes of four
sets, and holds only if an event is never in two of them. `Placed` says so: whatever was put is
queued, in the worker's hand, done, or thrown out by `close`, and in one of them; and
a thread is between a put and its count only while it holds the condition. A flush is
honest because a count of zero leaves nothing queued, in hand or uncounted.

`JsTransport`: `Ordered` says that what is queued is younger than everything posted,
the body in flight aside. The loss bound is not inductive, since the `shift()` that
follows an overflow during a request removes a body that was never sent: the
overflow itself pushed out the body in flight, which lost nothing. `Slip` is that debt of
one, and `LossCounted` the bound with the debt included. A flush that still polls when
the transport is closed answers by an emptied queue: `Loops` says that `close()` threw
nothing away if its own flush drained, and `ThrownCounted` bounds the loss of a closed
transport apart from what it did throw away.

### Tenancy

`TenantScope`: `Separate` says that a connection is held by one session, is set
just as that session needs it, and is clean in the pool. `SET LOCAL` reverting to the empty
string is a clean connection too, which is why the policy must not take the empty
string for an organization.

`Projects`: `NothingDangles` is inductive together with types and `Requested`, which says of
a caller between its check and its write that the member it found still is one; that
is true as nothing removes members, and false of the project it found, whose foreign key the
insert meets. `AuditIsExact` is about a fold of a log of any length, so it is proved of one
more entry at a time: `LogStep` says what an entry changes in what the log tells,
`LogAgrees` that the tables, the rows that are gone included, are what the log tells,
and that two callers never claim one new id.

`AlertDispatch`: `JobInv`. `LoadedIsRead`: what a try loaded is what is on, for channels
nobody touched since. `Delivering`: what an outcome stands for (a failure for all the
posts, or for a send that broke off in this very try), and that a thread that has used
some of its posts had as many errors. `NoticesCounted` bounds the notices on a
channel by its failed posts and the tries, with the notices still to come counted in: one
for every thread that runs, whichever try it is from, and one for the thread the
try may yet start.

### Housekeeping

`Sound` holds files and rows side by side; a step of the retention job is, to the files,
a step of a prune or nothing (`MapsMove`). For the files: `InodesPlaced` says where an
inode can be, `NamesApart` that without a clash the temporary file belongs to one writer, who wrote
what is in it, `KeysArePast` that the key of a cached or pending read cannot become the key of
a later file without a stamp shown twice (`PlacedOrShown`: a file in place stays as it is or
the name shows a stamp), `AgesCover` that a directory is not older than its map. For the
rows: `SeenIsRead` says that a run has read the period of every project that was there when it
started, `TrimmedSoFar` what it leaves of the rows it found, `RowsHaveProjects` that a row is no
older than its project, and `DaysAhead` that the days from today to where maintenance reached
have a partition. Dropping a whole day is safe as the ceiling is the longest period read.

### Capture and reading

`SdkScope`: `TrimmedAppend` says that adding a crumb to what was kept leaves the same as
adding it to everything and then keeping the newest. `Unshared` is why Node, which writes in
place, does not bleed: the list it writes is that of one request and of no event. Python
shares lists and never writes to one.

`SdkHooks`: `Uncovered` says that over the handler `init` put in there are only
handlers that pass a crash on, each of which would put back what is under it, so that
taking them out in any order uncovers the same handler. `Chains` says that no chain, kept
ones included, holds a handler twice, and whose handlers they can be: in Python the
first client's, in Node the present one's, in a browser those of clients of which all but
one are closed. That no two report follows.

`Listing`: `StillToCome` says of an issue nothing happened to and the reader has not seen
that at least as many issues are ahead of it as the pages read so far could hold. An event
only moves its own issue forward, so the issues ahead of another stay ahead
(`AheadGrows`). `PlaceInOrder` is the lemma that makes a page of it: in any order that
`ORDER BY ... DESC, id DESC` allows, an issue stands just behind those ahead of it, so one
that is not on this page is beyond its end, and the page is not empty.
`ChartFilled` says of the chart that each bar is the number of events of its day.
`CountsAddUp` adds the days up, one more at a time, which gives
`ChartAddsUpHolds` for a window of any length.

`Grouping`: `IssuesAreCrashesHolds` is about functions rather than steps, and goes from both
sides to the middle. `ChainEnds`: whatever ring the causes form, the chain that is sent is
not empty, does not pass the cap of the worker, and ends with the root cause. `NormalSent`: the
worker would cut off what the SDK did, so it keeps the same of a stack as of the whole of it, and
`NormalTwice`: a second time changes nothing. `InAppIs`: the frames of the program that are
selected are in their order, none left out (`Lists`). `SpotsOfList` and `SiteIsNormal`: the last ones
of such a list and the crash site are the same places with the same ranks. And `SpotsTell`: from the
places and their ranks one can tell the list, so different crash sites make different fingerprints.

`SourceMapDecode`: the only invariant of the steps is `ProgramKept`, that the segments of a
line are in the order of their columns; `MapsAreReadHolds` is that every such program is read
back, and goes up from the characters. `DigitsRead`: a number's digits, whatever was
read before them, add up to the number, and a run of digits leaves nothing pending;
`NumberRead` adds the sign. `SegmentRead`: so the one, four or five differences of a segment
come back as they were written, and a further character that is no digit, or that says there
is more to come, spoils it. `LastMoves`, `LastOverLine`, `LastNone`: how the segment that a
difference is taken from changes from one segment, and one line, to the next. With them
`ParserMoves` says that the running position of the parser is at each segment the one the
compiler took its differences from (`Expected`), over line ends too, and that the row has
gained the segment if it has a source. `LineParsed` and `FileParsed` follow the
parser through a line and through the file, so that each row picks the mapped segments of
its line in their order (`Picks`), which `ByColumn` therefore leaves alone (`SortedStays`).
`LookupIs`: the last segment of the row that starts at or before a column is then the
last mapped one of the line up to there (`BoundBefore`), and `OriginIsBound` that this is the
origin of whatever is not from nowhere. `FrameNamed` is the rest: a frame is given what the
place says, with the lines of the window that its source has, or its own.

### Model-checked only

* `EveryJobEnds`, `QueueDrains`, `CallsReturn` and `WorkerStops` rest on fairness, and
  liveness is out of this prover's reach.

### Not modelled

* Routes, dashboard, migrations and scripts, for the reasons in the inventory.
* Reads that have one statement and change nothing: lists of projects, keys,
  members, comments, channels, the admin overview.
* Passwords, tokens and cookies as values: their failure is a choice of the
  environment.
* Framework integrations (ASGI, Flask, Express, logging): they call `capture` once
  and pass the error on.
* Redis and PostgreSQL fail by failing a statement, a commit or a reply, not by
  losing what they acknowledged. arq is modelled by what `worker.py` relies on: a
  job may run again, also while it still runs.

## 5. Plan

What remains, in this order:

1. `symbolicate_envelope` over a whole chain of causes, and the choice of a map file.
2. `SourceMaps` as an implementation of a plain store of whole uploads.

## 6. Running it

```
tlc -config ProcessEventPair.cfg MCProcessEvent.tla
tlc -config JsTransport.cfg JsTransport.tla
tlc -config PyTransport.cfg MCPyTransport.tla
tlc -config Ingest.cfg MCIngest.tla
tlc -config Accounts.cfg MCSignIn.tla
tlc -config DataPath.cfg MCDataPath.tla
tlc -config Housekeeping.cfg MCHousekeeping.tla
tlc -config Tenancy.cfg MCTenancy.tla
tlapm ProcessEventProofs.tla
tlapm IngestProofs.tla
tlapm AccountsProofs.tla
tlapm PyTransportProofs.tla
tlapm JsTransportProofs.tla
tlapm TenancyProofs.tla
tlapm HousekeepingProofs.tla
tlapm DataPathProofs.tla
```

The runs that expect a counterexample are `ProcessEventAlertRace.cfg`,
`ProcessEventStraggler.cfg`, `JsTransportFlush.cfg` and `AccountsLastAdmin.cfg`.
