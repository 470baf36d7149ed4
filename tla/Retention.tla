----------------------------- MODULE Retention ------------------------------
(***************************************************************************)
(* Partition maintenance and retention (server/app/jobs/retention.py): the *)
(* daily partitions of events, the job that creates them ahead of time, and*)
(* enforce_retention, whose transactions (one per organization to read,    *)
(* one to drop partitions, one per organization to trim) run beside        *)
(* inserts, operators and the source map routes.                           *)
(***************************************************************************)
EXTENDS SourceMaps

CONSTANTS
    Projects,
    OrgOf,              \* the organization of each project
    RetentionDays,      \* the values operators give projects.retention_days
    DefaultRetention,   \* the column's default
    Fallback,           \* DEFAULT_RETENTION_DAYS_FALLBACK
    Lookahead,          \* days_ahead
    Plans,              \* instances: the projects at first, the uploads, the readers, and
                        \* bounds on rows, project changes, runs and the clock
    MaxDelay            \* bound: ticks between receipt and insert

MaxInteger == 2147483647      \* what an Integer column holds

ASSUME RetentionAssumption ==
    /\ RetentionDays \subseteq 1..MaxInteger
    /\ DefaultRetention \in RetentionDays
    /\ Fallback \in Nat \ {0}
    /\ Lookahead \in Nat /\ MaxDelay \in Nat
    /\ Plans \subseteq [retention : [Projects -> RetentionDays \cup {0}],
                        uploads : SUBSET Uploads, readers : SUBSET Readers,
                        rows : Nat, edits : Nat, runs : Nat, ticks : Nat]

VARIABLES
    plan,       \* the instance, with the changes and runs left
    project,    \* projects: retention_days (0: no row) and created_at
    partitions, \* the days events has a partition for
    rows,       \* events: who and when received
    run,        \* the enforce_retention run
    maintained, \* history: the last day maintain_event_partitions ran
    removed,    \* history: the rows the last transaction of a run removed
    atStart     \* history: the rows there since the run started

retentionVars == <<plan, project, partitions, rows, run, maintained, removed, atStart>>
vars == <<now, mapVars, retentionVars>>

DayOf(t) == t \div TicksPerDay
Orgs == {OrgOf[p] : p \in Projects}
NoRun == [pc |-> "idle", orgs |-> {}, seen |-> [p \in Projects |-> 0],
          cutoff |-> 0, ticks |-> 0]
Live == {p \in Projects : project[p].retention # 0}

Init ==
    /\ MapsInit
    /\ now = 0
    /\ plan \in Plans
    /\ project = [p \in Projects |-> [retention |-> plan.retention[p], created |-> 0]]
    /\ partitions = 0..Lookahead
    /\ rows = {}
    /\ run = NoRun
    /\ maintained = 0
    /\ removed = {}
    /\ atStart = {}

-----------------------------------------------------------------------------
(* The environment.                                                        *)

\* job_timeout is a minute: the clock moves at most once during a run.
Tick ==
    /\ now < plan.ticks
    /\ run.ticks = 0
    /\ now' = now + 1
    /\ run' = IF run.pc = "idle" THEN run ELSE [run EXCEPT !.ticks = 1]
    /\ UNCHANGED <<mapVars, plan, project, partitions, rows, maintained, removed, atStart>>

\* A worker stores an event received up to MaxDelay earlier; without a partition
\* for its day the insert fails.
InsertEvent(p, at) ==
    /\ p \in Live
    /\ at \in project[p].created..now
    /\ at + MaxDelay >= now
    /\ Cardinality(rows) < plan.rows
    /\ DayOf(at) \in partitions
    /\ rows' = rows \cup {[project |-> p, at |-> at]}
    /\ UNCHANGED <<now, mapVars, plan, project, partitions, run, maintained, removed, atStart>>

\* Operators change retention_days in SQL; projects come and go.
Edit ==
    /\ plan.edits > 0
    /\ plan' = [plan EXCEPT !.edits = @ - 1]
    /\ UNCHANGED <<now, mapVars, partitions, rows, run, maintained, removed, atStart>>

SetRetention(p, r) ==
    /\ Edit
    /\ p \in Live
    /\ r # project[p].retention
    /\ project' = [project EXCEPT ![p].retention = r]

CreateProject(p) ==
    /\ Edit
    /\ plan.retention[p] = 0 /\ project[p].created = 0
    /\ now > 0
    /\ project' = [project EXCEPT ![p] = [retention |-> DefaultRetention, created |-> now]]

\* events has no foreign key: the rows stay.
DeleteProject(p) ==
    /\ Edit
    /\ p \in Live
    /\ project' = [project EXCEPT ![p] = [retention |-> 0, created |-> now]]

-----------------------------------------------------------------------------
(* The jobs.                                                               *)

lookahead_partition_days_Short(today) == today..(today + Lookahead - 1)
lookahead_partition_days(today) == today..(today + Lookahead)

maintain_event_partitions ==
    /\ partitions' = partitions \cup lookahead_partition_days(DayOf(now))
    /\ maintained' = DayOf(now)
    /\ UNCHANGED <<now, mapVars, plan, project, rows, run, removed, atStart>>

\* _all_org_ids.
StartRun ==
    /\ run.pc = "idle"
    /\ plan.runs > 0
    /\ plan' = [plan EXCEPT !.runs = @ - 1]
    /\ run' = [NoRun EXCEPT !.pc = "load", !.orgs = Orgs]
    /\ atStart' = rows
    /\ UNCHANGED <<now, mapVars, project, partitions, rows, maintained, removed>>

\* One tenant_session per organization.
LoadProjects(o) ==
    /\ run.pc = "load"
    /\ o \in run.orgs
    /\ run' = [run EXCEPT !.orgs = @ \ {o},
                          !.seen = [p \in Projects |->
                            IF OrgOf[p] = o THEN project[p].retention ELSE @[p]]]
    /\ UNCHANGED <<now, mapVars, plan, project, partitions, rows, maintained, removed, atStart>>

Seen == {run.seen[p] : p \in Projects} \ {0}

fold_global_max_retention_days_First(values) ==
    IF values = {} THEN Fallback ELSE CHOOSE v \in values : TRUE
fold_global_max_retention_days(values) ==
    IF values = {} THEN Fallback ELSE CHOOSE v \in values : \A w \in values : w <= v

compute_retention_cutoff(today, days) == today - days

projects_needing_trim_AtCeiling(o, ceiling) ==
    {p \in Projects : OrgOf[p] = o /\ run.seen[p] = ceiling}
projects_needing_trim(o, ceiling) ==
    {p \in Projects : OrgOf[p] = o /\ run.seen[p] # 0 /\ run.seen[p] < ceiling}

\* What is remembered of the rows a transaction removes.
Remove(gone) ==
    /\ rows' = rows \ gone
    /\ atStart' = atStart \ gone
    /\ removed' =
        {[at |-> r.at, when |-> now, seen |-> run.seen[r.project],
          live |-> r.project \in Live] : r \in gone}

DropPartitions ==
    LET cutoff == compute_retention_cutoff(DayOf(now), fold_global_max_retention_days(Seen))
    IN  /\ run.pc = "load"
        /\ run.orgs = {}
        /\ run' = [run EXCEPT !.pc = "trim", !.orgs = Orgs, !.cutoff = cutoff]
        /\ partitions' = {d \in partitions : d >= cutoff}
        /\ Remove({r \in rows : DayOf(r.at) < cutoff})
        /\ UNCHANGED <<now, mapVars, plan, project, maintained>>

\* One DELETE per project below the ceiling, by the time of day.
TrimOrg(o) ==
    LET under == projects_needing_trim(o, fold_global_max_retention_days(Seen))
    IN  /\ run.pc = "trim"
        /\ o \in run.orgs
        /\ run' = [run EXCEPT !.orgs = @ \ {o}]
        /\ Remove({r \in rows : /\ r.project \in under
                                /\ r.at < now - run.seen[r.project] * TicksPerDay})
        /\ UNCHANGED <<now, mapVars, plan, project, partitions, maintained>>

\* The source maps go on the same cutoff, midnight of its day.
StartPrune ==
    /\ run.pc = "trim"
    /\ run.orgs = {}
    /\ run' = [run EXCEPT !.pc = "prune"]
    /\ WalkReleaseDirs(run.cutoff * TicksPerDay)
    /\ UNCHANGED <<now, plan, project, partitions, rows, maintained, removed, atStart>>

FinishRun ==
    /\ run.pc = "prune"
    /\ sweep.expired = {}
    /\ run' = NoRun
    /\ removed' = {} /\ atStart' = {}
    /\ UNCHANGED <<now, mapVars, plan, project, partitions, rows, maintained>>

\* The run is cancelled or its worker dies between two transactions; arq starts it
\* again from the beginning.
Crash ==
    /\ run.pc # "idle"
    /\ run' = NoRun
    /\ sweep' = NoSweep
    /\ removed' = {} /\ atStart' = {}
    /\ UNCHANGED <<now, files, upload, cache, reading, history, plan, project, partitions,
                   rows, maintained>>

enforce_retention ==
    \/ StartRun
    \/ \E o \in Orgs : LoadProjects(o) \/ TrimOrg(o)
    \/ DropPartitions \/ StartPrune \/ FinishRun \/ Crash

Environment ==
    \/ Tick
    \/ \E p \in Projects :
        \/ \E at \in 0..now : InsertEvent(p, at)
        \/ \E r \in RetentionDays : SetRetention(p, r)
        \/ CreateProject(p)
        \/ DeleteProject(p)

MapStep ==
    /\ MapsNext
    /\ \A u \in Uploads \ plan.uploads : upload'[u] = upload[u]
    /\ \A r \in Readers \ plan.readers : reading'[r] = reading[r]
    /\ UNCHANGED <<now, retentionVars>>

Next == Environment \/ maintain_event_partitions \/ enforce_retention \/ MapStep

Spec == Init /\ [][Next]_vars

-----------------------------------------------------------------------------
(* Correctness.                                                            *)

TypeOK ==
    /\ MapsTypeOK
    /\ now \in Nat
    /\ plan.edits \in Nat /\ plan.runs \in Nat
    /\ project \in [Projects -> [retention : RetentionDays \cup {0}, created : Nat]]
    /\ partitions \subseteq Nat
    /\ rows \subseteq [project : Projects, at : Nat]
    /\ run \in [pc : {"idle", "load", "trim", "prune"}, orgs : SUBSET Orgs,
                seen : [Projects -> RetentionDays \cup {0}], cutoff : Int, ticks : {0, 1}]
    /\ maintained \in Nat
    /\ removed \subseteq [at : Nat, when : Nat, seen : RetentionDays \cup {0}, live : BOOLEAN]
    /\ atStart \subseteq [project : Projects, at : Nat]

\* "partition drop only ever removes partitions already past every project's
\* retention window": a row of a project that still exists goes only once it is older
\* than the retention_days the run read, and a project the run did not read keeps all.
NothingGoesEarly ==
    \A x \in removed : x.live => x.seen # 0 /\ x.at + x.seen * TicksPerDay < x.when

\* A run that got past its trim left no row it should have reclaimed: of those there
\* since its start, none is older than its project's retention, or than the ceiling
\* when the project is gone.
NothingExpiredStays ==
    run.pc = "prune" =>
        \A r \in atStart :
            DayOf(r.at) >= IF run.seen[r.project] = 0 THEN run.cutoff
                           ELSE DayOf(now - run.ticks) - run.seen[r.project]

\* Retention removes what is past its window and nothing else, though it reads the
\* windows in one transaction per organization and deletes in others.
RetentionIsExact == TypeOK /\ NothingGoesEarly /\ NothingExpiredStays

\* While maintenance ran within its lookahead, an event received now has a partition
\* to go to, whatever retention dropped.
TodayHasPartition ==
    DayOf(now) <= maintained + Lookahead => DayOf(now) \in partitions
=============================================================================
