------------------------------ MODULE Projects ------------------------------
(***************************************************************************)
(* What the members of one organization do to its rows beside each other:  *)
(* projects, DSN keys and sampling (server/app/projects.py), alert channels*)
(* (alerts.py), assignment and comments of issues (issues.py), and the     *)
(* audit rows written in the same transactions (audit.py).                 *)
(*                                                                         *)
(* A transaction of one statement is one action.  One that reads first and *)
(* writes later is two, and what it read may be stale by then.  The write, *)
(* its audit row and the commit are one action: nobody sees between them,  *)
(* and a statement that waited for a row lock looks at the row again.      *)
(***************************************************************************)
EXTENDS Integers, Sequences, FiniteSets

CONSTANTS
    Admins,         \* requests in progress, one per caller
    Projs,          \* ids a project can get
    Keys,           \* ids a DSN key can get
    KeyProject,     \* [Keys -> Projs]
    Channels,       \* ids an alert channel can get
    Scope,          \* [Channels -> Projs \cup {OrgWide}]
    OrgWide,        \* alert_channels.project_id IS NULL
    Issues,         \* ids an issue can get
    IssueProject,   \* [Issues -> Projs]
    Users,
    Nobody,         \* nobody assigned, no target
    Rates,          \* sampling rates
    FullRate,       \* the column's default
    Plans           \* bounds: which callers and ids take part, and how many changes

ASSUME ProjectsAssumption ==
    /\ KeyProject \in [Keys -> Projs]
    /\ Scope \in [Channels -> Projs \cup {OrgWide}]
    /\ OrgWide \notin Projs
    /\ IssueProject \in [Issues -> Projs]
    /\ Nobody \notin Users
    /\ FullRate \in Rates
    /\ \A q \in Plans : q.callers \subseteq Admins /\ q.audit \in Nat

VARIABLES
    project,    \* [Projs -> {"new", "live", "gone"}]
    sampling,   \* [Projs -> Rates]
    key,        \* [Keys -> {"new", "active", "revoked", "gone"}]
    channel,    \* [Channels -> {"new", "on", "off", "gone"}]
    issue,      \* [Issues -> {"new", "live", "gone"}]
    assignee,   \* [Issues -> Users \cup {Nobody}]
    comments,   \* comments as [issue, author]
    members,    \* org_memberships; no operation removes one
    request,    \* what each caller has read and is about to write
    audit,      \* audit_log, in commit order
    plan        \* the bounds of this behaviour

tables == <<project, sampling, key, channel, issue, assignee, comments, members>>
orgVars == <<tables, request, audit, plan>>

Idle == [op |-> "none", target |-> Nobody, arg |-> Nobody, seen |-> Nobody]

OrgInit ==
    /\ project = [p \in Projs |-> "new"]
    /\ sampling = [p \in Projs |-> FullRate]
    /\ key = [k \in Keys |-> "new"]
    /\ channel = [c \in Channels |-> "new"]
    /\ issue = [i \in Issues |-> "new"]
    /\ assignee = [i \in Issues |-> Nobody]
    /\ comments = {}
    /\ members \in SUBSET Users
    /\ request = [a \in Admins |-> Idle]
    /\ audit = <<>>
    /\ plan \in Plans

-----------------------------------------------------------------------------
(* Helpers.                                                                *)

Exists(c) == channel[c] \in {"on", "off"}
InScope(c) == Scope[c] \in {OrgWide} \cup {p \in Projs : project[p] = "live"}

\* audit.record, in the transaction of the change it records.
Record(action, target, data) ==
    /\ Len(audit) < plan.audit
    /\ plan' = plan
    /\ audit' = Append(audit, [action |-> action, target |-> target, data |-> data])

\* What a request found in its first statement, and what it goes on to write.
Read(a, op, target, arg, seen) ==
    /\ request[a] = Idle
    /\ request' = [request EXCEPT ![a] =
           [op |-> op, target |-> target, arg |-> arg, seen |-> seen]]
    /\ UNCHANGED <<tables, audit, plan>>

Reply(a) == request' = [request EXCEPT ![a] = Idle]

-----------------------------------------------------------------------------
(* projects.py.                                                            *)

create_project(p) ==
    /\ project[p] = "new"
    /\ project' = [project EXCEPT ![p] = "live"]
    /\ Record("project.created", p, Nobody)
    /\ UNCHANGED <<sampling, key, channel, issue, assignee, comments, members, request>>

\* No row, no change and no audit row: then the action is not taken.
update_project_sampling(p, rate) ==
    /\ project[p] = "live"
    /\ sampling' = [sampling EXCEPT ![p] = rate]
    /\ Record("sampling.updated", p, rate)
    /\ UNCHANGED <<project, key, channel, issue, assignee, comments, members, request>>

\* Every foreign key to projects and to issues is ON DELETE CASCADE.
Cascade_ButChannels(p) ==
    /\ key' = [k \in Keys |-> IF KeyProject[k] = p /\ key[k] # "new" THEN "gone" ELSE key[k]]
    /\ UNCHANGED channel
    /\ issue' = [i \in Issues |-> IF IssueProject[i] = p /\ issue[i] # "new" THEN "gone" ELSE issue[i]]
    /\ comments' = {m \in comments : IssueProject[m.issue] # p}

Cascade(p) ==
    /\ key' = [k \in Keys |-> IF KeyProject[k] = p /\ key[k] # "new" THEN "gone" ELSE key[k]]
    /\ channel' = [c \in Channels |-> IF Scope[c] = p /\ channel[c] # "new" THEN "gone" ELSE channel[c]]
    /\ issue' = [i \in Issues |-> IF IssueProject[i] = p /\ issue[i] # "new" THEN "gone" ELSE issue[i]]
    /\ comments' = {m \in comments : IssueProject[m.issue] # p}

delete_project(p) ==
    /\ project[p] = "live"
    /\ project' = [project EXCEPT ![p] = "gone"]
    /\ Cascade(p)
    /\ Record("project.deleted", p, Nobody)
    /\ UNCHANGED <<sampling, assignee, members, request>>

\* create_dsn_key reads the project, then inserts; a project deleted in between
\* fails the foreign key.
CheckKey(a, k) ==
    /\ key[k] = "new" /\ project[KeyProject[k]] = "live"
    /\ \A b \in Admins : request[b].target # k
    /\ Read(a, "create_dsn_key", k, Nobody, Nobody)

InsertKey(a) ==
    LET k == request[a].target
    IN  /\ request[a].op = "create_dsn_key"
        /\ project[KeyProject[k]] = "live"
        /\ key' = [key EXCEPT ![k] = "active"]
        /\ Record("key.created", k, Nobody)
        /\ Reply(a)
        /\ UNCHANGED <<project, sampling, channel, issue, assignee, comments, members>>

\* WHERE ... status = 'active'; no row, no audit row.
revoke_dsn_key(k) ==
    /\ key[k] = "active"
    /\ key' = [key EXCEPT ![k] = "revoked"]
    /\ Record("key.revoked", k, Nobody)
    /\ UNCHANGED <<project, sampling, channel, issue, assignee, comments, members, request>>

-----------------------------------------------------------------------------
(* alerts.py.                                                              *)

CheckChannel(a, c) ==
    /\ channel[c] = "new" /\ InScope(c)
    /\ \A b \in Admins : request[b].target # c
    /\ Read(a, "create_channel", c, Nobody, Nobody)

InsertChannel(a) ==
    LET c == request[a].target
    IN  /\ request[a].op = "create_channel"
        /\ InScope(c)
        /\ channel' = [channel EXCEPT ![c] = "on"]
        /\ Record("channel.created", c, Nobody)
        /\ Reply(a)
        /\ UNCHANGED <<project, sampling, key, issue, assignee, comments, members>>

\* update_channel reads the row for its type, then writes the fields given: the
\* switch ("on", "off") or only the configuration (Nobody).
ReadChannel(a, c, enabled) ==
    /\ Exists(c)
    /\ Read(a, "update_channel", c, enabled, channel[c])

\* The whole row written back, as it was read.
Assigned_RowRead(enabled, seen, now) == IF enabled = Nobody THEN seen ELSE enabled
Assigned(enabled, seen, now) == IF enabled = Nobody THEN now ELSE enabled

WriteChannel(a) ==
    LET c == request[a].target
    IN  /\ request[a].op = "update_channel"
        /\ Exists(c)
        /\ channel' = [channel EXCEPT ![c] = Assigned(request[a].arg, request[a].seen, @)]
        /\ Record("channel.updated", c, request[a].arg)
        /\ Reply(a)
        /\ UNCHANGED <<project, sampling, key, issue, assignee, comments, members>>

delete_channel(c) ==
    /\ Exists(c)
    /\ channel' = [channel EXCEPT ![c] = "gone"]
    /\ Record("channel.deleted", c, Nobody)
    /\ UNCHANGED <<project, sampling, key, issue, assignee, comments, members, request>>

-----------------------------------------------------------------------------
(* issues.py.                                                              *)

\* A worker stores the first event of an issue.
StoreIssue(i) ==
    /\ issue[i] = "new" /\ project[IssueProject[i]] = "live"
    /\ issue' = [issue EXCEPT ![i] = "live"]
    /\ UNCHANGED <<project, sampling, key, channel, assignee, comments, members, request, audit, plan>>

\* Invites are accepted meanwhile.
Join(u) ==
    /\ u \notin members
    /\ members' = members \cup {u}
    /\ UNCHANGED <<project, sampling, key, channel, issue, assignee, comments, request, audit, plan>>

CheckAssignee(a, i, u) ==
    /\ project[IssueProject[i]] = "live"
    /\ u = Nobody \/ u \in members
    /\ Read(a, "assign_issue", i, u, Nobody)

WriteAssignee(a) ==
    LET i == request[a].target
    IN  /\ request[a].op = "assign_issue"
        /\ issue[i] = "live"
        /\ assignee' = [assignee EXCEPT ![i] = request[a].arg]
        /\ Record("issue.assigned", i, request[a].arg)
        /\ Reply(a)
        /\ UNCHANGED <<project, sampling, key, channel, issue, comments, members>>

CheckIssue(a, i, u) ==
    /\ issue[i] = "live" /\ u \in members
    /\ Read(a, "add_comment", i, u, Nobody)

InsertComment(a) ==
    LET i == request[a].target
    IN  /\ request[a].op = "add_comment"
        /\ issue[i] = "live"
        /\ comments' = comments \cup {[issue |-> i, author |-> request[a].arg]}
        /\ Reply(a)
        /\ UNCHANGED <<project, sampling, key, channel, issue, assignee, members, audit, plan>>

delete_issue(i) ==
    /\ issue[i] = "live"
    /\ issue' = [issue EXCEPT ![i] = "gone"]
    /\ comments' = {m \in comments : m.issue # i}
    /\ Record("issue.deleted", i, Nobody)
    /\ UNCHANGED <<project, sampling, key, channel, assignee, members, request>>

\* The row to write is gone: no row, a failed foreign key, or .one() without a row.
\* Also a request that is cut off: its transaction rolls back.
Abandon(a) ==
    /\ request[a] # Idle
    /\ Reply(a)
    /\ UNCHANGED <<tables, audit, plan>>

ProjectStep(p) ==
    \/ create_project(p)
    \/ delete_project(p)
    \/ \E rate \in Rates \cap plan.ids : update_project_sampling(p, rate)

RequestStep(a) ==
    \/ \E k \in Keys \cap plan.ids : CheckKey(a, k)
    \/ \E c \in Channels \cap plan.ids : CheckChannel(a, c) \/ \E e \in {"on", "off", Nobody} : ReadChannel(a, c, e)
    \/ \E i \in Issues \cap plan.ids :
        \/ \E u \in (Users \cup {Nobody}) \cap plan.ids : CheckAssignee(a, i, u)
        \/ \E u \in Users \cap plan.ids : CheckIssue(a, i, u)
    \/ InsertKey(a) \/ InsertChannel(a) \/ WriteChannel(a)
    \/ WriteAssignee(a) \/ InsertComment(a) \/ Abandon(a)

OrgNext ==
    \/ \E p \in Projs \cap plan.ids : ProjectStep(p)
    \/ \E a \in plan.callers : RequestStep(a)
    \/ \E k \in Keys : revoke_dsn_key(k)
    \/ \E c \in Channels : delete_channel(c)
    \/ \E i \in Issues \cap plan.ids : StoreIssue(i) \/ delete_issue(i)
    \/ \E u \in Users \cap plan.ids : Join(u)

-----------------------------------------------------------------------------
(* Correctness.                                                            *)

OrgTypeOK ==
    /\ project \in [Projs -> {"new", "live", "gone"}]
    /\ sampling \in [Projs -> Rates]
    /\ key \in [Keys -> {"new", "active", "revoked", "gone"}]
    /\ channel \in [Channels -> {"new", "on", "off", "gone"}]
    /\ issue \in [Issues -> {"new", "live", "gone"}]
    /\ assignee \in [Issues -> Users \cup {Nobody}]
    /\ comments \subseteq [issue : Issues, author : Users]
    /\ members \subseteq Users
    /\ DOMAIN request = Admins
    /\ Len(audit) <= plan.audit

\* Rows never outlive what they belong to, and an issue is never assigned to an
\* outsider "even under a race", although the checks are made in one statement and
\* the rows written in another.
NothingDangles ==
    /\ \A k \in Keys : key[k] \in {"active", "revoked"} => project[KeyProject[k]] = "live"
    /\ \A c \in Channels : Exists(c) => InScope(c)
    /\ \A i \in Issues : issue[i] = "live" => project[IssueProject[i]] = "live"
    /\ \A m \in comments : issue[m.issue] = "live"
    /\ \A i \in Issues : assignee[i] \in members \cup {Nobody}

\* What the audit log says of a row: the last entry about it, among those of the
\* given actions, or a default.
About(target, actions) ==
    {n \in DOMAIN audit : audit[n].target = target /\ audit[n].action \in actions}
LastAbout(target, actions, default) ==
    LET about == About(target, actions)
    IN  IF about = {} THEN default
        ELSE audit[CHOOSE n \in about : \A k \in about : k <= n].data

\* The last entry that says how a channel's switch was set.
Switched(c) ==
    LET about == {n \in About(c, {"channel.updated"}) : audit[n].data # Nobody}
    IN  IF about = {} THEN "on"
        ELSE audit[CHOOSE n \in about : \A k \in about : k <= n].data

\* Every creation, revocation and deletion is recorded once, and never a request that
\* changed nothing ("never audited on a no-op").
RecordedOnce ==
    \A n, k \in DOMAIN audit :
        /\ audit[n].action = audit[k].action
        /\ audit[n].target = audit[k].target
        /\ audit[n].action \notin {"sampling.updated", "channel.updated", "issue.assigned"}
        => n = k

\* The log replays to the tables: "written in the SAME transaction" means that no
\* change is there without its entry and no entry without its change.
LogTellsTheTables ==
    /\ \A p \in Projs :
        /\ (project[p] # "new") <=> About(p, {"project.created"}) # {}
        /\ (project[p] = "gone") <=> About(p, {"project.deleted"}) # {}
        /\ sampling[p] = LastAbout(p, {"sampling.updated"}, FullRate)
    /\ \A k \in Keys : project[KeyProject[k]] = "live" =>
        key[k] = IF About(k, {"key.revoked"}) # {} THEN "revoked"
                 ELSE IF About(k, {"key.created"}) # {} THEN "active" ELSE "new"
    /\ \A c \in Channels : InScope(c) =>
        channel[c] = IF About(c, {"channel.deleted"}) # {} THEN "gone"
                     ELSE IF About(c, {"channel.created"}) = {} THEN "new"
                     ELSE Switched(c)
    /\ \A i \in Issues : assignee[i] = LastAbout(i, {"issue.assigned"}, Nobody)

AuditIsExact == RecordedOnce /\ LogTellsTheTables
=============================================================================
