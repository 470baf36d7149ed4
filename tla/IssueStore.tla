----------------------------- MODULE IssueStore -----------------------------
(***************************************************************************)
(* What the issues/events tables promise for ONE grouping key              *)
(* (project_id, fingerprint): every stored event is counted in the issue   *)
(* row it points at, in the same step; an issue only comes back            *)
(* ("regressed") out of "resolved"; and the release markers follow the     *)
(* status.  ProcessEvent, with its READ COMMITTED statements and row       *)
(* locks, is shown to implement this module.                               *)
(***************************************************************************)
EXTENDS Naturals

CONSTANT Releases     \* the release versions of the project (positive numbers)

NoRelease == 0

\* The absent issue row.
NoIssue == [id |-> 0, status |-> "absent", event_count |-> 0,
            first_seen |-> 0, last_seen |-> 0,
            resolved_in_release |-> NoRelease,
            regressed_in_release |-> NoRelease]

\* SQL GREATEST over two non-null arguments.
Greatest(a, b) == IF a >= b THEN a ELSE b

VARIABLES issue,      \* the committed row of issues for the key, or NoIssue
          events      \* the committed rows of events of the key, orphans included

vars == <<issue, events>>

Init == issue = NoIssue /\ events = {}

\* An event of a new key: the issue is created unresolved with a fresh id.
NewIssue(row) ==
    /\ issue = NoIssue
    /\ row.issue_id # 0
    /\ \A r \in events : r.issue_id # row.issue_id
    /\ issue' = [id |-> row.issue_id, status |-> "unresolved", event_count |-> 1,
                 first_seen |-> row.received_at, last_seen |-> row.received_at,
                 resolved_in_release |-> NoRelease,
                 regressed_in_release |-> NoRelease]

\* One more event of a known key, as counted in its row, which shows the given
\* status and "came back in" marker from then on.
Counted(row, status, marker) ==
    [id |-> issue.id, status |-> status, event_count |-> issue.event_count + 1,
     first_seen |-> issue.first_seen,
     last_seen |-> Greatest(issue.last_seen, row.received_at),
     resolved_in_release |-> issue.resolved_in_release,
     regressed_in_release |-> marker]

Occurrence(row) ==
    /\ issue # NoIssue
    /\ row.issue_id = issue.id
    /\ issue' = Counted(row, issue.status, issue.regressed_in_release)

\* The event brings a resolved issue back.
Regression(row) ==
    /\ issue.status = "resolved"
    /\ row.issue_id = issue.id
    /\ issue' = Counted(row, "regressed", row.release)

\* Rows are only ever added, one at a time, each together with its count.
Store ==
    \E row \in events' \ events :
        /\ events' = events \cup {row}
        /\ NewIssue(row) \/ Occurrence(row) \/ Regression(row)

\* A member's triage actions; each one rewrites the row alone.
Triage ==
    /\ issue # NoIssue
    /\ UNCHANGED events
    /\ \/ \E r \in Releases \cup {NoRelease} :
             issue' = [issue EXCEPT !.status = "resolved",
                                    !.resolved_in_release = r,
                                    !.regressed_in_release = NoRelease]
       \/ issue' = [issue EXCEPT !.status = "ignored",
                                 !.regressed_in_release = NoRelease]
       \/ issue' = [issue EXCEPT !.status = "unresolved",
                                 !.resolved_in_release = NoRelease,
                                 !.regressed_in_release = NoRelease]
       \/ issue' = NoIssue

Next == Store \/ Triage

Spec == Init /\ [][Next]_vars
=============================================================================
