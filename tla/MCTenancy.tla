----------------------------- MODULE MCTenancy -----------------------------
(***************************************************************************)
(* Instances of what goes on inside one organization (the plans of         *)
(* AlertDispatch, run one beside the other and never mixed: requests that  *)
(* race without an alert, and an alert that races one admin) and between   *)
(* organizations (their sessions on one pool of connections).              *)
(***************************************************************************)
EXTENDS AlertDispatch, TenantScope, TLC

CONSTANTS p1, p2, k1, c1, c2, c3, i1, u1, a1, a2

MCKeyProject == k1 :> p1
\* c1 notifies of every project, by e-mail to the members; c2 and c3 of p1 and p2.
MCScope == c1 :> OrgWide @@ c2 :> p1 @@ c3 :> p2
MCChannelType == c1 :> "email" @@ c2 :> "slack" @@ c3 :> "webhook"
MCIssueProject == i1 :> p1

Plan(callers, ids, n, tries) ==
    [callers |-> callers, ids |-> ids, audit |-> n, tries |-> tries]

MCPlans ==
    { Plan({a1, a2}, {p1, k1, c1, "low", "full"}, 5, 0),
      Plan({a1, a2}, {p1, c2}, 5, 0),
      Plan({a1, a2}, {p1, i1, u1, Nobody}, 5, 0),
      Plan({a1}, {p1, i1, c1, c2}, 4, 1),
      Plan({a1}, {p1, i1, c1, c2}, 3, 2),
      Plan({a1}, {p1, i1, c2}, 4, 2),
      Plan({a1}, {p1, p2, i1, c3}, 4, 1) }

-----------------------------------------------------------------------------

VARIABLES side      \* what this behaviour is about

TenancyInit ==
    /\ side \in {"rows", "sessions"}
    /\ Init /\ SessionInit
    /\ side = "sessions" => plan = CHOOSE q \in MCPlans : TRUE

TenancyNext ==
    \/ side = "rows" /\ Next /\ UNCHANGED <<sessionVars, side>>
    \/ side = "sessions" /\ SessionNext /\ UNCHANGED <<vars, side>>

TenancySpec == TenancyInit /\ [][TenancyNext]_<<vars, sessionVars, side>>
=============================================================================
