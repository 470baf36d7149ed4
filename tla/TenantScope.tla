---------------------------- MODULE TenantScope ----------------------------
(***************************************************************************)
(* The sessions of server/app/db.py on the connections of one pool, and the*)
(* row security of the migrations under them.                              *)
(*                                                                         *)
(* Whose rows a statement may touch hangs on two settings of a connection, *)
(* the organization (app.current_org) and the role.  A connection outlives *)
(* the transaction that set them and goes to whoever asks next.  An        *)
(* abandoned request leaves a transaction between any two statements.      *)
(***************************************************************************)
EXTENDS Integers, FiniteSets

CONSTANTS
    Orgs,
    Units,          \* requests and jobs in progress
    Conns,          \* connections of the pool
    NoConn

\* Ids of organizations are UUIDs: none reads as a setting that is not there.
ASSUME ScopeAssumption ==
    /\ NoConn \notin Conns
    /\ Orgs \cap {"unset", ""} = {}

VARIABLES
    settings,   \* [Conns -> [org, role]], as the next statement finds them
    unit        \* [Units -> [kind, org, conn, at]]

sessionVars == <<settings, unit>>

\* The setting was never made; or it was, and reverted: it reads as the empty string.
Unset == "unset"
Blank == ""

Login == "crashlens_login"      \* inherits the grants of crashlens_app
SystemRole == "crashlens_system"
AdminRole == "crashlens_admin"
BypassRls == {SystemRole, AdminRole}

Fresh == [org |-> Unset, role |-> Login]
NoUnit == [kind |-> "none", org |-> Unset, conn |-> NoConn, at |-> "idle"]

SessionInit ==
    /\ settings = [c \in Conns |-> Fresh]
    /\ unit = [u \in Units |-> NoUnit]

-----------------------------------------------------------------------------
(* What the database lets a statement touch: tables by who may read them.  *)

OrgScopedTables ==
    {"org_memberships", "org_invites", "projects", "dsn_keys", "issues", "events",
     "releases", "issue_comments", "alert_channels", "audit_log"}
TenantTables == OrgScopedTables \cup {"orgs"}

Readable(role) ==
    CASE role = SystemRole -> {"orgs", "org_memberships", "org_invites", "dsn_keys", "projects"}
      [] role = AdminRole -> {"users", "orgs", "org_memberships", "projects", "issues",
                              "events", "releases", "alert_channels", "audit_log"}
      [] OTHER -> TenantTables \cup {"users"}
Writable(role) == IF role = Login THEN TenantTables \cup {"users"} ELSE {}

\* The organizations whose rows pass tenant_isolation, for reading and for writing.
tenant_isolation(s) == IF s.org \in {Unset, Blank} THEN {} ELSE {s.org}
Passing(s) == IF s.role \in BypassRls THEN Orgs ELSE tenant_isolation(s)

MayRead(s, table) == IF table \in Readable(s.role) THEN Passing(s) ELSE {}
MayWrite(s, table) == IF table \in Writable(s.role) THEN Passing(s) ELSE {}

-----------------------------------------------------------------------------
(* Transactions.                                                           *)

\* Where a setting was made for the session and not for the transaction.
Ended_Kept(s) == s
\* COMMIT and ROLLBACK take back what was set for the transaction.
Ended(s) == [org |-> IF s.org = Unset THEN Unset ELSE Blank, role |-> Login]

Held == {unit[u].conn : u \in Units} \ {NoConn}

\* The pool hands out a connection that was used before, or a new one in its place.
Begin(u) ==
    /\ unit[u] = NoUnit
    /\ \E kind \in {"tenant", "system", "admin", "plain"}, c \in Conns \ Held :
        /\ \E org \in IF kind = "tenant" THEN Orgs ELSE {Unset} :
            unit' = [unit EXCEPT ![u] =
                [kind |-> kind, org |-> org, conn |-> c,
                 at |-> IF kind = "plain" THEN "open" ELSE "begun"]]
        /\ \E s \in {settings[c], Fresh} : settings' = [settings EXCEPT ![c] = s]

Scoped(u, s) ==
    /\ unit[u].at = "begun"
    /\ settings' = [settings EXCEPT ![unit[u].conn] = s]
    /\ unit' = [unit EXCEPT ![u].at = "open"]

tenant_session(u) ==
    unit[u].kind = "tenant" /\ Scoped(u, [settings[unit[u].conn] EXCEPT !.org = unit[u].org])

system_session(u) ==
    unit[u].kind = "system" /\ Scoped(u, [settings[unit[u].conn] EXCEPT !.role = SystemRole])

admin_session(u) ==
    unit[u].kind = "admin" /\ Scoped(u, [settings[unit[u].conn] EXCEPT !.role = AdminRole])

\* The block is left, or abandoned, before the first statement of the session or after.
End(u) ==
    /\ unit[u].at \in {"begun", "open"}
    /\ settings' = [settings EXCEPT ![unit[u].conn] = Ended(@)]
    /\ unit' = [unit EXCEPT ![u] = NoUnit]

SessionNext ==
    \E u \in Units :
        Begin(u) \/ tenant_session(u) \/ system_session(u) \/ admin_session(u) \/ End(u)

SessionSpec == SessionInit /\ [][SessionNext]_sessionVars

-----------------------------------------------------------------------------
(* Correctness.                                                            *)

\* "Isolation is structural": inside its block a request touches the rows of its own
\* organization and no others, a bootstrap or operator read sees all organizations in
\* its few tables and writes nowhere, and a session with no scope, or one not scoped
\* yet, touches no tenant row at all; whoever had the connection before.
ScopeIsExact ==
    \A u \in Units, table \in TenantTables :
        LET s == settings[unit[u].conn]
            open == unit[u].at = "open"
            own == IF open THEN {unit[u].org} ELSE {}
            all == IF open THEN Orgs ELSE {}
        IN  CASE unit[u].kind = "none" -> TRUE
              [] unit[u].kind = "plain" -> MayRead(s, table) = {} /\ MayWrite(s, table) = {}
              [] unit[u].kind = "tenant" -> MayRead(s, table) = own /\ MayWrite(s, table) = own
              [] unit[u].kind = "system" ->
                    /\ MayWrite(s, table) = {}
                    /\ MayRead(s, table) =
                        IF table \in Readable(SystemRole) THEN all ELSE {}
              [] unit[u].kind = "admin" ->
                    /\ MayWrite(s, table) = {}
                    /\ MayRead(s, table) =
                        IF table \in Readable(AdminRole) THEN all ELSE {}
=============================================================================
