----------------------------- MODULE Accounts -----------------------------
(***************************************************************************)
(* Signup, invites and the instance-administrator flag: requests that read *)
(* in one statement or transaction and write in a later one, over the      *)
(* users, orgs, org_memberships and org_invites rows.                      *)
(*                                                                         *)
(* Transactions are READ COMMITTED.  The writes of one run at its end and  *)
(* nothing in it reads them, so a transaction is one action for every read *)
(* and one for its writes and their commit.  A user is known by the        *)
(* address of the account, which is unique and never changes; an           *)
(* organization by the user who founded it, since a signup founds one.     *)
(***************************************************************************)
EXTENDS Naturals, Sequences, FiniteSets

CONSTANTS
    Addresses,     \* email addresses, as they are typed
    Lower,         \* Lower[a]: a in lower case
    Requests,      \* requests the server handles at the same time
    MaxInvites,    \* bound: invites created
    MaxToggles     \* bound: toggles of the flag that are committed

ASSUME LowerAssumption  == Lower \in [Addresses -> Addresses]
ASSUME BoundsAssumption == MaxInvites \in Nat /\ MaxToggles \in Nat

VARIABLES
    users,      \* rows of users
    admins,     \* of those, with is_instance_admin
    orgs,       \* rows of orgs
    members,    \* rows of org_memberships
    invites,    \* rows of org_invites, in the order they were created
    req,        \* req[r]: what request r has read, and where it is
    demotions,  \* history: how many toggles took the flag away
    toggles,    \* history: how many toggles were committed
    raced       \* history: a demotion was decided before another took effect

tables == <<users, admins, orgs, members, invites>>
history == <<demotions, toggles, raced>>
vars == <<tables, req, history>>

Roles == {"admin", "member"}
Idle == [at |-> "idle"]

Becomes(r, next) == req' = [req EXCEPT ![r] = next]
Ends(r) == Becomes(r, Idle)
Started(r) == req[r] = Idle

-----------------------------------------------------------------------------
(* signup.                                                                 *)

\* load_user_by_email: the address is free (a taken one gets an inert token).
SignupStart(r, email) ==
    /\ Started(r)
    /\ email \notin users
    /\ Becomes(r, [at |-> "signup", email |-> email])
    /\ UNCHANGED <<tables, history>>

\* SELECT EXISTS (SELECT 1 FROM users), the first statement of the transaction.
IsFirst_AfterInsert == FALSE       \* the account counts itself: AdminsRemainUnlessRaced

IsFirst == users = {}

SignupCheck(r) ==
    /\ req[r].at = "signup"
    /\ Becomes(r, [at |-> "found", email |-> req[r].email, first |-> IsFirst])
    /\ UNCHANGED <<tables, history>>

\* The three inserts.  If the address was taken meanwhile, the unique key refuses
\* the user and nothing is committed.
SignupCommit(r) ==
    /\ req[r].at = "found"
    /\ LET email == req[r].email
       IN  IF email \in users
           THEN UNCHANGED tables
           ELSE /\ users' = users \cup {email}
                /\ admins' = IF req[r].first THEN admins \cup {email} ELSE admins
                /\ orgs' = orgs \cup {email}
                /\ members' = members \cup
                      {[org |-> email, user |-> email, role |-> "admin"]}
                /\ UNCHANGED invites
    /\ Ends(r)
    /\ UNCHANGED history

-----------------------------------------------------------------------------
(* create_invite and accept_invite.                                        *)

\* require_org_admin: the caller's membership is read in a session of its own.
InviteStart(r, org, user) ==
    /\ Started(r)
    /\ [org |-> org, user |-> user, role |-> "admin"] \in members
    /\ Becomes(r, [at |-> "invite", org |-> org])
    /\ UNCHANGED <<tables, history>>

InviteCommit(r, email, role) ==
    /\ req[r].at = "invite"
    /\ Len(invites) < MaxInvites
    /\ invites' = Append(invites, [org |-> req[r].org, email |-> email,
                                   role |-> role, state |-> "open"])
    /\ Ends(r)
    /\ UNCHANGED <<users, admins, orgs, members, history>>

Marked(i, state) == [invites EXCEPT ![i].state = state]

\* INVITE_TTL passes.
Expire(i) ==
    /\ i \in DOMAIN invites /\ invites[i].state = "open"
    /\ invites' = Marked(i, "expired")
    /\ UNCHANGED <<users, admins, orgs, members, req, history>>

\* invite.email.lower() != email.lower()
Addressed_ToAnyone(i, email) == email \in Addresses     \* MembershipsAreExplained

Addressed(i, email) == Lower[invites[i].email] = Lower[email]

\* The token is resolved through system_session: not accepted, not expired.
AcceptStart(r, i, email) ==
    /\ Started(r)
    /\ i \in DOMAIN invites /\ invites[i].state = "open"
    /\ Addressed(i, email)
    /\ Becomes(r, [at |-> "resolved", invite |-> i, email |-> email])
    /\ UNCHANGED <<tables, history>>

\* load_user_by_email: an account with this address verifies its password (a wrong
\* one ends the request, as Abandon does), no account means one is to be created.
AcceptLoad(r) ==
    /\ req[r].at = "resolved"
    /\ Becomes(r, [at |-> "join", invite |-> req[r].invite, email |-> req[r].email,
                   create |-> req[r].email \notin users])
    /\ UNCHANGED <<tables, history>>

\* INSERT INTO org_memberships ... ON CONFLICT (org_id, user_id) DO NOTHING
Granted_Overwrites(org, user, role) ==        \* DO UPDATE SET role: MembershipsAreExplained
    {m \in members : m.org # org \/ m.user # user}
        \cup {[org |-> org, user |-> user, role |-> role]}

Granted(org, user, role) ==
    IF \E m \in members : m.org = org /\ m.user = user
    THEN members
    ELSE members \cup {[org |-> org, user |-> user, role |-> role]}

\* The user, the membership and the stamp.  A taken address refuses the user and
\* the error ends the request; the number of rows the stamp met is not looked at.
AcceptCommit(r) ==
    /\ req[r].at = "join"
    /\ LET i == req[r].invite
           email == req[r].email
       IN  IF req[r].create /\ email \in users
           THEN UNCHANGED tables
           ELSE /\ users' = users \cup {email}
                /\ members' = Granted(invites[i].org, email, invites[i].role)
                /\ invites' = Marked(i, "accepted")
                /\ UNCHANGED <<admins, orgs>>
    /\ Ends(r)
    /\ UNCHANGED history

-----------------------------------------------------------------------------
(* set_instance_admin and make_admin.                                      *)

\* require_instance_admin, in a session of its own.
ToggleStart(r, actor, target, enabled) ==
    /\ Started(r)
    /\ actor \in admins
    /\ toggles < MaxToggles
    /\ Becomes(r, [at |-> "toggle", actor |-> actor, target |-> target,
                   enabled |-> enabled, seen |-> demotions])
    /\ UNCHANGED <<tables, history>>

would_orphan_instance_Zero(enabled, is_self, admin_count) ==  \* AdminsRemainUnlessRaced
    ~enabled /\ is_self /\ admin_count < 1

would_orphan_instance(enabled, is_self, admin_count) ==
    ~enabled /\ is_self /\ admin_count <= 1

\* SELECT count(*), and the guard.
ToggleCount(r) ==
    /\ req[r].at = "toggle"
    /\ IF would_orphan_instance(req[r].enabled, req[r].actor = req[r].target,
                                Cardinality(admins))
       THEN Ends(r)                                     \* LastAdminError
       ELSE Becomes(r, [req[r] EXCEPT !.at = "update"])
    /\ UNCHANGED <<tables, history>>

\* The UPDATE; a target that is no user gets NoSuchUserError.
ToggleCommit(r) ==
    /\ req[r].at = "update"
    /\ toggles < MaxToggles
    /\ LET target == req[r].target
       IN  /\ toggles' = toggles + 1
           /\ IF target \notin users
              THEN UNCHANGED <<admins, demotions, raced>>
              ELSE IF req[r].enabled
              THEN admins' = admins \cup {target} /\ UNCHANGED <<demotions, raced>>
              ELSE /\ admins' = admins \ {target}
                   /\ demotions' = demotions + 1
                   /\ raced' = (raced \/ demotions > req[r].seen)
    /\ Ends(r)
    /\ UNCHANGED <<users, orgs, members, invites>>

\* python -m app.cli make-admin: one UPDATE.
make_admin(email) ==
    /\ email \in users
    /\ admins' = admins \cup {email}
    /\ UNCHANGED <<users, orgs, members, invites, req, history>>

-----------------------------------------------------------------------------
\* A refused password, a lost connection or a killed server ends a request, and the
\* transaction it is in rolls back.
Abandon(r) ==
    /\ ~Started(r)
    /\ Ends(r)
    /\ UNCHANGED <<tables, history>>

Init ==
    /\ users = {} /\ admins = {} /\ orgs = {} /\ members = {} /\ invites = <<>>
    /\ req = [r \in Requests |-> Idle]
    /\ demotions = 0 /\ toggles = 0 /\ raced = FALSE

Signup(r) == (\E a \in Addresses : SignupStart(r, a)) \/ SignupCheck(r) \/ SignupCommit(r)

Invite(r) ==
    \/ \E org \in orgs, user \in users : InviteStart(r, org, user)
    \/ \E a \in Addresses, role \in Roles : InviteCommit(r, a, role)

Accept(r) ==
    \/ \E i \in 1 .. MaxInvites, a \in Addresses : AcceptStart(r, i, a)
    \/ AcceptLoad(r) \/ AcceptCommit(r)

Toggle(r) ==
    \/ \E actor, target \in Addresses, enabled \in BOOLEAN :
          ToggleStart(r, actor, target, enabled)
    \/ ToggleCount(r) \/ ToggleCommit(r)

Next ==
    \/ \E r \in Requests : Signup(r) \/ Invite(r) \/ Accept(r) \/ Toggle(r) \/ Abandon(r)
    \/ \E i \in 1 .. MaxInvites : Expire(i)
    \/ \E a \in Addresses : make_admin(a)

Spec == Init /\ [][Next]_vars

-----------------------------------------------------------------------------
(* Correctness.                                                            *)

MemberRows == [org : Addresses, user : Addresses, role : Roles]

InviteRows == [org : Addresses, email : Addresses, role : Roles,
               state : {"open", "expired", "accepted"}]

RequestStates ==
    {Idle}
    \cup [at : {"signup"}, email : Addresses]
    \cup [at : {"found"}, email : Addresses, first : BOOLEAN]
    \cup [at : {"invite"}, org : Addresses]
    \cup [at : {"resolved"}, invite : 1 .. MaxInvites, email : Addresses]
    \cup [at : {"join"}, invite : 1 .. MaxInvites, email : Addresses, create : BOOLEAN]
    \cup [at : {"toggle", "update"}, actor : Addresses, target : Addresses,
          enabled : BOOLEAN, seen : Nat]

\* Every variable has its type; the flag is on users' rows only.
TypeOK ==
    /\ users \subseteq Addresses /\ admins \subseteq users /\ orgs \subseteq users
    /\ members \subseteq MemberRows
    /\ invites \in Seq(InviteRows) /\ Len(invites) <= MaxInvites
    /\ req \in [Requests -> RequestStates]
    /\ demotions \in Nat /\ toggles \in 0 .. MaxToggles /\ raced \in BOOLEAN

EveryOrgHasAdmin ==
    \A o \in orgs : \E m \in members : m.org = o /\ m.role = "admin"

\* Its user founded the organization, or an accepted invite of the organization names
\* the user's address and the role; and no user has two roles in one organization.
MembershipsAreEarned ==
    /\ \A m \in members :
          \/ m.user = m.org /\ m.org \in orgs /\ m.role = "admin"
          \/ \E i \in DOMAIN invites :
                /\ invites[i].org = m.org /\ invites[i].role = m.role
                /\ invites[i].state = "accepted"
                /\ Lower[invites[i].email] = Lower[m.user]
    /\ \A m, n \in members : m.org = n.org /\ m.user = n.user => m = n

\* Every membership was earned, and an organization never loses its last admin: no
\* acceptance of an invite, not even by a member, takes a role away or grants a second.
MembershipsAreExplained == EveryOrgHasAdmin /\ MembershipsAreEarned

\* A fresh instance gets an administrator with its first account, and keeps one as
\* long as no demotion was authorised before another took effect.
AdminsRemainUnlessRaced == users # {} /\ ~raced => admins # {}

\* The docstring of set_instance_admin: the count and the update "cannot race a
\* concurrent demotion", so the instance always has an administrator.
AdminsRemain == users # {} => admins # {}
=============================================================================
