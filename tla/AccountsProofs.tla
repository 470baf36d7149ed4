-------------------------- MODULE AccountsProofs --------------------------
(***************************************************************************)
(* Proofs about Accounts, for any addresses, requests and bounds: its      *)
(* types, that no organization loses its last admin, that memberships are  *)
(* explained by signups and accepted invites, and that only a demotion     *)
(* decided before another took effect can leave the instance without an    *)
(* administrator; and about Login, for any number of sign-ins and any      *)
(* lockout: that an account locks when it should, and how many wrong       *)
(* passwords may be judged where sign-ins overlap.                         *)
(***************************************************************************)
EXTENDS Accounts, Login, FiniteSetTheorems, WellFoundedInduction, TLAPS

\* A mark on an invite changes its state and nothing else of it.
LEMMA MarkedInvite ==
    ASSUME invites \in Seq(InviteRows), NEW i \in DOMAIN invites,
           NEW state \in {"open", "expired", "accepted"}
    PROVE  /\ Marked(i, state) \in Seq(InviteRows)
           /\ Len(Marked(i, state)) = Len(invites)
           /\ DOMAIN Marked(i, state) = DOMAIN invites
           /\ \A k \in DOMAIN invites :
                 /\ Marked(i, state)[k].org = invites[k].org
                 /\ Marked(i, state)[k].email = invites[k].email
                 /\ Marked(i, state)[k].role = invites[k].role
                 /\ Marked(i, state)[k].state =
                       IF k = i THEN state ELSE invites[k].state
<1>1. \A k \in DOMAIN invites : invites[k] \in InviteRows
  OBVIOUS
<1>2. DOMAIN Marked(i, state) = DOMAIN invites
  BY DEF Marked
<1>3. \A k \in DOMAIN invites : k # i => Marked(i, state)[k] = invites[k]
  BY DEF Marked
<1>4. /\ Marked(i, state)[i].org = invites[i].org
      /\ Marked(i, state)[i].email = invites[i].email
      /\ Marked(i, state)[i].role = invites[i].role
      /\ Marked(i, state)[i].state = state
      /\ Marked(i, state)[i] \in InviteRows
  BY <1>1 DEF Marked, InviteRows
<1>5. Marked(i, state) \in Seq(InviteRows) /\ Len(Marked(i, state)) = Len(invites)
  <2>1. \A k \in DOMAIN invites : Marked(i, state)[k] \in InviteRows
    BY <1>1, <1>3, <1>4
  <2>2. DOMAIN invites = 1 .. Len(invites) /\ Len(invites) \in Nat
    OBVIOUS
  <2>3. Marked(i, state) = [k \in 1 .. Len(invites) |-> Marked(i, state)[k]]
    BY <1>2, <2>2 DEF Marked
  <2> QED
    BY <2>1, <2>2, <2>3, <1>2
<1> QED
  BY <1>2, <1>3, <1>4, <1>5

-----------------------------------------------------------------------------
(* Types.                                                                  *)

\* An insertion into org_memberships adds at most the row it is given.
LEMMA GrantedRows ==
    ASSUME members \subseteq MemberRows,
           NEW org \in Addresses, NEW member \in Addresses, NEW role \in Roles
    PROVE  /\ Granted(org, member, role) \subseteq MemberRows
           /\ members \subseteq Granted(org, member, role)
           /\ \A m \in Granted(org, member, role) \ members :
                 m = [org |-> org, user |-> member, role |-> role]
BY DEF Granted, MemberRows

\* A request that accepts an invite holds one that exists and is addressed to it.
Linked ==
    \A r \in Requests :
        req[r].at \in {"resolved", "join"} =>
            /\ req[r].invite \in DOMAIN invites
            /\ Lower[invites[req[r].invite].email] = Lower[req[r].email]

\* Every step keeps the types.
LEMMA TypeStep == TypeOK /\ Linked /\ [Next]_vars => TypeOK'
<1> SUFFICES ASSUME TypeOK, Linked, [Next]_vars PROVE TypeOK'
  OBVIOUS
<1> USE BoundsAssumption
<1>1. ASSUME NEW r \in Requests, NEW next \in RequestStates, Becomes(r, next)
      PROVE  req' \in [Requests -> RequestStates]
  BY <1>1 DEF Becomes, TypeOK
<1>2. \A r \in Requests : req[r] \in RequestStates
  BY DEF TypeOK
<1>3. Idle \in RequestStates
  BY DEF RequestStates
<1>4. ASSUME NEW r \in Requests, Signup(r) PROVE TypeOK'
  <2>1. ASSUME NEW a \in Addresses, SignupStart(r, a) PROVE TypeOK'
    <3>1. [at |-> "signup", email |-> a] \in RequestStates
      BY DEF RequestStates
    <3> QED
      BY <1>1, <2>1, <3>1 DEF SignupStart, TypeOK, tables, history
  <2>2. CASE SignupCheck(r)
    <3>1. req[r].email \in Addresses
      BY <1>2, <2>2 DEF SignupCheck, RequestStates, Idle
    <3>2. [at |-> "found", email |-> req[r].email, first |-> IsFirst] \in RequestStates
      BY <3>1 DEF RequestStates, IsFirst
    <3> QED
      BY <1>1, <2>2, <3>2 DEF SignupCheck, TypeOK, tables, history
  <2>3. CASE SignupCommit(r)
    <3>1. req[r].email \in Addresses
      BY <1>2, <2>3 DEF SignupCommit, RequestStates, Idle
    <3>2. [org |-> req[r].email, user |-> req[r].email, role |-> "admin"] \in MemberRows
      BY <3>1 DEF MemberRows, Roles
    <3>3. req' \in [Requests -> RequestStates]
      BY <1>1, <1>3, <2>3 DEF SignupCommit, Ends
    <3> QED
      BY <2>3, <3>1, <3>2, <3>3 DEF SignupCommit, TypeOK, tables, history
  <2> QED
    BY <1>4, <2>1, <2>2, <2>3 DEF Signup
<1>5. ASSUME NEW r \in Requests, Invite(r) PROVE TypeOK'
  <2>1. ASSUME NEW o \in orgs, NEW u \in users, InviteStart(r, o, u) PROVE TypeOK'
    <3>1. [at |-> "invite", org |-> o] \in RequestStates
      BY DEF RequestStates, TypeOK
    <3> QED
      BY <1>1, <2>1, <3>1 DEF InviteStart, TypeOK, tables, history
  <2>2. ASSUME NEW a \in Addresses, NEW role \in Roles, InviteCommit(r, a, role)
        PROVE  TypeOK'
    <3>1. req[r].org \in Addresses
      BY <1>2, <2>2 DEF InviteCommit, RequestStates, Idle
    <3>2. [org |-> req[r].org, email |-> a, role |-> role, state |-> "open"]
             \in InviteRows
      BY <3>1 DEF InviteRows
    <3>3. invites' \in Seq(InviteRows) /\ Len(invites') <= MaxInvites
      BY <2>2, <3>2 DEF InviteCommit, TypeOK
    <3>4. req' \in [Requests -> RequestStates]
      BY <1>1, <1>3, <2>2 DEF InviteCommit, Ends
    <3> QED
      BY <2>2, <3>3, <3>4 DEF InviteCommit, TypeOK, history
  <2> QED
    BY <1>5, <2>1, <2>2 DEF Invite
<1>6. ASSUME NEW r \in Requests, Accept(r) PROVE TypeOK'
  <2>1. ASSUME NEW i \in 1 .. MaxInvites, NEW a \in Addresses, AcceptStart(r, i, a)
        PROVE  TypeOK'
    <3>1. [at |-> "resolved", invite |-> i, email |-> a] \in RequestStates
      BY DEF RequestStates
    <3> QED
      BY <1>1, <2>1, <3>1 DEF AcceptStart, TypeOK, tables, history
  <2>2. CASE AcceptLoad(r)
    <3>1. req[r].invite \in 1 .. MaxInvites /\ req[r].email \in Addresses
      BY <1>2, <2>2 DEF AcceptLoad, RequestStates, Idle
    <3>2. [at |-> "join", invite |-> req[r].invite, email |-> req[r].email,
           create |-> req[r].email \notin users] \in RequestStates
      BY <3>1 DEF RequestStates
    <3> QED
      BY <1>1, <2>2, <3>2 DEF AcceptLoad, TypeOK, tables, history
  <2>3. CASE AcceptCommit(r)
    <3>1. req[r].at = "join" /\ req[r].email \in Addresses
      BY <1>2, <2>3 DEF AcceptCommit, RequestStates, Idle
    <3>2. req[r].invite \in DOMAIN invites
      BY <3>1 DEF Linked
    <3>3. invites[req[r].invite] \in InviteRows
      BY <3>2 DEF TypeOK
    <3>4. invites[req[r].invite].org \in Addresses /\ invites[req[r].invite].role \in Roles
      BY <3>3 DEF InviteRows
    <3>5. Granted(invites[req[r].invite].org, req[r].email, invites[req[r].invite].role)
             \subseteq MemberRows
      BY <3>1, <3>4, GrantedRows DEF TypeOK
    <3>6. /\ Marked(req[r].invite, "accepted") \in Seq(InviteRows)
          /\ Len(Marked(req[r].invite, "accepted")) <= MaxInvites
      BY <3>2, MarkedInvite DEF TypeOK
    <3>7. req' \in [Requests -> RequestStates]
      BY <1>1, <1>3, <2>3 DEF AcceptCommit, Ends
    <3> QED
      BY <2>3, <3>1, <3>5, <3>6, <3>7 DEF AcceptCommit, TypeOK, tables, history
  <2> QED
    BY <1>6, <2>1, <2>2, <2>3 DEF Accept
<1>7. ASSUME NEW r \in Requests, Toggle(r) PROVE TypeOK'
  <2>1. ASSUME NEW actor \in Addresses, NEW target \in Addresses, NEW enabled \in BOOLEAN,
               ToggleStart(r, actor, target, enabled)
        PROVE  TypeOK'
    <3>1. [at |-> "toggle", actor |-> actor, target |-> target, enabled |-> enabled,
           seen |-> demotions] \in RequestStates
      BY DEF RequestStates, TypeOK
    <3> QED
      BY <1>1, <2>1, <3>1 DEF ToggleStart, TypeOK, tables, history
  <2>2. CASE ToggleCount(r)
    <3>1. req[r] \in [at : {"toggle", "update"}, actor : Addresses, target : Addresses,
                      enabled : BOOLEAN, seen : Nat]
      BY <1>2, <2>2 DEF ToggleCount, RequestStates, Idle
    <3>2. [req[r] EXCEPT !.at = "update"] \in RequestStates
      BY <3>1 DEF RequestStates
    <3>3. req' \in [Requests -> RequestStates]
      BY <1>1, <1>3, <2>2, <3>2 DEF ToggleCount, Ends
    <3> QED
      BY <2>2, <3>3 DEF ToggleCount, TypeOK, tables, history
  <2>3. CASE ToggleCommit(r)
    <3>1. req' \in [Requests -> RequestStates]
      BY <1>1, <1>3, <2>3 DEF ToggleCommit, Ends
    <3>2. toggles' \in 0 .. MaxToggles /\ demotions' \in Nat
      BY <2>3 DEF ToggleCommit, TypeOK
    <3>3. raced' \in BOOLEAN
      BY <2>3 DEF ToggleCommit, TypeOK
    <3>4. admins' \subseteq users
      BY <2>3 DEF ToggleCommit, TypeOK
    <3> QED
      BY <2>3, <3>1, <3>2, <3>3, <3>4 DEF ToggleCommit, TypeOK
  <2> QED
    BY <1>7, <2>1, <2>2, <2>3 DEF Toggle
<1>8. ASSUME NEW r \in Requests, Abandon(r) PROVE TypeOK'
  BY <1>1, <1>3, <1>8 DEF Abandon, Ends, TypeOK, tables, history
<1>9. ASSUME NEW i \in 1 .. MaxInvites, Expire(i) PROVE TypeOK'
  BY <1>9, MarkedInvite DEF Expire, TypeOK, history
<1>10. ASSUME NEW a \in Addresses, make_admin(a) PROVE TypeOK'
  BY <1>10 DEF make_admin, TypeOK, history
<1>11. CASE UNCHANGED vars
  BY <1>11 DEF vars, tables, history, TypeOK
<1> QED
  BY <1>4, <1>5, <1>6, <1>7, <1>8, <1>9, <1>10, <1>11 DEF Next

\* No step removes an invite, changes what it grants to whom, or undoes an acceptance.
InvitesKept ==
    \A k \in DOMAIN invites :
        /\ k \in DOMAIN invites'
        /\ invites'[k].org = invites[k].org
        /\ invites'[k].email = invites[k].email
        /\ invites'[k].role = invites[k].role
        /\ invites[k].state = "accepted" => invites'[k].state = "accepted"

LEMMA InvitesStep == TypeOK /\ Linked /\ [Next]_vars => InvitesKept
<1> SUFFICES ASSUME TypeOK, Linked, [Next]_vars PROVE InvitesKept
  OBVIOUS
<1>1. CASE UNCHANGED invites
  BY <1>1 DEF InvitesKept
<1>2. ASSUME NEW r \in Requests, NEW a \in Addresses, NEW role \in Roles,
             InviteCommit(r, a, role)
      PROVE  InvitesKept
  BY <1>2 DEF InviteCommit, InvitesKept, TypeOK
<1>3. ASSUME NEW i \in DOMAIN invites, NEW state \in {"expired", "accepted"},
             invites' = Marked(i, state),
             state = "expired" => invites[i].state = "open"
      PROVE  InvitesKept
  BY <1>3, MarkedInvite DEF InvitesKept, TypeOK
<1>4. ASSUME NEW i \in 1 .. MaxInvites, Expire(i) PROVE InvitesKept
  BY <1>3, <1>4 DEF Expire
<1>5. ASSUME NEW r \in Requests, AcceptCommit(r) PROVE InvitesKept
  <2>1. req[r].invite \in DOMAIN invites
    BY <1>5 DEF AcceptCommit, Linked
  <2> QED
    BY <1>1, <1>3, <1>5, <2>1 DEF AcceptCommit, tables
<1> QED
  BY <1>1, <1>2, <1>4, <1>5
  DEF Next, vars, tables, Signup, SignupStart, SignupCheck, SignupCommit, Invite,
      InviteStart, Accept, AcceptStart, AcceptLoad, Toggle, ToggleStart, ToggleCount,
      ToggleCommit, Abandon, make_admin

\* Every step keeps the link between a request and its invite.
LEMMA LinkedStep == TypeOK /\ Linked /\ [Next]_vars => Linked'
<1> SUFFICES ASSUME TypeOK, Linked, [Next]_vars, NEW q \in Requests,
                    req'[q].at \in {"resolved", "join"}
             PROVE  /\ req'[q].invite \in DOMAIN invites'
                    /\ Lower[invites'[req'[q].invite].email] = Lower[req'[q].email]
  BY DEF Linked
<1>1. InvitesKept
  BY InvitesStep
<1>2. CASE req'[q] = req[q]
  BY <1>1, <1>2 DEF Linked, InvitesKept
<1>3. ASSUME NEW r \in Requests, NEW next, Becomes(r, next), req'[q] # req[q]
      PROVE  q = r /\ req'[q] = next
  BY <1>3 DEF Becomes, TypeOK
<1>4. ASSUME NEW i \in 1 .. MaxInvites, NEW a \in Addresses, AcceptStart(q, i, a)
      PROVE  /\ req'[q].invite \in DOMAIN invites'
             /\ Lower[invites'[req'[q].invite].email] = Lower[req'[q].email]
  <2>1. req'[q] = [at |-> "resolved", invite |-> i, email |-> a]
    BY <1>4 DEF AcceptStart, Becomes, TypeOK
  <2> QED
    BY <1>4, <2>1 DEF AcceptStart, Addressed, tables
<1>5. ASSUME AcceptLoad(q)
      PROVE  /\ req'[q].invite \in DOMAIN invites'
             /\ Lower[invites'[req'[q].invite].email] = Lower[req'[q].email]
  <2>1. /\ req'[q].invite = req[q].invite /\ req'[q].email = req[q].email
        /\ req[q].at = "resolved"
    BY <1>5 DEF AcceptLoad, Becomes, TypeOK
  <2> QED
    BY <1>5, <2>1 DEF AcceptLoad, Linked, tables
<1>6. ASSUME NEW r \in Requests, Next, req'[q] # req[q],
             \/ Signup(r) \/ Invite(r) \/ Toggle(r) \/ Abandon(r) \/ AcceptCommit(r)
      PROVE  FALSE
  <2>1. CASE Ends(r)
    BY <1>3, <1>6, <2>1 DEF Ends, Idle
  <2>2. ASSUME NEW a, SignupStart(r, a) PROVE FALSE
    BY <1>3, <1>6, <2>2 DEF SignupStart
  <2>3. CASE SignupCheck(r)
    BY <1>3, <1>6, <2>3 DEF SignupCheck
  <2>4. ASSUME NEW o, NEW u, InviteStart(r, o, u) PROVE FALSE
    BY <1>3, <1>6, <2>4 DEF InviteStart
  <2>5. ASSUME NEW actor, NEW target, NEW enabled, ToggleStart(r, actor, target, enabled)
        PROVE  FALSE
    BY <1>3, <1>6, <2>5 DEF ToggleStart
  <2>6. CASE ToggleCount(r) /\ ~Ends(r)
    <3>1. Becomes(r, [req[r] EXCEPT !.at = "update"]) /\ req[r].at = "toggle"
      BY <2>6 DEF ToggleCount
    <3>2. req'[q] = [req[r] EXCEPT !.at = "update"]
      BY <1>3, <1>6, <3>1
    <3>3. req[r] \in [at : {"toggle", "update"}, actor : Addresses, target : Addresses,
                      enabled : BOOLEAN, seen : Nat]
      BY <3>1 DEF TypeOK, RequestStates, Idle
    <3> QED
      BY <3>2, <3>3
  <2> QED
    BY <1>6, <2>1, <2>2, <2>3, <2>4, <2>5, <2>6
    DEF Signup, SignupCommit, Invite, InviteCommit, Toggle, ToggleCommit, Abandon,
        AcceptCommit
<1>7. ASSUME NEW r \in Requests, Accept(r), req'[q] # req[q]
      PROVE  q = r \/ AcceptCommit(r)
  BY <1>3, <1>7 DEF Accept, AcceptStart, AcceptLoad
<1> QED
  BY <1>2, <1>4, <1>5, <1>6, <1>7
  DEF Next, vars, Accept, Expire, make_admin

\* Types and links hold from the start.
LEMMA TypeInit == Init => TypeOK /\ Linked
<1> SUFFICES ASSUME Init PROVE TypeOK /\ Linked
  OBVIOUS
<1>1. req \in [Requests -> RequestStates]
  BY DEF Init, RequestStates
<1>2. invites \in Seq(InviteRows) /\ Len(invites) <= MaxInvites
  BY BoundsAssumption DEF Init
<1>3. toggles \in 0 .. MaxToggles /\ demotions \in Nat
  BY BoundsAssumption DEF Init
<1>4. raced \in BOOLEAN
  BY Zenon DEF Init
<1>5. Linked
  BY DEF Init, Linked, Idle
<1> QED
  BY <1>1, <1>2, <1>3, <1>4, <1>5 DEF Init, TypeOK

\* Both are inductive together.
LEMMA Linking == Spec => [](TypeOK /\ Linked)
<1>1. TypeOK /\ Linked /\ [Next]_vars => (TypeOK /\ Linked)'
  BY TypeStep, LinkedStep
<1> QED
  BY <1>1, TypeInit, PTL DEF Spec

\* Every variable keeps its type, for any addresses, requests and bounds.
THEOREM TypeCorrect == Spec => []TypeOK
BY Linking, PTL

-----------------------------------------------------------------------------
(* Memberships.                                                            *)

\* The rows of org_memberships only grow, and orgs grow by founders that the same
\* step makes admin members.
MembersKept ==
    /\ members \subseteq members' /\ users \subseteq users' /\ orgs \subseteq orgs'
    /\ \A o \in orgs' \ orgs : \E m \in members' : m.org = o /\ m.role = "admin"

LEMMA MembersStep == TypeOK /\ Linked /\ [Next]_vars => MembersKept
<1> SUFFICES ASSUME TypeOK, Linked, [Next]_vars PROVE MembersKept
  OBVIOUS
<1>1. CASE UNCHANGED <<members, users, orgs>>
  BY <1>1 DEF MembersKept
<1>2. ASSUME NEW r \in Requests, SignupCommit(r) PROVE MembersKept
  BY <1>2 DEF SignupCommit, MembersKept, tables
<1>3. ASSUME NEW r \in Requests, AcceptCommit(r) PROVE MembersKept
  BY <1>3 DEF AcceptCommit, Granted, MembersKept, tables
<1> QED
  BY <1>1, <1>2, <1>3
  DEF Next, vars, tables, Signup, SignupStart, SignupCheck, Invite, InviteStart,
      InviteCommit, Accept, AcceptStart, AcceptLoad, Toggle, ToggleStart, ToggleCount,
      ToggleCommit, Abandon, make_admin, Expire

\* No interleaving of signups and acceptances leaves an organization without an admin.
THEOREM EveryOrgKeepsAdmin == Spec => []EveryOrgHasAdmin
<1>1. Init => EveryOrgHasAdmin
  BY DEF Init, EveryOrgHasAdmin
<1>2. EveryOrgHasAdmin /\ MembersKept => EveryOrgHasAdmin'
  BY DEF EveryOrgHasAdmin, MembersKept
<1> QED
  BY <1>1, <1>2, Linking, MembersStep, PTL DEF Spec

\* Members are users: what makes a new user's membership the only one of its kind.
MembersAreUsers == \A m \in members : m.user \in users

LEMMA MembershipsStep ==
    TypeOK /\ Linked /\ MembersAreUsers /\ MembershipsAreEarned /\ [Next]_vars
        => (MembersAreUsers /\ MembershipsAreEarned)'
<1> SUFFICES ASSUME TypeOK, Linked, MembersAreUsers, MembershipsAreEarned, [Next]_vars
             PROVE  (MembersAreUsers /\ MembershipsAreEarned)'
  OBVIOUS
<1> DEFINE Founder(m) == m.user = m.org /\ m.org \in orgs /\ m.role = "admin"
           Invited(m) == \E i \in DOMAIN invites :
                             /\ invites[i].org = m.org /\ invites[i].role = m.role
                             /\ invites[i].state = "accepted"
                             /\ Lower[invites[i].email] = Lower[m.user]
           Single == \A m, n \in members : m.org = n.org /\ m.user = n.user => m = n
<1>1. InvitesKept /\ MembersKept
  BY InvitesStep, MembersStep
<1>2. \A m \in members : (Founder(m) \/ Invited(m))'
  <2>1. \A m \in members : Founder(m) => Founder(m)'
    BY <1>1 DEF MembersKept
  <2>2. \A m \in members : Invited(m) => Invited(m)'
    BY <1>1 DEF InvitesKept
  <2> QED
    BY <2>1, <2>2 DEF MembershipsAreEarned
<1>3. CASE UNCHANGED members
  BY <1>1, <1>2, <1>3 DEF MembersKept, MembersAreUsers, MembershipsAreEarned
<1>4. ASSUME NEW r \in Requests, SignupCommit(r), ~UNCHANGED members,
             NEW email, email = req[r].email,
             NEW new, new = [org |-> email, user |-> email, role |-> "admin"]
      PROVE  (MembersAreUsers /\ MembershipsAreEarned)'
  <2>1. /\ email \notin users /\ users' = users \cup {email}
        /\ members' = members \cup {new} /\ orgs' = orgs \cup {email}
    BY <1>4 DEF SignupCommit, tables
  <2>2. Founder(new)'
    BY <1>4, <2>1
  <2>3. \A m \in members : m.user # new.user
    BY <1>4, <2>1 DEF MembersAreUsers
  <2>4. Single'
    BY <2>1, <2>3 DEF MembershipsAreEarned
  <2>5. MembersAreUsers'
    BY <1>4, <2>1 DEF MembersAreUsers
  <2> QED
    BY <1>2, <2>1, <2>2, <2>4, <2>5 DEF MembershipsAreEarned
<1>5. ASSUME NEW r \in Requests, AcceptCommit(r), ~UNCHANGED members,
             NEW email, email = req[r].email, NEW i, i = req[r].invite,
             NEW new, new = [org |-> invites[i].org, user |-> email,
                             role |-> invites[i].role]
      PROVE  (MembersAreUsers /\ MembershipsAreEarned)'
  <2>1. /\ users' = users \cup {email} /\ invites' = Marked(i, "accepted")
        /\ members' = Granted(invites[i].org, email, invites[i].role)
        /\ req[r].at = "join"
    BY <1>5 DEF AcceptCommit, tables
  <2>2. i \in DOMAIN invites /\ Lower[invites[i].email] = Lower[email]
    BY <1>5, <2>1 DEF Linked
  <2>3. /\ members' = members \cup {new}
        /\ ~\E m \in members : m.org = new.org /\ m.user = new.user
    BY <1>5, <2>1 DEF Granted
  <2>4. Invited(new)'
    <3>1. /\ invites'[i].org = new.org /\ invites'[i].role = new.role
          /\ invites'[i].state = "accepted" /\ i \in DOMAIN invites'
          /\ invites'[i].email = invites[i].email /\ new.user = email
      BY <1>5, <2>1, <2>2, MarkedInvite DEF TypeOK
    <3> QED
      BY <2>2, <3>1
  <2>5. Single'
    BY <2>3 DEF MembershipsAreEarned
  <2>6. MembersAreUsers'
    BY <1>5, <2>1, <2>3 DEF MembersAreUsers
  <2> QED
    BY <1>2, <2>3, <2>4, <2>5, <2>6 DEF MembershipsAreEarned
<1> QED
  BY <1>3, <1>4, <1>5
  DEF Next, vars, tables, Signup, SignupStart, SignupCheck, Invite, InviteStart,
      InviteCommit, Accept, AcceptStart, AcceptLoad, Toggle, ToggleStart, ToggleCount,
      ToggleCommit, Abandon, make_admin, Expire

\* A membership comes from a signup or an accepted invite to the user's address, and
\* is the user's only one in the organization; every organization has an admin among them.
THEOREM MembershipsHold == Spec => []MembershipsAreExplained
<1>1. Init => MembersAreUsers /\ MembershipsAreEarned
  BY DEF Init, MembersAreUsers, MembershipsAreEarned
<1>2. MembershipsAreExplained <=> EveryOrgHasAdmin /\ MembershipsAreEarned
  BY DEF MembershipsAreExplained
<1> QED
  BY <1>1, <1>2, Linking, MembershipsStep, EveryOrgKeepsAdmin, PTL DEF Spec

-----------------------------------------------------------------------------
(* The last administrator.                                                 *)

\* What a request knows that no other step can undo without a demotion: the actor of a
\* toggle was an administrator when the demotions counted as many as it has seen, and
\* a demotion of oneself has seen another administrator; a signup that is not the
\* first, and an invite, have seen a user.
Authorised(r) ==
    /\ req[r].at \in {"toggle", "update"} =>
          /\ req[r].seen <= demotions
          /\ req[r].seen = demotions => req[r].actor \in admins
    /\ req[r].at = "update" /\ ~req[r].enabled /\ req[r].actor = req[r].target =>
          (req[r].seen = demotions => \E a \in admins : a # req[r].actor)
    /\ req[r].at = "found" /\ ~req[r].first => users # {}
    /\ req[r].at \in {"invite", "resolved", "join"} => users # {}

AdminInv ==
    /\ MembersAreUsers
    /\ invites # <<>> => users # {}
    /\ IsFiniteSet(admins)
    /\ AdminsRemainUnlessRaced
    /\ \A r \in Requests : Authorised(r)

\* A demotion is counted, and nothing else takes the flag away.
FlagKept ==
    /\ users \subseteq users'
    /\ \/ demotions' = demotions /\ admins \subseteq admins'
       \/ demotions' = demotions + 1
    /\ IsFiniteSet(admins) => IsFiniteSet(admins')

LEMMA FlagStep == TypeOK /\ [Next]_vars => FlagKept
<1> SUFFICES ASSUME TypeOK, [Next]_vars PROVE FlagKept
  OBVIOUS
<1>1. ASSUME UNCHANGED <<users, admins, demotions>> PROVE FlagKept
  BY <1>1 DEF FlagKept
<1>2. ASSUME NEW r \in Requests, SignupCommit(r) PROVE FlagKept
  <2>1. admins' \in {admins, admins \cup {req[r].email}}
    BY <1>2 DEF SignupCommit, tables
  <2>2. IsFiniteSet(admins) => IsFiniteSet(admins \cup {req[r].email})
    BY FS_AddElement
  <2> QED
    BY <1>2, <2>1, <2>2 DEF SignupCommit, tables, history, FlagKept
<1>3. ASSUME NEW r \in Requests, AcceptCommit(r) PROVE FlagKept
  BY <1>3 DEF AcceptCommit, tables, history, FlagKept
<1>4. ASSUME NEW r \in Requests, ToggleCommit(r) PROVE FlagKept
  <2>1. /\ users' = users
        /\ \/ demotions' = demotions /\ admins' \in {admins, admins \cup {req[r].target}}
           \/ demotions' = demotions + 1 /\ admins' = admins \ {req[r].target}
    BY <1>4 DEF ToggleCommit
  <2>2. IsFiniteSet(admins) => /\ IsFiniteSet(admins \cup {req[r].target})
                               /\ IsFiniteSet(admins \ {req[r].target})
    BY FS_AddElement, FS_RemoveElement
  <2> QED
    BY <2>1, <2>2 DEF FlagKept
<1>5. ASSUME NEW a \in Addresses, make_admin(a) PROVE FlagKept
  BY <1>5, FS_AddElement DEF make_admin, history, FlagKept
<1>6. ASSUME NEW r \in Requests,
             \/ Signup(r) \/ Invite(r) \/ Accept(r) \/ Toggle(r) \/ Abandon(r),
             ~SignupCommit(r), ~AcceptCommit(r), ~ToggleCommit(r)
      PROVE  FlagKept
  BY <1>1, <1>6
  DEF tables, history, Signup, SignupStart, SignupCheck, Invite, InviteStart,
      InviteCommit, Accept, AcceptStart, AcceptLoad, Toggle, ToggleStart, ToggleCount,
      Abandon
<1>7. ASSUME NEW i \in 1 .. MaxInvites, Expire(i)
      PROVE  FlagKept
  BY <1>1, <1>7 DEF Expire, history
<1>8. CASE UNCHANGED vars
  BY <1>1, <1>8 DEF vars, tables, history
<1> QED
  BY <1>1, <1>2, <1>3, <1>4, <1>5, <1>6, <1>7, <1>8 DEF Next

\* More than one administrator, and one that is not this one.
LEMMA AnotherAdmin ==
    ASSUME IsFiniteSet(admins), NEW a, ~(Cardinality(admins) <= 1)
    PROVE  \E b \in admins : b # a
<1> SUFFICES ASSUME admins \subseteq {a} PROVE FALSE
  OBVIOUS
<1>1. Cardinality({a}) = 1 /\ IsFiniteSet({a})
  BY FS_Singleton
<1>2. Cardinality(admins) <= 1
  BY <1>1, FS_Subset
<1> QED
  BY <1>2

\* What a request has seen stays true as far as Authorised says, and every read that
\* moves it on makes it true.
LEMMA AuthorisedStep ==
    TypeOK /\ Linked /\ AdminInv /\ [Next]_vars => \A q \in Requests : Authorised(q)'
<1> SUFFICES ASSUME TypeOK, Linked, AdminInv, [Next]_vars, NEW q \in Requests
             PROVE  Authorised(q)'
  OBVIOUS
<1>1. FlagKept /\ Authorised(q)
  BY FlagStep DEF AdminInv
<1>2. demotions \in Nat /\ req[q] \in RequestStates /\ req \in [Requests -> RequestStates]
  BY DEF TypeOK
<1>3. CASE req'[q] = req[q]
  <2>1. req[q].at \in {"toggle", "update"} => req[q].seen \in Nat
    BY <1>2 DEF RequestStates, Idle
  <2>2. users # {} => users' # {}
    BY <1>1 DEF FlagKept
  <2>3. req[q].at \in {"toggle", "update"} /\ req[q].seen <= demotions =>
           /\ req[q].seen <= demotions'
           /\ req[q].seen = demotions' => req[q].seen = demotions /\ admins \subseteq admins'
    BY <1>1, <1>2, <2>1 DEF FlagKept
  <2> QED
    BY <1>1, <1>3, <2>2, <2>3 DEF Authorised
<1>4. ASSUME NEW r \in Requests, NEW next, Becomes(r, next), req'[q] # req[q]
      PROVE  q = r /\ req'[q] = next
  BY <1>2, <1>4 DEF Becomes
<1>5. ASSUME NEW r \in Requests, Ends(r), req'[q] # req[q] PROVE Authorised(q)'
  BY <1>4, <1>5 DEF Ends, Idle, Authorised
<1>6. ASSUME NEW r \in Requests, Signup(r), req'[q] # req[q] PROVE Authorised(q)'
  <2>1. ASSUME NEW a \in Addresses, SignupStart(r, a) PROVE Authorised(q)'
    <3>1. req'[q] = [at |-> "signup", email |-> a]
      BY <1>4, <1>6, <2>1 DEF SignupStart
    <3> QED
      BY <3>1 DEF Authorised
  <2>2. CASE SignupCheck(r)
    <3>1. req'[q] = [at |-> "found", email |-> req[r].email, first |-> IsFirst]
      BY <1>4, <1>6, <2>2 DEF SignupCheck
    <3>2. users' = users
      BY <2>2 DEF SignupCheck, tables
    <3>3. req'[q].at = "found" /\ (req'[q].first <=> IsFirst)
      BY <3>1
    <3> QED
      BY <3>2, <3>3 DEF Authorised, IsFirst
  <2>3. CASE SignupCommit(r)
    BY <1>5, <1>6, <2>3 DEF SignupCommit
  <2> QED
    BY <1>6, <2>1, <2>2, <2>3 DEF Signup
<1>7. ASSUME NEW r \in Requests, Invite(r), req'[q] # req[q] PROVE Authorised(q)'
  <2>1. ASSUME NEW o \in orgs, NEW u \in users, InviteStart(r, o, u)
        PROVE  Authorised(q)'
    <3>1. req'[q] = [at |-> "invite", org |-> o] /\ users' = users
      BY <1>4, <1>7, <2>1 DEF InviteStart, tables
    <3> QED
      BY <3>1 DEF Authorised
  <2> QED
    BY <1>5, <1>7, <2>1 DEF Invite, InviteCommit
<1>8. ASSUME NEW r \in Requests, Accept(r), req'[q] # req[q] PROVE Authorised(q)'
  <2>1. ASSUME NEW i \in 1 .. MaxInvites, NEW a \in Addresses, AcceptStart(r, i, a)
        PROVE  Authorised(q)'
    <3>1. req'[q] = [at |-> "resolved", invite |-> i, email |-> a] /\ users' = users
      BY <1>4, <1>8, <2>1 DEF AcceptStart, tables
    <3>2. users # {}
      BY <2>1 DEF AcceptStart, AdminInv
    <3> QED
      BY <3>1, <3>2 DEF Authorised
  <2>2. CASE AcceptLoad(r)
    <3>1. /\ q = r
          /\ req'[q] = [at |-> "join", invite |-> req[r].invite, email |-> req[r].email,
                        create |-> req[r].email \notin users]
          /\ users' = users
      BY <1>4, <1>8, <2>2 DEF AcceptLoad, tables
    <3>2. users # {}
      BY <1>1, <2>2, <3>1 DEF AcceptLoad, Authorised
    <3> QED
      BY <3>1, <3>2 DEF Authorised
  <2> QED
    BY <1>5, <1>8, <2>1, <2>2 DEF Accept, AcceptCommit
<1>9. ASSUME NEW r \in Requests, Toggle(r), req'[q] # req[q] PROVE Authorised(q)'
  <2>1. ASSUME NEW actor \in Addresses, NEW target \in Addresses, NEW enabled \in BOOLEAN,
               ToggleStart(r, actor, target, enabled)
        PROVE  Authorised(q)'
    <3>1. /\ req'[q] = [at |-> "toggle", actor |-> actor, target |-> target,
                        enabled |-> enabled, seen |-> demotions]
          /\ actor \in admins /\ admins' = admins /\ demotions' = demotions
      BY <1>4, <1>9, <2>1 DEF ToggleStart, tables, history
    <3> QED
      BY <1>2, <3>1 DEF Authorised
  <2>2. CASE ToggleCount(r) /\ ~Ends(r)
    <3>1. /\ Becomes(r, [req[r] EXCEPT !.at = "update"]) /\ req[r].at = "toggle"
          /\ ~would_orphan_instance(req[r].enabled, req[r].actor = req[r].target,
                                    Cardinality(admins))
          /\ admins' = admins /\ demotions' = demotions
      BY <2>2 DEF ToggleCount, tables, history
    <3>2. q = r /\ req'[q] = [req[r] EXCEPT !.at = "update"]
      BY <1>4, <1>9, <3>1
    <3>3. req[r] \in [at : {"toggle", "update"}, actor : Addresses, target : Addresses,
                      enabled : BOOLEAN, seen : Nat]
      BY <1>2, <3>1, <3>2 DEF RequestStates, Idle
    <3>4. /\ req'[q].at = "update" /\ req'[q].seen = req[q].seen
          /\ req'[q].actor = req[q].actor /\ req'[q].target = req[q].target
          /\ req'[q].enabled = req[q].enabled
      BY <3>2, <3>3
    <3>5. ASSUME ~req[q].enabled, req[q].actor = req[q].target
          PROVE  \E a \in admins : a # req[q].actor
      <4>1. ~(Cardinality(admins) <= 1)
        BY <3>1, <3>2, <3>5 DEF would_orphan_instance
      <4>2. IsFiniteSet(admins)
        BY DEF AdminInv
      <4>3. \A a : \E b \in admins : b # a
        BY <4>1, <4>2, AnotherAdmin
      <4> QED
        BY <4>3
    <3> QED
      BY <1>1, <3>1, <3>2, <3>4, <3>5 DEF Authorised
  <2> QED
    BY <1>5, <1>9, <2>1, <2>2 DEF Toggle, ToggleCommit
<1> QED
  BY <1>3, <1>5, <1>6, <1>7, <1>8, <1>9 DEF Next, vars, Abandon, Expire, make_admin

\* The step that takes the flag leaves an administrator, or it raced.
LEMMA AdminStep == TypeOK /\ Linked /\ AdminInv /\ [Next]_vars => AdminInv'
<1> SUFFICES ASSUME TypeOK, Linked, AdminInv, [Next]_vars PROVE AdminInv'
  OBVIOUS
<1>1. FlagKept /\ \A q \in Requests : Authorised(q) /\ Authorised(q)'
  BY FlagStep, AuthorisedStep DEF AdminInv
<1>2. ASSUME NEW r \in Requests, SignupCommit(r), users' # users
      PROVE  AdminsRemainUnlessRaced' /\ MembersAreUsers' /\ invites' = invites
  <2>1. /\ raced' = raced /\ invites' = invites
        /\ admins' = IF req[r].first THEN admins \cup {req[r].email} ELSE admins
        /\ req[r].at = "found"
        /\ users' = users \cup {req[r].email}
    BY <1>2 DEF SignupCommit, tables, history
  <2>2. ~req[r].first => users # {}
    BY <1>1, <2>1 DEF Authorised
  <2>3. AdminsRemainUnlessRaced'
    BY <2>1, <2>2 DEF AdminInv, AdminsRemainUnlessRaced
  <2>4. members' = members \cup {[org |-> req[r].email, user |-> req[r].email,
                                  role |-> "admin"]}
    BY <1>2 DEF SignupCommit, tables
  <2>5. MembersAreUsers'
    BY <2>1, <2>4 DEF AdminInv, MembersAreUsers
  <2> QED
    BY <2>1, <2>3, <2>5
<1>3. ASSUME NEW r \in Requests, AcceptCommit(r)
      PROVE  AdminsRemainUnlessRaced' /\ MembersAreUsers' /\ users # {}
  <2>1. users # {} /\ raced' = raced /\ admins' = admins
    BY <1>1, <1>3 DEF AcceptCommit, Authorised, tables, history
  <2>2. AdminsRemainUnlessRaced'
    BY <2>1 DEF AdminInv, AdminsRemainUnlessRaced
  <2>3. MembersAreUsers'
    <3>1. CASE UNCHANGED tables
      BY <3>1 DEF tables, AdminInv, MembersAreUsers
    <3>2. ASSUME ~UNCHANGED tables,
                 NEW n, n = [org |-> invites[req[r].invite].org, user |-> req[r].email,
                             role |-> invites[req[r].invite].role]
          PROVE  MembersAreUsers'
      <4>1. /\ users' = users \cup {req[r].email}
            /\ members' \in {members, members \cup {n}}
        BY <1>3, <3>2 DEF AcceptCommit, Granted
      <4> QED
        BY <3>2, <4>1 DEF AdminInv, MembersAreUsers
    <3> QED
      BY <3>1, <3>2
  <2> QED
    BY <2>1, <2>2, <2>3
<1>4. ASSUME NEW r \in Requests, ToggleCommit(r) PROVE AdminsRemainUnlessRaced'
  <2>1. CASE admins \subseteq admins'
    BY <1>4, <2>1 DEF ToggleCommit, AdminInv, AdminsRemainUnlessRaced
  <2>2. CASE ~(admins \subseteq admins')
    <3>1. /\ admins' = admins \ {req[r].target} /\ ~req[r].enabled
          /\ raced' = (raced \/ demotions > req[r].seen) /\ req[r].at = "update"
      BY <1>4, <2>2 DEF ToggleCommit
    <3>2. req[r].seen \in Nat /\ demotions \in Nat
      BY <3>1 DEF TypeOK, RequestStates, Idle
    <3>3. req[r].seen <= demotions
      BY <1>1, <3>1 DEF Authorised
    <3>4. CASE raced'
      BY <3>4 DEF AdminsRemainUnlessRaced
    <3>5. CASE ~raced'
      <4>1. ~(demotions > req[r].seen)
        BY <3>1, <3>5, Zenon
      <4>2. req[r].seen = demotions
        BY <3>2, <3>3, <4>1
      <4>3. req[r].actor \in admins
        BY <1>1, <3>1, <4>2 DEF Authorised
      <4>4. req[r].actor = req[r].target => \E a \in admins : a # req[r].actor
        BY <1>1, <3>1, <4>2 DEF Authorised
      <4>5. admins' # {}
        BY <3>1, <4>3, <4>4
      <4> QED
        BY <4>5 DEF AdminsRemainUnlessRaced
    <3> QED
      BY <3>4, <3>5
  <2> QED
    BY <2>1, <2>2
<1>5. ASSUME NEW a \in Addresses, make_admin(a) PROVE AdminsRemainUnlessRaced'
  BY <1>5 DEF make_admin, history, AdminInv, AdminsRemainUnlessRaced
<1>6. ASSUME UNCHANGED <<users, admins, raced>> PROVE AdminsRemainUnlessRaced'
  BY <1>6 DEF AdminInv, AdminsRemainUnlessRaced
<1>7. AdminsRemainUnlessRaced'
  BY <1>2, <1>3, <1>4, <1>5, <1>6
  DEF Next, vars, tables, history, Signup, SignupStart, SignupCheck, SignupCommit,
      Invite, InviteStart, InviteCommit, Accept, AcceptStart, AcceptLoad, Toggle,
      ToggleStart, ToggleCount, Abandon, Expire
<1>8. MembersAreUsers'
  <2>1. ASSUME UNCHANGED <<members, users>> PROVE MembersAreUsers'
    BY <2>1 DEF AdminInv, MembersAreUsers
  <2> QED
    BY <1>2, <1>3, <2>1
    DEF Next, vars, tables, Signup, SignupStart, SignupCheck, SignupCommit, Invite,
        InviteStart, InviteCommit, Accept, AcceptStart, AcceptLoad, Toggle, ToggleStart,
        ToggleCount, ToggleCommit, Abandon, Expire, make_admin
<1>9. invites' # <<>> => users' # {}
  <2>1. ASSUME UNCHANGED invites PROVE invites' # <<>> => users' # {}
    BY <1>1, <2>1 DEF FlagKept, AdminInv
  <2>2. ASSUME NEW r \in Requests, NEW a, NEW role, InviteCommit(r, a, role)
        PROVE  users' # {}
    BY <1>1, <2>2 DEF InviteCommit, Authorised
  <2>3. ASSUME NEW r \in Requests, AcceptCommit(r) PROVE users' # {}
    BY <1>1, <1>3, <2>3 DEF FlagKept
  <2>4. ASSUME NEW i \in 1 .. MaxInvites, Expire(i) PROVE users' # {}
    BY <2>4 DEF Expire, AdminInv
  <2> QED
    BY <2>1, <2>2, <2>3, <2>4
    DEF Next, vars, tables, Signup, SignupStart, SignupCheck, SignupCommit, Invite,
        InviteStart, Accept, AcceptStart, AcceptLoad, Toggle, ToggleStart, ToggleCount,
        ToggleCommit, Abandon, make_admin
<1>10. IsFiniteSet(admins')
  BY <1>1 DEF FlagKept, AdminInv
<1> QED
  BY <1>1, <1>7, <1>8, <1>9, <1>10 DEF AdminInv

\* The instance has an administrator from its first account on, unless a demotion was
\* decided before another took effect.
THEOREM AdminsRemainHolds == Spec => []AdminsRemainUnlessRaced
<1>1. Init => AdminInv
  BY FS_EmptySet
  DEF Init, AdminInv, MembersAreUsers, AdminsRemainUnlessRaced, Authorised, Idle
<1>2. AdminInv => AdminsRemainUnlessRaced
  BY DEF AdminInv
<1> QED
  BY <1>1, <1>2, Linking, AdminStep, PTL DEF Spec

-----------------------------------------------------------------------------
(* The lockout.                                                            *)

SignIns == {Waiting} \cup [at : {"clock"}, now : Nat]
                     \cup [at : {"verify"}, now : Nat, count : Nat, until : Nat]

LoginTyped ==
    /\ user \in [count : Nat, until : Nat]
    /\ now \in Nat \ {0}
    /\ attempt \in [Attempts -> SignIns]
    /\ guesses \in Nat /\ lockedAfter \in Nat /\ overlapped \in BOOLEAN

\* No attempt goes on that read a lock of its future; and as long as attempts do not
\* overlap, what one has read is what is stored, and the count that the next wrong
\* password starts from is that of the wrong passwords since the last lock or sign-in.
CountIsGuesses ==
    /\ \A a \in Attempts : attempt[a].at = "verify" =>
          /\ ~Locked(attempt[a].until, attempt[a].now)
          /\ ~overlapped => attempt[a].count = user.count /\ attempt[a].until = user.until
    /\ ~overlapped => guesses = IF user.until = Never THEN user.count ELSE 0

LoginInv == LoginTyped /\ CountIsGuesses /\ LockoutCountsGuesses

LEMMA SignInsTold ==
    ASSUME NEW x \in SignIns
    PROVE  /\ x.at \in {"waiting", "clock", "verify"}
           /\ x.at = "clock" => x.now \in Nat
           /\ x.at = "verify" => x.now \in Nat /\ x.count \in Nat /\ x.until \in Nat
BY DEF SignIns, Waiting

LEMMA LoginStarts == LoginInit => LoginInv
<1> SUFFICES ASSUME LoginInit  PROVE LoginInv  OBVIOUS
<1>1. attempt \in [Attempts -> SignIns] /\ \A a \in Attempts : attempt[a].at = "waiting"
  BY DEF LoginInit, SignIns, Waiting
<1>2. /\ user \in [count : Nat, until : Nat] /\ user.count = 0 /\ user.until = Never
      /\ now = 1 /\ guesses = 0 /\ lockedAfter = 0 /\ overlapped = FALSE
  BY DEF LoginInit, Never
<1>3. LoginTyped
  <2>1. now \in Nat \ {0} /\ guesses \in Nat /\ lockedAfter \in Nat  BY <1>2
  <2>2. overlapped \in BOOLEAN  BY DEF LoginInit
  <2>3. QED  BY <1>1, <1>2, <2>1, <2>2, Zenon DEF LoginTyped
<1>4. CountIsGuesses  BY <1>1, <1>2 DEF CountIsGuesses
<1>5. LockoutCountsGuesses  BY <1>2, LockoutAssumption DEF LockoutCountsGuesses
<1>6. QED  BY <1>3, <1>4, <1>5 DEF LoginInv

\* A commit of an attempt that overlaps no other.
LEMMA CommitKeeps ==
    ASSUME LoginInv, NEW a \in Attempts, attempt[a].at = "verify", Goes(a, Waiting),
           user' \in [count : Nat, until : Nat], now' = now,
           guesses' \in Nat, lockedAfter' \in Nat,
           overlapped' = (overlapped \/ Overlaps(a)),
           ~overlapped' =>
                /\ guesses' = IF user'.until = Never THEN user'.count ELSE 0
                /\ guesses' < LOCKOUT_THRESHOLD
                /\ lockedAfter' \in {0, LOCKOUT_THRESHOLD}
    PROVE  LoginInv'
<1> USE DEF LoginInv
<1>1. /\ attempt' \in [Attempts -> SignIns] /\ attempt'[a].at # "verify"
      /\ \A b \in Attempts : b # a => attempt'[b] = attempt[b]
  BY DEF LoginTyped, Goes, SignIns, Waiting
<1>2. LoginTyped'  BY <1>1 DEF LoginTyped
<1>3. CountIsGuesses'
  <2>1. ASSUME NEW b \in Attempts, attempt'[b].at = "verify"
        PROVE  /\ ~Locked(attempt'[b].until, attempt'[b].now)
               /\ overlapped'
    <3>1. b # a /\ attempt'[b] = attempt[b]  BY <1>1, <2>1
    <3>2. Overlaps(a)  BY <2>1, <3>1 DEF Overlaps
    <3>3. QED  BY <2>1, <3>1, <3>2 DEF CountIsGuesses
  <2>2. QED  BY <2>1 DEF CountIsGuesses, Locked
<1>4. QED  BY <1>2, <1>3 DEF LockoutCountsGuesses

\* A step of an attempt that writes nothing.
LEMMA GoingKeeps ==
    ASSUME LoginInv, NEW a \in Attempts, NEW next \in SignIns, Goes(a, next),
           UNCHANGED <<user, now, guesses, lockedAfter, overlapped>>,
           next.at = "verify" => /\ ~Locked(next.until, next.now)
                                 /\ next.count = user.count /\ next.until = user.until
    PROVE  LoginInv'
<1> USE DEF LoginInv
<1>1. /\ attempt' \in [Attempts -> SignIns] /\ attempt'[a] = next
      /\ \A b \in Attempts : b # a => attempt'[b] = attempt[b]
  BY DEF LoginTyped, Goes
<1>2. LoginTyped'  BY <1>1 DEF LoginTyped
<1>3. CountIsGuesses'
  <2>1. ASSUME NEW b \in Attempts, attempt'[b].at = "verify"
        PROVE  /\ ~Locked(attempt'[b].until, attempt'[b].now)
               /\ ~overlapped => /\ attempt'[b].count = user.count
                                 /\ attempt'[b].until = user.until
    BY <1>1, <2>1 DEF CountIsGuesses
  <2>2. QED  BY <2>1 DEF CountIsGuesses, Locked
<1>4. QED  BY <1>2, <1>3 DEF LockoutCountsGuesses

LEMMA RefusedKeeps ==
    ASSUME LoginInv, NEW a \in Attempts, Refused(a)
    PROVE  LoginInv'
<1> USE DEF LoginInv
<1> DEFINE read == attempt[a]
           count == new_count(read)
           locks == count >= LOCKOUT_THRESHOLD
           until == IF locks THEN read.now + LOCKOUT_DURATION ELSE Never
<1>0. LOCKOUT_THRESHOLD \in Nat \ {0} /\ LOCKOUT_DURATION \in Nat \ {0}
  BY LockoutAssumption
<1>1. read.at = "verify" /\ read.now \in Nat /\ read.count \in Nat /\ read.until \in Nat
  BY SignInsTold DEF Refused, LoginTyped
<1>2. count \in Nat \ {0} /\ until \in Nat
  BY <1>0, <1>1 DEF new_count, effective_count, Never
<1>3. /\ user' = Flushed(read, count, until)
      /\ guesses' = IF locks THEN 0 ELSE guesses + 1
      /\ lockedAfter' = IF locks THEN guesses + 1 ELSE lockedAfter
      /\ overlapped' = (overlapped \/ Overlaps(a))
      /\ Goes(a, Waiting) /\ now' = now
  BY DEF Refused
<1>4. user \in [count : Nat, until : Nat] /\ guesses \in Nat /\ lockedAfter \in Nat
  BY DEF LoginTyped
<1>5. user' \in [count : Nat, until : Nat] /\ guesses' \in Nat /\ lockedAfter' \in Nat
  BY <1>2, <1>3, <1>4 DEF Flushed
<1>6. ASSUME ~overlapped'
      PROVE  /\ guesses' = IF user'.until = Never THEN user'.count ELSE 0
             /\ guesses' < LOCKOUT_THRESHOLD
             /\ lockedAfter' \in {0, LOCKOUT_THRESHOLD}
  <2>1. ~overlapped  BY <1>3, <1>6
  <2>2. /\ read.count = user.count /\ read.until = user.until
        /\ ~Locked(read.until, read.now)
        /\ guesses = IF user.until = Never THEN user.count ELSE 0
        /\ guesses < LOCKOUT_THRESHOLD /\ lockedAfter \in {0, LOCKOUT_THRESHOLD}
    BY <1>1, <2>1 DEF CountIsGuesses, LockoutCountsGuesses
  <2>3. count = guesses + 1
    BY <1>1, <2>2 DEF new_count, effective_count, Locked, Never
  <2>4. user'.count = count /\ user'.until = until
    BY <1>3, <2>2 DEF Flushed
  <2> HIDE DEF count
  <2>5. CASE locks
    <3>1. until # Never  BY <1>0, <1>1, <2>5 DEF Never
    <3>2. guesses + 1 = LOCKOUT_THRESHOLD  BY <1>0, <1>4, <2>2, <2>3, <2>5
    <3>3. QED  BY <1>0, <1>3, <2>4, <2>5, <3>1, <3>2
  <2>6. CASE ~locks
    <3>1. until = Never  BY <2>6
    <3>2. QED  BY <1>0, <1>2, <1>3, <1>4, <2>2, <2>3, <2>4, <2>6, <3>1
  <2>7. QED  BY <2>5, <2>6
<1>7. QED
  <2> HIDE DEF read, count, until
  <2>1. attempt[a].at = "verify"  BY DEF Refused
  <2>2. QED  BY <1>3, <1>5, <1>6, <2>1, CommitKeeps

LEMMA LoginStep == LoginInv /\ [LoginNext]_loginVars => LoginInv'
<1> SUFFICES ASSUME LoginInv, [LoginNext]_loginVars  PROVE LoginInv'  OBVIOUS
<1> USE DEF LoginInv
<1>1. ASSUME NEW a \in Attempts, TakeClock(a)  PROVE LoginInv'
  <2>1. PICK next : next = [at |-> "clock", now |-> now]  OBVIOUS
  <2>2. next \in SignIns /\ next.at # "verify"  BY <2>1 DEF LoginTyped, SignIns
  <2>3. Goes(a, next) /\ UNCHANGED <<user, now, guesses, lockedAfter, overlapped>>
    BY <1>1, <2>1 DEF TakeClock, rowVars, loginHistory
  <2>4. QED  BY <2>2, <2>3, GoingKeeps
<1>2. ASSUME NEW a \in Attempts, LoadUser(a)  PROVE LoginInv'
  <2>1. attempt[a].now \in Nat  BY <1>2, SignInsTold DEF LoadUser, LoginTyped
  <2>2. PICK next : next = IF Locked(user.until, attempt[a].now) THEN Waiting
                           ELSE [at |-> "verify", now |-> attempt[a].now,
                                 count |-> user.count, until |-> user.until]
    OBVIOUS
  <2>3. /\ next \in SignIns
        /\ next.at = "verify" => /\ ~Locked(next.until, next.now)
                                 /\ next.count = user.count /\ next.until = user.until
    <3>1. CASE Locked(user.until, attempt[a].now)
      BY <2>2, <3>1 DEF SignIns, Waiting
    <3>2. CASE ~Locked(user.until, attempt[a].now)
      <4>1. next = [at |-> "verify", now |-> attempt[a].now,
                    count |-> user.count, until |-> user.until]
        BY <2>2, <3>2
      <4>2. next \in SignIns  BY <2>1, <4>1 DEF SignIns, LoginTyped
      <4>3. QED  BY <3>2, <4>1, <4>2
    <3>3. QED  BY <3>1, <3>2
  <2>4. Goes(a, next) /\ UNCHANGED <<user, now, guesses, lockedAfter, overlapped>>
    BY <1>2, <2>2 DEF LoadUser, rowVars, loginHistory
  <2>5. QED  BY <2>3, <2>4, GoingKeeps
<1>3. ASSUME NEW a \in Attempts, Accepted(a)  PROVE LoginInv'
  <2>1. /\ attempt[a].at = "verify" /\ Goes(a, Waiting) /\ now' = now
        /\ user' = Flushed(attempt[a], 0, Never)
        /\ guesses' = 0 /\ lockedAfter' = lockedAfter
        /\ overlapped' = (overlapped \/ Overlaps(a))
    BY <1>3 DEF Accepted
  <2>2. user' \in [count : Nat, until : Nat] /\ guesses' \in Nat /\ lockedAfter' \in Nat
    BY <2>1 DEF Flushed, LoginTyped, Never
  <2>3. ASSUME ~overlapped'
        PROVE  /\ guesses' = IF user'.until = Never THEN user'.count ELSE 0
               /\ guesses' < LOCKOUT_THRESHOLD
               /\ lockedAfter' \in {0, LOCKOUT_THRESHOLD}
    <3>1. /\ attempt[a].count = user.count /\ attempt[a].until = user.until
          /\ lockedAfter \in {0, LOCKOUT_THRESHOLD}
      BY <2>1, <2>3 DEF CountIsGuesses, LockoutCountsGuesses
    <3>2. user'.count = 0  BY <2>1, <3>1 DEF Flushed
    <3>3. QED  BY <2>1, <3>1, <3>2, LockoutAssumption
  <2>4. QED  BY <2>1, <2>2, <2>3, CommitKeeps
<1>4. ASSUME NEW a \in Attempts, Refused(a)  PROVE LoginInv'
  BY <1>4, RefusedKeeps
<1>5. ASSUME NEW a \in Attempts, GiveUp(a)  PROVE LoginInv'
  <2>1. Waiting \in SignIns /\ Waiting.at # "verify"  BY DEF SignIns, Waiting
  <2>2. Goes(a, Waiting) /\ UNCHANGED <<user, now, guesses, lockedAfter, overlapped>>
    BY <1>5 DEF GiveUp, rowVars, loginHistory
  <2>3. QED  BY <2>1, <2>2, GoingKeeps
<1>6. CASE TimePasses
  BY <1>6 DEF TimePasses, LoginTyped, CountIsGuesses, LockoutCountsGuesses, loginHistory,
              Locked
<1>7. CASE UNCHANGED loginVars
  BY <1>7 DEF loginVars, rowVars, loginHistory, LoginTyped, CountIsGuesses,
              LockoutCountsGuesses, Locked
<1>8. QED  BY <1>1, <1>2, <1>3, <1>4, <1>5, <1>6, <1>7 DEF LoginNext

\* For any number of sign-ins, any threshold and any duration: an account locks after
\* exactly the threshold of wrong passwords, unless an attempt committed while another held
\* its read.
THEOREM LockoutCountsGuessesHolds == LoginSpec => []LockoutCountsGuesses
<1>1. LoginInv => LockoutCountsGuesses  BY DEF LoginInv
<1>2. QED  BY <1>1, LoginStarts, LoginStep, PTL DEF LoginSpec

-----------------------------------------------------------------------------
(* Numbers.                                                                *)

\* A set of numbers that is not empty has a least member.
LEMMA LeastExists ==
    ASSUME NEW S, S \subseteq Nat, S # {}
    PROVE  \E x \in S : \A y \in S : x <= y
<1> DEFINE Less == OpToRel(<, Nat)
<1>1. PICK x \in S : \A y \in S : ~ (<<y, x>> \in Less)
  <2>1. IsWellFoundedOn(Less, Nat)  BY NatLessThanWellFounded
  <2> HIDE DEF Less
  <2>2. QED  BY <2>1, WFMin
<1>2. ASSUME NEW y \in S  PROVE x <= y
  <2>1. x \in Nat /\ y \in Nat  OBVIOUS
  <2>2. ~ (y < x)  BY <1>1, <2>1 DEF OpToRel
  <2>3. QED  BY <2>1, <2>2
<1>3. QED  BY <1>2

\* What is true of 0, and of n + 1 if of n, is true of all: as a set, which may be instantiated.
LEMMA AllFollow ==
    ASSUME NEW S, 0 \in S, \A n \in Nat : n \in S => n + 1 \in S
    PROVE  Nat \subseteq S
<1> DEFINE Bad == Nat \ S
<1> SUFFICES ASSUME Bad # {}  PROVE FALSE  OBVIOUS
<1>1. PICK n \in Bad : \A m \in Bad : n <= m
  <2>1. Bad \subseteq Nat  OBVIOUS
  <2> HIDE DEF Bad
  <2>2. QED  BY <2>1, LeastExists
<1>2. n # 0 /\ n - 1 \in Nat /\ n - 1 \notin Bad  BY <1>1
<1>3. n - 1 \in S /\ (n - 1) + 1 = n  BY <1>2
<1>4. QED  BY <1>2, <1>3

\* A function may be defined by its value at 0 and each next one by the last.
Follows(f, m, base, next) ==
    /\ f \in [0 .. m -> Nat]
    /\ f[0] = base
    /\ \A n \in 0 .. m - 1 : f[n + 1] = next[n][f[n]]

LEMMA RecursionExists ==
    ASSUME NEW base \in Nat, NEW next \in [Nat -> [Nat -> Nat]]
    PROVE  \E f \in [Nat -> Nat] : f[0] = base /\ \A n \in Nat : f[n + 1] = next[n][f[n]]
<1>1. \A m \in Nat : \E f : Follows(f, m, base, next)
  <2> DEFINE S == {m \in Nat : \E f : Follows(f, m, base, next)}
  <2>1. 0 \in S
    <3>1. Follows([n \in 0 .. 0 |-> base], 0, base, next)  BY DEF Follows
    <3>2. QED  BY <3>1
  <2>2. ASSUME NEW m \in Nat, m \in S  PROVE m + 1 \in S
    <3>1. PICK f : Follows(f, m, base, next)  BY <2>2
    <3> DEFINE g == [n \in 0 .. m + 1 |-> IF n = m + 1 THEN next[m][f[m]] ELSE f[n]]
    <3>2. f[m] \in Nat /\ next[m][f[m]] \in Nat  BY <3>1 DEF Follows
    <3>3. g \in [0 .. m + 1 -> Nat]
      <4>1. ASSUME NEW n \in 0 .. m + 1, n # m + 1  PROVE f[n] \in Nat
        <5>1. n \in 0 .. m  BY <4>1
        <5>2. QED  BY <3>1, <5>1 DEF Follows
      <4>2. QED  BY <3>2, <4>1
    <3>4. g[0] = base  BY <3>1 DEF Follows
    <3>5. ASSUME NEW n \in 0 .. m  PROVE g[n + 1] = next[n][g[n]]
      <4>1. g[n] = f[n]  OBVIOUS
      <4>2. CASE n = m  BY <4>1, <4>2
      <4>3. CASE n # m
        <5>1. n \in 0 .. m - 1 /\ g[n + 1] = f[n + 1]  BY <4>3
        <5>2. QED  BY <3>1, <4>1, <5>1 DEF Follows
      <4>4. QED  BY <4>2, <4>3
    <3>6. Follows(g, m + 1, base, next)
      <4>1. (m + 1) - 1 = m  OBVIOUS
      <4> HIDE DEF g
      <4>2. QED  BY <3>3, <3>4, <3>5, <4>1 DEF Follows
    <3>7. QED  BY <3>6
  <2> HIDE DEF S
  <2>3. Nat \subseteq S  BY <2>1, <2>2, AllFollow
  <2>4. QED  BY <2>3 DEF S
<1>2. ASSUME NEW m \in Nat, NEW k \in Nat, m <= k,
             NEW f, Follows(f, m, base, next), NEW g, Follows(g, k, base, next)
      PROVE  f[m] = g[m]
  <2> DEFINE S == {n \in Nat : n <= m => f[n] = g[n]}
  <2>1. 0 \in S  BY <1>2 DEF Follows
  <2>2. ASSUME NEW n \in Nat, n \in S  PROVE n + 1 \in S
    <3>1. CASE n + 1 <= m
      <4>1. n \in 0 .. m - 1 /\ n \in 0 .. k - 1 /\ f[n] = g[n]  BY <1>2, <2>2, <3>1
      <4>2. f[n + 1] = next[n][f[n]]  BY <1>2, <4>1 DEF Follows
      <4>3. g[n + 1] = next[n][g[n]]  BY <1>2, <4>1 DEF Follows
      <4>4. QED  BY <4>1, <4>2, <4>3
    <3>2. QED  BY <3>1
  <2> HIDE DEF S
  <2>3. m \in S  BY <2>1, <2>2, AllFollow
  <2>4. QED  BY <2>3 DEF S
<1> DEFINE part(m) == CHOOSE f : Follows(f, m, base, next)
           all == [m \in Nat |-> part(m)[m]]
<1>3. \A m \in Nat : Follows(part(m), m, base, next)  BY <1>1
<1>4. all \in [Nat -> Nat]
  <2>1. ASSUME NEW m \in Nat  PROVE part(m)[m] \in Nat
    <3> HIDE DEF part
    <3>1. m \in 0 .. m /\ part(m) \in [0 .. m -> Nat]  BY <1>3 DEF Follows
    <3>2. QED  BY <3>1
  <2>2. QED  BY <2>1
<1>5. all[0] = base  BY <1>3 DEF Follows
<1>6. ASSUME NEW n \in Nat  PROVE all[n + 1] = next[n][all[n]]
  <2>1. all[n + 1] = part(n + 1)[n + 1] /\ all[n] = part(n)[n]  OBVIOUS
  <2>2. Follows(part(n + 1), n + 1, base, next) /\ Follows(part(n), n, base, next)  BY <1>3
  <2> HIDE DEF part, all
  <2>3. part(n)[n] = part(n + 1)[n]  BY <1>2, <2>2
  <2>4. part(n + 1)[n + 1] = next[n][part(n + 1)[n]]  BY <2>2 DEF Follows
  <2>5. QED  BY <2>1, <2>3, <2>4
<1> HIDE DEF all
<1>7. QED  BY <1>4, <1>5, <1>6

LEMMA FactorialIs ==
    /\ factorial \in [Nat -> Nat] /\ factorial[0] = 1
    /\ \A n \in Nat : factorial[n + 1] = (n + 1) * factorial[n]
    /\ \A n \in Nat : factorial[n] > 0
<1> DEFINE next == [n \in Nat |-> [v \in Nat |-> (n + 1) * v]]
           P(f) == f = [n \in Nat |-> IF n = 0 THEN 1 ELSE n * f[n - 1]]
<1>1. next \in [Nat -> [Nat -> Nat]]
  <2>1. \A a, b \in Nat : (a + 1) * b \in Nat  OBVIOUS
  <2>2. QED  BY <2>1
<1>2. PICK f \in [Nat -> Nat] : f[0] = 1 /\ \A n \in Nat : f[n + 1] = next[n][f[n]]
  <2>1. 1 \in Nat  OBVIOUS
  <2> HIDE DEF next
  <2>2. QED  BY <1>1, <2>1, RecursionExists, Zenon
<1>3. P(f)
  <2>1. ASSUME NEW n \in Nat, n # 0  PROVE f[n] = n * f[n - 1]
    <3>1. n - 1 \in Nat /\ (n - 1) + 1 = n /\ f[n - 1] \in Nat  BY <2>1
    <3>2. f[n] = next[n - 1][f[n - 1]]  BY <1>2, <3>1
    <3>3. next[n - 1][f[n - 1]] = n * f[n - 1]  BY <3>1
    <3>4. QED  BY <3>2, <3>3
  <2>2. QED  BY <1>2, <2>1
<1>4. P(factorial)
  <2>1. factorial = CHOOSE g : P(g)  BY DEF factorial
  <2> HIDE DEF P
  <2>2. QED  BY <1>3, <2>1
<1>5. factorial[0] = 1 /\ \A n \in Nat : factorial[n + 1] = (n + 1) * factorial[n]  BY <1>4
<1>6. \A n \in Nat : factorial[n] \in Nat /\ factorial[n] > 0
  <2> DEFINE S == {n \in Nat : factorial[n] \in Nat /\ factorial[n] > 0}
  <2>1. 0 \in S  BY <1>5
  <2>2. ASSUME NEW n \in Nat, n \in S  PROVE n + 1 \in S
    <3>1. PICK v \in Nat : v = factorial[n] /\ v > 0  BY <2>2
    <3>2. (n + 1) * v \in Nat /\ (n + 1) * v > 0  BY <3>1
    <3>3. QED  BY <1>5, <3>1, <3>2
  <2> HIDE DEF S
  <2>3. Nat \subseteq S  BY <2>1, <2>2, AllFollow
  <2>4. QED  BY <2>3 DEF S
<1>7. QED  BY <1>4, <1>5, <1>6

LEMMA Quotient ==
    ASSUME NEW b \in Nat, NEW d \in Nat, d > 0
    PROVE  (b * d) \div d = b
OBVIOUS

\* b ways to take k of n, as factorials say it.
Ways(n, k, b) == b \in Nat \ {0} /\ factorial[n] = b * (factorial[k] * factorial[n - k])

LEMMA WaysChosen ==
    ASSUME NEW n \in Nat, NEW k \in 0 .. n, NEW b, Ways(n, k, b)
    PROVE  choose(n, k) = b
<1>1. factorial[k] \in Nat /\ factorial[n - k] \in Nat
      /\ factorial[k] > 0 /\ factorial[n - k] > 0
  <2>1. k \in Nat /\ n - k \in Nat  OBVIOUS
  <2>2. QED  BY <2>1, FactorialIs
<1>2. PICK d : d = factorial[k] * factorial[n - k]  OBVIOUS
<1>3. d \in Nat /\ d > 0
  <2>1. \A u, v \in Nat : u > 0 /\ v > 0 => u * v \in Nat /\ u * v > 0  OBVIOUS
  <2>2. QED  BY <1>1, <1>2, <2>1
<1>4. choose(n, k) = (b * d) \div d  BY <1>2 DEF choose, Ways
<1>5. QED  BY <1>3, <1>4, Quotient DEF Ways

LEMMA WaysAdd ==
    ASSUME NEW n \in Nat, NEW k \in 1 .. n, NEW b1, NEW b2, Ways(n, k - 1, b1), Ways(n, k, b2)
    PROVE  Ways(n + 1, k, b1 + b2)
<1>1. PICK a \in Nat, c \in Nat, f \in Nat, m \in Nat :
        a = factorial[k - 1] /\ c = factorial[n - k] /\ f = factorial[n] /\ m = (n - k) + 1
  <2>1. k - 1 \in Nat /\ n - k \in Nat /\ (n - k) + 1 \in Nat  OBVIOUS
  <2>2. QED  BY <2>1, FactorialIs
<1>2. factorial[k] = k * a
  <2>1. k - 1 \in Nat /\ (k - 1) + 1 = k  OBVIOUS
  <2>2. QED  BY <1>1, <2>1, FactorialIs
<1>3. factorial[m] = m * c
  <2>1. n - k \in Nat  OBVIOUS
  <2>2. QED  BY <1>1, <2>1, FactorialIs
<1>4. n - (k - 1) = m /\ (n + 1) - k = m /\ k + m = n + 1 /\ k \in Nat  BY <1>1
<1>5. factorial[n + 1] = (k + m) * f  BY <1>1, <1>4, FactorialIs
<1>6. f = b1 * (a * (m * c)) /\ b1 \in Nat  BY <1>1, <1>3, <1>4 DEF Ways
<1>7. f = b2 * ((k * a) * c) /\ b2 \in Nat  BY <1>1, <1>2 DEF Ways
<1>8. (k + m) * f = (b1 + b2) * ((k * a) * (m * c))
  <2>1. /\ k \in Nat /\ m \in Nat /\ a \in Nat /\ c \in Nat /\ f \in Nat
        /\ b1 \in Nat /\ b2 \in Nat
    BY <1>4, <1>6, <1>7
  <2>2. k * f = b1 * ((k * a) * (m * c))  BY <1>6, <2>1
  <2>3. m * f = b2 * ((k * a) * (m * c))  BY <1>7, <2>1
  <2>4. PICK q \in Nat : q = (k * a) * (m * c)  BY <2>1
  <2>5. (b1 + b2) * q = b1 * q + b2 * q  BY <2>1, <2>4
  <2>6. (k + m) * f = k * f + m * f  BY <2>1
  <2>7. QED  BY <2>2, <2>3, <2>4, <2>5, <2>6
<1>9. b1 + b2 \in Nat \ {0}  BY DEF Ways
<1>10. QED  BY <1>2, <1>3, <1>4, <1>5, <1>8, <1>9 DEF Ways

LEMMA WaysAtEnds == \A n \in Nat : Ways(n, 0, 1) /\ Ways(n, n, 1)
<1> SUFFICES ASSUME NEW n \in Nat  PROVE Ways(n, 0, 1) /\ Ways(n, n, 1)  OBVIOUS
<1>1. PICK f \in Nat : f = factorial[n]  BY FactorialIs
<1>2. factorial[0] = 1 /\ n - 0 = n /\ n - n = 0  BY FactorialIs
<1>3. 1 * (1 * f) = f /\ 1 * (f * 1) = f  BY <1>1
<1>4. QED  BY <1>1, <1>2, <1>3 DEF Ways

LEMMA WaysExist == \A n \in Nat : \A k \in 0 .. n : \E b : Ways(n, k, b)
<1> DEFINE S == {n \in Nat : \A k \in 0 .. n : \E b : Ways(n, k, b)}
<1>1. 0 \in S
  <2>1. Ways(0, 0, 1)  BY WaysAtEnds
  <2>2. \A k \in 0 .. 0 : k = 0  OBVIOUS
  <2>3. QED  BY <2>1, <2>2
<1>2. ASSUME NEW n \in Nat, n \in S  PROVE n + 1 \in S
  <2> SUFFICES ASSUME NEW k \in 0 .. n + 1  PROVE \E b : Ways(n + 1, k, b)  OBVIOUS
  <2>1. CASE k = 0 \/ k = n + 1  BY <2>1, WaysAtEnds
  <2>2. CASE k # 0 /\ k # n + 1
    <3>1. k \in 1 .. n /\ k \in 0 .. n /\ k - 1 \in 0 .. n  BY <2>2
    <3>2. PICK b1, b2 : Ways(n, k - 1, b1) /\ Ways(n, k, b2)  BY <1>2, <3>1
    <3>3. Ways(n + 1, k, b1 + b2)  BY <3>1, <3>2, WaysAdd
    <3>4. QED  BY <3>3
  <2>3. QED  BY <2>1, <2>2
<1> HIDE DEF S
<1>3. Nat \subseteq S  BY <1>1, <1>2, AllFollow
<1>4. QED  BY <1>3 DEF S

\* Pascal's triangle.
LEMMA Pascal ==
    /\ \A n \in Nat : choose(n, 0) = 1 /\ choose(n, n) = 1
    /\ \A n \in Nat : \A k \in 0 .. n : choose(n, k) \in Nat \ {0}
    /\ \A n \in Nat : \A k \in 1 .. n : choose(n + 1, k) = choose(n, k - 1) + choose(n, k)
<1>1. ASSUME NEW n \in Nat  PROVE choose(n, 0) = 1 /\ choose(n, n) = 1
  BY WaysAtEnds, WaysChosen
<1>2. ASSUME NEW n \in Nat, NEW k \in 0 .. n
      PROVE  Ways(n, k, choose(n, k))
  <2>1. PICK b : Ways(n, k, b)  BY WaysExist
  <2>2. QED  BY <2>1, WaysChosen
<1>3. ASSUME NEW n \in Nat, NEW k \in 1 .. n
      PROVE  choose(n + 1, k) = choose(n, k - 1) + choose(n, k)
  <2>1. Ways(n, k - 1, choose(n, k - 1)) /\ Ways(n, k, choose(n, k))  BY <1>2
  <2>2. Ways(n + 1, k, choose(n, k - 1) + choose(n, k))  BY <2>1, WaysAdd
  <2>3. k \in 0 .. n + 1 /\ n + 1 \in Nat  OBVIOUS
  <2>4. QED  BY <2>2, <2>3, WaysChosen
<1>4. QED  BY <1>1, <1>2, <1>3 DEF Ways

-----------------------------------------------------------------------------
(* Sums.                                                                   *)

SumTo(h) == LET sum[n \in Nat] == IF n = 0 THEN 0 ELSE sum[n - 1] + h[n] IN sum

LEMMA SumIs ==
    ASSUME NEW h \in [Nat -> Nat]
    PROVE  /\ SumTo(h) \in [Nat -> Nat] /\ SumTo(h)[0] = 0
           /\ \A n \in Nat : SumTo(h)[n + 1] = SumTo(h)[n] + h[n + 1]
<1> DEFINE next == [n \in Nat |-> [v \in Nat |-> v + h[n + 1]]]
           P(f) == f = [n \in Nat |-> IF n = 0 THEN 0 ELSE f[n - 1] + h[n]]
<1>1. PICK f \in [Nat -> Nat] : f[0] = 0 /\ \A n \in Nat : f[n + 1] = next[n][f[n]]
  <2>1. 0 \in Nat /\ next \in [Nat -> [Nat -> Nat]]  OBVIOUS
  <2> HIDE DEF next
  <2>2. QED  BY <2>1, RecursionExists, Zenon
<1>2. P(f)
  <2>1. ASSUME NEW n \in Nat, n # 0  PROVE f[n] = f[n - 1] + h[n]
    <3>1. n - 1 \in Nat /\ (n - 1) + 1 = n /\ f[n - 1] \in Nat  BY <2>1
    <3>2. f[n] = next[n - 1][f[n - 1]]  BY <1>1, <3>1
    <3>3. QED  BY <3>1, <3>2
  <2>2. QED  BY <1>1, <2>1
<1>3. P(SumTo(h))
  <2>1. SumTo(h) = CHOOSE g : P(g)  BY DEF SumTo
  <2> HIDE DEF P
  <2>2. QED  BY <1>2, <2>1
<1>4. SumTo(h)[0] = 0 /\ \A n \in Nat : SumTo(h)[n + 1] = SumTo(h)[n] + h[n + 1]  BY <1>3
<1>5. \A n \in Nat : SumTo(h)[n] \in Nat
  <2> DEFINE S == {n \in Nat : SumTo(h)[n] \in Nat}
  <2>1. 0 \in S /\ \A n \in Nat : n \in S => n + 1 \in S  BY <1>4
  <2> HIDE DEF S
  <2>2. Nat \subseteq S  BY <2>1, AllFollow
  <2>3. QED  BY <2>2 DEF S
<1>6. QED  BY <1>3, <1>4, <1>5

\* A longer sum is no smaller.
LEMMA SumExtends ==
    ASSUME NEW h \in [Nat -> Nat], NEW u \in Nat, NEW v \in Nat, u <= v
    PROVE  SumTo(h)[u] <= SumTo(h)[v]
<1> DEFINE S == {n \in Nat : SumTo(h)[u] <= SumTo(h)[u + n]}
<1>1. 0 \in S  BY SumIs
<1>2. ASSUME NEW n \in Nat, n \in S  PROVE n + 1 \in S
  <2>1. SumTo(h)[(u + n) + 1] = SumTo(h)[u + n] + h[(u + n) + 1]  BY SumIs
  <2>2. /\ SumTo(h)[u + n] \in Nat /\ SumTo(h)[u] \in Nat /\ h[(u + n) + 1] \in Nat
        /\ u + (n + 1) = (u + n) + 1
    BY SumIs
  <2>3. QED  BY <1>2, <2>1, <2>2
<1> HIDE DEF S
<1>3. v - u \in S  BY <1>1, <1>2, AllFollow
<1>4. u + (v - u) = v  OBVIOUS
<1>5. QED  BY <1>3, <1>4 DEF S

\* A sum of numbers none of which is smaller is no smaller, and larger if one is larger.
LEMMA SumGrows ==
    ASSUME NEW h \in [Nat -> Nat], NEW g \in [Nat -> Nat], NEW u \in Nat,
           \A w \in 1 .. u : h[w] <= g[w]
    PROVE  /\ SumTo(h)[u] <= SumTo(g)[u]
           /\ \A m \in 1 .. u : h[m] < g[m] => SumTo(h)[u] + 1 <= SumTo(g)[u]
<1> DEFINE S == {n \in Nat : n <= u => /\ SumTo(h)[n] <= SumTo(g)[n]
                                       /\ \A m \in 1 .. n : h[m] < g[m] =>
                                            SumTo(h)[n] + 1 <= SumTo(g)[n]}
<1>1. 0 \in S
  <2>1. SumTo(h)[0] = 0 /\ SumTo(g)[0] = 0  BY SumIs
  <2>2. QED  BY <2>1
<1>2. ASSUME NEW n \in Nat, n \in S  PROVE n + 1 \in S
  <2> SUFFICES ASSUME n + 1 <= u
               PROVE  /\ SumTo(h)[n + 1] <= SumTo(g)[n + 1]
                      /\ \A m \in 1 .. n + 1 : h[m] < g[m] =>
                            SumTo(h)[n + 1] + 1 <= SumTo(g)[n + 1]
    OBVIOUS
  <2>1. /\ SumTo(h)[n + 1] = SumTo(h)[n] + h[n + 1]
        /\ SumTo(g)[n + 1] = SumTo(g)[n] + g[n + 1]
        /\ SumTo(h)[n] \in Nat /\ SumTo(g)[n] \in Nat
        /\ h[n + 1] \in Nat /\ g[n + 1] \in Nat /\ h[n + 1] <= g[n + 1]
    <3>1. n + 1 \in 1 .. u /\ h[n + 1] \in Nat /\ g[n + 1] \in Nat  OBVIOUS
    <3>2. h[n + 1] <= g[n + 1]  BY <3>1
    <3>3. SumTo(h)[n] \in Nat /\ SumTo(h)[n + 1] = SumTo(h)[n] + h[n + 1]  BY SumIs
    <3>4. SumTo(g)[n] \in Nat /\ SumTo(g)[n + 1] = SumTo(g)[n] + g[n + 1]  BY SumIs
    <3>5. QED  BY <3>1, <3>2, <3>3, <3>4
  <2>2. /\ SumTo(h)[n] <= SumTo(g)[n]
        /\ \A m \in 1 .. n : h[m] < g[m] => SumTo(h)[n] + 1 <= SumTo(g)[n]
    BY <1>2
  <2>3. ASSUME NEW m \in 1 .. n + 1, h[m] < g[m]
        PROVE  SumTo(h)[n + 1] + 1 <= SumTo(g)[n + 1]
    <3>1. CASE m = n + 1  BY <2>1, <2>2, <2>3, <3>1
    <3>2. CASE m # n + 1
      <4>1. m \in 1 .. n  BY <3>2
      <4>2. QED  BY <2>1, <2>2, <2>3, <4>1
    <3>3. QED  BY <3>1, <3>2
  <2>4. QED  BY <2>1, <2>2, <2>3
<1> HIDE DEF S
<1>3. u \in S  BY <1>1, <1>2, AllFollow
<1>4. QED  BY <1>3 DEF S

-----------------------------------------------------------------------------
(* How many wrong passwords a stored count leaves room for.                *)

Top == LOCKOUT_THRESHOLD

\* How many passwords may be judged wrong while the count comes to w for good, with n
\* attempts that do not hold a lower one.
Room(w, n) == IF n = 0 THEN 0 ELSE choose(Top - 1 - w + n, n - 1)

LEMMA RoomIs ==
    /\ \A w \in 1 .. Top, n \in Nat : Room(w, n) \in Nat /\ (n > 0 => Room(w, n) > 0)
    /\ \A w \in 1 .. Top - 1, n \in Nat : Room(w, n + 1) = Room(w + 1, n + 1) + Room(w, n)
<1>0. Top \in Nat \ {0}  BY LockoutAssumption DEF Top
<1>1. ASSUME NEW w \in 1 .. Top, NEW n \in Nat
      PROVE  Room(w, n) \in Nat /\ (n > 0 => Room(w, n) > 0)
  <2>1. CASE n = 0  BY <2>1 DEF Room
  <2>2. CASE n # 0
    <3>1. Top - 1 - w + n \in Nat /\ n - 1 \in 0 .. (Top - 1 - w + n)  BY <1>0, <2>2
    <3>2. choose(Top - 1 - w + n, n - 1) \in Nat \ {0}  BY <3>1, Pascal
    <3>3. QED  BY <2>2, <3>2 DEF Room
  <2>3. QED  BY <2>1, <2>2
<1>2. ASSUME NEW w \in 1 .. Top - 1, NEW n \in Nat
      PROVE  Room(w, n + 1) = Room(w + 1, n + 1) + Room(w, n)
  <2>1. PICK m : m = Top - 1 - w + n  OBVIOUS
  <2>2. /\ m \in Nat /\ Top - 1 - w + (n + 1) = m + 1 /\ Top - 1 - (w + 1) + (n + 1) = m
        /\ (n + 1) - 1 = n /\ n + 1 # 0
    BY <1>0, <2>1
  <2>3. Room(w, n + 1) = choose(m + 1, n) /\ Room(w + 1, n + 1) = choose(m, n)
    BY <2>2 DEF Room
  <2>4. CASE n = 0
    <3>1. choose(m + 1, 0) = 1 /\ choose(m, 0) = 1 /\ Room(w, 0) = 0  BY <2>2, Pascal DEF Room
    <3>2. QED  BY <2>3, <2>4, <3>1
  <2>5. CASE n # 0
    <3>1. n \in 1 .. m /\ n \in 0 .. m /\ n - 1 \in 0 .. m  BY <1>0, <2>1, <2>5
    <3>2. choose(m + 1, n) = choose(m, n - 1) + choose(m, n)
          /\ choose(m, n) \in Nat /\ choose(m, n - 1) \in Nat
      BY <2>2, <3>1, Pascal
    <3>3. Room(w, n) = choose(m, n - 1)  BY <2>1, <2>5 DEF Room
    <3>4. QED  BY <2>3, <3>2, <3>3
  <2>6. QED  BY <2>4, <2>5
<1>3. QED  BY <1>1, <1>2

LEMMA RoomGrows ==
    ASSUME NEW w \in 1 .. Top - 1, NEW n \in Nat, NEW m \in Nat, n <= m
    PROVE  Room(w, n) <= Room(w, m) /\ (n < m => Room(w, n) < Room(w, m))
<1>0. Top \in Nat \ {0} /\ w \in 1 .. Top /\ w + 1 \in 1 .. Top  BY LockoutAssumption DEF Top
<1> DEFINE S == {k \in Nat : \A v \in Nat : v = n + k =>
                    Room(w, n) <= Room(w, v) /\ (k > 0 => Room(w, n) < Room(w, v))}
<1>1. 0 \in S
  <2>1. Room(w, n) \in Nat  BY <1>0, RoomIs
  <2>2. QED  BY <2>1
<1>2. ASSUME NEW k \in Nat, k \in S  PROVE k + 1 \in S
  <2> SUFFICES ASSUME NEW v \in Nat, v = n + k  PROVE Room(w, n) < Room(w, v + 1)
    <3>1. k + 1 > 0 /\ n + (k + 1) = (n + k) + 1 /\ n + k \in Nat  OBVIOUS
    <3>2. ASSUME NEW v \in Nat, v = n + (k + 1)
          PROVE  Room(w, n) <= Room(w, v) /\ Room(w, n) < Room(w, v)
      <4>1. PICK x \in Nat : x = n + k /\ v = x + 1  BY <3>2
      <4>2. Room(w, n) < Room(w, x + 1) /\ v \in Nat /\ n \in Nat  BY <4>1
      <4>3. Room(w, n) \in Nat /\ Room(w, v) \in Nat  BY <1>0, RoomIs
      <4>4. QED  BY <4>1, <4>2, <4>3
    <3>3. QED  BY <3>2
  <2>1. Room(w, v + 1) = Room(w + 1, v + 1) + Room(w, v)  BY RoomIs
  <2>2. /\ Room(w + 1, v + 1) \in Nat /\ Room(w + 1, v + 1) > 0
        /\ Room(w, v) \in Nat /\ Room(w, n) \in Nat
    <3>1. v + 1 \in Nat /\ v + 1 > 0  OBVIOUS
    <3>2. QED  BY <1>0, <3>1, RoomIs
  <2>3. Room(w, n) <= Room(w, v)  BY <1>2
  <2>4. QED  BY <2>1, <2>2, <2>3
<1> HIDE DEF S
<1>3. PICK k : k = m - n  OBVIOUS
<1>4. k \in S /\ m = n + k /\ (n < m => k > 0)  BY <1>1, <1>2, <1>3, AllFollow
<1>5. QED  BY <1>4 DEF S

RoomsOf(free) == [w \in Nat |-> IF w \in 1 .. Top - 1 THEN Room(w, free[w]) ELSE 0]

LEMMA RoomsAre == \A free \in [Nat -> Nat] : RoomsOf(free) \in [Nat -> Nat]
<1> SUFFICES ASSUME NEW free \in [Nat -> Nat], NEW w \in Nat, w \in 1 .. Top - 1
             PROVE  Room(w, free[w]) \in Nat
  BY DEF RoomsOf
<1>1. w \in 1 .. Top /\ free[w] \in Nat  BY LockoutAssumption DEF Top
<1>2. QED  BY <1>1, RoomIs

\* What there is room for above a count is less than what one more attempt has at the next.
LEMMA RoomAbove ==
    ASSUME NEW free \in [Nat -> Nat], NEW c \in 0 .. Top - 1, NEW n \in Nat,
           \A w \in Nat : w > c => free[w] <= n,
           NEW u \in Nat, c <= u
    PROVE  SumTo(RoomsOf(free))[u] + 1 <= SumTo(RoomsOf(free))[c] + Room(c + 1, n + 1)
<1>0. Top \in Nat \ {0}  BY LockoutAssumption DEF Top
<1>1. PICK sum : sum = SumTo(RoomsOf(free))  OBVIOUS
<1>2. sum \in [Nat -> Nat] /\ \A w \in Nat : sum[w + 1] = sum[w] + RoomsOf(free)[w + 1]
  BY <1>1, RoomsAre, SumIs
<1>3. PICK most : most = sum[c] + Room(c + 1, n + 1)  OBVIOUS
<1>4. \A w \in 1 .. Top : Room(w, n + 1) \in Nat /\ Room(w, n + 1) > 0
  <2>1. n + 1 \in Nat /\ n + 1 > 0  OBVIOUS
  <2>2. QED  BY <2>1, RoomIs
<1> DEFINE S == {k \in Nat : \A j \in Nat : j = c + k =>
                    /\ sum[j] + 1 <= most
                    /\ j < Top => sum[j] + Room(j + 1, n + 1) <= most}
<1>5. 0 \in S
  <2>1. c + 1 \in 1 .. Top /\ c \in Nat  BY <1>0
  <2>2. sum[c] \in Nat /\ Room(c + 1, n + 1) \in Nat /\ Room(c + 1, n + 1) > 0
    BY <1>2, <1>4, <2>1
  <2>3. QED  BY <1>3, <2>1, <2>2
<1>6. ASSUME NEW k \in Nat, k \in S  PROVE k + 1 \in S
  <2> SUFFICES ASSUME NEW j \in Nat, j = c + (k + 1)
               PROVE  /\ sum[j] + 1 <= most
                      /\ j < Top => sum[j] + Room(j + 1, n + 1) <= most
    OBVIOUS
  <2>1. PICK i \in Nat : i = c + k /\ j = i + 1 /\ i >= c  OBVIOUS
  <2>2. /\ sum[i] + 1 <= most /\ (i < Top => sum[i] + Room(i + 1, n + 1) <= most)
        /\ sum[j] = sum[i] + RoomsOf(free)[j] /\ sum[i] \in Nat
    BY <1>2, <1>6, <2>1
  <2>3. CASE j < Top
    <3>1. j \in 1 .. Top - 1 /\ j \in 1 .. Top /\ j + 1 \in 1 .. Top  BY <1>0, <2>1, <2>3
    <3>2. Room(j, n + 1) = Room(j + 1, n + 1) + Room(j, n)  BY <3>1, RoomIs
    <3>3. free[j] \in Nat /\ free[j] <= n /\ RoomsOf(free)[j] = Room(j, free[j])
      BY <2>1, <3>1 DEF RoomsOf
    <3>4. Room(j, free[j]) <= Room(j, n)  BY <3>1, <3>3, RoomGrows
    <3>5. /\ Room(j, n) \in Nat /\ Room(j, free[j]) \in Nat
          /\ Room(j + 1, n + 1) \in Nat /\ Room(j + 1, n + 1) > 0
      BY <1>4, <3>1, <3>3, RoomIs
    <3>6. sum[i] + Room(j, n + 1) <= most
      <4>1. i < Top  BY <1>0, <2>1, <2>3
      <4>2. Room(i + 1, n + 1) = Room(j, n + 1)  BY <2>1
      <4>3. QED  BY <2>2, <4>1, <4>2
    <3>7. most \in Int
      <4>1. c + 1 \in 1 .. Top /\ sum[c] \in Nat  BY <1>0, <1>2
      <4>2. QED  BY <1>3, <1>4, <4>1
    <3>8. QED  BY <2>2, <3>2, <3>3, <3>4, <3>5, <3>6, <3>7
  <2>4. CASE ~ (j < Top)
    <3>1. RoomsOf(free)[j] = 0  BY <1>0, <2>1, <2>4 DEF RoomsOf
    <3>2. QED  BY <2>2, <2>4, <3>1
  <2>5. QED  BY <2>3, <2>4
<1> HIDE DEF S
<1>7. PICK k : k = u - c  OBVIOUS
<1>8. k \in S /\ u = c + k  BY <1>5, <1>6, <1>7, AllFollow
<1>9. sum[u] + 1 <= most  BY <1>8 DEF S
<1>10. QED  BY <1>1, <1>3, <1>9

-----------------------------------------------------------------------------
(* Counts that are lost.                                                   *)

Holds(a) == attempt[a].at = "verify"
Held(a) == effective_count(attempt[a])

\* The attempts that do not hold a count below w, and how many there are.
FreeAt(w) == {a \in Attempts : ~ (Holds(a) /\ Held(a) < w)}
Free == [w \in Nat |-> Cardinality(FreeAt(w))]

\* Those that read a lock that had passed and may write the count they had read, which
\* leaves the row as it is: they will have counted for nothing.
Stale == {a \in Attempts : Holds(a) /\ attempt[a].until # Never /\ attempt[a].count = 1}
\* Those that may leave the row as it is as long as it says that a lock has passed.
Stragglers ==
    {a \in Attempts : /\ Holds(a)
                      /\ \/ attempt[a].until # user.until
                         \/ attempt[a].count = 1 /\ user.count = 0}

Others == Cardinality(Attempts) - 1

LossInv ==
    /\ user.until = Never => /\ guesses <= SumTo(RoomsOf(Free))[user.count] + Others
                             /\ user.count = 0 => guesses + Cardinality(Stale) <= Others
    /\ user.until # Never => guesses + Cardinality(Stragglers) <= Others

LEMMA AttemptsFinite ==
    /\ Cardinality(Attempts) \in Nat \ {0} /\ Others \in Nat
    /\ \A s \in SUBSET Attempts :
        /\ IsFiniteSet(s) /\ Cardinality(s) \in Nat /\ Cardinality(s) <= Cardinality(Attempts)
        /\ \A a \in Attempts : a \notin s => Cardinality(s) <= Others
        /\ \A t \in SUBSET s : Cardinality(t) <= Cardinality(s)
        /\ \A a \in Attempts : a \notin s => Cardinality(s \cup {a}) = Cardinality(s) + 1
        /\ \A a \in s : Cardinality(s \ {a}) = Cardinality(s) - 1
<1>1. Cardinality(Attempts) \in Nat \ {0}
  BY AttemptsAssumption, FS_CardinalityType, FS_EmptySet
<1>2. ASSUME NEW s \in SUBSET Attempts
      PROVE  /\ IsFiniteSet(s) /\ Cardinality(s) \in Nat
             /\ Cardinality(s) <= Cardinality(Attempts)
             /\ \A t \in SUBSET s : Cardinality(t) <= Cardinality(s)
             /\ \A a \in Attempts : a \notin s => Cardinality(s \cup {a}) = Cardinality(s) + 1
             /\ \A a \in s : Cardinality(s \ {a}) = Cardinality(s) - 1
  <2>1. IsFiniteSet(s) /\ Cardinality(s) \in Nat
        /\ Cardinality(s) <= Cardinality(Attempts)
    BY AttemptsAssumption, FS_Subset, FS_CardinalityType
  <2>2. QED  BY <2>1, FS_Subset, FS_AddElement, FS_RemoveElement
<1>3. ASSUME NEW s \in SUBSET Attempts, NEW a \in Attempts, a \notin s
      PROVE  Cardinality(s) <= Others
  <2>1. Cardinality(s \cup {a}) = Cardinality(s) + 1 /\ s \cup {a} \in SUBSET Attempts
    BY <1>2, <1>3
  <2>2. Cardinality(s \cup {a}) <= Cardinality(Attempts)  BY <1>2, <2>1
  <2>3. QED  BY <1>1, <1>2, <2>1, <2>2 DEF Others
<1>4. QED  BY <1>1, <1>2, <1>3 DEF Others

LEMMA FreeIs ==
    /\ \A w : FreeAt(w) \in SUBSET Attempts
    /\ Free \in [Nat -> Nat] /\ \A w \in Nat : Free[w] <= Cardinality(Attempts)
<1>1. \A w : FreeAt(w) \in SUBSET Attempts  BY DEF FreeAt
<1>2. QED  BY <1>1, AttemptsFinite DEF Free

LEMMA RoomsGrow ==
    ASSUME NEW free \in [Nat -> Nat], NEW more \in [Nat -> Nat], NEW u \in Nat,
           \A w \in 1 .. u : free[w] <= more[w]
    PROVE  /\ SumTo(RoomsOf(free))[u] <= SumTo(RoomsOf(more))[u]
           /\ \A m \in 1 .. u : m < Top /\ free[m] < more[m] =>
                SumTo(RoomsOf(free))[u] + 1 <= SumTo(RoomsOf(more))[u]
<1>0. Top \in Nat \ {0}  BY LockoutAssumption DEF Top
<1>1. ASSUME NEW w \in 1 .. u
      PROVE  /\ RoomsOf(free)[w] <= RoomsOf(more)[w]
             /\ w < Top /\ free[w] < more[w] => RoomsOf(free)[w] < RoomsOf(more)[w]
  <2>1. CASE w < Top
    <3>1. w \in 1 .. Top - 1 /\ w \in Nat  BY <1>0, <2>1
    <3>2. RoomsOf(free)[w] = Room(w, free[w]) /\ RoomsOf(more)[w] = Room(w, more[w])
      BY <3>1 DEF RoomsOf
    <3>3. free[w] \in Nat /\ more[w] \in Nat /\ free[w] <= more[w]  OBVIOUS
    <3>4. QED  BY <3>1, <3>2, <3>3, RoomGrows
  <2>2. CASE ~ (w < Top)
    <3>1. RoomsOf(free)[w] = 0 /\ RoomsOf(more)[w] = 0  BY <1>0, <2>2 DEF RoomsOf
    <3>2. QED  BY <2>2, <3>1
  <2>3. QED  BY <2>1, <2>2
<1>2. RoomsOf(free) \in [Nat -> Nat] /\ RoomsOf(more) \in [Nat -> Nat]  BY RoomsAre
<1>3. QED  BY <1>1, <1>2, SumGrows

\* What an attempt holds.
LEMMA HeldIs ==
    ASSUME LoginInv, NEW a \in Attempts, Holds(a)
    PROVE  /\ attempt[a].count \in Nat /\ attempt[a].until \in Nat /\ attempt[a].now \in Nat
           /\ Held(a) = IF attempt[a].until = Never THEN attempt[a].count ELSE 0
           /\ Held(a) \in Nat
<1>1. /\ attempt[a].count \in Nat /\ attempt[a].until \in Nat /\ attempt[a].now \in Nat
      /\ ~Locked(attempt[a].until, attempt[a].now)
  BY SignInsTold DEF LoginInv, LoginTyped, CountIsGuesses, Holds
<1>2. QED  BY <1>1 DEF Held, effective_count, Locked, Never

\* An attempt that ends, or has not yet read the row.
LEMMA FreeGrows ==
    ASSUME LoginInv, NEW a \in Attempts, NEW next, next.at # "verify", Goes(a, next)
    PROVE  /\ ~Holds(a)'
           /\ \A b \in Attempts : b # a => attempt'[b] = attempt[b] /\ (Holds(b)' <=> Holds(b))
           /\ Free' \in [Nat -> Nat]
           /\ \A w \in Nat : /\ Free[w] <= Free'[w] /\ Free'[w] > 0
                             /\ Holds(a) /\ Held(a) < w => Free'[w] = Free[w] + 1
<1>1. /\ attempt'[a] = next /\ \A b \in Attempts : b # a => attempt'[b] = attempt[b]
  BY DEF Goes, LoginInv, LoginTyped
<1>2. ASSUME NEW w \in Nat
      PROVE  /\ Free[w] <= Free'[w] /\ Free'[w] > 0 /\ Free'[w] \in Nat
             /\ Holds(a) /\ Held(a) < w => Free'[w] = Free[w] + 1
  <2>1. PICK s, t : s = FreeAt(w) /\ t = FreeAt(w)'  OBVIOUS
  <2>2. s \in SUBSET Attempts /\ t = s \cup {a}
    BY <1>1, <2>1 DEF FreeAt, Holds, Held, effective_count
  <2>3. Free[w] = Cardinality(s) /\ Free'[w] = Cardinality(t)  BY <2>1 DEF Free
  <2>4. Cardinality(s) \in Nat /\ Cardinality(t) \in Nat
    BY <2>2, AttemptsFinite
  <2>5. CASE a \in s
    <3>1. t = s /\ ~ (Holds(a) /\ Held(a) < w)  BY <2>1, <2>2, <2>5 DEF FreeAt
    <3>2. Cardinality(s) > 0  BY <2>2, <2>5, AttemptsFinite, FS_EmptySet
    <3>3. QED  BY <2>3, <2>4, <3>1, <3>2
  <2>6. CASE a \notin s
    <3>1. Cardinality(t) = Cardinality(s) + 1  BY <2>2, <2>6, AttemptsFinite
    <3>2. QED  BY <2>3, <2>4, <3>1
  <2>7. QED  BY <2>5, <2>6
<1>3. Free' \in [Nat -> Nat]
  <2>1. Free' = [w \in Nat |-> Free'[w]]  BY DEF Free
  <2>2. QED  BY <1>2, <2>1
<1>4. QED  BY <1>1, <1>2, <1>3 DEF Holds

LEMMA QuietKeeps ==
    ASSUME LoginInv, LossInv, NEW a \in Attempts, NEW next, next.at # "verify", Goes(a, next),
           user' = user, guesses' = guesses
    PROVE  LossInv'
<1>1. PICK before, after : before = Free /\ after = Free'  OBVIOUS
<1>2. before \in [Nat -> Nat] /\ after \in [Nat -> Nat]  BY <1>1, FreeIs, FreeGrows
<1>3. user.count \in Nat /\ guesses \in Nat  BY DEF LoginInv, LoginTyped
<1>4. SumTo(RoomsOf(before))[user.count] <= SumTo(RoomsOf(after))[user.count]
  <2>1. \A w \in 1 .. user.count : before[w] <= after[w]  BY <1>1, <1>3, FreeGrows
  <2>2. QED  BY <1>2, <1>3, <2>1, RoomsGrow
<1>5. PICK stale, straying : stale = Stale' /\ straying = Stragglers'  OBVIOUS
<1>6. stale \subseteq Stale /\ straying \subseteq Stragglers
  BY <1>5, FreeGrows DEF Stale, Stragglers
<1>7. Stale \in SUBSET Attempts /\ Stragglers \in SUBSET Attempts  BY DEF Stale, Stragglers
<1>8. /\ Cardinality(stale) <= Cardinality(Stale)
      /\ Cardinality(straying) <= Cardinality(Stragglers)
      /\ Cardinality(stale) \in Nat /\ Cardinality(straying) \in Nat
      /\ Cardinality(Stale) \in Nat /\ Cardinality(Stragglers) \in Nat /\ Others \in Nat
  BY <1>6, <1>7, AttemptsFinite
<1>9. /\ SumTo(RoomsOf(before))[user.count] \in Nat /\ SumTo(RoomsOf(after))[user.count] \in Nat
  BY <1>2, <1>3, RoomsAre, SumIs
<1>10. Others' = Others  BY DEF Others
<1>11. user.until = Never =>
        /\ guesses <= SumTo(RoomsOf(after))[user.count] + Others
        /\ user.count = 0 => guesses + Cardinality(stale) <= Others
  BY <1>1, <1>3, <1>4, <1>8, <1>9 DEF LossInv
<1>12. user.until # Never => guesses + Cardinality(straying) <= Others
  BY <1>3, <1>8 DEF LossInv
<1>13. QED  BY <1>1, <1>5, <1>10, <1>11, <1>12 DEF LossInv

\* An attempt that reads the row holds its count, and whatever there was room for up to it
\* there still is.
LEMMA ReadKeeps ==
    ASSUME LoginInv, LossInv, NEW a \in Attempts, ~Holds(a), NEW next \in SignIns,
           next.at = "verify", ~Locked(next.until, next.now), Goes(a, next),
           next.count = user.count, next.until = user.until,
           user' = user, guesses' = guesses
    PROVE  LossInv'
<1>1. /\ attempt'[a] = next /\ \A b \in Attempts : b # a => attempt'[b] = attempt[b]
  BY DEF Goes, LoginInv, LoginTyped
<1>2. user.count \in Nat /\ user.until \in Nat /\ guesses \in Nat  BY DEF LoginInv, LoginTyped
<1>3. PICK before, after : before = Free /\ after = Free'  OBVIOUS
<1>4. before \in [Nat -> Nat] /\ after \in [Nat -> Nat]
  <2>1. \A w \in Nat : FreeAt(w)' \in SUBSET Attempts  BY DEF FreeAt
  <2>2. \A w \in Nat : Cardinality(FreeAt(w)') \in Nat  BY <2>1, AttemptsFinite
  <2>3. after = [w \in Nat |-> Cardinality(FreeAt(w)')]  BY <1>3 DEF Free
  <2>4. QED  BY <1>3, <2>2, <2>3, FreeIs
<1>5. CASE user.until = Never
  <2>1. effective_count(next) = user.count  BY <1>5 DEF effective_count
  <2>2. ASSUME NEW w \in 1 .. user.count  PROVE before[w] <= after[w]
    <3>1. w \in Nat /\ ~ (user.count < w)  BY <1>2
    <3>2. FreeAt(w)' = FreeAt(w)
      BY <1>1, <2>1, <3>1 DEF FreeAt, Holds, Held, effective_count
    <3>3. before[w] = after[w] /\ before[w] \in Nat  BY <1>3, <1>4, <3>1, <3>2 DEF Free
    <3>4. QED  BY <3>3
  <2>3. SumTo(RoomsOf(before))[user.count] <= SumTo(RoomsOf(after))[user.count]
    BY <1>2, <1>4, <2>2, RoomsGrow
  <2>4. /\ SumTo(RoomsOf(before))[user.count] \in Nat
        /\ SumTo(RoomsOf(after))[user.count] \in Nat /\ Others \in Nat
    BY <1>2, <1>4, RoomsAre, SumIs, AttemptsFinite
  <2>5. Stale' = Stale  BY <1>1, <1>5 DEF Stale, Holds
  <2>6. QED  BY <1>2, <1>3, <1>5, <2>3, <2>4, <2>5 DEF LossInv, Others
<1>6. CASE user.until # Never
  <2>1. PICK straying : straying = Stragglers'  OBVIOUS
  <2>2. straying \subseteq Stragglers  BY <1>1, <2>1 DEF Stragglers, Holds
  <2>3. Stragglers \in SUBSET Attempts  BY DEF Stragglers
  <2>4. /\ Cardinality(straying) <= Cardinality(Stragglers) /\ Others \in Nat
        /\ Cardinality(straying) \in Nat /\ Cardinality(Stragglers) \in Nat
    BY <2>2, <2>3, AttemptsFinite
  <2>5. guesses + Cardinality(straying) <= Others  BY <1>2, <1>6, <2>4 DEF LossInv
  <2>6. QED  BY <1>6, <2>1, <2>5 DEF LossInv, Others
<1>7. QED  BY <1>5, <1>6

\* An attempt that ends with a success or a lock starts the guesses again.
LEMMA FreshStart ==
    ASSUME LoginInv, NEW a \in Attempts, Goes(a, Waiting), guesses' = 0,
           user' \in [count : Nat, until : Nat]
    PROVE  LossInv'
<1>1. Waiting.at # "verify"  BY DEF Waiting
<1>2. PICK after, stale, straying :
        after = Free' /\ stale = Stale' /\ straying = Stragglers'
  OBVIOUS
<1>3. after \in [Nat -> Nat] /\ ~Holds(a)'  BY <1>1, <1>2, FreeGrows
<1>4. SumTo(RoomsOf(after))[user'.count] \in Nat  BY <1>3, RoomsAre, SumIs
<1>5. stale \in SUBSET Attempts /\ straying \in SUBSET Attempts
      /\ a \notin stale /\ a \notin straying
  BY <1>2, <1>3 DEF Stale, Stragglers
<1>6. /\ Cardinality(stale) \in Nat /\ Cardinality(stale) <= Others /\ Others \in Nat
      /\ Cardinality(straying) \in Nat /\ Cardinality(straying) <= Others
  BY <1>5, AttemptsFinite
<1>7. Others' = Others  BY DEF Others
<1>8. /\ guesses' <= SumTo(RoomsOf(after))[user'.count] + Others
      /\ guesses' + Cardinality(stale) <= Others
      /\ guesses' + Cardinality(straying) <= Others
  BY <1>4, <1>6
<1>9. QED  BY <1>2, <1>7, <1>8 DEF LossInv

\* A wrong password that does not lock: the count it writes has room for one more than the
\* count it writes over.
LEMMA CountsOn ==
    ASSUME LoginInv, LossInv, NEW a \in Attempts, Refused(a),
           new_count(attempt[a]) < LOCKOUT_THRESHOLD
    PROVE  LossInv'
<1> DEFINE read == attempt[a]
           c == Held(a)
<1>0. Top \in Nat \ {0} /\ Top = LOCKOUT_THRESHOLD /\ Others \in Nat /\ Others' = Others
  BY LockoutAssumption, AttemptsFinite DEF Top, Others
<1>1. Holds(a)  BY DEF Refused, Holds
<1>2. /\ read.count \in Nat /\ read.until \in Nat /\ c \in Nat
      /\ c = IF read.until = Never THEN read.count ELSE 0
  BY <1>1, HeldIs
<1>3. new_count(read) = c + 1 /\ c + 1 < Top /\ c \in 0 .. Top - 1
  BY <1>0, <1>2 DEF new_count, Held
<1>4. /\ user' = Flushed(read, c + 1, Never) /\ guesses' = guesses + 1 /\ Goes(a, Waiting)
  <2>1. ~ (new_count(read) >= LOCKOUT_THRESHOLD)  BY <1>0, <1>2, <1>3
  <2>2. QED  BY <1>3, <2>1 DEF Refused
<1>5. user.count \in Nat /\ user.until \in Nat /\ guesses \in Nat  BY DEF LoginInv, LoginTyped
<1>6. /\ user'.count = IF c + 1 = read.count THEN user.count ELSE c + 1
      /\ user'.until = IF read.until = Never THEN user.until ELSE Never
  BY <1>4 DEF Flushed
<1>7. PICK before, after, stale, straying :
        before = Free /\ after = Free' /\ stale = Stale' /\ straying = Stragglers'
  OBVIOUS
<1>8. /\ ~Holds(a)'
      /\ \A b \in Attempts : b # a => attempt'[b] = attempt[b] /\ (Holds(b)' <=> Holds(b))
      /\ after \in [Nat -> Nat] /\ before \in [Nat -> Nat]
      /\ \A w \in Nat : /\ before[w] <= after[w] /\ after[w] > 0
                        /\ c < w => after[w] = before[w] + 1
  <2>1. Waiting.at # "verify"  BY DEF Waiting
  <2>2. QED  BY <1>1, <1>4, <1>7, <2>1, FreeGrows, FreeIs
<1> DEFINE old == SumTo(RoomsOf(before))
           new == SumTo(RoomsOf(after))
<1>9. /\ old \in [Nat -> Nat] /\ new \in [Nat -> Nat]
      /\ \A w \in Nat : new[w + 1] = new[w] + RoomsOf(after)[w + 1]
  BY <1>8, RoomsAre, SumIs
<1>10. \A w \in Nat : old[w] <= new[w]
  <2>1. ASSUME NEW w \in Nat  PROVE old[w] <= new[w]
    <3>1. \A v \in 1 .. w : before[v] <= after[v]  BY <1>8
    <3>2. QED  BY <1>8, <3>1, RoomsGrow
  <2>2. QED  BY <2>1
<1>11. /\ Stale \in SUBSET Attempts /\ Stragglers \in SUBSET Attempts
       /\ stale \in SUBSET Attempts /\ straying \in SUBSET Attempts
       /\ Cardinality(Stale) \in Nat /\ Cardinality(Stragglers) \in Nat
       /\ Cardinality(stale) \in Nat /\ Cardinality(straying) \in Nat
  <2>1. /\ Stale \in SUBSET Attempts /\ Stragglers \in SUBSET Attempts
        /\ stale \in SUBSET Attempts /\ straying \in SUBSET Attempts
    BY <1>7 DEF Stale, Stragglers
  <2>2. QED  BY <2>1, AttemptsFinite
<1>12. ASSUME NEW s \in SUBSET Attempts, a \in s, NEW t, t \subseteq s \ {a}
       PROVE  Cardinality(t) + 1 <= Cardinality(s)
  <2>1. /\ s \ {a} \in SUBSET Attempts /\ t \in SUBSET (s \ {a}) /\ t \in SUBSET Attempts  
    BY <1>12
  <2>2. /\ Cardinality(t) <= Cardinality(s \ {a}) /\ Cardinality(s \ {a}) = Cardinality(s) - 1
        /\ Cardinality(s) \in Nat /\ Cardinality(t) \in Nat
    BY <1>12, <2>1, AttemptsFinite
  <2>3. QED  BY <2>2
<1> SUFFICES /\ user'.until = Never => /\ guesses + 1 <= new[user'.count] + Others
                                       /\ user'.count = 0 => guesses + 1 + Cardinality(stale) <= Others
             /\ user'.until # Never => guesses + 1 + Cardinality(straying) <= Others
  BY <1>0, <1>4, <1>7 DEF LossInv
<1>13. RoomsOf(after)[c + 1] = Room(c + 1, after[c + 1]) /\ RoomsOf(after)[c + 1] \in Nat
       /\ RoomsOf(after)[c + 1] > 0
  <2>1. c + 1 \in Nat /\ c + 1 \in 1 .. Top - 1 /\ c + 1 \in 1 .. Top  BY <1>0, <1>2, <1>3
  <2>2. after[c + 1] \in Nat /\ after[c + 1] > 0  BY <1>8, <2>1
  <2>3. RoomsOf(after)[c + 1] = Room(c + 1, after[c + 1])  BY <2>1 DEF RoomsOf
  <2>4. QED  BY <2>1, <2>2, <2>3, RoomIs
<1> HIDE DEF read, c, old, new
<1>14. CASE user.until # Never /\ read.until = Never
  <2>1. user'.count = c + 1 /\ user'.until # Never  BY <1>2, <1>6, <1>14
  <2>2. a \in Stragglers  BY <1>1, <1>14 DEF Stragglers, read
  <2>3. straying \subseteq Stragglers \ {a}
    BY <1>2, <1>6, <1>7, <1>8, <1>14, <2>1 DEF Stragglers
  <2>4. Cardinality(straying) + 1 <= Cardinality(Stragglers)  BY <1>11, <1>12, <2>2, <2>3
  <2>5. QED  BY <1>0, <1>5, <1>11, <1>14, <2>1, <2>4 DEF LossInv
<1>15. CASE user.until # Never /\ read.until # Never
  <2>1. /\ user'.until = Never /\ c = 0 /\ user'.count = IF read.count = 1 THEN user.count ELSE 1
        /\ guesses + Cardinality(Stragglers) <= Others
    BY <1>2, <1>6, <1>15 DEF LossInv
  <2>2. CASE user'.count # 0
    <3>1. user'.count \in Nat /\ 1 <= user'.count  BY <1>5, <2>1, <2>2
    <3>2. new[1] <= new[user'.count]  BY <1>8, <3>1, RoomsAre, SumExtends DEF new
    <3>3. new[1] > 0
      <4>1. new[0 + 1] = new[0] + RoomsOf(after)[0 + 1] /\ new[0] \in Nat  BY <1>9
      <4>2. QED  BY <1>13, <2>1, <4>1
    <3>4. new[1] \in Nat /\ new[user'.count] \in Nat  BY <1>9, <3>1
    <3>5. QED  BY <1>0, <1>5, <1>11, <2>1, <2>2, <3>2, <3>3, <3>4
  <2>3. CASE user'.count = 0
    <3>1. read.count = 1 /\ user.count = 0  BY <2>1, <2>3
    <3>2. a \in Stragglers  BY <1>1, <3>1 DEF Stragglers, read
    <3>3. stale \subseteq Stragglers \ {a}  BY <1>7, <1>8, <3>1 DEF Stale, Stragglers
    <3>4. Cardinality(stale) + 1 <= Cardinality(Stragglers)  BY <1>11, <1>12, <3>2, <3>3
    <3>5. new[0] \in Nat  BY <1>9
    <3>6. QED  BY <1>0, <1>5, <1>11, <2>1, <2>3, <3>4, <3>5
  <2>4. QED  BY <2>2, <2>3
<1>16. CASE user.until = Never
  <2>1. /\ user'.until = Never /\ guesses <= old[user.count] + Others
        /\ user.count = 0 => guesses + Cardinality(Stale) <= Others
        /\ old[user.count] \in Nat
    BY <1>5, <1>6, <1>7, <1>9, <1>16 DEF LossInv, old
  <2>2. CASE c + 1 # read.count
    <3>1. user'.count = c + 1 /\ c + 1 # 0 /\ c + 1 \in Nat  BY <1>2, <1>6, <2>2
    <3>2. old[user.count] + 1 <= new[c + 1]
      <4>1. /\ new[c + 1] = new[c] + RoomsOf(after)[c + 1] /\ old[c] <= new[c]
            /\ new[c] \in Nat /\ old[c] \in Nat
        BY <1>2, <1>9, <1>10
      <4>2. CASE c < user.count
        <5>1. PICK n \in Nat : n = before[c + 1] /\ after[c + 1] = n + 1
          BY <1>2, <1>8, <3>1
        <5>2. ASSUME NEW w \in Nat, w > c  PROVE before[w] <= n
          <6>1. FreeAt(w) \subseteq FreeAt(c + 1)
            <7> SUFFICES ASSUME NEW b \in Attempts, Holds(b), Held(b) < c + 1
                         PROVE  Held(b) < w
              BY DEF FreeAt
            <7>1. Held(b) \in Nat  BY HeldIs
            <7>2. QED  BY <1>2, <5>2, <7>1
          <6>2. FreeAt(c + 1) \in SUBSET Attempts  BY FreeIs
          <6>3. Cardinality(FreeAt(w)) <= Cardinality(FreeAt(c + 1))
            BY <6>1, <6>2, AttemptsFinite
          <6>4. QED  BY <1>7, <3>1, <5>1, <6>3 DEF Free
        <5>3. old[user.count] + 1 <= old[c] + Room(c + 1, n + 1)
          <6>1. c <= user.count  BY <1>2, <1>5, <4>2
          <6>2. QED  BY <1>3, <1>5, <1>8, <5>2, <6>1, RoomAbove DEF old
        <5>4. RoomsOf(after)[c + 1] = Room(c + 1, n + 1)  BY <1>13, <5>1
        <5>5. QED  BY <1>13, <2>1, <4>1, <5>3, <5>4
      <4>3. CASE ~ (c < user.count)
        <5>1. user.count <= c  BY <1>2, <1>5, <4>3
        <5>2. old[user.count] <= old[c]  BY <1>2, <1>5, <1>8, <5>1, RoomsAre, SumExtends DEF old
        <5>3. QED  BY <1>13, <2>1, <4>1, <5>2
      <4>4. QED  BY <4>2, <4>3
    <3>3. new[c + 1] \in Nat  BY <1>9, <3>1
    <3>4. QED  BY <1>0, <1>5, <2>1, <3>1, <3>2, <3>3
  <2>3. CASE c + 1 = read.count
    <3>1. read.until # Never /\ c = 0 /\ read.count = 1 /\ user'.count = user.count
      BY <1>2, <1>6, <2>3
    <3>2. CASE user.count # 0
      <4>1. 1 \in 1 .. user.count /\ 1 < Top  BY <1>3, <1>5, <3>1, <3>2
      <4>2. before[1] < after[1]  BY <1>8, <3>1
      <4>3. \A w \in 1 .. user.count : before[w] <= after[w]  BY <1>8
      <4>4. old[user.count] + 1 <= new[user.count]
        BY <1>5, <1>8, <4>1, <4>2, <4>3, RoomsGrow DEF old, new
      <4>5. new[user.count] \in Nat  BY <1>5, <1>9
      <4>6. QED  BY <1>0, <1>5, <2>1, <3>1, <3>2, <4>4, <4>5
    <3>3. CASE user.count = 0
      <4>1. a \in Stale  BY <1>1, <3>1 DEF Stale, read
      <4>2. stale \subseteq Stale \ {a}  BY <1>7, <1>8 DEF Stale
      <4>3. Cardinality(stale) + 1 <= Cardinality(Stale)  BY <1>11, <1>12, <4>1, <4>2
      <4>4. new[0] \in Nat  BY <1>9
      <4>5. QED  BY <1>0, <1>5, <1>11, <2>1, <3>1, <3>3, <4>3, <4>4
    <3>4. QED  BY <3>2, <3>3
  <2>4. QED  BY <2>2, <2>3
<1>17. QED  BY <1>14, <1>15, <1>16

LEMMA LossStarts == LoginInit => LossInv
<1> SUFFICES ASSUME LoginInit  PROVE LossInv  OBVIOUS
<1>1. user.count = 0 /\ user.until = Never /\ guesses = 0  BY DEF LoginInit
<1>2. Stale = {}  BY DEF LoginInit, Stale, Holds, Waiting
<1>3. Cardinality(Stale) = 0 /\ Others \in Nat  BY <1>2, FS_EmptySet, AttemptsFinite
<1>4. SumTo(RoomsOf(Free))[0] \in Nat  BY FreeIs, RoomsAre, SumIs
<1>5. QED  BY <1>1, <1>3, <1>4 DEF LossInv

LEMMA LossStep == LoginInv /\ LossInv /\ [LoginNext]_loginVars => LossInv'
<1> SUFFICES ASSUME LoginInv, LossInv, [LoginNext]_loginVars  PROVE LossInv'  OBVIOUS
<1>1. ASSUME NEW a \in Attempts, TakeClock(a)  PROVE LossInv'
  <2>1. PICK next : next = [at |-> "clock", now |-> now]  OBVIOUS
  <2>2. next.at # "verify" /\ Goes(a, next) /\ user' = user /\ guesses' = guesses
    BY <1>1, <2>1 DEF TakeClock, rowVars, loginHistory
  <2>3. QED  BY <2>2, QuietKeeps
<1>2. ASSUME NEW a \in Attempts, LoadUser(a)  PROVE LossInv'
  <2>1. /\ attempt[a].at = "clock" /\ user' = user /\ guesses' = guesses
        /\ attempt[a].now \in Nat /\ user.count \in Nat /\ user.until \in Nat
    BY <1>2, SignInsTold DEF LoadUser, rowVars, loginHistory, LoginInv, LoginTyped
  <2>2. CASE Locked(user.until, attempt[a].now)
    <3>1. Waiting.at # "verify" /\ Goes(a, Waiting)  BY <1>2, <2>2 DEF LoadUser, Waiting
    <3>2. QED  BY <2>1, <3>1, QuietKeeps
  <2>3. CASE ~Locked(user.until, attempt[a].now)
    <3>1. PICK next : next = [at |-> "verify", now |-> attempt[a].now,
                              count |-> user.count, until |-> user.until]
      OBVIOUS
    <3>2. Goes(a, next)  BY <1>2, <2>3, <3>1 DEF LoadUser
    <3>3. next \in SignIns  BY <2>1, <3>1 DEF SignIns
    <3>4. ~Holds(a)  BY <2>1 DEF Holds
    <3>5. /\ next.at = "verify" /\ ~Locked(next.until, next.now)
          /\ next.count = user.count /\ next.until = user.until
      BY <2>3, <3>1
    <3>6. QED  BY <2>1, <3>2, <3>3, <3>4, <3>5, ReadKeeps
  <2>4. QED  BY <2>2, <2>3
<1>3. ASSUME NEW a \in Attempts, Accepted(a)  PROVE LossInv'
  <2>1. Holds(a) /\ Goes(a, Waiting) /\ guesses' = 0 /\ user' = Flushed(attempt[a], 0, Never)
    BY <1>3 DEF Accepted, Holds
  <2>2. user' \in [count : Nat, until : Nat]
    BY <2>1 DEF Flushed, LoginInv, LoginTyped, Never
  <2>3. QED  BY <2>1, <2>2, FreshStart
<1>4. ASSUME NEW a \in Attempts, Refused(a)  PROVE LossInv'
  <2>1. Holds(a) /\ Goes(a, Waiting)  BY <1>4 DEF Refused, Holds
  <2>2. new_count(attempt[a]) \in Nat /\ LOCKOUT_THRESHOLD \in Nat
    BY <2>1, HeldIs, LockoutAssumption DEF new_count, Held
  <2>3. CASE new_count(attempt[a]) >= LOCKOUT_THRESHOLD
    <3>1. guesses' = 0 /\ user' \in [count : Nat, until : Nat]
      <4>1. LoginInv'  BY <1>4, RefusedKeeps
      <4>2. QED  BY <1>4, <2>3, <4>1 DEF Refused, LoginInv, LoginTyped
    <3>2. QED  BY <2>1, <3>1, FreshStart
  <2>4. CASE new_count(attempt[a]) < LOCKOUT_THRESHOLD  BY <1>4, <2>4, CountsOn
  <2>5. QED  BY <2>2, <2>3, <2>4
<1>5. ASSUME NEW a \in Attempts, GiveUp(a)  PROVE LossInv'
  <2>1. Waiting.at # "verify" /\ Goes(a, Waiting) /\ user' = user /\ guesses' = guesses
    BY <1>5 DEF GiveUp, Waiting, rowVars, loginHistory
  <2>2. QED  BY <2>1, QuietKeeps
<1>6. ASSUME UNCHANGED <<user, attempt, guesses>>  PROVE LossInv'
  BY <1>6 DEF LossInv, Stale, Stragglers, Free, FreeAt, Holds, Held, effective_count, Others
<1>7. CASE TimePasses  BY <1>6, <1>7 DEF TimePasses, loginHistory
<1>8. CASE UNCHANGED loginVars  BY <1>6, <1>8 DEF loginVars, rowVars, loginHistory
<1>9. QED  BY <1>1, <1>2, <1>3, <1>4, <1>5, <1>7, <1>8 DEF LoginNext

LEMMA LossIsBounded == LoginInv /\ LossInv => LostCountsAreBounded
<1> SUFFICES ASSUME LoginInv, LossInv  PROVE LostCountsAreBounded  OBVIOUS
<1>0. PICK n \in Nat \ {0} : n = Cardinality(Attempts)  BY AttemptsFinite
<1>1. n = Cardinality(Attempts) /\ n \in Nat  BY <1>0
<1> DEFINE most == choose(LOCKOUT_THRESHOLD + n - 1, n)
<1>2. LOCKOUT_THRESHOLD \in Nat \ {0} /\ guesses \in Nat /\ user.count \in Nat
  BY LockoutAssumption DEF LoginInv, LoginTyped
<1>3. most = Room(0 + 1, n + 1) /\ most \in Nat /\ most > 0
  <2>1. /\ Top - 1 - 1 + (n + 1) = LOCKOUT_THRESHOLD + n - 1 /\ (n + 1) - 1 = n /\ n + 1 # 0
        /\ n + 1 \in Nat /\ n + 1 > 0 /\ 1 \in 1 .. Top
    BY <1>2 DEF Top
  <2>2. most = Room(1, n + 1)  BY <2>1 DEF Room
  <2>3. QED  BY <2>1, <2>2, RoomIs
<1> HIDE DEF most
<1>4. CASE user.until = Never
  <2>1. PICK free : free = Free  OBVIOUS
  <2>2. free \in [Nat -> Nat] /\ \A w \in Nat : free[w] <= n  BY <1>1, <2>1, FreeIs
  <2>3. SumTo(RoomsOf(free))[user.count] + 1 <= SumTo(RoomsOf(free))[0] + Room(0 + 1, n + 1)
    <3>1. 0 \in 0 .. Top - 1 /\ 0 <= user.count /\ n \in Nat  BY <1>2 DEF Top
    <3>2. QED  BY <1>2, <2>2, <3>1, RoomAbove
  <2>4. SumTo(RoomsOf(free))[0] = 0 /\ SumTo(RoomsOf(free))[user.count] \in Nat
    BY <1>2, <2>2, RoomsAre, SumIs
  <2>5. guesses <= SumTo(RoomsOf(free))[user.count] + (n - 1)
    BY <1>1, <1>4, <2>1 DEF LossInv, Others
  <2>6. guesses + 2 <= most + n  BY <1>2, <1>3, <2>3, <2>4, <2>5
  <2>7. QED  BY <1>1, <2>6 DEF LostCountsAreBounded, most
<1>5. CASE user.until # Never
  <2>1. Stragglers \in SUBSET Attempts  BY DEF Stragglers
  <2>2. Cardinality(Stragglers) \in Nat  BY <2>1, AttemptsFinite
  <2>3. guesses + Cardinality(Stragglers) <= n - 1  BY <1>1, <1>5 DEF LossInv, Others
  <2>4. guesses + 2 <= most + n  BY <1>2, <1>3, <2>2, <2>3
  <2>5. QED  BY <1>1, <2>4 DEF LostCountsAreBounded, most
<1>6. QED  BY <1>4, <1>5

\* For any number of sign-ins at a time, any threshold and any duration: however their reads
\* and writes overlap, and whatever locks end meanwhile, no more wrong passwords are judged
\* before a lock than the binomial says.
THEOREM LostCountsAreBoundedHolds == LoginSpec => []LostCountsAreBounded
<1>1. QED  BY LoginStarts, LoginStep, LossStarts, LossStep, LossIsBounded, PTL DEF LoginSpec
=============================================================================
