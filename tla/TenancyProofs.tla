---------------------------- MODULE TenancyProofs ----------------------------
(***************************************************************************)
(* Theorems about TenantScope, for every pool and every number of units and*)
(* organizations, and about Projects and AlertDispatch, for every number of*)
(* rows and requests and every plan.                                       *)
(***************************************************************************)
EXTENDS AlertDispatch, TenantScope, SequenceTheorems, FiniteSetTheorems, WellFoundedInduction,
        TLAPS

-----------------------------------------------------------------------------
(* Sessions.                                                               *)

Kinds == {"tenant", "system", "admin", "plain"}

\* A connection nobody scoped: it has the login's role and passes no row.
Clean(s) == s.role = Login /\ s.org \in {Unset, Blank}

\* What a connection must be set to for the unit that holds it.
SetFor(x, s) ==
    IF x.at = "begun" \/ x.kind = "plain" THEN Clean(s)
    ELSE CASE x.kind = "tenant" -> s.role = Login /\ s.org = x.org
           [] x.kind = "system" -> s.role = SystemRole
           [] OTHER -> s.role = AdminRole

\* A unit holds a connection alone, set for it and nobody else, and every connection in
\* the pool is clean.
Separate ==
    /\ settings \in [Conns -> [org : Orgs \cup {Unset, Blank},
                               role : {Login, SystemRole, AdminRole}]]
    /\ unit \in [Units -> [kind : Kinds \cup {"none"}, org : Orgs \cup {Unset},
                           conn : Conns \cup {NoConn}, at : {"idle", "begun", "open"}]]
    /\ \A u \in Units :
        \/ unit[u] = NoUnit
        \/ /\ unit[u].conn \in Conns /\ unit[u].kind \in Kinds
           /\ unit[u].at \in {"begun", "open"}
           /\ unit[u].kind = "tenant" => unit[u].org \in Orgs
           /\ SetFor(unit[u], settings[unit[u].conn])
    /\ \A u, v \in Units : unit[u].conn = unit[v].conn /\ unit[u].conn \in Conns => u = v
    /\ \A c \in Conns : (\A u \in Units : unit[u].conn # c) => Clean(settings[c])

LEMMA SessionInitSeparate == SessionInit => Separate
<1> SUFFICES ASSUME SessionInit  PROVE Separate  OBVIOUS
<1>1. settings \in [Conns -> [org : Orgs \cup {Unset, Blank},
                              role : {Login, SystemRole, AdminRole}]]
  BY DEF SessionInit, Fresh
<1>2. unit \in [Units -> [kind : Kinds \cup {"none"}, org : Orgs \cup {Unset},
                          conn : Conns \cup {NoConn}, at : {"idle", "begun", "open"}]]
  BY DEF SessionInit, NoUnit
<1>3. \A u \in Units : unit[u] = NoUnit /\ unit[u].conn = NoConn
  BY DEF SessionInit, NoUnit
<1>4. \A c \in Conns : Clean(settings[c])  BY DEF SessionInit, Fresh, Clean
<1>5. QED  BY <1>1, <1>2, <1>3, <1>4, ScopeAssumption DEF Separate

LEMMA SessionStepSeparate == Separate /\ [SessionNext]_sessionVars => Separate'
<1> SUFFICES ASSUME Separate, [SessionNext]_sessionVars  PROVE Separate'  OBVIOUS
<1> DEFINE Setting == [org : Orgs \cup {Unset, Blank}, role : {Login, SystemRole, AdminRole}]
           Unit == [kind : Kinds \cup {"none"}, org : Orgs \cup {Unset},
                    conn : Conns \cup {NoConn}, at : {"idle", "begun", "open"}]
<1>0. settings \in [Conns -> Setting] /\ unit \in [Units -> Unit]  BY DEF Separate
\* A step gives one unit another state and its connection another setting.
<1>1. ASSUME NEW u \in Units, NEW c \in Conns, NEW s \in Setting, NEW x \in Unit,
             settings' = [settings EXCEPT ![c] = s], unit' = [unit EXCEPT ![u] = x],
             \A v \in Units : unit[v].conn = c => v = u,
             unit[u].conn \in {c, NoConn},
             \/ x = NoUnit /\ Clean(s)
             \/ /\ x.conn = c /\ x.kind \in Kinds /\ x.at \in {"begun", "open"}
                /\ x.kind = "tenant" => x.org \in Orgs
                /\ SetFor(x, s)
      PROVE  Separate'
  <2>0. NoConn \notin Conns /\ NoUnit.conn = NoConn  BY ScopeAssumption DEF NoUnit
  <2>1. /\ settings' \in [Conns -> Setting] /\ unit' \in [Units -> Unit]
        /\ settings'[c] = s /\ \A d \in Conns : d # c => settings'[d] = settings[d]
        /\ unit'[u] = x /\ \A v \in Units : v # u => unit'[v] = unit[v]
    BY <1>0, <1>1
  <2> HIDE DEF Setting, Unit
  <2>2. ASSUME NEW v \in Units
        PROVE  \/ unit'[v] = NoUnit
               \/ /\ unit'[v].conn \in Conns /\ unit'[v].kind \in Kinds
                  /\ unit'[v].at \in {"begun", "open"}
                  /\ unit'[v].kind = "tenant" => unit'[v].org \in Orgs
                  /\ SetFor(unit'[v], settings'[unit'[v].conn])
    <3>1. CASE v = u  BY <1>1, <2>1, <3>1
    <3>2. CASE v # u
      <4>1. unit[v].conn # c  BY <1>1, <3>2
      <4>2. QED  BY <2>1, <3>2, <4>1 DEF Separate
    <3>3. QED  BY <3>1, <3>2
  <2>3. ASSUME NEW v \in Units, NEW w \in Units,
               unit'[v].conn = unit'[w].conn, unit'[v].conn \in Conns
        PROVE  v = w
    <3>1. unit'[u].conn \in {c, NoConn}  BY <1>1, <2>0, <2>1
    <3>2. \A y \in Units : y # u => unit'[y].conn = unit[y].conn /\ unit[y].conn # c
      BY <1>1, <2>1
    <3>3. QED  BY <2>0, <2>3, <3>1, <3>2 DEF Separate
  <2>4. ASSUME NEW d \in Conns, \A v \in Units : unit'[v].conn # d
        PROVE  Clean(settings'[d])
    <3>1. CASE d = c  BY <1>1, <2>1, <2>4, <3>1
    <3>2. CASE d # c
      <4>1. \A v \in Units : unit[v].conn # d
        BY <1>1, <2>0, <2>1, <2>4, <3>2
      <4>2. QED  BY <2>1, <3>2, <4>1 DEF Separate
    <3>3. QED  BY <3>1, <3>2
  <2>5. QED  BY <2>1, <2>2, <2>3, <2>4 DEF Separate, Setting, Unit, SetFor, Clean
<1>2. ASSUME NEW u \in Units, Begin(u)  PROVE Separate'
  <2>1. PICK kind \in Kinds, c \in Conns \ Held :
          /\ \E org \in IF kind = "tenant" THEN Orgs ELSE {Unset} :
                unit' = [unit EXCEPT ![u] =
                    [kind |-> kind, org |-> org, conn |-> c,
                     at |-> IF kind = "plain" THEN "open" ELSE "begun"]]
          /\ \E s \in {settings[c], Fresh} : settings' = [settings EXCEPT ![c] = s]
    BY <1>2 DEF Begin, Kinds
  <2>2. PICK org \in IF kind = "tenant" THEN Orgs ELSE {Unset} :
            unit' = [unit EXCEPT ![u] =
                [kind |-> kind, org |-> org, conn |-> c,
                 at |-> IF kind = "plain" THEN "open" ELSE "begun"]]
    BY <2>1
  <2>3. PICK s \in {settings[c], Fresh} : settings' = [settings EXCEPT ![c] = s]
    BY <2>1
  <2> DEFINE x == [kind |-> kind, org |-> org, conn |-> c,
                   at |-> IF kind = "plain" THEN "open" ELSE "begun"]
  <2>4. unit[u] = NoUnit /\ unit[u].conn = NoConn  BY <1>2 DEF Begin, NoUnit
  <2>5. \A v \in Units : unit[v].conn # c  BY ScopeAssumption DEF Held
  <2>6. Clean(s) /\ s \in Setting
    <3>1. Clean(Fresh) /\ Fresh \in Setting  BY DEF Clean, Fresh
    <3>2. Clean(settings[c]) /\ settings[c] \in Setting  BY <1>0, <2>5 DEF Separate
    <3>3. QED  BY <3>1, <3>2
  <2>7. /\ x \in Unit /\ x.conn = c /\ x.kind \in Kinds /\ x.at \in {"begun", "open"}
        /\ x.kind = "tenant" => x.org \in Orgs
        /\ unit' = [unit EXCEPT ![u] = x]
    BY <2>2
  <2>8. SetFor(x, s)  BY <2>6 DEF SetFor
  <2> HIDE DEF x, Setting, Unit
  <2>9. c \in Conns  OBVIOUS
  <2>10. QED  BY <1>1, <2>3, <2>4, <2>5, <2>6, <2>7, <2>8, <2>9, ZenonT(40)
<1>3. ASSUME NEW u \in Units, unit[u].at \in {"begun", "open"}
      PROVE  /\ unit[u] # NoUnit /\ unit[u].conn \in Conns /\ unit[u].kind \in Kinds
             /\ unit[u].kind = "tenant" => unit[u].org \in Orgs
             /\ \A v \in Units : unit[v].conn = unit[u].conn => v = u
             /\ SetFor(unit[u], settings[unit[u].conn])
             /\ settings[unit[u].conn] \in Setting
  BY <1>0, <1>3 DEF Separate, NoUnit
<1>4. ASSUME NEW u \in Units, tenant_session(u) \/ system_session(u) \/ admin_session(u)
      PROVE  Separate'
  <2> DEFINE c == unit[u].conn
             x == [unit[u] EXCEPT !.at = "open"]
  <2>1. unit[u].at = "begun" /\ unit' = [unit EXCEPT ![u] = x]
    BY <1>0, <1>4 DEF tenant_session, system_session, admin_session, Scoped
  <2>2. Clean(settings[c])  BY <1>3, <2>1 DEF SetFor
  <2>3. /\ x \in Unit /\ x.conn = c /\ x.kind = unit[u].kind /\ x.org = unit[u].org
        /\ x.at = "open"
    BY <1>0
  <2>4. PICK s \in Setting : settings' = [settings EXCEPT ![c] = s] /\ SetFor(x, s)
    <3>1. CASE tenant_session(u)
      <4> DEFINE s == [settings[c] EXCEPT !.org = unit[u].org]
      <4>1. unit[u].kind = "tenant" /\ settings' = [settings EXCEPT ![c] = s]
        BY <3>1 DEF tenant_session, Scoped
      <4>2. s \in Setting /\ s.role = Login /\ s.org = unit[u].org
        BY <1>3, <2>1, <2>2, <4>1 DEF Clean
      <4> HIDE DEF s, x
      <4>3. SetFor(x, s)  BY <2>3, <4>1, <4>2 DEF SetFor
      <4>4. QED  BY <4>1, <4>2, <4>3
    <3>2. CASE system_session(u)
      <4> DEFINE s == [settings[c] EXCEPT !.role = SystemRole]
      <4>1. unit[u].kind = "system" /\ settings' = [settings EXCEPT ![c] = s]
        BY <3>2 DEF system_session, Scoped
      <4>2. s \in Setting /\ s.role = SystemRole  BY <1>3, <2>1
      <4> HIDE DEF s, x
      <4>3. SetFor(x, s)  BY <2>3, <4>1, <4>2 DEF SetFor
      <4>4. QED  BY <4>1, <4>2, <4>3
    <3>3. CASE admin_session(u)
      <4> DEFINE s == [settings[c] EXCEPT !.role = AdminRole]
      <4>1. unit[u].kind = "admin" /\ settings' = [settings EXCEPT ![c] = s]
        BY <3>3 DEF admin_session, Scoped
      <4>2. s \in Setting /\ s.role = AdminRole  BY <1>3, <2>1
      <4> HIDE DEF s, x
      <4>3. SetFor(x, s)  BY <2>3, <4>1, <4>2 DEF SetFor
      <4>4. QED  BY <4>1, <4>2, <4>3
    <3>4. QED  BY <1>4, <3>1, <3>2, <3>3
  <2>5. /\ c \in Conns /\ x.kind \in Kinds /\ (x.kind = "tenant" => x.org \in Orgs)
        /\ \A v \in Units : unit[v].conn = c => v = u
    BY <1>3, <2>1, <2>3
  <2> HIDE DEF x, Setting, Unit
  <2>6. QED  BY <1>1, <2>1, <2>3, <2>4, <2>5
<1>5. ASSUME NEW u \in Units, End(u)  PROVE Separate'
  <2> DEFINE c == unit[u].conn
             s == Ended(settings[c])
  <2>1. /\ c \in Conns /\ settings' = [settings EXCEPT ![c] = s]
        /\ unit' = [unit EXCEPT ![u] = NoUnit]
        /\ \A v \in Units : unit[v].conn = c => v = u
    BY <1>0, <1>3, <1>5 DEF End
  <2>2. s \in Setting /\ Clean(s)  BY DEF Ended, Clean
  <2>3. NoUnit \in Unit  BY DEF NoUnit
  <2> HIDE DEF s, Setting, Unit
  <2>4. QED  BY <1>1, <2>1, <2>2, <2>3
<1>6. CASE UNCHANGED sessionVars
  BY <1>6 DEF sessionVars, Separate, SetFor, Clean
<1>7. QED  BY <1>2, <1>4, <1>5, <1>6 DEF SessionNext

\* What a setting lets a statement touch.
LEMMA WhatSettingsPass ==
    ASSUME NEW s, NEW table \in TenantTables
    PROVE  /\ Clean(s) => MayRead(s, table) = {} /\ MayWrite(s, table) = {}
           /\ s.role = Login /\ s.org \in Orgs =>
                MayRead(s, table) = {s.org} /\ MayWrite(s, table) = {s.org}
           /\ s.role \in {SystemRole, AdminRole} =>
                /\ MayWrite(s, table) = {}
                /\ MayRead(s, table) = IF table \in Readable(s.role) THEN Orgs ELSE {}
<1>1. s.role = Login => table \in Readable(s.role) /\ table \in Writable(s.role)
  BY DEF Readable, Writable, Login, SystemRole, AdminRole
<1>2. s.role = Login => Passing(s) = tenant_isolation(s)
  BY DEF Passing, BypassRls, Login, SystemRole, AdminRole
<1>3. Clean(s) => tenant_isolation(s) = {}  BY DEF Clean, tenant_isolation
<1>4. s.org \in Orgs => tenant_isolation(s) = {s.org}
  BY ScopeAssumption DEF tenant_isolation, Unset, Blank
<1>5. s.role \in {SystemRole, AdminRole} => Passing(s) = Orgs /\ Writable(s.role) = {}
  BY DEF Passing, BypassRls, Writable, Login, SystemRole, AdminRole
<1>6. QED  BY <1>1, <1>2, <1>3, <1>4, <1>5 DEF MayRead, MayWrite, Clean

\* "Isolation is structural": on a connection that other units used before and that a
\* transaction may leave anywhere, each session touches exactly what its scope says.
THEOREM ScopeIsExactHolds == SessionSpec => []ScopeIsExact
<1>1. Separate => ScopeIsExact
  <2> SUFFICES ASSUME Separate, NEW u \in Units, NEW table \in TenantTables
               PROVE  LET s == settings[unit[u].conn]
                          open == unit[u].at = "open"
                          own == IF open THEN {unit[u].org} ELSE {}
                          all == IF open THEN Orgs ELSE {}
                      IN  CASE unit[u].kind = "none" -> TRUE
                            [] unit[u].kind = "plain" ->
                                  MayRead(s, table) = {} /\ MayWrite(s, table) = {}
                            [] unit[u].kind = "tenant" ->
                                  MayRead(s, table) = own /\ MayWrite(s, table) = own
                            [] unit[u].kind = "system" ->
                                  /\ MayWrite(s, table) = {}
                                  /\ MayRead(s, table) =
                                      IF table \in Readable(SystemRole) THEN all ELSE {}
                            [] unit[u].kind = "admin" ->
                                  /\ MayWrite(s, table) = {}
                                  /\ MayRead(s, table) =
                                      IF table \in Readable(AdminRole) THEN all ELSE {}
    BY DEF ScopeIsExact
  <2> DEFINE s == settings[unit[u].conn]
  <2>1. CASE unit[u] = NoUnit  BY <2>1 DEF NoUnit
  <2>2. CASE unit[u] # NoUnit
    <3>1. /\ unit[u].kind \in Kinds /\ unit[u].at \in {"begun", "open"}
          /\ unit[u].kind = "tenant" => unit[u].org \in Orgs
          /\ SetFor(unit[u], s)
      BY <2>2 DEF Separate
    <3> HIDE DEF s
    <3>2. CASE unit[u].at = "begun" \/ unit[u].kind = "plain"
      <4>1. MayRead(s, table) = {} /\ MayWrite(s, table) = {}
        BY <3>1, <3>2, WhatSettingsPass DEF SetFor
      <4>2. QED  BY <3>1, <3>2, <4>1 DEF s, Kinds
    <3>3. CASE unit[u].at = "open" /\ unit[u].kind = "tenant"
      <4>1. s.role = Login /\ s.org = unit[u].org /\ unit[u].org \in Orgs
        BY <3>1, <3>3 DEF SetFor
      <4>2. MayRead(s, table) = {unit[u].org} /\ MayWrite(s, table) = {unit[u].org}
        BY <4>1, WhatSettingsPass
      <4>3. QED  BY <3>3, <4>2 DEF s
    <3>4. CASE unit[u].at = "open" /\ unit[u].kind = "system"
      <4>1. s.role = SystemRole  BY <3>1, <3>4 DEF SetFor
      <4>2. /\ MayWrite(s, table) = {}
            /\ MayRead(s, table) = IF table \in Readable(SystemRole) THEN Orgs ELSE {}
        BY <4>1, WhatSettingsPass
      <4>3. QED  BY <3>4, <4>2 DEF s
    <3>5. CASE unit[u].at = "open" /\ unit[u].kind = "admin"
      <4>1. s.role = AdminRole  BY <3>1, <3>5 DEF SetFor
      <4>2. /\ MayWrite(s, table) = {}
            /\ MayRead(s, table) = IF table \in Readable(AdminRole) THEN Orgs ELSE {}
        BY <4>1, WhatSettingsPass
      <4>3. QED  BY <3>5, <4>2 DEF s
    <3>6. QED  BY <3>1, <3>2, <3>3, <3>4, <3>5 DEF Kinds
  <2>3. QED  BY <2>1, <2>2
<1>2. QED  BY <1>1, SessionInitSeparate, SessionStepSeparate, PTL DEF SessionSpec

-----------------------------------------------------------------------------
(* Projects: types.                                                        *)

Actions == {"project.created", "project.deleted", "sampling.updated", "key.created",
            "key.revoked", "channel.created", "channel.updated", "channel.deleted",
            "issue.assigned", "issue.deleted"}
Entries == [action : Actions, target : Projs \cup Keys \cup Channels \cup Issues,
            data : Rates \cup Users \cup {Nobody, "on", "off"}]

\* What a caller has read is about rows there can be, and a member it found is one still.
Requested ==
    \A a \in Admins :
        LET q == request[a]
        IN  /\ q.op = "create_dsn_key" => q.target \in Keys
            /\ q.op = "create_channel" => q.target \in Channels
            /\ q.op = "update_channel" => /\ q.target \in Channels
                                          /\ q.arg \in {"on", "off", Nobody}
                                          /\ q.seen \in {"on", "off"}
            /\ q.op = "assign_issue" => /\ q.target \in Issues
                                        /\ q.arg \in members \cup {Nobody}
            /\ q.op = "add_comment" => q.target \in Issues /\ q.arg \in members

OrgTyped == OrgTypeOK /\ plan \in Plans /\ audit \in Seq(Entries) /\ Requested

\* What a step of the system is to the organization's rows.
OrgMove == OrgNext \/ UNCHANGED orgVars

LEMMA StepIsOrgMove == [Next]_vars => OrgMove
  BY DEF Next, JobStep, Enqueue, LoadChannels, LoadMembers, Finish, Interrupt, Deliver,
         SendSucceeds, SendRaises, SendBreaks, Raises, vars, OrgMove

LEMMA InitOrgTyped == OrgInit => OrgTyped
<1> SUFFICES ASSUME OrgInit  PROVE OrgTyped  OBVIOUS
<1>1. /\ project \in [Projs -> {"new", "live", "gone"}]
      /\ sampling \in [Projs -> Rates]
      /\ key \in [Keys -> {"new", "active", "revoked", "gone"}]
      /\ channel \in [Channels -> {"new", "on", "off", "gone"}]
      /\ issue \in [Issues -> {"new", "live", "gone"}]
      /\ assignee \in [Issues -> Users \cup {Nobody}]
  BY ProjectsAssumption DEF OrgInit
<1>2. /\ comments \subseteq [issue : Issues, author : Users]
      /\ members \subseteq Users /\ DOMAIN request = Admins
  BY DEF OrgInit
<1>3. plan \in Plans /\ plan.audit \in Nat  BY ProjectsAssumption DEF OrgInit
<1>4. audit \in Seq(Entries) /\ Len(audit) = 0  BY DEF OrgInit
<1>5. Requested  BY DEF OrgInit, Idle, Requested
<1>6. QED  BY <1>1, <1>2, <1>3, <1>4, <1>5 DEF OrgTyped, OrgTypeOK

\* The three things a step does to the requests.
LEMMA ReadRequested ==
    ASSUME OrgTyped, NEW a \in Admins, NEW op, NEW target, NEW arg, NEW seen,
           Read(a, op, target, arg, seen),
           op \in {"create_dsn_key", "create_channel", "update_channel", "assign_issue",
                   "add_comment"},
           op = "create_dsn_key" => target \in Keys,
           op = "create_channel" => target \in Channels,
           op = "update_channel" => /\ target \in Channels
                                    /\ arg \in {"on", "off", Nobody}
                                    /\ seen \in {"on", "off"},
           op = "assign_issue" => target \in Issues /\ arg \in members \cup {Nobody},
           op = "add_comment" => target \in Issues /\ arg \in members
    PROVE  OrgTyped'
<1>1. /\ UNCHANGED <<tables, audit, plan>> /\ members' = members
      /\ request' = [request EXCEPT ![a] =
            [op |-> op, target |-> target, arg |-> arg, seen |-> seen]]
  BY DEF Read, tables
<1>2. DOMAIN request = Admins  BY DEF OrgTyped, OrgTypeOK
<1>3. DOMAIN request' = Admins  BY <1>1, <1>2
<1>4. /\ request'[a] = [op |-> op, target |-> target, arg |-> arg, seen |-> seen]
      /\ \A b \in Admins : b # a => request'[b] = request[b]
  BY <1>1, <1>2
<1>5. Requested'  BY <1>1, <1>4 DEF OrgTyped, Requested
<1>6. QED  BY <1>1, <1>3, <1>5 DEF OrgTyped, OrgTypeOK, tables

LEMMA ReplyRequested ==
    ASSUME OrgTyped, NEW a \in Admins, Reply(a), members' = members
    PROVE  Requested' /\ DOMAIN request' = Admins
<1>1. DOMAIN request = Admins  BY DEF OrgTyped, OrgTypeOK
<1>2. /\ request'[a] = Idle /\ \A b \in Admins : b # a => request'[b] = request[b]
      /\ DOMAIN request' = Admins
  BY <1>1 DEF Reply
<1>3. QED  BY <1>2 DEF OrgTyped, Requested, Idle

\* An entry is added within the bound.
LEMMA RecordTyped ==
    ASSUME OrgTyped, NEW action \in Actions,
           NEW target \in Projs \cup Keys \cup Channels \cup Issues,
           NEW data \in Rates \cup Users \cup {Nobody, "on", "off"},
           Record(action, target, data)
    PROVE  plan' \in Plans /\ audit' \in Seq(Entries) /\ Len(audit') <= plan'.audit
<1> DEFINE e == [action |-> action, target |-> target, data |-> data]
<1>1. e \in Entries  BY DEF Entries
<1>2. /\ audit' = Append(audit, e) /\ plan' = plan /\ Len(audit) < plan.audit
      /\ audit \in Seq(Entries) /\ plan.audit \in Nat
  BY ProjectsAssumption DEF Record, OrgTyped
<1> HIDE DEF e
<1>3. QED  BY <1>1, <1>2 DEF OrgTyped

LEMMA StepOrgTyped ==
    ASSUME OrgTyped, OrgMove
    PROVE  OrgTyped'
<1> USE DEF OrgTyped, OrgTypeOK
<1>0. plan.callers \subseteq Admins  BY ProjectsAssumption
<1>1. ASSUME NEW p \in Projs, create_project(p)  PROVE OrgTyped'
  <2>1. plan' \in Plans /\ audit' \in Seq(Entries) /\ Len(audit') <= plan'.audit
    BY <1>1, RecordTyped DEF create_project, Actions
  <2>2. QED  BY <1>1, <2>1 DEF create_project, Requested
<1>2. ASSUME NEW p \in Projs, NEW rate \in Rates, update_project_sampling(p, rate)
      PROVE  OrgTyped'
  <2>1. plan' \in Plans /\ audit' \in Seq(Entries) /\ Len(audit') <= plan'.audit
    BY <1>2, RecordTyped DEF update_project_sampling, Actions
  <2>2. QED  BY <1>2, <2>1 DEF update_project_sampling, Requested
<1>3. ASSUME NEW p \in Projs, delete_project(p)  PROVE OrgTyped'
  <2>1. plan' \in Plans /\ audit' \in Seq(Entries) /\ Len(audit') <= plan'.audit
    BY <1>3, RecordTyped DEF delete_project, Actions
  <2>2. /\ key' \in [Keys -> {"new", "active", "revoked", "gone"}]
        /\ channel' \in [Channels -> {"new", "on", "off", "gone"}]
        /\ issue' \in [Issues -> {"new", "live", "gone"}]
        /\ comments' \subseteq comments
    BY <1>3 DEF delete_project, Cascade
  <2>3. QED  BY <1>3, <2>1, <2>2 DEF delete_project, Requested
<1>4. ASSUME NEW a \in Admins, NEW k \in Keys, CheckKey(a, k)  PROVE OrgTyped'
  BY <1>4, ReadRequested DEF CheckKey
<1>5. ASSUME NEW a \in Admins, InsertKey(a)  PROVE OrgTyped'
  <2> DEFINE k == request[a].target
  <2>1. k \in Keys  BY <1>5 DEF InsertKey, Requested
  <2>2. plan' \in Plans /\ audit' \in Seq(Entries) /\ Len(audit') <= plan'.audit
    BY <1>5, <2>1, RecordTyped DEF InsertKey, Actions
  <2>3. Requested' /\ DOMAIN request' = Admins  BY <1>5, ReplyRequested DEF InsertKey
  <2>4. QED  BY <1>5, <2>1, <2>2, <2>3 DEF InsertKey
<1>6. ASSUME NEW k \in Keys, revoke_dsn_key(k)  PROVE OrgTyped'
  <2>1. plan' \in Plans /\ audit' \in Seq(Entries) /\ Len(audit') <= plan'.audit
    BY <1>6, RecordTyped DEF revoke_dsn_key, Actions
  <2>2. QED  BY <1>6, <2>1 DEF revoke_dsn_key, Requested
<1>7. ASSUME NEW a \in Admins, NEW c \in Channels, CheckChannel(a, c)  PROVE OrgTyped'
  BY <1>7, ReadRequested DEF CheckChannel
<1>8. ASSUME NEW a \in Admins, InsertChannel(a)  PROVE OrgTyped'
  <2> DEFINE c == request[a].target
  <2>1. c \in Channels  BY <1>8 DEF InsertChannel, Requested
  <2>2. plan' \in Plans /\ audit' \in Seq(Entries) /\ Len(audit') <= plan'.audit
    BY <1>8, <2>1, RecordTyped DEF InsertChannel, Actions
  <2>3. Requested' /\ DOMAIN request' = Admins  BY <1>8, ReplyRequested DEF InsertChannel
  <2>4. QED  BY <1>8, <2>1, <2>2, <2>3 DEF InsertChannel
<1>9. ASSUME NEW a \in Admins, NEW c \in Channels, NEW e \in {"on", "off", Nobody},
             ReadChannel(a, c, e)
      PROVE  OrgTyped'
  <2>1. channel[c] \in {"on", "off"}  BY <1>9 DEF ReadChannel, Exists
  <2>2. QED  BY <1>9, <2>1, ReadRequested DEF ReadChannel
<1>10. ASSUME NEW a \in Admins, WriteChannel(a)  PROVE OrgTyped'
  <2> DEFINE c == request[a].target
  <2>1. c \in Channels /\ request[a].arg \in {"on", "off", Nobody}
    BY <1>10 DEF WriteChannel, Requested
  <2>2. plan' \in Plans /\ audit' \in Seq(Entries) /\ Len(audit') <= plan'.audit
    BY <1>10, <2>1, RecordTyped DEF WriteChannel, Actions
  <2>3. Requested' /\ DOMAIN request' = Admins  BY <1>10, ReplyRequested DEF WriteChannel
  <2>4. channel' \in [Channels -> {"new", "on", "off", "gone"}]
    BY <1>10, <2>1 DEF WriteChannel, Assigned
  <2>5. QED  BY <1>10, <2>2, <2>3, <2>4 DEF WriteChannel
<1>11. ASSUME NEW c \in Channels, delete_channel(c)  PROVE OrgTyped'
  <2>1. plan' \in Plans /\ audit' \in Seq(Entries) /\ Len(audit') <= plan'.audit
    BY <1>11, RecordTyped DEF delete_channel, Actions
  <2>2. QED  BY <1>11, <2>1 DEF delete_channel, Requested
<1>12. ASSUME NEW i \in Issues, StoreIssue(i)  PROVE OrgTyped'
  BY <1>12 DEF StoreIssue, Requested
<1>13. ASSUME NEW u \in Users, Join(u)  PROVE OrgTyped'
  <2>1. Requested'  BY <1>13 DEF Join, Requested
  <2>2. QED  BY <1>13, <2>1 DEF Join
<1>14. ASSUME NEW a \in Admins, NEW i \in Issues, NEW u \in Users \cup {Nobody},
              CheckAssignee(a, i, u)
       PROVE  OrgTyped'
  BY <1>14, ReadRequested DEF CheckAssignee
<1>15. ASSUME NEW a \in Admins, WriteAssignee(a)  PROVE OrgTyped'
  <2>1. request[a].target \in Issues /\ request[a].arg \in Users \cup {Nobody}
    BY <1>15 DEF WriteAssignee, Requested
  <2>2. plan' \in Plans /\ audit' \in Seq(Entries) /\ Len(audit') <= plan'.audit
    BY <1>15, <2>1, RecordTyped DEF WriteAssignee, Actions
  <2>3. Requested' /\ DOMAIN request' = Admins  BY <1>15, ReplyRequested DEF WriteAssignee
  <2>4. assignee' \in [Issues -> Users \cup {Nobody}]  BY <1>15, <2>1 DEF WriteAssignee
  <2>5. QED  BY <1>15, <2>2, <2>3, <2>4 DEF WriteAssignee
<1>16. ASSUME NEW a \in Admins, NEW i \in Issues, NEW u \in Users, CheckIssue(a, i, u)
       PROVE  OrgTyped'
  BY <1>16, ReadRequested DEF CheckIssue
<1>17. ASSUME NEW a \in Admins, InsertComment(a)  PROVE OrgTyped'
  <2>1. request[a].target \in Issues /\ request[a].arg \in Users
    BY <1>17 DEF InsertComment, Requested
  <2>2. Requested' /\ DOMAIN request' = Admins  BY <1>17, ReplyRequested DEF InsertComment
  <2>3. comments' \subseteq [issue : Issues, author : Users]
    BY <1>17, <2>1 DEF InsertComment
  <2>4. QED  BY <1>17, <2>2, <2>3 DEF InsertComment
<1>18. ASSUME NEW i \in Issues, delete_issue(i)  PROVE OrgTyped'
  <2>1. plan' \in Plans /\ audit' \in Seq(Entries) /\ Len(audit') <= plan'.audit
    BY <1>18, RecordTyped DEF delete_issue, Actions
  <2>2. comments' \subseteq comments  BY <1>18 DEF delete_issue
  <2>3. QED  BY <1>18, <2>1, <2>2 DEF delete_issue, Requested
<1>19. ASSUME NEW a \in Admins, Abandon(a)  PROVE OrgTyped'
  <2>1. UNCHANGED <<tables, audit, plan>>  BY <1>19 DEF Abandon
  <2>2. members' = members  BY <2>1 DEF tables
  <2>3. Requested' /\ DOMAIN request' = Admins  BY <1>19, <2>2, ReplyRequested DEF Abandon
  <2>4. QED  BY <2>1, <2>3 DEF tables
<1>20. CASE UNCHANGED orgVars  BY <1>20 DEF orgVars, tables, Requested
<1>21. QED
  BY <1>0, <1>1, <1>2, <1>3, <1>4, <1>5, <1>6, <1>7, <1>8, <1>9, <1>10, <1>11, <1>12, <1>13,
     <1>14, <1>15, <1>16, <1>17, <1>18, <1>19, <1>20
     DEF OrgMove, OrgNext, ProjectStep, RequestStep

-----------------------------------------------------------------------------
(* Projects: nothing dangles.                                              *)

LEMMA StepKeepsTies ==
    ASSUME OrgTyped, NothingDangles, OrgMove
    PROVE  NothingDangles'
<1>0. /\ plan.callers \subseteq Admins
      /\ \A k \in Keys : KeyProject[k] \in Projs
      /\ \A i \in Issues : IssueProject[i] \in Projs
  BY ProjectsAssumption DEF OrgTyped
<1>t. /\ project \in [Projs -> {"new", "live", "gone"}]
      /\ key \in [Keys -> {"new", "active", "revoked", "gone"}]
      /\ channel \in [Channels -> {"new", "on", "off", "gone"}]
      /\ issue \in [Issues -> {"new", "live", "gone"}]
      /\ assignee \in [Issues -> Users \cup {Nobody}]
      /\ comments \subseteq [issue : Issues, author : Users]
  BY DEF OrgTyped, OrgTypeOK
<1>1. CASE UNCHANGED <<project, key, channel, issue, assignee, comments>>
           /\ members \subseteq members'
  BY <1>1 DEF NothingDangles, Exists, InScope
<1>2. ASSUME NEW p \in Projs, create_project(p)  PROVE NothingDangles'
  <2>1. /\ UNCHANGED <<key, channel, issue, assignee, comments, members>>
        /\ \A q \in Projs : project[q] = "live" => project'[q] = "live"
    BY <1>t, <1>2 DEF create_project
  <2>2. QED  BY <1>0, <2>1 DEF NothingDangles, Exists, InScope
<1>3. ASSUME NEW p \in Projs, delete_project(p)  PROVE NothingDangles'
  <2>1. /\ UNCHANGED <<assignee, members>>
        /\ \A q \in Projs : q # p => project'[q] = project[q]
        /\ \A k \in Keys : key'[k] = IF KeyProject[k] = p /\ key[k] # "new" THEN "gone"
                                     ELSE key[k]
        /\ \A c \in Channels : channel'[c] = IF Scope[c] = p /\ channel[c] # "new" THEN "gone"
                                             ELSE channel[c]
        /\ \A i \in Issues : issue'[i] = IF IssueProject[i] = p /\ issue[i] # "new" THEN "gone"
                                         ELSE issue[i]
        /\ comments' = {m \in comments : IssueProject[m.issue] # p}
    BY <1>t, <1>3 DEF delete_project, Cascade
  <2>2. \A k \in Keys : key'[k] \in {"active", "revoked"} => project'[KeyProject[k]] = "live"
    BY <1>0, <1>t, <2>1 DEF NothingDangles
  <2>3. \A c \in Channels : Exists(c)' => InScope(c)'
    BY <1>t, <2>1 DEF NothingDangles, Exists, InScope
  <2>4. \A i \in Issues : issue'[i] = "live" => project'[IssueProject[i]] = "live"
    BY <1>0, <1>t, <2>1 DEF NothingDangles
  <2>5. \A m \in comments' : issue'[m.issue] = "live"
    BY <1>t, <2>1 DEF NothingDangles
  <2>6. QED  BY <2>1, <2>2, <2>3, <2>4, <2>5 DEF NothingDangles
<1>4. ASSUME NEW a \in Admins, InsertKey(a)  PROVE NothingDangles'
  <2> DEFINE k == request[a].target
  <2>1. k \in Keys /\ project[KeyProject[k]] = "live" /\ key' = [key EXCEPT ![k] = "active"]
        /\ UNCHANGED <<project, channel, issue, assignee, comments, members>>
    BY <1>4 DEF InsertKey, OrgTyped, Requested
  <2> HIDE DEF k
  <2>2. QED  BY <1>t, <2>1 DEF NothingDangles, Exists, InScope
<1>5. ASSUME NEW k \in Keys, revoke_dsn_key(k)  PROVE NothingDangles'
  BY <1>t, <1>5 DEF revoke_dsn_key, NothingDangles, Exists, InScope
<1>6. ASSUME NEW a \in Admins, InsertChannel(a)  PROVE NothingDangles'
  <2> DEFINE c == request[a].target
  <2>1. c \in Channels /\ InScope(c) /\ channel' = [channel EXCEPT ![c] = "on"]
        /\ UNCHANGED <<project, key, issue, assignee, comments, members>>
    BY <1>6 DEF InsertChannel, OrgTyped, Requested
  <2> HIDE DEF c
  <2>2. QED  BY <1>t, <2>1 DEF NothingDangles, Exists, InScope
<1>7. ASSUME NEW a \in Admins, WriteChannel(a)  PROVE NothingDangles'
  <2> DEFINE c == request[a].target
  <2>1. c \in Channels /\ Exists(c) /\ UNCHANGED <<project, key, issue, assignee, comments, members>>
        /\ \A d \in Channels : d # c => channel'[d] = channel[d]
    BY <1>t, <1>7 DEF WriteChannel, OrgTyped, Requested
  <2> HIDE DEF c
  <2>2. QED  BY <2>1 DEF NothingDangles, Exists, InScope
<1>8. ASSUME NEW c \in Channels, delete_channel(c)  PROVE NothingDangles'
  BY <1>t, <1>8 DEF delete_channel, NothingDangles, Exists, InScope
<1>9. ASSUME NEW i \in Issues, StoreIssue(i)  PROVE NothingDangles'
  <2>1. /\ UNCHANGED <<project, key, channel, assignee, comments, members>>
        /\ project[IssueProject[i]] = "live" /\ issue[i] = "new" /\ issue'[i] = "live"
        /\ \A j \in Issues : j # i => issue'[j] = issue[j]
    BY <1>t, <1>9 DEF StoreIssue
  <2>2. QED  BY <1>t, <2>1 DEF NothingDangles, Exists, InScope
<1>10. ASSUME NEW a \in Admins, WriteAssignee(a)  PROVE NothingDangles'
  <2>1. /\ request[a].target \in Issues /\ request[a].arg \in members \cup {Nobody}
        /\ UNCHANGED <<project, key, channel, issue, comments, members>>
        /\ assignee' = [assignee EXCEPT ![request[a].target] = request[a].arg]
    BY <1>10 DEF WriteAssignee, OrgTyped, Requested
  <2>2. \A i \in Issues : assignee'[i] \in members \cup {Nobody}
    BY <1>t, <2>1 DEF NothingDangles
  <2>3. QED  BY <2>1, <2>2 DEF NothingDangles, Exists, InScope
<1>11. ASSUME NEW a \in Admins, InsertComment(a)  PROVE NothingDangles'
  <2>1. /\ issue[request[a].target] = "live"
        /\ UNCHANGED <<project, key, channel, issue, assignee, members>>
        /\ comments' = comments \cup {[issue |-> request[a].target, author |-> request[a].arg]}
    BY <1>11 DEF InsertComment
  <2>2. \A m \in comments' : issue[m.issue] = "live"  BY <2>1 DEF NothingDangles
  <2>3. QED  BY <2>1, <2>2 DEF NothingDangles, Exists, InScope
<1>12. ASSUME NEW i \in Issues, delete_issue(i)  PROVE NothingDangles'
  <2>1. /\ UNCHANGED <<project, key, channel, assignee, members>>
        /\ comments' = {m \in comments : m.issue # i}
        /\ issue'[i] = "gone" /\ \A j \in Issues : j # i => issue'[j] = issue[j]
    BY <1>t, <1>12 DEF delete_issue
  <2>2. \A m \in comments' : issue'[m.issue] = "live"
    BY <1>t, <2>1 DEF NothingDangles
  <2>3. QED  BY <2>1, <2>2 DEF NothingDangles, Exists, InScope
<1>13. ASSUME NEW a \in Admins,
              \/ \E k \in Keys : CheckKey(a, k)
              \/ \E c \in Channels : CheckChannel(a, c) \/ \E e \in {"on", "off", Nobody} : ReadChannel(a, c, e)
              \/ \E i \in Issues, u \in Users \cup {Nobody} : CheckAssignee(a, i, u)
              \/ \E i \in Issues, u \in Users : CheckIssue(a, i, u)
              \/ Abandon(a)
       PROVE  NothingDangles'
  <2>1. UNCHANGED tables
    BY <1>13 DEF CheckKey, CheckChannel, ReadChannel, CheckAssignee, CheckIssue, Abandon, Read
  <2>2. QED  BY <1>1, <2>1 DEF tables
<1>14. ASSUME NEW u \in Users, Join(u)  PROVE NothingDangles'
  BY <1>1, <1>14 DEF Join
<1>15. ASSUME NEW p \in Projs, NEW rate \in Rates, update_project_sampling(p, rate)
       PROVE  NothingDangles'
  BY <1>1, <1>15 DEF update_project_sampling
<1>16. CASE UNCHANGED orgVars  BY <1>1, <1>16 DEF orgVars, tables
<1>17. QED
  BY <1>0, <1>2, <1>3, <1>4, <1>5, <1>6, <1>7, <1>8, <1>9, <1>10, <1>11, <1>12, <1>13, <1>14,
     <1>15, <1>16
     DEF OrgMove, OrgNext, ProjectStep, RequestStep

\* Rows never outlive what they belong to and no outsider is assigned, though checks and
\* writes are separate statements and projects, channels and issues are deleted between.
THEOREM NothingDanglesHolds == Spec => []NothingDangles
<1>1. Init => OrgTyped /\ NothingDangles
  <2> SUFFICES ASSUME Init  PROVE OrgTyped /\ NothingDangles  OBVIOUS
  <2>1. OrgTyped  BY InitOrgTyped DEF Init
  <2>2. NothingDangles  BY DEF Init, OrgInit, NothingDangles, Exists
  <2>3. QED  BY <2>1, <2>2
<1>2. OrgTyped /\ NothingDangles /\ [Next]_vars => (OrgTyped /\ NothingDangles)'
  BY StepIsOrgMove, StepOrgTyped, StepKeepsTies
<1>3. QED  BY <1>1, <1>2, PTL DEF Spec

-----------------------------------------------------------------------------
(* Projects: the audit log.                                                *)

\* The last of some positions, as LastAbout and Switched choose it.
Last(S) == CHOOSE n \in S : \A k \in S : k <= n

\* A set of positions in a sequence has a last one.
LEMMA LastPosition ==
    ASSUME NEW n \in Nat, NEW S, S \subseteq 1..n, S # {}
    PROVE  Last(S) \in S
<1> DEFINE back == {n - x : x \in S}
           Less == OpToRel(<, Nat)
<1>1. \A x \in S : x \in Nat /\ x <= n  OBVIOUS
<1>2. \A x \in S : n - x \in Nat  BY <1>1
<1>3. back \subseteq Nat  BY <1>2
<1>4. back # {}  OBVIOUS
<1>5. PICK b \in back : \A c \in back : ~ (<<c, b>> \in Less)
  <2>1. IsWellFoundedOn(Less, Nat)  BY NatLessThanWellFounded
  <2> HIDE DEF back, Less
  <2>2. QED  BY <1>3, <1>4, <2>1, WFMin
<1>6. PICK x \in S : b = n - x  BY <1>5
<1>7. ASSUME NEW y \in S  PROVE y <= x
  <2>1. n - y \in back  OBVIOUS
  <2>2. ~ (n - y < b)
    <3>1. ~ (<<n - y, b>> \in Less)  BY <1>5, <2>1
    <3>2. n - y \in Nat /\ b \in Nat  BY <1>2, <1>6
    <3>3. QED  BY <3>1, <3>2 DEF OpToRel
  <2>3. QED  BY <1>1, <1>6, <2>2
<1>8. QED  BY <1>7 DEF Last

\* A position behind all others is the last.
LEMMA LastAppended ==
    ASSUME NEW n \in Nat, NEW S, S \subseteq 1..n
    PROVE  Last(S \cup {n + 1}) = n + 1
<1> DEFINE T == S \cup {n + 1}
<1>1. \A k \in T : k \in Nat /\ k <= n + 1  OBVIOUS
<1>2. n + 1 \in T  OBVIOUS
<1> HIDE DEF T
<1>3. \A m \in T : (\A k \in T : k <= m) => m = n + 1  BY <1>1, <1>2
<1>4. Last(T) = n + 1  BY <1>1, <1>2, <1>3 DEF Last
<1>5. QED  BY <1>4 DEF T

Logged(target, action) == About(target, {action}) # {}
Told(target, action, default) == LastAbout(target, {action}, default)

Repeated == {"sampling.updated", "channel.updated", "issue.assigned"}

\* What one more entry changes in what the log says.
Recorded(action, target, data) ==
    /\ \A t, x : Logged(t, x)' <=> Logged(t, x) \/ (t = target /\ x = action)
    /\ \A t, x, d : Told(t, x, d)' =
         IF t = target /\ x = action THEN data ELSE Told(t, x, d)
    /\ \A t : Switched(t)' =
         IF t = target /\ action = "channel.updated" /\ data # Nobody THEN data
         ELSE Switched(t)
    /\ RecordedOnce /\ (action \in Repeated \/ ~Logged(target, action)) => RecordedOnce'

LEMMA LogStep ==
    ASSUME OrgTyped, NEW action \in Actions,
           NEW target \in Projs \cup Keys \cup Channels \cup Issues,
           NEW data \in Rates \cup Users \cup {Nobody, "on", "off"},
           Record(action, target, data)
    PROVE  Recorded(action, target, data)
<1> DEFINE e == [action |-> action, target |-> target, data |-> data]
           last == Len(audit) + 1
<1>1. e \in Entries /\ audit \in Seq(Entries) /\ audit' = Append(audit, e)
  BY DEF Record, OrgTyped, Entries
<1>2. e.action = action /\ e.target = target /\ e.data = data  OBVIOUS
<1> HIDE DEF e
<1>3. /\ Len(audit) \in Nat /\ DOMAIN audit = 1..Len(audit) /\ DOMAIN audit' = 1..last
      /\ audit'[last] = e /\ \A n \in 1..Len(audit) : audit'[n] = audit[n]
      /\ DOMAIN audit' = DOMAIN audit \cup {last} /\ last \notin DOMAIN audit
  BY <1>1
<1>4. ASSUME NEW t, NEW x
      PROVE  About(t, {x})' = IF t = target /\ x = action THEN About(t, {x}) \cup {last}
                              ELSE About(t, {x})
  BY <1>2, <1>3 DEF About
<1>5. \A t, x : About(t, {x}) \subseteq 1..Len(audit)  BY <1>3 DEF About
<1>6. ASSUME NEW t, NEW x  PROVE Logged(t, x)' <=> Logged(t, x) \/ (t = target /\ x = action)
  BY <1>4 DEF Logged
<1>7. ASSUME NEW t, NEW x, NEW d
      PROVE  LastAbout(t, {x}, d)' = IF t = target /\ x = action THEN data
                                     ELSE LastAbout(t, {x}, d)
  <2> DEFINE S == About(t, {x})
             T == S \cup {last}
  <2>1. S \subseteq 1..Len(audit)  BY <1>5
  <2>2. LastAbout(t, {x}, d)' = IF About(t, {x})' = {} THEN d
                                ELSE audit'[Last(About(t, {x})')].data
    BY DEF LastAbout, Last
  <2>3. LastAbout(t, {x}, d) = IF S = {} THEN d ELSE audit[Last(S)].data
    BY DEF LastAbout, Last
  <2> HIDE DEF S
  <2>4. CASE t = target /\ x = action
    <3>1. About(t, {x})' = T /\ T # {}  BY <1>4, <2>4 DEF S
    <3>2. Last(T) = last  BY <1>3, <2>1, LastAppended
    <3> HIDE DEF T
    <3>3. QED  BY <1>2, <1>3, <2>2, <2>4, <3>1, <3>2
  <2>5. CASE ~ (t = target /\ x = action)
    <3>1. About(t, {x})' = S  BY <1>4, <2>5 DEF S
    <3>2. S # {} => Last(S) \in S  BY <1>3, <2>1, LastPosition
    <3>3. S # {} => audit'[Last(S)] = audit[Last(S)]  BY <1>3, <2>1, <3>2
    <3>4. QED  BY <2>2, <2>3, <2>5, <3>1, <3>3
  <2>6. QED  BY <2>4, <2>5
<1>8. ASSUME NEW t
      PROVE  Switched(t)' = IF t = target /\ action = "channel.updated" /\ data # Nobody
                            THEN data ELSE Switched(t)
  <2> DEFINE A == About(t, {"channel.updated"})
             S == {n \in A : audit[n].data # Nobody}
             B == About(t, {"channel.updated"})'
             new == {n \in B : audit'[n].data # Nobody}
             T == S \cup {last}
  <2>1. A \subseteq 1..Len(audit)  BY <1>5
  <2>2. Switched(t)' = IF new = {} THEN "on" ELSE audit'[Last(new)].data
    BY DEF Switched, Last
  <2>3. Switched(t) = IF S = {} THEN "on" ELSE audit[Last(S)].data
    BY DEF Switched, Last
  <2>4. B = IF t = target /\ "channel.updated" = action THEN A \cup {last} ELSE A  BY <1>4
  <2> HIDE DEF A, B
  <2>5. new = IF t = target /\ action = "channel.updated" /\ data # Nobody THEN T ELSE S
    <3>1. \A n \in A : audit'[n] = audit[n]  BY <1>3, <2>1
    <3>2. CASE t = target /\ action = "channel.updated"
      <4>1. B = A \cup {last}  BY <2>4, <3>2
      <4>2. QED  BY <1>2, <1>3, <3>1, <3>2, <4>1
    <3>3. CASE ~ (t = target /\ action = "channel.updated")
      <4>1. B = A  BY <2>4, <3>3
      <4>2. QED  BY <3>1, <3>3, <4>1
    <3>4. QED  BY <3>2, <3>3
  <2>6. S \subseteq 1..Len(audit)  BY <2>1
  <2> HIDE DEF new, S
  <2>7. Last(T) = last /\ T # {}  BY <1>3, <2>6, LastAppended
  <2>8. S # {} => Last(S) \in S  BY <1>3, <2>6, LastPosition
  <2>9. S # {} => audit'[Last(S)] = audit[Last(S)]  BY <1>3, <2>6, <2>8
  <2> HIDE DEF T
  <2>10. QED  BY <1>2, <1>3, <2>2, <2>3, <2>5, <2>7, <2>9
<1>9. ASSUME RecordedOnce, action \in Repeated \/ ~Logged(target, action)  PROVE RecordedOnce'
  <2>1. ASSUME ~Logged(target, action), NEW n \in DOMAIN audit
        PROVE  ~ (audit[n].action = action /\ audit[n].target = target)
    BY <2>1 DEF Logged, About
  <2>2. QED  BY <1>2, <1>3, <1>9, <2>1 DEF RecordedOnce, Repeated
<1>10. QED  BY <1>6, <1>7, <1>8, <1>9 DEF Recorded, Told

\* The log agrees with the rows of each table, those that are gone included.
ProjectsAgree ==
    \A p \in Projs :
        /\ (project[p] # "new") <=> Logged(p, "project.created")
        /\ (project[p] = "gone") <=> Logged(p, "project.deleted")
        /\ sampling[p] = Told(p, "sampling.updated", FullRate)
KeysAgree ==
    \A k \in Keys :
        /\ (key[k] # "new") <=> Logged(k, "key.created")
        /\ key[k] = "revoked" => Logged(k, "key.revoked")
        /\ key[k] \in {"new", "active"} => ~Logged(k, "key.revoked")
        /\ key[k] = "gone" => project[KeyProject[k]] = "gone"
ChannelsAgree ==
    \A c \in Channels :
        /\ (channel[c] # "new") <=> Logged(c, "channel.created")
        /\ Logged(c, "channel.deleted") => channel[c] = "gone"
        /\ channel[c] = "gone" => \/ Logged(c, "channel.deleted")
                                  \/ Scope[c] \in Projs /\ project[Scope[c]] = "gone"
        /\ channel[c] # "gone" => Switched(c) = IF channel[c] = "off" THEN "off" ELSE "on"
IssuesAgree ==
    \A i \in Issues :
        /\ assignee[i] = Told(i, "issue.assigned", Nobody)
        /\ Logged(i, "issue.deleted") => issue[i] = "gone"

\* An id about to be inserted is still new and nobody else is about to insert it.
Claims(a, op, ids, rows) ==
    /\ request[a].op = op => request[a].target \in ids /\ rows[request[a].target] = "new"
    /\ \A b \in Admins : a # b /\ request[a].op = op /\ request[b].op = op
                         => request[a].target # request[b].target
Claimed ==
    \A a \in Admins : /\ Claims(a, "create_dsn_key", Keys, key)
                      /\ Claims(a, "create_channel", Channels, channel)

LogAgrees ==
    ProjectsAgree /\ KeysAgree /\ ChannelsAgree /\ IssuesAgree /\ Claimed /\ RecordedOnce

\* A step that records nothing.
LEMMA LogStays ==
    ASSUME ProjectsAgree, KeysAgree, ChannelsAgree, IssuesAgree, RecordedOnce, audit' = audit,
           UNCHANGED <<project, sampling, key, channel, assignee>>,
           \A i \in Issues : issue[i] = "gone" => issue'[i] = "gone"
    PROVE  (ProjectsAgree /\ KeysAgree /\ ChannelsAgree /\ IssuesAgree /\ RecordedOnce)'
<1>1. \A t, x : Logged(t, x)' <=> Logged(t, x)  BY DEF Logged, About
<1>2. \A t, x, d : Told(t, x, d)' = Told(t, x, d)  BY DEF Told, LastAbout, About
<1>3. \A t : Switched(t)' = Switched(t)  BY DEF Switched, About
<1>4. ProjectsAgree'  BY <1>1, <1>2 DEF ProjectsAgree
<1>5. KeysAgree'  BY <1>1 DEF KeysAgree
<1>6. ChannelsAgree'  BY <1>1, <1>3 DEF ChannelsAgree
<1>7. IssuesAgree'  BY <1>1, <1>2 DEF IssuesAgree
<1>8. RecordedOnce'  BY DEF RecordedOnce
<1>9. QED  BY <1>4, <1>5, <1>6, <1>7, <1>8

\* A request that starts or ends without inserting.
LEMMA ClaimsStay ==
    ASSUME Claimed, NEW a \in Admins, NEW r, DOMAIN request = Admins,
           request' = [request EXCEPT ![a] = r], UNCHANGED <<key, channel>>,
           \/ r.op \notin {"create_dsn_key", "create_channel"}
           \/ /\ \A b \in Admins : request[b].target # r.target
              /\ r.op = "create_dsn_key" => r.target \in Keys /\ key[r.target] = "new"
              /\ r.op = "create_channel" => r.target \in Channels /\ channel[r.target] = "new"
    PROVE  Claimed'
<1>1. request'[a] = r /\ \A b \in Admins : b # a => request'[b] = request[b]  OBVIOUS
<1>2. QED  BY <1>1 DEF Claimed, Claims

\* Each change of a row and its entry, and each change without an entry.
LEMMA StepLogAgrees ==
    ASSUME OrgTyped, LogAgrees, OrgMove
    PROVE  LogAgrees'
<1>0. /\ plan.callers \subseteq Admins /\ DOMAIN request = Admins
      /\ \A k \in Keys : KeyProject[k] \in Projs
  BY ProjectsAssumption DEF OrgTyped, OrgTypeOK
<1>t. /\ project \in [Projs -> {"new", "live", "gone"}]
      /\ sampling \in [Projs -> Rates]
      /\ key \in [Keys -> {"new", "active", "revoked", "gone"}]
      /\ channel \in [Channels -> {"new", "on", "off", "gone"}]
      /\ issue \in [Issues -> {"new", "live", "gone"}]
      /\ assignee \in [Issues -> Users \cup {Nobody}]
  BY DEF OrgTyped, OrgTypeOK
<1>a. /\ ProjectsAgree /\ KeysAgree /\ ChannelsAgree /\ IssuesAgree /\ Claimed /\ RecordedOnce
  BY DEF LogAgrees
<1>1. ASSUME NEW p \in Projs, create_project(p)  PROVE LogAgrees'
  <2>1. Recorded("project.created", p, Nobody)  BY <1>1, LogStep DEF create_project, Actions
  <2>2. /\ project[p] = "new" /\ project'[p] = "live"
        /\ \A q \in Projs : q # p => project'[q] = project[q]
        /\ UNCHANGED <<sampling, key, channel, issue, assignee, request>>
    BY <1>t, <1>1 DEF create_project
  <2>3. ProjectsAgree'  BY <1>a, <2>1, <2>2 DEF Recorded, ProjectsAgree
  <2>4. KeysAgree'  BY <1>0, <1>a, <2>1, <2>2 DEF Recorded, KeysAgree
  <2>5. ChannelsAgree'  BY <1>a, <2>1, <2>2 DEF Recorded, ChannelsAgree
  <2>6. IssuesAgree'  BY <1>a, <2>1, <2>2 DEF Recorded, IssuesAgree
  <2>7. Claimed'  BY <1>a, <2>2 DEF Claimed, Claims
  <2>8. RecordedOnce'  BY <1>a, <2>1, <2>2 DEF Recorded, ProjectsAgree
  <2>9. QED  BY <2>3, <2>4, <2>5, <2>6, <2>7, <2>8 DEF LogAgrees
<1>2. ASSUME NEW p \in Projs, NEW rate \in Rates, update_project_sampling(p, rate)
      PROVE  LogAgrees'
  <2>1. Recorded("sampling.updated", p, rate)
    BY <1>2, LogStep DEF update_project_sampling, Actions
  <2>2. /\ sampling'[p] = rate /\ \A q \in Projs : q # p => sampling'[q] = sampling[q]
        /\ UNCHANGED <<project, key, channel, issue, assignee, request>>
    BY <1>t, <1>2 DEF update_project_sampling
  <2>3. ProjectsAgree'  BY <1>a, <2>1, <2>2 DEF Recorded, ProjectsAgree
  <2>4. KeysAgree'  BY <1>a, <2>1, <2>2 DEF Recorded, KeysAgree
  <2>5. ChannelsAgree'  BY <1>a, <2>1, <2>2 DEF Recorded, ChannelsAgree
  <2>6. IssuesAgree'  BY <1>a, <2>1, <2>2 DEF Recorded, IssuesAgree
  <2>7. Claimed'  BY <1>a, <2>2 DEF Claimed, Claims
  <2>8. RecordedOnce'  BY <1>a, <2>1 DEF Recorded, Repeated
  <2>9. QED  BY <2>3, <2>4, <2>5, <2>6, <2>7, <2>8 DEF LogAgrees
<1>3. ASSUME NEW p \in Projs, delete_project(p)  PROVE LogAgrees'
  <2>1. Recorded("project.deleted", p, Nobody)  BY <1>3, LogStep DEF delete_project, Actions
  <2>2. /\ project[p] = "live" /\ project'[p] = "gone"
        /\ \A q \in Projs : q # p => project'[q] = project[q]
        /\ \A k \in Keys : key'[k] = IF KeyProject[k] = p /\ key[k] # "new" THEN "gone"
                                     ELSE key[k]
        /\ \A c \in Channels : channel'[c] = IF Scope[c] = p /\ channel[c] # "new" THEN "gone"
                                             ELSE channel[c]
        /\ \A i \in Issues : issue[i] = "gone" => issue'[i] = "gone"
        /\ UNCHANGED <<sampling, assignee, request>>
    BY <1>t, <1>3 DEF delete_project, Cascade
  <2>3. ProjectsAgree'  BY <1>a, <2>1, <2>2 DEF Recorded, ProjectsAgree
  <2>4. KeysAgree'  BY <1>0, <1>a, <2>1, <2>2 DEF Recorded, KeysAgree
  <2>5. ChannelsAgree'  BY <1>a, <2>1, <2>2 DEF Recorded, ChannelsAgree
  <2>6. IssuesAgree'  BY <1>a, <2>1, <2>2 DEF Recorded, IssuesAgree
  <2>7. Claimed'  BY <1>a, <2>2 DEF Claimed, Claims
  <2>8. RecordedOnce'  BY <1>a, <2>1, <2>2 DEF Recorded, ProjectsAgree
  <2>9. QED  BY <2>3, <2>4, <2>5, <2>6, <2>7, <2>8 DEF LogAgrees
<1>4. ASSUME NEW a \in Admins, InsertKey(a)  PROVE LogAgrees'
  <2>0. PICK k \in Keys : k = request[a].target
    BY <1>4 DEF InsertKey, OrgTyped, Requested
  <2>1. Recorded("key.created", k, Nobody)
    <3>1. Record("key.created", k, Nobody)  BY <1>4, <2>0 DEF InsertKey
    <3>2. QED  BY <3>1, LogStep DEF Actions
  <2>2. /\ request[a].op = "create_dsn_key" /\ key[k] = "new" /\ key'[k] = "active"
        /\ \A l \in Keys : l # k => key'[l] = key[l]
        /\ UNCHANGED <<project, sampling, channel, issue, assignee>>
        /\ request'[a] = Idle /\ \A b \in Admins : b # a => request'[b] = request[b]
    BY <1>0, <1>t, <1>a, <1>4, <2>0 DEF InsertKey, Reply, Claimed, Claims
  <2>3. ProjectsAgree'  BY <1>a, <2>1, <2>2 DEF Recorded, ProjectsAgree
  <2>4. KeysAgree'  BY <1>a, <2>1, <2>2 DEF Recorded, KeysAgree
  <2>5. ChannelsAgree'  BY <1>a, <2>1, <2>2 DEF Recorded, ChannelsAgree
  <2>6. IssuesAgree'  BY <1>a, <2>1, <2>2 DEF Recorded, IssuesAgree
  <2>7. Claimed'  BY <1>a, <2>0, <2>2 DEF Claimed, Claims, Idle
  <2>8. RecordedOnce'  BY <1>a, <2>1, <2>2 DEF Recorded, KeysAgree
  <2>9. QED  BY <2>3, <2>4, <2>5, <2>6, <2>7, <2>8 DEF LogAgrees
<1>5. ASSUME NEW k \in Keys, revoke_dsn_key(k)  PROVE LogAgrees'
  <2>1. Recorded("key.revoked", k, Nobody)  BY <1>5, LogStep DEF revoke_dsn_key, Actions
  <2>2. /\ key[k] = "active" /\ key'[k] = "revoked"
        /\ \A l \in Keys : l # k => key'[l] = key[l]
        /\ UNCHANGED <<project, sampling, channel, issue, assignee, request>>
    BY <1>t, <1>5 DEF revoke_dsn_key
  <2>3. ProjectsAgree'  BY <1>a, <2>1, <2>2 DEF Recorded, ProjectsAgree
  <2>4. KeysAgree'  BY <1>a, <2>1, <2>2 DEF Recorded, KeysAgree
  <2>5. ChannelsAgree'  BY <1>a, <2>1, <2>2 DEF Recorded, ChannelsAgree
  <2>6. IssuesAgree'  BY <1>a, <2>1, <2>2 DEF Recorded, IssuesAgree
  <2>7. Claimed'  BY <1>a, <2>2 DEF Claimed, Claims
  <2>8. RecordedOnce'  BY <1>a, <2>1, <2>2 DEF Recorded, KeysAgree
  <2>9. QED  BY <2>3, <2>4, <2>5, <2>6, <2>7, <2>8 DEF LogAgrees
<1>6. ASSUME NEW a \in Admins, InsertChannel(a)  PROVE LogAgrees'
  <2>0. PICK c \in Channels : c = request[a].target
    BY <1>6 DEF InsertChannel, OrgTyped, Requested
  <2>1. Recorded("channel.created", c, Nobody)
    <3>1. Record("channel.created", c, Nobody)  BY <1>6, <2>0 DEF InsertChannel
    <3>2. QED  BY <3>1, LogStep DEF Actions
  <2>2. /\ request[a].op = "create_channel" /\ channel[c] = "new" /\ channel'[c] = "on"
        /\ \A d \in Channels : d # c => channel'[d] = channel[d]
        /\ UNCHANGED <<project, sampling, key, issue, assignee>>
        /\ request'[a] = Idle /\ \A b \in Admins : b # a => request'[b] = request[b]
    BY <1>0, <1>t, <1>a, <1>6, <2>0 DEF InsertChannel, Reply, Claimed, Claims
  <2>3. ProjectsAgree'  BY <1>a, <2>1, <2>2 DEF Recorded, ProjectsAgree
  <2>4. KeysAgree'  BY <1>a, <2>1, <2>2 DEF Recorded, KeysAgree
  <2>5. ChannelsAgree'  BY <1>a, <2>1, <2>2 DEF Recorded, ChannelsAgree
  <2>6. IssuesAgree'  BY <1>a, <2>1, <2>2 DEF Recorded, IssuesAgree
  <2>7. Claimed'  BY <1>a, <2>0, <2>2 DEF Claimed, Claims, Idle
  <2>8. RecordedOnce'  BY <1>a, <2>1, <2>2 DEF Recorded, ChannelsAgree
  <2>9. QED  BY <2>3, <2>4, <2>5, <2>6, <2>7, <2>8 DEF LogAgrees
<1>7. ASSUME NEW a \in Admins, WriteChannel(a)  PROVE LogAgrees'
  <2>0. PICK c \in Channels, arg \in {"on", "off", Nobody} :
            c = request[a].target /\ arg = request[a].arg
    BY <1>7 DEF WriteChannel, OrgTyped, Requested
  <2>1. Recorded("channel.updated", c, arg)
    <3>1. Record("channel.updated", c, arg)  BY <1>7, <2>0 DEF WriteChannel
    <3>2. QED  BY <3>1, LogStep DEF Actions
  <2>2. /\ channel[c] \in {"on", "off"}
        /\ channel'[c] = IF arg = Nobody THEN channel[c] ELSE arg
        /\ \A d \in Channels : d # c => channel'[d] = channel[d]
        /\ UNCHANGED <<project, sampling, key, issue, assignee>>
        /\ request'[a] = Idle /\ \A b \in Admins : b # a => request'[b] = request[b]
    BY <1>0, <1>t, <1>7, <2>0 DEF WriteChannel, Exists, Assigned, Reply
  <2>3. ProjectsAgree'  BY <1>a, <2>1, <2>2 DEF Recorded, ProjectsAgree
  <2>4. KeysAgree'  BY <1>a, <2>1, <2>2 DEF Recorded, KeysAgree
  <2>5. ChannelsAgree'  BY <1>a, <2>1, <2>2 DEF Recorded, ChannelsAgree
  <2>6. IssuesAgree'  BY <1>a, <2>1, <2>2 DEF Recorded, IssuesAgree
  <2>7. Claimed'  BY <1>a, <2>2 DEF Claimed, Claims, Idle
  <2>8. RecordedOnce'  BY <1>a, <2>1 DEF Recorded, Repeated
  <2>9. QED  BY <2>3, <2>4, <2>5, <2>6, <2>7, <2>8 DEF LogAgrees
<1>8. ASSUME NEW c \in Channels, delete_channel(c)  PROVE LogAgrees'
  <2>1. Recorded("channel.deleted", c, Nobody)  BY <1>8, LogStep DEF delete_channel, Actions
  <2>2. /\ channel[c] \in {"on", "off"} /\ channel'[c] = "gone"
        /\ \A d \in Channels : d # c => channel'[d] = channel[d]
        /\ UNCHANGED <<project, sampling, key, issue, assignee, request>>
    BY <1>t, <1>8 DEF delete_channel, Exists
  <2>3. ProjectsAgree'  BY <1>a, <2>1, <2>2 DEF Recorded, ProjectsAgree
  <2>4. KeysAgree'  BY <1>a, <2>1, <2>2 DEF Recorded, KeysAgree
  <2>5. ChannelsAgree'  BY <1>a, <2>1, <2>2 DEF Recorded, ChannelsAgree
  <2>6. IssuesAgree'  BY <1>a, <2>1, <2>2 DEF Recorded, IssuesAgree
  <2>7. Claimed'  BY <1>a, <2>2 DEF Claimed, Claims
  <2>8. RecordedOnce'  BY <1>a, <2>1, <2>2 DEF Recorded, ChannelsAgree
  <2>9. QED  BY <2>3, <2>4, <2>5, <2>6, <2>7, <2>8 DEF LogAgrees
<1>9. ASSUME NEW a \in Admins, WriteAssignee(a)  PROVE LogAgrees'
  <2>0. PICK i \in Issues, arg \in Users \cup {Nobody} :
            i = request[a].target /\ arg = request[a].arg
    BY <1>9 DEF WriteAssignee, OrgTyped, OrgTypeOK, Requested
  <2>1. Recorded("issue.assigned", i, arg)
    <3>1. Record("issue.assigned", i, arg)  BY <1>9, <2>0 DEF WriteAssignee
    <3>2. QED  BY <3>1, LogStep DEF Actions
  <2>2. /\ assignee'[i] = arg /\ \A j \in Issues : j # i => assignee'[j] = assignee[j]
        /\ UNCHANGED <<project, sampling, key, channel, issue>>
        /\ request'[a] = Idle /\ \A b \in Admins : b # a => request'[b] = request[b]
    BY <1>0, <1>t, <1>9, <2>0 DEF WriteAssignee, Reply
  <2>3. ProjectsAgree'  BY <1>a, <2>1, <2>2 DEF Recorded, ProjectsAgree
  <2>4. KeysAgree'  BY <1>a, <2>1, <2>2 DEF Recorded, KeysAgree
  <2>5. ChannelsAgree'  BY <1>a, <2>1, <2>2 DEF Recorded, ChannelsAgree
  <2>6. IssuesAgree'  BY <1>a, <2>1, <2>2 DEF Recorded, IssuesAgree
  <2>7. Claimed'  BY <1>a, <2>2 DEF Claimed, Claims, Idle
  <2>8. RecordedOnce'  BY <1>a, <2>1 DEF Recorded, Repeated
  <2>9. QED  BY <2>3, <2>4, <2>5, <2>6, <2>7, <2>8 DEF LogAgrees
<1>10. ASSUME NEW i \in Issues, delete_issue(i)  PROVE LogAgrees'
  <2>1. Recorded("issue.deleted", i, Nobody)  BY <1>10, LogStep DEF delete_issue, Actions
  <2>2. /\ issue[i] = "live" /\ issue'[i] = "gone"
        /\ \A j \in Issues : j # i => issue'[j] = issue[j]
        /\ UNCHANGED <<project, sampling, key, channel, assignee, request>>
    BY <1>t, <1>10 DEF delete_issue
  <2>3. ProjectsAgree'  BY <1>a, <2>1, <2>2 DEF Recorded, ProjectsAgree
  <2>4. KeysAgree'  BY <1>a, <2>1, <2>2 DEF Recorded, KeysAgree
  <2>5. ChannelsAgree'  BY <1>a, <2>1, <2>2 DEF Recorded, ChannelsAgree
  <2>6. IssuesAgree'  BY <1>a, <2>1, <2>2 DEF Recorded, IssuesAgree
  <2>7. Claimed'  BY <1>a, <2>2 DEF Claimed, Claims
  <2>8. RecordedOnce'  BY <1>a, <2>1, <2>2 DEF Recorded, IssuesAgree
  <2>9. QED  BY <2>3, <2>4, <2>5, <2>6, <2>7, <2>8 DEF LogAgrees
<1>11. ASSUME UNCHANGED <<project, sampling, key, channel, assignee, audit>>, Claimed',
              \A i \in Issues : issue[i] = "gone" => issue'[i] = "gone"
       PROVE  LogAgrees'
  BY <1>a, <1>11, LogStays DEF LogAgrees
<1>12. ASSUME NEW a \in Admins, NEW k \in Keys, CheckKey(a, k)  PROVE LogAgrees'
  <2>1. Claimed'  BY <1>0, <1>a, <1>12, ClaimsStay DEF CheckKey, Read, tables
  <2>2. QED  BY <1>11, <1>12, <2>1 DEF CheckKey, Read, tables
<1>13. ASSUME NEW a \in Admins, NEW c \in Channels, CheckChannel(a, c)  PROVE LogAgrees'
  <2>1. Claimed'  BY <1>0, <1>a, <1>13, ClaimsStay DEF CheckChannel, Read, tables
  <2>2. QED  BY <1>11, <1>13, <2>1 DEF CheckChannel, Read, tables
<1>14. ASSUME NEW a \in Admins,
              NEW op \in {"update_channel", "assign_issue", "add_comment"},
              NEW target, NEW arg, NEW seen, Read(a, op, target, arg, seen)
       PROVE  LogAgrees'
  <2>1. Claimed'  BY <1>0, <1>a, <1>14, ClaimsStay DEF Read, tables
  <2>2. QED  BY <1>11, <1>14, <2>1 DEF Read, tables
<1>15. ASSUME NEW a \in Admins, InsertComment(a) \/ Abandon(a)  PROVE LogAgrees'
  <2>1. /\ UNCHANGED <<project, sampling, key, channel, issue, assignee, audit>>
        /\ request' = [request EXCEPT ![a] = Idle]
    BY <1>15 DEF InsertComment, Abandon, Reply, tables
  <2>2. Claimed'  BY <1>0, <1>a, <2>1, ClaimsStay DEF Idle
  <2>3. QED  BY <1>11, <2>1, <2>2
<1>16. ASSUME NEW i \in Issues, StoreIssue(i)  PROVE LogAgrees'
  <2>1. /\ UNCHANGED <<project, sampling, key, channel, assignee, audit, request>>
        /\ \A j \in Issues : issue[j] = "gone" => issue'[j] = "gone"
    BY <1>t, <1>16 DEF StoreIssue
  <2>2. Claimed'  BY <1>a, <2>1 DEF Claimed, Claims
  <2>3. QED  BY <1>11, <2>1, <2>2
<1>17. ASSUME UNCHANGED orgVars \/ \E u \in Users : Join(u)  PROVE LogAgrees'
  <2>1. UNCHANGED <<project, sampling, key, channel, issue, assignee, audit, request>>
    BY <1>17 DEF Join, orgVars, tables
  <2>2. Claimed'  BY <1>a, <2>1 DEF Claimed, Claims
  <2>3. QED  BY <1>11, <2>1, <2>2
<1>18. CASE \E a \in Admins : RequestStep(a)
  <2>1. PICK a \in Admins : RequestStep(a)  BY <1>18
  <2>2. CASE \E c \in Channels, e \in {"on", "off", Nobody} : ReadChannel(a, c, e)
    <3>1. PICK c \in Channels, e \in {"on", "off", Nobody} : ReadChannel(a, c, e)  BY <2>2
    <3>2. PICK seen : Read(a, "update_channel", c, e, seen)  BY <3>1 DEF ReadChannel
    <3>3. QED  BY <1>14, <3>2
  <2>3. CASE \E i \in Issues, u \in Users \cup {Nobody} : CheckAssignee(a, i, u)
    BY <1>14, <2>3 DEF CheckAssignee
  <2>4. CASE \E i \in Issues, u \in Users : CheckIssue(a, i, u)
    BY <1>14, <2>4 DEF CheckIssue
  <2>5. QED
    BY <1>4, <1>6, <1>7, <1>9, <1>12, <1>13, <1>15, <2>1, <2>2, <2>3, <2>4 DEF RequestStep
<1>19. QED
  BY <1>0, <1>1, <1>2, <1>3, <1>5, <1>8, <1>10, <1>16, <1>17, <1>18
     DEF OrgMove, OrgNext, ProjectStep

\* The audit log replays to the tables, though a request reads in one statement and writes
\* in another, and deleting a project takes its keys and channels without entries of
\* their own; and no creation, revocation or deletion is recorded twice.
THEOREM AuditIsExactHolds == Spec => []AuditIsExact
<1>1. Init => OrgTyped /\ LogAgrees
  <2> SUFFICES ASSUME Init  PROVE OrgTyped /\ LogAgrees  OBVIOUS
  <2>1. OrgTyped  BY InitOrgTyped DEF Init
  <2>2. audit = <<>> /\ DOMAIN audit = {}  BY DEF Init, OrgInit
  <2>3. \A t, x : ~Logged(t, x)  BY <2>2 DEF Logged, About
  <2>4. \A t, x, d : Told(t, x, d) = d  BY <2>2 DEF Told, LastAbout, About
  <2>5. \A t : Switched(t) = "on"  BY <2>2 DEF Switched, About
  <2>6. ProjectsAgree  BY <2>3, <2>4 DEF Init, OrgInit, ProjectsAgree
  <2>7. KeysAgree  BY <2>3 DEF Init, OrgInit, KeysAgree
  <2>8. ChannelsAgree  BY <2>3, <2>5 DEF Init, OrgInit, ChannelsAgree
  <2>9. IssuesAgree  BY <2>3, <2>4 DEF Init, OrgInit, IssuesAgree
  <2>10. Claimed  BY DEF Init, OrgInit, Idle, Claimed, Claims
  <2>11. RecordedOnce  BY <2>2 DEF RecordedOnce
  <2>12. QED  BY <2>1, <2>6, <2>7, <2>8, <2>9, <2>10, <2>11 DEF LogAgrees
<1>2. OrgTyped /\ LogAgrees /\ [Next]_vars => (OrgTyped /\ LogAgrees)'
  BY StepIsOrgMove, StepOrgTyped, StepLogAgrees
<1>3. OrgTyped /\ LogAgrees => AuditIsExact
  <2> SUFFICES ASSUME OrgTyped, LogAgrees  PROVE AuditIsExact  OBVIOUS
  <2>1. /\ project \in [Projs -> {"new", "live", "gone"}]
        /\ key \in [Keys -> {"new", "active", "revoked", "gone"}]
        /\ channel \in [Channels -> {"new", "on", "off", "gone"}]
    BY DEF OrgTyped, OrgTypeOK
  <2>2. ASSUME NEW p \in Projs
        PROVE  /\ (project[p] # "new") <=> About(p, {"project.created"}) # {}
               /\ (project[p] = "gone") <=> About(p, {"project.deleted"}) # {}
               /\ sampling[p] = LastAbout(p, {"sampling.updated"}, FullRate)
    BY DEF LogAgrees, ProjectsAgree, Logged, Told
  <2>3. ASSUME NEW k \in Keys, project[KeyProject[k]] = "live"
        PROVE  key[k] = IF About(k, {"key.revoked"}) # {} THEN "revoked"
                        ELSE IF About(k, {"key.created"}) # {} THEN "active" ELSE "new"
    <3>1. key[k] = IF Logged(k, "key.revoked") THEN "revoked"
                   ELSE IF Logged(k, "key.created") THEN "active" ELSE "new"
      BY <2>1, <2>3 DEF LogAgrees, KeysAgree
    <3>2. QED  BY <3>1 DEF Logged
  <2>4. ASSUME NEW c \in Channels, InScope(c)
        PROVE  channel[c] = IF About(c, {"channel.deleted"}) # {} THEN "gone"
                            ELSE IF About(c, {"channel.created"}) = {} THEN "new"
                            ELSE Switched(c)
    <3>1. ~ (Scope[c] \in Projs /\ project[Scope[c]] = "gone")
      BY <2>4, ProjectsAssumption DEF InScope
    <3>2. channel[c] = IF Logged(c, "channel.deleted") THEN "gone"
                       ELSE IF ~Logged(c, "channel.created") THEN "new" ELSE Switched(c)
      BY <2>1, <3>1 DEF LogAgrees, ChannelsAgree
    <3>3. QED  BY <3>2 DEF Logged
  <2>5. \A i \in Issues : assignee[i] = LastAbout(i, {"issue.assigned"}, Nobody)
    BY DEF LogAgrees, IssuesAgree, Told
  <2>6. QED  BY <2>2, <2>3, <2>4, <2>5 DEF AuditIsExact, LogTellsTheTables, LogAgrees
<1>4. QED  BY <1>1, <1>2, <1>3, PTL DEF Spec

-----------------------------------------------------------------------------
(* AlertDispatch: who hears of an alert.                                   *)

\* The log grows at its end, and a channel changes only with an entry about it or about
\* its project.
LEMMA ChannelsAreLogged ==
    ASSUME OrgTyped, OrgMove
    PROVE  /\ Len(audit) \in Nat /\ Len(audit') \in Nat /\ Len(audit) <= Len(audit')
           /\ \A n \in 1 .. Len(audit) : audit'[n] = audit[n]
           /\ \A c \in Channels : channel'[c] # channel[c] =>
                \E n \in (Len(audit) + 1) .. Len(audit') : audit'[n].target \in {c, Scope[c]}
<1> USE DEF OrgTyped, OrgTypeOK
<1>0. plan.callers \subseteq Admins  BY ProjectsAssumption
<1>1. audit \in Seq(Entries) /\ Len(audit) \in Nat  OBVIOUS
<1>2. ASSUME NEW action, NEW target, NEW data, Record(action, target, data)
      PROVE  /\ Len(audit') = Len(audit) + 1
             /\ \A n \in 1 .. Len(audit) : audit'[n] = audit[n]
             /\ audit'[Len(audit) + 1].target = target
  <2>1. PICK e : e = [action |-> action, target |-> target, data |-> data]  OBVIOUS
  <2>2. audit' = Append(audit, e) /\ e.target = target  BY <1>2, <2>1 DEF Record
  <2>3. QED  BY <1>1, <2>2
<1> DEFINE Quiet == audit' = audit /\ channel' = channel
           Noted == \E action, target, data :
                        /\ Record(action, target, data)
                        /\ \A c \in Channels : channel'[c] # channel[c] => target \in {c, Scope[c]}
<1>3. CASE Quiet  BY <1>1, <1>3
<1>4. CASE Noted
  <2>1. PICK action, target, data :
            /\ Record(action, target, data)
            /\ \A c \in Channels : channel'[c] # channel[c] => target \in {c, Scope[c]}
    BY <1>4
  <2>2. /\ Len(audit') = Len(audit) + 1
        /\ \A n \in 1 .. Len(audit) : audit'[n] = audit[n]
        /\ audit'[Len(audit) + 1].target = target
    BY <1>2, <2>1
  <2>3. Len(audit) + 1 \in (Len(audit) + 1) .. Len(audit')  BY <1>1, <2>2
  <2>4. QED  BY <1>1, <2>1, <2>2, <2>3
<1>5. ASSUME NEW p \in Projs, ProjectStep(p)  PROVE Quiet \/ Noted
  <2>1. CASE create_project(p)  BY <2>1 DEF create_project
  <2>2. CASE \E rate \in Rates : update_project_sampling(p, rate)
    BY <2>2 DEF update_project_sampling
  <2>3. CASE delete_project(p)
    BY <2>3 DEF delete_project, Cascade
  <2>4. QED  BY <1>5, <2>1, <2>2, <2>3 DEF ProjectStep
<1>6. ASSUME NEW a \in Admins, RequestStep(a)  PROVE Quiet \/ Noted
  <2>1. CASE InsertKey(a)  BY <2>1 DEF InsertKey
  <2>2. CASE InsertChannel(a)  BY <2>2 DEF InsertChannel
  <2>3. CASE WriteChannel(a)  BY <2>3 DEF WriteChannel
  <2>4. CASE WriteAssignee(a)  BY <2>4 DEF WriteAssignee
  <2>5. CASE InsertComment(a)  BY <2>5 DEF InsertComment
  <2>6. CASE Abandon(a)  BY <2>6 DEF Abandon, tables
  <2>7. CASE \/ \E k \in Keys : CheckKey(a, k)
             \/ \E c \in Channels : CheckChannel(a, c) \/ \E e \in {"on", "off", Nobody} : ReadChannel(a, c, e)
             \/ \E i \in Issues, u \in Users \cup {Nobody} : CheckAssignee(a, i, u)
             \/ \E i \in Issues, u \in Users : CheckIssue(a, i, u)
    BY <2>7 DEF CheckKey, CheckChannel, ReadChannel, CheckAssignee, CheckIssue, Read, tables
  <2>8. QED  BY <1>6, <2>1, <2>2, <2>3, <2>4, <2>5, <2>6, <2>7 DEF RequestStep
<1>7. ASSUME NEW k \in Keys, revoke_dsn_key(k)  PROVE Quiet \/ Noted
  BY <1>7 DEF revoke_dsn_key
<1>8. ASSUME NEW c \in Channels, delete_channel(c)  PROVE Quiet \/ Noted
  BY <1>8 DEF delete_channel
<1>9. ASSUME NEW i \in Issues, StoreIssue(i) \/ delete_issue(i)  PROVE Quiet \/ Noted
  BY <1>9 DEF StoreIssue, delete_issue
<1>10. ASSUME NEW u \in Users, Join(u)  PROVE Quiet \/ Noted
  BY <1>10 DEF Join
<1>11. ASSUME UNCHANGED orgVars  PROVE Quiet \/ Noted
  BY <1>11 DEF orgVars, tables
<1>12. Quiet \/ Noted
  <2> HIDE DEF Quiet, Noted
  <2>1. CASE OrgNext
    <3>1. \/ \E p \in Projs : ProjectStep(p)
          \/ \E a \in Admins : RequestStep(a)
          \/ \E k \in Keys : revoke_dsn_key(k)
          \/ \E c \in Channels : delete_channel(c)
          \/ \E i \in Issues : StoreIssue(i) \/ delete_issue(i)
          \/ \E u \in Users : Join(u)
      BY <1>0, <2>1 DEF OrgNext
    <3>2. QED  BY <1>5, <1>6, <1>7, <1>8, <1>9, <1>10, <3>1
  <2>2. QED  BY <1>11, <2>1 DEF OrgMove
<1>13. QED  BY <1>3, <1>4, <1>12

JobTyped == TypeOK /\ IsFiniteSet(sends) /\ since <= Len(audit)

\* What the current try loaded is what was on, but for channels touched since.
LoadedIsRead ==
    alert \in {"roster", "sending", "done"} =>
        \A c \in Channels : Untouched(c) => (c \in loaded <=> channel[c] = "on" /\ Selects(c))

\* The send of the current try was ended by an exception with attempts left.
Cut(c) == [try |-> try, channel |-> c] \in broken

\* What an outcome noted by the loop stands for.  A failure counts while its try is under
\* way or done: a try that has not loaded its channels shows the one before.
Meant(c) ==
    /\ outcome[c] = "delivered" => notices[c] > 0
    /\ outcome[c] = "failed" /\ alert \in {"sending", "done"}
         => troubles[c] >= Attempts(c) \/ Cut(c)
    /\ outcome[c] = "skipped" => Skips(c)

\* A thread that has used some of its attempts had as many errors, and between two tries
\* no thread of the current one is running.
Delivering ==
    /\ \A s \in sends : s.try <= try /\ troubles[s.channel] + s.left >= Attempts(s.channel)
    /\ alert \in {"none", "queued", "roster", "done"} => Awaited = {}
    /\ alert = "roster" => outcome = NoOutcome
    /\ alert = "done" => Left = {}
    /\ \A c \in Channels : Meant(c)

\* A notification that is still to come on a channel: from a thread that runs, or from the
\* one that the current try may still start.
Threads(c) == {s \in sends : s.channel = c}
MayStart(c) ==
    \/ alert \in {"none", "queued", "roster"}
    \/ alert = "sending" /\ c \in Left /\ \A s \in Awaited : s.channel # c
ToCome(c) == Cardinality(Threads(c)) + IF MayStart(c) THEN 1 ELSE 0

NoticesCounted == \A c \in Channels : notices[c] + ToCome(c) <= troubles[c] + try

JobInv == JobTyped /\ LoadedIsRead /\ Delivering /\ NoticesCounted

LEMMA AttemptsBounded == \A c \in Channels : Attempts(c) \in 1 .. HTTP_ATTEMPTS
BY AlertAssumption DEF Attempts

LEMMA ThreadsCounted ==
    ASSUME IsFiniteSet(sends), NEW c
    PROVE  Threads(c) \subseteq sends /\ IsFiniteSet(Threads(c)) /\ Cardinality(Threads(c)) \in Nat
<1>1. Threads(c) \subseteq sends  BY DEF Threads
<1>2. IsFiniteSet(Threads(c))  BY <1>1, FS_Subset
<1>3. QED  BY <1>1, <1>2, FS_CardinalityType

\* The requests of members: the job's own state stands still.
LEMMA OrgStepKeepsJob ==
    ASSUME OrgTyped, OrgTyped', OrgMove, UNCHANGED jobVars, JobInv
    PROVE  JobInv'
<1>1. /\ Len(audit) \in Nat /\ Len(audit') \in Nat /\ Len(audit) <= Len(audit')
      /\ \A n \in 1 .. Len(audit) : audit'[n] = audit[n]
      /\ \A c \in Channels : channel'[c] # channel[c] =>
           \E n \in (Len(audit) + 1) .. Len(audit') : audit'[n].target \in {c, Scope[c]}
  BY ChannelsAreLogged
<1>2. since \in Nat /\ since <= Len(audit)  BY DEF JobInv, JobTyped, TypeOK
<1>3. JobTyped'
  BY <1>1, <1>2 DEF JobInv, JobTyped, TypeOK, jobVars, history, OrgTyped
<1>4. ASSUME NEW c \in Channels, Untouched(c)'
      PROVE  Untouched(c) /\ channel'[c] = channel[c]
  <2>1. \A n \in (since + 1) .. Len(audit') : audit'[n].target \notin {c, Scope[c]}
    BY <1>4 DEF Untouched, jobVars
  <2>2. Untouched(c)  BY <1>1, <1>2, <2>1 DEF Untouched
  <2>3. \A n \in (Len(audit) + 1) .. Len(audit') : n \in (since + 1) .. Len(audit')
    BY <1>1, <1>2
  <2>4. QED  BY <1>1, <2>1, <2>2, <2>3
<1>5. LoadedIsRead'
  BY <1>4 DEF JobInv, LoadedIsRead, jobVars, Selects
<1>6. Delivering'
  BY DEF JobInv, Delivering, jobVars, history, Awaited, Left, Meant, Cut, Skips, NoOutcome
<1>7. NoticesCounted'
  BY DEF JobInv, NoticesCounted, jobVars, history, ToCome, Threads, MayStart, Awaited, Left
<1>8. QED  BY <1>3, <1>5, <1>6, <1>7 DEF JobInv

LEMMA JobEnqueued ==
    ASSUME OrgTyped, JobInv, Enqueue
    PROVE  JobInv'
<1> USE DEF JobInv
<1>1. /\ alert = "none" /\ alert' = "queued" /\ since' = Len(audit)
      /\ UNCHANGED <<orgVars, try, loaded, roster, outcome, sends, notices, troubles, broken>>
  BY DEF Enqueue, history
<1>2. audit' = audit /\ Len(audit) \in Nat  BY <1>1 DEF orgVars, OrgTyped
<1>3. OrgTypeOK'  BY <1>1 DEF OrgTyped, OrgTypeOK, orgVars, tables
<1>4. JobTyped'  BY <1>1, <1>2, <1>3 DEF JobTyped, TypeOK
<1>5. LoadedIsRead'  BY <1>1 DEF LoadedIsRead
<1>6. Delivering'
  BY <1>1 DEF Delivering, Awaited, Left, Meant, Cut, Skips, NoOutcome
<1>7. NoticesCounted'
  BY <1>1 DEF NoticesCounted, ToCome, Threads, MayStart, Awaited, Left
<1>8. QED  BY <1>4, <1>5, <1>6, <1>7

LEMMA ChannelsLoaded ==
    ASSUME OrgTyped, JobInv, LoadChannels
    PROVE  JobInv'
<1> USE DEF JobInv
<1> DEFINE chosen == {c \in Channels : channel[c] = "on" /\ Selects(c)}
<1>1. /\ alert = "queued" /\ loaded' = chosen /\ roster' = {} /\ outcome' = NoOutcome
      /\ alert' \in {"done", "roster", "sending"}
      /\ alert' = "done" => loaded' = {}
      /\ UNCHANGED <<orgVars, try, sends, notices, troubles, broken, since>>
  BY DEF LoadChannels, history
<1>2. /\ audit' = audit /\ channel' = channel
  BY <1>1 DEF orgVars, tables
<1>3. OrgTypeOK'  BY <1>1 DEF OrgTyped, OrgTypeOK, orgVars, tables
<1>4. chosen \subseteq Channels /\ NoOutcome \in [Channels -> {"none", "delivered", "failed", "skipped"}]
  BY DEF NoOutcome
<1>5. JobTyped'  BY <1>1, <1>2, <1>3, <1>4 DEF JobTyped, TypeOK
<1>6. LoadedIsRead'
  BY <1>1, <1>2 DEF LoadedIsRead, Selects
<1>7. Delivering'
  <2>1. Awaited = {} /\ Awaited' = {}  BY <1>1 DEF Delivering, Awaited
  <2>2. \A c \in Channels : outcome'[c] = "none"  BY <1>1 DEF NoOutcome
  <2>3. \A c \in Channels : Meant(c)'  BY <2>2 DEF Meant, Cut
  <2>4. alert' = "done" => Left' = {}  BY <1>1 DEF Left
  <2>5. NoOutcome' = NoOutcome  BY DEF NoOutcome
  <2>6. QED  BY <1>1, <2>1, <2>3, <2>4, <2>5 DEF Delivering
<1>8. NoticesCounted'
  <2> SUFFICES ASSUME NEW c \in Channels  PROVE (notices[c] + ToCome(c) <= troubles[c] + try)'
    BY DEF NoticesCounted
  <2>1. MayStart(c)  BY <1>1 DEF MayStart
  <2>2. Threads(c)' = Threads(c) /\ Cardinality(Threads(c)) \in Nat
    BY <1>1, ThreadsCounted DEF Threads, JobTyped
  <2>3. notices[c] + (Cardinality(Threads(c)) + 1) <= troubles[c] + try
    BY <2>1 DEF NoticesCounted, ToCome
  <2>4. notices[c] \in Nat /\ troubles[c] \in Nat /\ try \in Nat
    BY DEF JobTyped, TypeOK
  <2>5. QED  BY <1>1, <2>2, <2>3, <2>4 DEF ToCome
<1>9. QED  BY <1>5, <1>6, <1>7, <1>8

LEMMA MembersLoaded ==
    ASSUME OrgTyped, JobInv, LoadMembers
    PROVE  JobInv'
<1> USE DEF JobInv
<1>1. /\ alert = "roster" /\ alert' = "sending" /\ roster' = members
      /\ UNCHANGED <<orgVars, try, loaded, outcome, sends, notices, troubles, broken, since>>
  BY DEF LoadMembers, history
<1>2. audit' = audit /\ channel' = channel /\ members \subseteq Users
  BY <1>1 DEF orgVars, tables, OrgTyped, OrgTypeOK
<1>3. OrgTypeOK'  BY <1>1 DEF OrgTyped, OrgTypeOK, orgVars, tables
<1>4. JobTyped'  BY <1>1, <1>2, <1>3 DEF JobTyped, TypeOK
<1>5. LoadedIsRead'  BY <1>1, <1>2 DEF LoadedIsRead, Untouched, Selects
<1>6. \A c \in Channels : outcome[c] = "none"  BY <1>1 DEF Delivering, NoOutcome
<1>7. \A c \in Channels : Meant(c)'  BY <1>1, <1>6 DEF Meant, Cut
<1>8. Delivering'  BY <1>1, <1>7 DEF Delivering, Awaited
<1>9. NoticesCounted'
  <2> SUFFICES ASSUME NEW c \in Channels  PROVE (notices[c] + ToCome(c) <= troubles[c] + try)'
    BY DEF NoticesCounted
  <2>1. MayStart(c)  BY <1>1 DEF MayStart
  <2>2. Threads(c)' = Threads(c) /\ Cardinality(Threads(c)) \in Nat
    BY <1>1, ThreadsCounted DEF Threads, JobTyped
  <2>3. notices[c] + (Cardinality(Threads(c)) + 1) <= troubles[c] + try
    BY <2>1 DEF NoticesCounted, ToCome
  <2>4. notices[c] \in Nat /\ troubles[c] \in Nat /\ try \in Nat
    BY DEF JobTyped, TypeOK
  <2>5. QED  BY <1>1, <2>2, <2>3, <2>4 DEF ToCome
<1>10. QED  BY <1>4, <1>5, <1>8, <1>9

LEMMA ChannelSkipped ==
    ASSUME OrgTyped, JobInv, NEW c \in Channels, Deliver(c), Skips(c)
    PROVE  JobInv'
<1> USE DEF JobInv
<1>1. /\ alert = "sending" /\ Awaited = {} /\ c \in Left
      /\ outcome' = [outcome EXCEPT ![c] = "skipped"]
      /\ UNCHANGED <<orgVars, alert, try, loaded, roster, sends, notices, troubles, broken, since>>
  BY DEF Deliver, history
<1>2. audit' = audit /\ channel' = channel  BY <1>1 DEF orgVars, tables
<1>3. OrgTypeOK'  BY <1>1 DEF OrgTyped, OrgTypeOK, orgVars, tables
<1>4. /\ outcome'[c] = "skipped" /\ \A d \in Channels : d # c => outcome'[d] = outcome[d]
      /\ outcome' \in [Channels -> {"none", "delivered", "failed", "skipped"}]
  BY <1>1 DEF JobTyped, TypeOK
<1>5. JobTyped'  BY <1>1, <1>2, <1>3, <1>4 DEF JobTyped, TypeOK
<1>6. LoadedIsRead'  BY <1>1, <1>2 DEF LoadedIsRead, Untouched, Selects
<1>7. \A d \in Channels : Meant(d)'
  <2>1. Skips(c)'  BY <1>1 DEF Skips
  <2>2. QED  BY <1>1, <1>4, <2>1 DEF Meant, Cut, Delivering, Skips
<1>8. Delivering'  BY <1>1, <1>7 DEF Delivering, Awaited
<1>9. NoticesCounted'
  <2> SUFFICES ASSUME NEW d \in Channels  PROVE (notices[d] + ToCome(d) <= troubles[d] + try)'
    BY DEF NoticesCounted
  <2>1. MayStart(d)' => MayStart(d)
    BY <1>1, <1>4 DEF MayStart, Left, Awaited
  <2>2. Threads(d)' = Threads(d) /\ Cardinality(Threads(d)) \in Nat
    BY <1>1, ThreadsCounted DEF Threads, JobTyped
  <2>3. notices[d] + ToCome(d) <= troubles[d] + try  BY DEF NoticesCounted
  <2>4. notices[d] \in Nat /\ troubles[d] \in Nat /\ try \in Nat
    BY DEF JobTyped, TypeOK
  <2>5. QED  BY <1>1, <2>1, <2>2, <2>3, <2>4 DEF ToCome
<1>10. QED  BY <1>5, <1>6, <1>8, <1>9

LEMMA SendStarted ==
    ASSUME OrgTyped, JobInv, NEW c \in Channels, Deliver(c), ~Skips(c)
    PROVE  JobInv'
<1> USE DEF JobInv
<1>0. PICK s : s = [try |-> try, channel |-> c, left |-> Attempts(c)]  OBVIOUS
<1>1. /\ alert = "sending" /\ Awaited = {} /\ c \in Left
      /\ sends' = sends \cup {s}
      /\ UNCHANGED <<orgVars, alert, try, loaded, roster, outcome, notices, troubles, broken, since>>
  BY <1>0 DEF Deliver, history
<1>2. /\ s.try = try /\ s.channel = c /\ s.left = Attempts(c)
      /\ s \in [try : 1 .. MaxTries, channel : Channels, left : 1 .. HTTP_ATTEMPTS]
  BY <1>0, AttemptsBounded DEF JobTyped, TypeOK
<1>3. audit' = audit /\ channel' = channel  BY <1>1 DEF orgVars, tables
<1>4. OrgTypeOK'  BY <1>1 DEF OrgTyped, OrgTypeOK, orgVars, tables
<1>5. IsFiniteSet(sends')  BY <1>1, FS_AddElement DEF JobTyped
<1>6. JobTyped'  BY <1>1, <1>2, <1>3, <1>4, <1>5 DEF JobTyped, TypeOK
<1>7. LoadedIsRead'  BY <1>1, <1>3 DEF LoadedIsRead, Untouched, Selects
<1>8. \A d \in Channels : Meant(d)'  BY <1>1 DEF Meant, Cut, Delivering, Skips
<1>9. Delivering'
  <2>1. s.try <= try /\ troubles[s.channel] + s.left >= Attempts(s.channel)
    BY <1>2, AttemptsBounded, AlertAssumption DEF JobTyped, TypeOK
  <2>2. QED  BY <1>1, <1>8, <2>1 DEF Delivering
<1>10. NoticesCounted'
  <2> SUFFICES ASSUME NEW d \in Channels  PROVE (notices[d] + ToCome(d) <= troubles[d] + try)'
    BY DEF NoticesCounted
  <2>1. notices[d] \in Nat /\ troubles[d] \in Nat /\ try \in Nat
    BY DEF JobTyped, TypeOK
  <2>2. IsFiniteSet(Threads(d)) /\ Cardinality(Threads(d)) \in Nat
    BY ThreadsCounted DEF JobTyped
  <2>3. notices[d] + ToCome(d) <= troubles[d] + try  BY DEF NoticesCounted
  <2>4. CASE d = c
    <3>1. MayStart(c)  BY <1>1 DEF MayStart
    <3>2. s \in Awaited'  BY <1>1, <1>2 DEF Awaited
    <3>3. ~MayStart(c)'  BY <1>1, <1>2, <3>2 DEF MayStart
    <3>4. Threads(c)' = Threads(c) \cup {s}  BY <1>1, <1>2 DEF Threads
    <3>5. IsFiniteSet(Threads(c)) /\ Cardinality(Threads(c)) \in Nat  BY <2>2, <2>4
    <3>6. /\ Cardinality(Threads(c) \cup {s}) \in Nat
          /\ Cardinality(Threads(c) \cup {s}) <= Cardinality(Threads(c)) + 1
      <4>1. Cardinality(Threads(c) \cup {s})
              = IF s \in Threads(c) THEN Cardinality(Threads(c)) ELSE Cardinality(Threads(c)) + 1
        BY <3>5, FS_AddElement
      <4>2. QED  BY <3>5, <4>1
    <3>7. QED  BY <1>1, <2>1, <2>2, <2>3, <2>4, <3>1, <3>3, <3>4, <3>5, <3>6 DEF ToCome
  <2>5. CASE d # c
    <3>1. Threads(d)' = Threads(d)  BY <1>1, <1>2, <2>5 DEF Threads
    <3>2. MayStart(d)' => MayStart(d)  BY <1>1 DEF MayStart, Left
    <3>3. QED  BY <1>1, <2>1, <2>2, <2>3, <3>1, <3>2 DEF ToCome
  <2>6. QED  BY <2>4, <2>5
<1>11. QED  BY <1>6, <1>7, <1>9, <1>10

LEMMA JobFinished ==
    ASSUME OrgTyped, JobInv, Finish
    PROVE  JobInv'
<1> USE DEF JobInv
<1>1. /\ alert = "sending" /\ Awaited = {} /\ Left = {} /\ alert' = "done"
      /\ UNCHANGED <<orgVars, try, loaded, roster, outcome, sends, notices, troubles, broken, since>>
  BY DEF Finish, history, LoopIsOver
<1>2. audit' = audit /\ channel' = channel  BY <1>1 DEF orgVars, tables
<1>3. OrgTypeOK'  BY <1>1 DEF OrgTyped, OrgTypeOK, orgVars, tables
<1>4. JobTyped'  BY <1>1, <1>2, <1>3 DEF JobTyped, TypeOK
<1>5. LoadedIsRead'  BY <1>1, <1>2 DEF LoadedIsRead, Untouched, Selects
<1>6. Delivering'  BY <1>1 DEF Delivering, Awaited, Left, Meant, Cut, Skips
<1>7. NoticesCounted'
  <2> SUFFICES ASSUME NEW c \in Channels  PROVE (notices[c] + ToCome(c) <= troubles[c] + try)'
    BY DEF NoticesCounted
  <2>1. Threads(c)' = Threads(c) /\ Cardinality(Threads(c)) \in Nat
    BY <1>1, ThreadsCounted DEF Threads, JobTyped
  <2>2. ~MayStart(c)'  BY <1>1 DEF MayStart
  <2>3. notices[c] \in Nat /\ troubles[c] \in Nat /\ try \in Nat
    BY DEF JobTyped, TypeOK
  <2>4. notices[c] + ToCome(c) <= troubles[c] + try  BY DEF NoticesCounted
  <2>5. QED  BY <1>1, <2>1, <2>2, <2>3, <2>4 DEF ToCome
<1>8. QED  BY <1>4, <1>5, <1>6, <1>7

LEMMA JobInterrupted ==
    ASSUME OrgTyped, JobInv, Interrupt
    PROVE  JobInv'
<1> USE DEF JobInv
<1>1. /\ \/ try < plan.tries /\ alert' = "queued" /\ try' = try + 1
         \/ alert' = "failed" /\ try' = try
      /\ sends' \subseteq sends
      /\ UNCHANGED <<orgVars, loaded, roster, outcome, notices, troubles, broken, since>>
  BY DEF Interrupt, history
<1>2. audit' = audit  BY <1>1 DEF orgVars
<1>3. OrgTypeOK'  BY <1>1 DEF OrgTyped, OrgTypeOK, orgVars, tables
<1>4. plan.tries \in 0 .. MaxTries  BY AlertAssumption DEF OrgTyped
<1>5. IsFiniteSet(sends')  BY <1>1, FS_Subset DEF JobTyped
<1>6. try \in Nat /\ try >= 1  BY DEF JobTyped, TypeOK
<1>7. try' \in 1 .. MaxTries
  BY <1>1, <1>4, <1>6, AlertAssumption DEF JobTyped, TypeOK
<1>8. JobTyped'  BY <1>1, <1>2, <1>3, <1>5, <1>7 DEF JobTyped, TypeOK
<1>9. LoadedIsRead'  BY <1>1 DEF LoadedIsRead
<1>10. Delivering'
  <2>1. \A s \in sends : s.try \in Nat  BY DEF JobTyped, TypeOK
  <2>2. \A s \in sends' : s.try <= try' /\ troubles'[s.channel] + s.left >= Attempts(s.channel)
    BY <1>1, <1>6, <2>1 DEF Delivering
  <2>3. alert' = "queued" => Awaited' = {}
    <3>1. \A s \in sends : s.try <= try  BY DEF Delivering
    <3>2. QED  BY <1>1, <1>6, <2>1, <3>1 DEF Awaited
  <2>4. \A c \in Channels : Meant(c)'  BY <1>1 DEF Delivering, Meant, Cut, Skips
  <2>5. QED  BY <1>1, <2>2, <2>3, <2>4 DEF Delivering
<1>11. NoticesCounted'
  <2> SUFFICES ASSUME NEW c \in Channels  PROVE (notices[c] + ToCome(c) <= troubles[c] + try)'
    BY DEF NoticesCounted
  <2>1. notices[c] \in Nat /\ troubles[c] \in Nat
    BY DEF JobTyped, TypeOK
  <2>2. /\ Cardinality(Threads(c)) \in Nat /\ Cardinality(Threads(c)') \in Nat
        /\ Cardinality(Threads(c)') <= Cardinality(Threads(c))
    <3>1. Threads(c)' \subseteq Threads(c)  BY <1>1 DEF Threads
    <3>2. IsFiniteSet(Threads(c)) /\ Cardinality(Threads(c)) \in Nat
      BY ThreadsCounted DEF JobTyped
    <3>3. QED  BY <3>1, <3>2, FS_Subset, FS_CardinalityType
  <2>3. notices[c] + ToCome(c) <= troubles[c] + try  BY DEF NoticesCounted
  <2>4. CASE alert' = "failed"
    <3>1. ~MayStart(c)' /\ try' = try  BY <1>1, <2>4 DEF MayStart
    <3>2. QED  BY <1>1, <1>6, <2>1, <2>2, <2>3, <3>1 DEF ToCome
  <2>5. CASE try' = try + 1
    BY <1>1, <1>6, <2>1, <2>2, <2>3, <2>5 DEF ToCome
  <2>6. QED  BY <1>1, <2>4, <2>5
<1>12. QED  BY <1>8, <1>9, <1>10, <1>11

\* A thread ends: one notification less is to come on its channel.
LEMMA ThreadEnds ==
    ASSUME JobInv, NEW s \in sends, sends' = sends \ {s}, try' = try, alert' = alert,
           loaded' = loaded,
           \A d \in Channels : d # s.channel => outcome'[d] = outcome[d],
           \/ outcome' = outcome /\ ~ (s.try = try /\ alert = "sending")
           \/ outcome'[s.channel] # "none"
    PROVE  /\ IsFiniteSet(sends')
           /\ \A d \in Channels : ToCome(d) \in Nat /\ ToCome(d)' \in Nat
           /\ \A d \in Channels : d # s.channel => ToCome(d)' = ToCome(d)
           /\ ToCome(s.channel)' <= ToCome(s.channel) - 1
<1> USE DEF JobInv
<1>1. IsFiniteSet(sends')  BY FS_RemoveElement DEF JobTyped
<1>2. \A d : /\ IsFiniteSet(Threads(d)) /\ Cardinality(Threads(d)) \in Nat
  BY ThreadsCounted DEF JobTyped
<1>3. \A d : Threads(d)' = Threads(d) \ {s}  BY DEF Threads
<1>4. \A d : Cardinality(Threads(d)') \in Nat
  BY <1>2, <1>3, FS_RemoveElement, FS_CardinalityType
<1>5. ASSUME NEW d \in Channels, d # s.channel  PROVE ToCome(d)' = ToCome(d)
  <2>1. Threads(d)' = Threads(d)  BY <1>3, <1>5 DEF Threads
  <2>2. MayStart(d)' <=> MayStart(d)
    BY <1>5 DEF MayStart, Left, Awaited, JobTyped, TypeOK
  <2>3. QED  BY <2>1, <2>2 DEF ToCome
<1>6. ToCome(s.channel)' <= ToCome(s.channel) - 1
  <2>1. s \in Threads(s.channel) /\ s.channel \in Channels
    BY DEF Threads, JobTyped, TypeOK
  <2>2. Cardinality(Threads(s.channel)') = Cardinality(Threads(s.channel)) - 1
    BY <1>2, <1>3, <2>1, FS_RemoveElement
  <2>3. MayStart(s.channel)' => MayStart(s.channel)
    <3>1. CASE outcome' = outcome /\ ~ (s.try = try /\ alert = "sending")
      BY <3>1 DEF MayStart, Left, Awaited
    <3>2. CASE outcome'[s.channel] # "none"
      BY <3>2 DEF MayStart, Left
    <3>3. QED  BY <3>1, <3>2
  <2>4. QED  BY <1>2, <2>2, <2>3 DEF ToCome
<1>7. QED  BY <1>1, <1>2, <1>4, <1>5, <1>6 DEF ToCome

LEMMA SendSucceeded ==
    ASSUME OrgTyped, JobInv, NEW s \in sends, SendSucceeds(s)
    PROVE  JobInv'
<1> USE DEF JobInv
<1>0. PICK c \in Channels : c = s.channel  BY DEF JobTyped, TypeOK
<1>1. /\ notices' = [notices EXCEPT ![c] = @ + 1] /\ sends' = sends \ {s}
      /\ outcome' = IF s.try = try /\ alert = "sending"
                    THEN [outcome EXCEPT ![c] = "delivered"] ELSE outcome
      /\ UNCHANGED <<orgVars, alert, try, loaded, roster, troubles, broken, since>>
  BY <1>0 DEF SendSucceeds, Arrives, AfterSuccess, Settled
<1>2. audit' = audit /\ channel' = channel  BY <1>1 DEF orgVars, tables
<1>3. OrgTypeOK'  BY <1>1 DEF OrgTyped, OrgTypeOK, orgVars, tables
<1>4. /\ notices'[c] = notices[c] + 1 /\ notices[c] \in Nat
      /\ \A d \in Channels : d # c => notices'[d] = notices[d]
      /\ notices' \in [Channels -> Nat]
      /\ outcome' \in [Channels -> {"none", "delivered", "failed", "skipped"}]
      /\ \A d \in Channels : d # c => outcome'[d] = outcome[d]
      /\ \/ outcome' = outcome /\ ~ (s.try = try /\ alert = "sending")
         \/ outcome'[c] = "delivered"
  BY <1>1 DEF JobTyped, TypeOK
<1>5. /\ IsFiniteSet(sends')
      /\ \A d \in Channels : ToCome(d) \in Nat /\ ToCome(d)' \in Nat
      /\ \A d \in Channels : d # c => ToCome(d)' = ToCome(d)
      /\ ToCome(c)' <= ToCome(c) - 1
  BY <1>0, <1>1, <1>4, ThreadEnds
<1>6. JobTyped'  BY <1>1, <1>2, <1>3, <1>4, <1>5 DEF JobTyped, TypeOK
<1>7. LoadedIsRead'  BY <1>1, <1>2 DEF LoadedIsRead, Untouched, Selects
<1>8. \A d \in Channels : Meant(d)'
  BY <1>1, <1>4 DEF Meant, Cut, Delivering, Skips, JobTyped, TypeOK
<1>9. Delivering'
  <2>1. \A r \in sends' : r \in sends  BY <1>1
  <2>2. alert \in {"roster", "done"} => outcome' = outcome  BY <1>1
  <2>3. Awaited = {} => Awaited' = {}  BY <1>1 DEF Awaited
  <2>4. alert = "done" => Left' = {}  BY <1>1, <2>2 DEF Left, Delivering
  <2>5. QED  BY <1>1, <1>8, <2>1, <2>2, <2>3, <2>4 DEF Delivering, NoOutcome
<1>10. NoticesCounted'
  <2> SUFFICES ASSUME NEW d \in Channels  PROVE (notices[d] + ToCome(d) <= troubles[d] + try)'
    BY DEF NoticesCounted
  <2>1. notices[d] + ToCome(d) <= troubles[d] + try  BY DEF NoticesCounted
  <2>2. notices[d] \in Nat /\ troubles[d] \in Nat /\ try \in Nat
    BY DEF JobTyped, TypeOK
  <2>3. CASE d = c  BY <1>1, <1>4, <1>5, <2>1, <2>2, <2>3
  <2>4. CASE d # c  BY <1>1, <1>4, <1>5, <2>1, <2>2, <2>4
  <2>5. QED  BY <2>3, <2>4
<1>11. QED  BY <1>6, <1>7, <1>9, <1>10

\* What an attempt that raises does to the counts of its channel.
LEMMA TroubleCounted ==
    ASSUME OrgTyped, JobInv, NEW c \in Channels,
           notices' = notices \/ notices' = [notices EXCEPT ![c] = @ + 1],
           troubles' = [troubles EXCEPT ![c] = @ + 1]
    PROVE  /\ notices' \in [Channels -> Nat] /\ troubles' \in [Channels -> Nat]
           /\ \A d \in Channels : notices'[d] >= notices[d] /\ troubles'[d] >= troubles[d]
           /\ \A d \in Channels : d # c => notices'[d] = notices[d] /\ troubles'[d] = troubles[d]
           /\ notices'[c] <= notices[c] + 1 /\ troubles'[c] = troubles[c] + 1
<1>1. notices \in [Channels -> Nat] /\ troubles \in [Channels -> Nat]
  BY DEF JobInv, JobTyped, TypeOK
<1>2. /\ troubles' \in [Channels -> Nat]
      /\ troubles'[c] = troubles[c] + 1
      /\ \A d \in Channels : d # c => troubles'[d] = troubles[d]
  BY <1>1
<1>3. \A d \in Channels : troubles'[d] >= troubles[d]
  <2> TAKE d \in Channels
  <2>1. troubles[d] \in Nat  BY <1>1
  <2>2. CASE d = c  BY <1>2, <2>1, <2>2
  <2>3. CASE d # c  BY <1>2, <2>1, <2>3
  <2>4. QED  BY <2>2, <2>3
<1>4. /\ notices' \in [Channels -> Nat]
      /\ notices'[c] = notices[c] \/ notices'[c] = notices[c] + 1
      /\ \A d \in Channels : d # c => notices'[d] = notices[d]
  <2>1. CASE notices' = notices  BY <1>1, <2>1
  <2>2. CASE notices' = [notices EXCEPT ![c] = @ + 1]  BY <1>1, <2>2
  <2>3. QED  BY <2>1, <2>2
<1>5. /\ \A d \in Channels : notices'[d] >= notices[d]
      /\ notices'[c] <= notices[c] + 1
  <2>1. \A d \in Channels : notices[d] \in Nat  BY <1>1
  <2>2. notices'[c] >= notices[c] /\ notices'[c] <= notices[c] + 1
    BY <1>4, <2>1
  <2>3. QED  BY <1>4, <2>1, <2>2
<1>6. QED  BY <1>2, <1>3, <1>4, <1>5

LEMMA SendFailed ==
    ASSUME OrgTyped, JobInv, NEW s \in sends,
           SendBreaks(s) \/ (SendRaises(s) /\ s.left = 1)
    PROVE  JobInv'
<1> USE DEF JobInv
<1>0. PICK c \in Channels : c = s.channel  BY DEF JobTyped, TypeOK
<1>1. /\ notices' = notices \/ notices' = [notices EXCEPT ![c] = @ + 1]
      /\ troubles' = [troubles EXCEPT ![c] = @ + 1]
      /\ sends' = sends \ {s}
      /\ outcome' = IF s.try = try /\ alert = "sending"
                    THEN [outcome EXCEPT ![c] = "failed"] ELSE outcome
      /\ UNCHANGED <<orgVars, alert, try, loaded, roster, since>>
      /\ \/ s.left = 1 /\ broken' = broken
         \/ broken' = broken \cup {[try |-> s.try, channel |-> c]}
  BY <1>0 DEF SendRaises, SendBreaks, Raises, Arrives, AfterError, Settled
<1>2. audit' = audit /\ channel' = channel  BY <1>1 DEF orgVars, tables
<1>3. OrgTypeOK'  BY <1>1 DEF OrgTyped, OrgTypeOK, orgVars, tables
<1>4. /\ outcome' \in [Channels -> {"none", "delivered", "failed", "skipped"}]
      /\ \A d \in Channels : d # c => outcome'[d] = outcome[d]
      /\ \/ outcome' = outcome /\ ~ (s.try = try /\ alert = "sending")
         \/ outcome'[c] = "failed"
  BY <1>1 DEF JobTyped, TypeOK
<1>5. /\ IsFiniteSet(sends')
      /\ \A d \in Channels : ToCome(d) \in Nat /\ ToCome(d)' \in Nat
      /\ \A d \in Channels : d # c => ToCome(d)' = ToCome(d)
      /\ ToCome(c)' <= ToCome(c) - 1
  BY <1>0, <1>1, <1>4, ThreadEnds
<1>6. /\ notices' \in [Channels -> Nat] /\ troubles' \in [Channels -> Nat]
      /\ \A d \in Channels : notices'[d] >= notices[d] /\ troubles'[d] >= troubles[d]
      /\ \A d \in Channels : d # c => notices'[d] = notices[d] /\ troubles'[d] = troubles[d]
      /\ notices'[c] <= notices[c] + 1 /\ troubles'[c] = troubles[c] + 1
  BY <1>1, TroubleCounted
<1>7. \A d \in Channels : /\ notices[d] \in Nat /\ troubles[d] \in Nat /\ Attempts(d) \in Nat
                          /\ notices'[d] \in Nat /\ troubles'[d] \in Nat
  BY <1>6, AttemptsBounded, AlertAssumption DEF JobTyped, TypeOK
<1>8. JobTyped'
  <2>1. [try |-> s.try, channel |-> c] \in [try : 1 .. MaxTries, channel : Channels]
    BY <1>0 DEF JobTyped, TypeOK
  <2>2. broken' \subseteq [try : 1 .. MaxTries, channel : Channels]
    BY <1>1, <2>1 DEF JobTyped, TypeOK
  <2>3. sends' \subseteq sends  BY <1>1
  <2>4. QED  BY <1>1, <1>2, <1>3, <1>4, <1>5, <1>6, <2>2, <2>3 DEF JobTyped, TypeOK
<1>9. LoadedIsRead'  BY <1>1, <1>2 DEF LoadedIsRead, Untouched, Selects
<1>10. \/ troubles'[c] >= Attempts(c)
       \/ s.try = try => Cut(c)'
  <2>1. troubles[c] + s.left >= Attempts(c)  BY <1>0 DEF Delivering
  <2>2. CASE s.left = 1  BY <1>6, <2>1, <2>2
  <2>3. CASE broken' = broken \cup {[try |-> s.try, channel |-> c]}  BY <1>1, <2>3 DEF Cut
  <2>4. QED  BY <1>1, <2>2, <2>3
<1>11. ASSUME NEW d \in Channels  PROVE Meant(d)'
  <2>1. outcome'[d] = outcome[d] \/ (d = c /\ outcome'[d] = "failed" /\ s.try = try)
    BY <1>1, <1>4
  <2>2. Skips(d)' <=> Skips(d)  BY <1>1 DEF Skips
  <2>3. Meant(d)  BY DEF Delivering
  <2>4. CASE outcome'[d] = outcome[d]
    <3>1. notices[d] > 0 => notices'[d] > 0  BY <1>6, <1>7
    <3>2. troubles[d] >= Attempts(d) => troubles'[d] >= Attempts(d)  BY <1>6, <1>7
    <3>3. Cut(d) => Cut(d)'  BY <1>1 DEF Cut
    <3>4. QED  BY <1>1, <2>2, <2>3, <2>4, <3>1, <3>2, <3>3 DEF Meant, Attempts
  <2>5. CASE d = c /\ outcome'[d] = "failed" /\ s.try = try
    BY <1>10, <2>5 DEF Meant, Attempts
  <2>6. QED  BY <2>1, <2>4, <2>5
<1>12. Delivering'
  <2>1. ASSUME NEW r \in sends'
        PROVE  r.try <= try' /\ troubles'[r.channel] + r.left >= Attempts(r.channel)
    <3>1. /\ r \in sends /\ r.channel \in Channels /\ r.left \in Nat
      BY <1>1 DEF JobTyped, TypeOK
    <3>2. r.try <= try /\ troubles[r.channel] + r.left >= Attempts(r.channel)
      BY <3>1 DEF Delivering
    <3>3. troubles'[r.channel] >= troubles[r.channel]  BY <1>6, <3>1
    <3>4. QED  BY <1>1, <1>7, <3>1, <3>2, <3>3
  <2>2. alert \in {"roster", "done"} => outcome' = outcome  BY <1>1
  <2>3. Awaited = {} => Awaited' = {}  BY <1>1 DEF Awaited
  <2>4. alert = "done" => Left' = {}  BY <1>1, <2>2 DEF Left, Delivering
  <2>5. QED  BY <1>1, <1>11, <2>1, <2>2, <2>3, <2>4 DEF Delivering, NoOutcome, Attempts
<1>13. NoticesCounted'
  <2> SUFFICES ASSUME NEW d \in Channels  PROVE (notices[d] + ToCome(d) <= troubles[d] + try)'
    BY DEF NoticesCounted
  <2>1. notices[d] + ToCome(d) <= troubles[d] + try  BY DEF NoticesCounted
  <2>2. try \in Nat  BY DEF JobTyped, TypeOK
  <2>3. CASE d = c  BY <1>1, <1>5, <1>6, <1>7, <2>1, <2>2, <2>3
  <2>4. CASE d # c  BY <1>1, <1>5, <1>6, <1>7, <2>1, <2>2, <2>4
  <2>5. QED  BY <2>3, <2>4
<1>14. QED  BY <1>8, <1>9, <1>12, <1>13

LEMMA SendRetried ==
    ASSUME OrgTyped, JobInv, NEW s \in sends, SendRaises(s), s.left # 1
    PROVE  JobInv'
<1> USE DEF JobInv
<1>0. PICK c \in Channels : c = s.channel  BY DEF JobTyped, TypeOK
<1>t. PICK t : t = [s EXCEPT !.left = @ - 1]  OBVIOUS
<1>1. /\ notices' = notices \/ notices' = [notices EXCEPT ![c] = @ + 1]
      /\ troubles' = [troubles EXCEPT ![c] = @ + 1]
      /\ sends' = (sends \ {s}) \cup {t}
      /\ UNCHANGED <<orgVars, alert, try, loaded, roster, outcome, broken, since>>
  BY <1>0, <1>t DEF SendRaises, Raises, Arrives, AfterError
<1>2. /\ t \in [try : 1 .. MaxTries, channel : Channels, left : 1 .. HTTP_ATTEMPTS]
      /\ t.try = s.try /\ t.channel = c /\ t.left = s.left - 1
  <2>1. s \in [try : 1 .. MaxTries, channel : Channels, left : 1 .. HTTP_ATTEMPTS]
    BY DEF JobTyped, TypeOK
  <2>2. s.left - 1 \in 1 .. HTTP_ATTEMPTS  BY <2>1, AlertAssumption
  <2>3. QED  BY <1>0, <1>t, <2>1, <2>2
<1>3. audit' = audit /\ channel' = channel  BY <1>1 DEF orgVars, tables
<1>4. OrgTypeOK'  BY <1>1 DEF OrgTyped, OrgTypeOK, orgVars, tables
<1>5. IsFiniteSet(sends')
  <2>1. IsFiniteSet(sends \ {s})  BY FS_RemoveElement DEF JobTyped
  <2>2. QED  BY <1>1, <2>1, FS_AddElement
<1>6. /\ notices' \in [Channels -> Nat] /\ troubles' \in [Channels -> Nat]
      /\ \A d \in Channels : notices'[d] >= notices[d] /\ troubles'[d] >= troubles[d]
      /\ \A d \in Channels : d # c => notices'[d] = notices[d] /\ troubles'[d] = troubles[d]
      /\ notices'[c] <= notices[c] + 1 /\ troubles'[c] = troubles[c] + 1
  BY <1>1, TroubleCounted
<1>7. \A d \in Channels : /\ notices[d] \in Nat /\ troubles[d] \in Nat /\ Attempts(d) \in Nat
                          /\ notices'[d] \in Nat /\ troubles'[d] \in Nat
  BY <1>6, AttemptsBounded, AlertAssumption DEF JobTyped, TypeOK
<1>8. JobTyped'  BY <1>1, <1>2, <1>3, <1>4, <1>5, <1>6 DEF JobTyped, TypeOK
<1>9. LoadedIsRead'  BY <1>1, <1>3 DEF LoadedIsRead, Untouched, Selects
<1>10. ASSUME NEW d \in Channels  PROVE Meant(d)'
  <2>1. Skips(d)' <=> Skips(d)  BY <1>1 DEF Skips
  <2>2. Meant(d)  BY DEF Delivering
  <2>3. notices[d] > 0 => notices'[d] > 0  BY <1>6, <1>7
  <2>4. troubles[d] >= Attempts(d) => troubles'[d] >= Attempts(d)  BY <1>6, <1>7
  <2>5. QED  BY <1>1, <2>1, <2>2, <2>3, <2>4 DEF Meant, Cut, Attempts
<1>11. Delivering'
  <2>1. ASSUME NEW r \in sends
        PROVE  /\ r.try <= try /\ troubles[r.channel] + r.left >= Attempts(r.channel)
               /\ r.channel \in Channels /\ r.left \in Nat
    BY DEF Delivering, JobTyped, TypeOK
  <2>2. ASSUME NEW r \in sends'
        PROVE  r.try <= try' /\ troubles'[r.channel] + r.left >= Attempts(r.channel)
    <3>1. CASE r = t
      <4>1. troubles[c] + s.left >= Attempts(c) /\ s.try <= try /\ s.left \in Nat
        BY <1>0, <2>1
      <4>2. QED  BY <1>1, <1>2, <1>6, <1>7, <3>1, <4>1
    <3>2. CASE r # t
      <4>1. r \in sends  BY <1>1, <3>2
      <4>2. troubles'[r.channel] >= troubles[r.channel]  BY <1>6, <2>1, <4>1
      <4>3. QED  BY <1>1, <1>7, <2>1, <4>1, <4>2
    <3>3. QED  BY <3>1, <3>2
  <2>3. Awaited = {} => Awaited' = {}  BY <1>1, <1>2 DEF Awaited
  <2>4. QED  BY <1>1, <1>10, <2>2, <2>3 DEF Delivering, NoOutcome, Attempts, Left
<1>12. NoticesCounted'
  <2> SUFFICES ASSUME NEW d \in Channels  PROVE (notices[d] + ToCome(d) <= troubles[d] + try)'
    BY DEF NoticesCounted
  <2>1. notices[d] + ToCome(d) <= troubles[d] + try  BY DEF NoticesCounted
  <2>2. try \in Nat  BY DEF JobTyped, TypeOK
  <2>3. MayStart(d)' => MayStart(d)
    <3>1. \A r \in Awaited : \E q \in Awaited' : q.channel = r.channel
      BY <1>0, <1>1, <1>2 DEF Awaited
    <3>2. QED  BY <1>1, <3>1 DEF MayStart, Left
  <2>4. IsFiniteSet(Threads(d)) /\ Cardinality(Threads(d)) \in Nat
    BY ThreadsCounted DEF JobTyped
  <2>5. Cardinality(Threads(d)') \in Nat /\ Cardinality(Threads(d)') <= Cardinality(Threads(d))
    <3>1. CASE d = c
      <4>1. PICK rest : rest = Threads(c) \ {s}  OBVIOUS
      <4>2. s \in Threads(c)  BY <1>0 DEF Threads
      <4>3. IsFiniteSet(rest) /\ Cardinality(rest) = Cardinality(Threads(c)) - 1
        BY <2>4, <3>1, <4>1, <4>2, FS_RemoveElement
      <4>4. Threads(c)' = rest \cup {t}  BY <1>0, <1>1, <1>2, <4>1 DEF Threads
      <4>5. Cardinality(rest \cup {t})
              = IF t \in rest THEN Cardinality(rest) ELSE Cardinality(rest) + 1
        BY <4>3, FS_AddElement
      <4>6. Cardinality(rest) \in Nat  BY <4>3, FS_CardinalityType
      <4>7. QED  BY <2>4, <3>1, <4>3, <4>4, <4>5, <4>6
    <3>2. CASE d # c
      <4>1. Threads(d)' = Threads(d)  BY <1>0, <1>1, <1>2, <3>2 DEF Threads
      <4>2. QED  BY <2>4, <4>1
    <3>3. QED  BY <3>1, <3>2
  <2>6. CASE d = c
    BY <1>1, <1>6, <1>7, <2>1, <2>2, <2>3, <2>4, <2>5, <2>6 DEF ToCome
  <2>7. CASE d # c
    BY <1>1, <1>6, <1>7, <2>1, <2>2, <2>3, <2>4, <2>5, <2>7 DEF ToCome
  <2>8. QED  BY <2>6, <2>7
<1>13. QED  BY <1>8, <1>9, <1>11, <1>12

\* When the job is done every channel that was on all along has been tried, and whoever
\* hears twice hears twice for a reason: whatever other channels did, whatever admins did
\* meanwhile, and however often the job was cut off with its threads still posting.
THEOREM ChannelsAreServedHolds == Spec => []ChannelsAreServed
<1> DEFINE Inv == OrgTyped /\ NothingDangles /\ JobInv
<1>1. Init => Inv
  <2> SUFFICES ASSUME Init  PROVE OrgTyped /\ NothingDangles /\ JobInv  OBVIOUS
  <2>1. OrgTyped  BY InitOrgTyped DEF Init
  <2>2. NothingDangles  BY DEF Init, OrgInit, NothingDangles, Exists
  <2>3. JobTyped
    <3>1. IsFiniteSet(sends)  BY FS_EmptySet DEF Init
    <3>2. audit = <<>> /\ Len(audit) = 0  BY DEF Init, OrgInit
    <3>3. QED
      BY <2>1, <3>1, <3>2, AlertAssumption DEF Init, JobTyped, TypeOK, OrgTyped, NoOutcome
  <2>4. LoadedIsRead  BY DEF Init, LoadedIsRead
  <2>5. \A c \in Channels : Meant(c)  BY DEF Init, Meant, Cut, NoOutcome
  <2>6. Delivering  BY <2>5 DEF Init, Delivering, Awaited
  <2>7. NoticesCounted
    <3>1. \A c : Threads(c) = {}  BY DEF Init, Threads
    <3>2. \A c : Cardinality(Threads(c)) = 0  BY <3>1, FS_EmptySet
    <3>3. QED  BY <3>2 DEF Init, NoticesCounted, ToCome, MayStart
  <2>8. QED  BY <2>1, <2>2, <2>3, <2>4, <2>6, <2>7 DEF JobInv
<1>2. Inv /\ [Next]_vars => Inv'
  <2> SUFFICES ASSUME OrgTyped, NothingDangles, JobInv, [Next]_vars
               PROVE  (OrgTyped /\ NothingDangles /\ JobInv)'
    OBVIOUS
  <2>1. OrgMove /\ OrgTyped' /\ NothingDangles'
    BY StepIsOrgMove, StepOrgTyped, StepKeepsTies
  <2>2. ASSUME UNCHANGED jobVars  PROVE JobInv'  BY <2>1, <2>2, OrgStepKeepsJob
  <2>3. CASE Enqueue  BY <2>1, <2>3, JobEnqueued
  <2>4. CASE LoadChannels  BY <2>1, <2>4, ChannelsLoaded
  <2>5. CASE LoadMembers  BY <2>1, <2>5, MembersLoaded
  <2>6. CASE Finish  BY <2>1, <2>6, JobFinished
  <2>7. CASE Interrupt  BY <2>1, <2>7, JobInterrupted
  <2>8. CASE \E c \in Channels : Deliver(c)  BY <2>1, <2>8, ChannelSkipped, SendStarted
  <2>9. CASE \E s \in sends : SendSucceeds(s)  BY <2>1, <2>9, SendSucceeded
  <2>10. CASE \E s \in sends : SendRaises(s)  BY <2>1, <2>10, SendFailed, SendRetried
  <2>12. CASE \E s \in sends : SendBreaks(s)  BY <2>1, <2>12, SendFailed
  <2>11. QED
    BY <2>1, <2>2, <2>3, <2>4, <2>5, <2>6, <2>7, <2>8, <2>9, <2>10, <2>12
       DEF Next, JobStep, vars
<1>3. Inv => ChannelsAreServed
  <2> SUFFICES ASSUME OrgTyped, NothingDangles, JobInv  PROVE ChannelsAreServed  OBVIOUS
  <2>1. ExtraNoticeNeedsTrouble
    <3> SUFFICES ASSUME NEW c \in Channels  PROVE notices[c] <= troubles[c] + try
      BY DEF ExtraNoticeNeedsTrouble
    <3>1. notices[c] + ToCome(c) <= troubles[c] + try  BY DEF JobInv, NoticesCounted
    <3>2. ToCome(c) \in Nat  BY ThreadsCounted DEF JobInv, JobTyped, ToCome
    <3>3. QED  BY <3>1, <3>2 DEF JobInv, JobTyped, TypeOK
  <2>2. ASSUME alert = "done", NEW c \in Channels, Untouched(c)
        PROVE  c \in loaded <=> channel[c] = "on" /\ InScope(c)
                                /\ (Scope[c] # OrgWide => Scope[c] = IssueProject[Alerted])
    <3>1. c \in loaded <=> channel[c] = "on" /\ Selects(c)  BY <2>2 DEF JobInv, LoadedIsRead
    <3>2. channel[c] = "on" => InScope(c)  BY DEF NothingDangles, Exists
    <3>3. Selects(c) <=> (Scope[c] # OrgWide => Scope[c] = IssueProject[Alerted])
      BY DEF Selects
    <3>4. QED  BY <3>1, <3>2, <3>3
  <2>3. ASSUME alert = "done", NEW c \in loaded
        PROVE  CASE outcome[c] = "delivered" -> notices[c] > 0
                 [] outcome[c] = "failed" ->
                      \/ troubles[c] >= Attempts(c)
                      \/ [try |-> try, channel |-> c] \in broken
                 [] outcome[c] = "skipped" -> Skips(c)
                 [] OTHER -> FALSE
    <3>1. c \in Channels /\ outcome[c] \in {"none", "delivered", "failed", "skipped"}
      BY DEF JobInv, JobTyped, TypeOK
    <3>2. outcome[c] # "none"  BY <2>3 DEF JobInv, Delivering, Left
    <3>3. Meant(c)  BY <3>1 DEF JobInv, Delivering
    <3>4. QED  BY <2>3, <3>1, <3>2, <3>3 DEF Meant, Cut
  <2>4. EveryChannelIsTried
    BY <2>2, <2>3 DEF EveryChannelIsTried, JobInv, Delivering
  <2>5. QED  BY <2>1, <2>4 DEF ChannelsAreServed
<1>4. QED  BY <1>1, <1>2, <1>3, PTL DEF Spec
=============================================================================
