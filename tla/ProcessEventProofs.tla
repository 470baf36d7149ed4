------------------------- MODULE ProcessEventProofs -------------------------
(***************************************************************************)
(* Theorems about ProcessEvent for every number of jobs, releases, users,  *)
(* tries and triage actions.                                               *)
(***************************************************************************)
EXTENDS ProcessEvent, FiniteSetTheorems, SequenceTheorems, TLAPS

-----------------------------------------------------------------------------
(* Types.                                                                  *)

\* The upsert of a job writes an issues row, whichever way it goes.
LEMMA UpsertedRowType ==
    ASSUME TypeOK, NEW j \in Jobs
    PROVE  UpsertedRow(j) \in IssueRows
<1>1. env[j].received_at \in Nat /\ env[j].release \in Releases \cup {NoRelease}
  BY DEF TypeOK, Envelopes
<1>2. InsertedRow(j) \in IssueRows
  BY <1>1 DEF InsertedRow, IssueRows, Statuses, TypeOK, NoRelease
<1>3. UpdatedRow(j) \in IssueRows
  <2>1. issue \in IssueRows  BY DEF TypeOK
  <2>2. Greatest(issue.last_seen, env[j].received_at) \in Nat
    BY <1>1, <2>1 DEF Greatest, IssueRows
  <2>3. QED  BY <1>1, <2>1, <2>2 DEF UpdatedRow, IssueRows, Statuses
<1>4. QED  BY <1>2, <1>3 DEF UpsertedRow

LEMMA LatestReleaseType == LatestRelease \subseteq Releases \cup {NoRelease}
BY DEF LatestRelease, Latest, Known

LEMMA EmptyTypes ==
    /\ NoTxn \in Txns
    /\ NoWrite \in Writes
    /\ NoIssue \in IssueRows
    /\ \A t \in Nat, late \in BOOLEAN : Opened(t, late) \in Txns
BY DEF NoTxn, NoWrite, NoIssue, NoRelease, Opened, Txns, Writes, IssueRows, Statuses

\* A triage UPDATE writes an issues row.
LEMMA RewrittenType ==
    ASSUME TypeOK, NEW u \in Users,
           request[u].action \in {"resolve", "ignore", "reopen"}
    PROVE  Rewritten(request[u]) \in IssueRows
<1>1. issue \in IssueRows /\ request[u].latest \in Releases \cup {NoRelease}
  BY DEF TypeOK
<1>2. Resolved(request[u]) \in IssueRows
  BY <1>1 DEF Resolved, IssueRows, Statuses, NoRelease
<1>3. QED  BY <1>1, <1>2 DEF Rewritten, IssueRows, Statuses, NoRelease

\* Recording a Boolean in an open transaction keeps its type.
LEMMA TxnFlagTypes ==
    ASSUME txn \in [Jobs -> Txns], NEW j \in Jobs, NEW b \in BOOLEAN
    PROVE  /\ [txn EXCEPT ![j].newRelease = b] \in [Jobs -> Txns]
           /\ [txn EXCEPT ![j].should = b] \in [Jobs -> Txns]
BY DEF Txns

\* The steps inside a transaction keep the types.
LEMMA WorkType ==
    ASSUME TypeOK, NEW j \in Jobs, Work(j) \/ Raise(j)
    PROVE  TypeOK'
<1> USE EmptyTypes
<1>e. /\ env[j] \in Envelopes /\ issue \in IssueRows
      /\ write[j] \in Writes /\ txn[j] \in Txns
  BY DEF TypeOK
<1> USE DEF TypeOK, At, Goto, Close, Tables, Outside, Reads, Steps, InTransaction, Ended
<1>1. CASE DropPoison(j)  BY <1>1 DEF DropPoison
<1>2. CASE Begin(j)
  <2>1. now' \in Nat \ {0}  BY <1>2 DEF Begin
  <2>2. Opened(now', Stored(env[j].event_id)) \in Txns  BY <2>1 DEF Stored
  <2>3. QED  BY <1>2, <2>1, <2>2 DEF Begin
<1>3. CASE Dedupe(j)  BY <1>3, ZenonT(40) DEF Dedupe
<1>4. CASE RecordRelease(j)  
  <2> DEFINE b == releases[env[j].release] = 0
  <2>1. txn' = [txn EXCEPT ![j].newRelease = b]  BY <1>4 DEF RecordRelease
  <2>2. b \in BOOLEAN  OBVIOUS
  <2> HIDE DEF b
  <2>3. txn' \in [Jobs -> Txns]  BY <2>1, <2>2, TxnFlagTypes
  <2>4. QED  BY <1>4, <2>3 DEF RecordRelease
<1>5. CASE PreRead(j)  BY <1>5, <1>e DEF PreRead, Txns, IssueRows
<1>6. CASE Decide(j)
  <2>1. decide_regression(j) \in BOOLEAN  BY DEF decide_regression
  <2>2. txn' \in [Jobs -> Txns]  BY <1>6, <2>1, TxnFlagTypes DEF Decide
  <2>3. QED  BY <1>6, <2>2 DEF Decide
<1>7. CASE UpsertStart(j)  BY <1>7, <1>e DEF UpsertStart, Txns, IssueRows
<1>8. CASE UpsertApply(j)
  <2>1. UpsertedRow(j) \in IssueRows  BY UpsertedRowType
  <2>2. Created(j) \in BOOLEAN /\ Transition(j) \in BOOLEAN
    BY DEF Created, Transition
  <2>3. QED  BY <1>8, <2>1, <2>2 DEF UpsertApply, Writes
<1>9. CASE InsertEvent(j)  BY <1>9 DEF InsertEvent
<1>10. CASE DuplicateKey(j) \/ Raise(j)
  <2>1. Outcomes(j) \subseteq Steps  BY DEF Outcomes
  <2>2. Unlocked(j) \in Jobs \cup {NoJob}  BY DEF Unlocked
  <2>3. EndAttempt(j)  BY <1>10 DEF DuplicateKey, Raise
  <2>4. PICK step \in Steps : Goto(j, step)  BY <2>1, <2>3 DEF EndAttempt
  <2>5. QED  BY <2>2, <2>3, <2>4 DEF EndAttempt
<1>11. CASE Commit(j)
  <2>1. releases' \in [Releases -> Nat]  BY <1>11, <1>e DEF Commit, Txns
  <2>2. issue' \in IssueRows  BY <1>11, <1>e DEF Commit, Writes
  <2>3. nextId' \in Nat \ {0}  BY <1>11 DEF Commit
  <2>4. EventRow(j) \in EventRows
    BY <1>e DEF EventRow, EventRows, Envelopes, Writes, IssueRows, Txns
  <2>5. flips' \subseteq Flips
    <3>1. Flip(j) \in Flips  BY <1>e DEF Flip, Flips, Txns, IssueRows, Envelopes
    <3>2. QED  BY <1>11, <3>1 DEF Commit
  <2>6. QED  BY <1>11, <2>1, <2>2, <2>3, <2>4, <2>5 DEF Commit
<1>12. CASE Finish(j)
  <2>1. Alert(j) \in Alerts  BY <1>e DEF Alert, Alerts, Writes, IssueRows
  <2>2. QED  BY <1>12, <2>1 DEF Finish
<1>13. QED
  BY <1>1, <1>2, <1>3, <1>4, <1>5, <1>6, <1>7, <1>8, <1>9, <1>10, <1>11, <1>12
     DEF Work

\* The triage actions keep the types.
LEMMA TriageType ==
    ASSUME TypeOK, NEW u \in Users, Triage(u)
    PROVE  TypeOK'
<1> USE DEF TypeOK, Tables, Actions
<1>1. CASE \E a \in Actions : StartAction(u, a)
  <2>1. PICK a \in Actions : StartAction(u, a)  BY <1>1
  <2>2. PICK latest \in LatestRelease :
           request' = [request EXCEPT ![u] =
                         [action |-> a, id |-> issue.id, latest |-> latest]]
    BY <2>1 DEF StartAction
  <2>3. latest \in Releases \cup {NoRelease} /\ issue.id \in Nat
    BY LatestReleaseType DEF IssueRows
  <2>4. QED  BY <2>1, <2>2, <2>3 DEF StartAction
<1>2. ASSUME NEW row \in IssueRows, Complete(u, row), request[u].action \in Actions
      PROVE  TypeOK'
  <2> DEFINE Entry == [action : Actions, issue : Nat]
             entry == [action |-> request[u].action, issue |-> issue.id]
  <2>1. entry \in Entry  BY <1>2 DEF IssueRows
  <2>2. audit' = Append(audit, entry) \/ audit' = audit  BY <1>2 DEF Complete
  <2>3. audit \in Seq(Entry)  OBVIOUS
  <2>4. audit' \in Seq(Entry)
    <3>1. Append(audit, entry) \in Seq(Entry)
      <4> HIDE DEF Entry, entry
      <4>1. QED  BY <2>1, <2>3, AppendProperties
    <3>2. QED  BY <2>2, <2>3, <3>1
  <2>5. Idle \in [action : Actions \cup {"none"}, id : Nat,
                  latest : Releases \cup {NoRelease}]
    BY DEF Idle, NoRelease
  <2>6. QED  BY <1>2, <2>4, <2>5 DEF Complete
<1>3. CASE set_issue_status(u)
  BY <1>2, <1>3, RewrittenType DEF set_issue_status
<1>4. CASE delete_issue(u)
  BY <1>2, <1>4, EmptyTypes DEF delete_issue
<1>5. CASE AbandonAction(u)
  BY <1>5 DEF AbandonAction, Idle, NoRelease
<1>6. QED  BY <1>1, <1>3, <1>4, <1>5 DEF Triage

\* Type correctness: whatever the workload, the interleaving and the failures,
\* every variable of the model keeps its type.
THEOREM TypeCorrect == Spec => []TypeOK
<1>1. Init => TypeOK
  BY EmptyTypes, WorkloadAssumption DEF Init, TypeOK, Steps, Idle, NoRelease
<1>2. TypeOK /\ [Next]_vars => TypeOK'
  <2> SUFFICES ASSUME TypeOK, [Next]_vars  PROVE TypeOK'  OBVIOUS
  <2>1. CASE \E j \in Jobs : Work(j) \/ Raise(j)  BY <2>1, WorkType
  <2>2. CASE \E u \in Users : Triage(u)  BY <2>2, TriageType
  <2>3. CASE UNCHANGED vars  BY <2>3 DEF vars, TypeOK
  <2>4. QED  BY <2>1, <2>2, <2>3 DEF Next, Rest
<1>3. QED  BY <1>1, <1>2, PTL DEF Spec

-----------------------------------------------------------------------------
(* The row lock.                                                           *)

Writing == {"insert", "commit"}

\* The lock is held exactly by the attempt that wrote the row and did not end.
LockHeld == \A j \in Jobs : rowLock = j <=> pc[j] \in Writing

\* Under the lock, what an attempt will commit stays what its upsert would write
\* over the committed row, and its event stays new.
WriteCurrent ==
    \A j \in Jobs :
        pc[j] \in Writing =>
            /\ write[j].row = UpsertedRow(j)
            /\ write[j].created = Created(j)
            /\ write[j].regressed = Transition(j)
            /\ pc[j] = "commit" => ~KeyTaken(j)

\* Ids are fresh: nothing refers to one that is yet to be given.
IdsFresh ==
    /\ nextId # 0 /\ issue.id < nextId
    /\ issue.id = 0 <=> issue = NoIssue
    /\ \A r \in events : r.issue_id # 0 /\ r.issue_id < nextId

\* An open request names a row.
RequestsNamed == \A u \in Users : request[u].action # "none" => request[u].id # 0

Locking == LockHeld /\ WriteCurrent /\ IdsFresh /\ RequestsNamed

\* What the upsert of j writes depends on the committed row and on its own reads.
LEMMA SameUpsert ==
    ASSUME NEW j \in Jobs,
           UNCHANGED <<issue, nextId, events, env>>, txn'[j] = txn[j]
    PROVE  /\ UpsertedRow(j)' = UpsertedRow(j)
           /\ Created(j)' = Created(j)
           /\ Transition(j)' = Transition(j)
           /\ KeyTaken(j)' = KeyTaken(j)
BY DEF UpsertedRow, InsertedRow, UpdatedRow, Regresses, Greatest, Created,
       Transition, KeyTaken

\* A step of an attempt that neither has nor takes the row lock.
LEMMA QuietStep ==
    ASSUME Locking, NEW k \in Jobs, pc[k] \notin Writing, pc'[k] \notin Writing,
           \A j \in Jobs \ {k} : /\ pc'[j] = pc[j] /\ txn'[j] = txn[j]
                                 /\ write'[j] = write[j],
           UNCHANGED <<env, issue, events, nextId, rowLock, request>>
    PROVE  Locking'
<1>1. LockHeld'  BY DEF Locking, LockHeld
<1>2. WriteCurrent'
  <2> SUFFICES ASSUME NEW j \in Jobs, pc'[j] \in Writing
               PROVE  /\ write'[j].row = UpsertedRow(j)'
                      /\ write'[j].created = Created(j)'
                      /\ write'[j].regressed = Transition(j)'
                      /\ pc'[j] = "commit" => ~KeyTaken(j)'
    BY DEF WriteCurrent
  <2>1. j # k /\ pc[j] = pc'[j] /\ txn'[j] = txn[j] /\ write'[j] = write[j]
    OBVIOUS
  <2>2. QED  BY <2>1, SameUpsert DEF Locking, WriteCurrent
<1>3. IdsFresh' /\ RequestsNamed'  BY DEF Locking, IdsFresh, RequestsNamed
<1>4. QED  BY <1>1, <1>2, <1>3 DEF Locking

\* The upsert takes the free lock and writes over the committed row.
LEMMA ApplyStep ==
    ASSUME TypeOK, Locking, NEW k \in Jobs, UpsertApply(k)
    PROVE  Locking'
<1> USE DEF Locking, UpsertApply, Goto, At, Tables, Outside
<1>1. LockHeld'
  <2> SUFFICES ASSUME NEW j \in Jobs  PROVE (rowLock = j <=> pc[j] \in Writing)'
    BY DEF LockHeld
  <2>1. rowLock = NoJob /\ NoJob \notin Jobs  BY JobsAssumption DEF RowFree
  <2>2. pc' = [pc EXCEPT ![k] = "insert"] /\ pc \in [Jobs -> Steps]  BY DEF TypeOK
  <2>3. CASE j = k  BY <2>2, <2>3 DEF Writing
  <2>4. CASE j # k  BY <2>1, <2>2, <2>4 DEF LockHeld
  <2>5. QED  BY <2>3, <2>4
<1>2. WriteCurrent'
  <2> SUFFICES ASSUME NEW j \in Jobs, pc'[j] \in Writing
               PROVE  /\ write'[j].row = UpsertedRow(j)'
                      /\ write'[j].created = Created(j)'
                      /\ write'[j].regressed = Transition(j)'
                      /\ pc'[j] = "commit" => ~KeyTaken(j)'
    BY DEF WriteCurrent
  <2>1. j = k  BY <1>1 DEF LockHeld
  <2>2. pc'[j] = "insert" /\ txn'[j] = txn[j]  BY <2>1 DEF TypeOK
  <2>3. write'[j] = [row |-> UpsertedRow(j), created |-> Created(j),
                     regressed |-> Transition(j)]
    BY <2>1 DEF TypeOK
  <2>4. QED  BY <2>2, <2>3, SameUpsert
<1>3. IdsFresh' /\ RequestsNamed'  BY DEF IdsFresh, RequestsNamed
<1>4. QED  BY <1>1, <1>2, <1>3

\* The commit publishes the row and gives the lock up.
LEMMA CommitStep ==
    ASSUME TypeOK, Locking, NEW k \in Jobs, Commit(k)
    PROVE  Locking'
<1> USE DEF Locking, Commit, Goto, At
<1>1. rowLock = k /\ k # NoJob  BY JobsAssumption DEF LockHeld, Writing
<1>2. \A j \in Jobs : pc'[j] \notin Writing
  <2> SUFFICES ASSUME NEW j \in Jobs  PROVE pc'[j] \notin Writing  OBVIOUS
  <2>1. CASE j = k  BY <2>1 DEF TypeOK, Writing
  <2>2. CASE j # k  BY <1>1, <2>2 DEF TypeOK, LockHeld
  <2>3. QED  BY <2>1, <2>2
<1>3. LockHeld'  BY <1>2, JobsAssumption DEF LockHeld
<1>4. WriteCurrent'  BY <1>2 DEF WriteCurrent
<1>5. IdsFresh'
  <2>1. /\ issue' = UpsertedRow(k) /\ write[k].row = issue'
        /\ nextId' = IF Created(k) THEN nextId + 1 ELSE nextId
    BY DEF WriteCurrent, Writing
  <2>2. issue.id \in Nat /\ nextId \in Nat  BY DEF TypeOK, IssueRows
  <2>3. issue'.id # 0 /\ issue'.id < nextId'
    BY <2>1, <2>2 DEF UpsertedRow, InsertedRow, UpdatedRow, Created, IdsFresh
  <2>4. EventRow(k).issue_id = issue'.id  BY <2>1 DEF EventRow
  <2>5. \A r \in events : r.issue_id \in Nat  BY DEF TypeOK, EventRows
  <2>6. QED  BY <2>1, <2>2, <2>3, <2>4, <2>5 DEF IdsFresh, NoIssue
<1>6. RequestsNamed'  BY DEF RequestsNamed
<1>7. QED  BY <1>3, <1>4, <1>5, <1>6

\* An attempt that ends early leaves the tables alone.
LEMMA EndStep ==
    ASSUME TypeOK, Locking, NEW k \in Jobs, EndAttempt(k)
    PROVE  Locking'
<1> USE DEF Locking, EndAttempt, Goto, Tables, Outside, Close
<1>1. PICK step \in {"queued", "failed"} : pc' = [pc EXCEPT ![k] = step]
  BY DEF Outcomes
<1>2. \A j \in Jobs \ {k} : pc'[j] = pc[j] /\ txn'[j] = txn[j] /\ write'[j] = write[j]
  BY <1>1 DEF TypeOK
<1>3. pc'[k] \notin Writing  BY <1>1 DEF TypeOK, Writing
<1>4. LockHeld'  BY <1>2, <1>3, JobsAssumption DEF LockHeld, Unlocked
<1>5. WriteCurrent'
  <2> SUFFICES ASSUME NEW j \in Jobs, pc'[j] \in Writing
               PROVE  /\ write'[j].row = UpsertedRow(j)'
                      /\ write'[j].created = Created(j)'
                      /\ write'[j].regressed = Transition(j)'
                      /\ pc'[j] = "commit" => ~KeyTaken(j)'
    BY DEF WriteCurrent
  <2>1. j # k /\ pc[j] = pc'[j] /\ txn'[j] = txn[j] /\ write'[j] = write[j]
    BY <1>2, <1>3
  <2>2. QED  BY <2>1, SameUpsert DEF WriteCurrent
<1>6. IdsFresh' /\ RequestsNamed'  BY DEF IdsFresh, RequestsNamed
<1>7. QED  BY <1>4, <1>5, <1>6

LEMMA LockingWork ==
    ASSUME TypeOK, Locking, NEW k \in Jobs, Work(k) \/ Raise(k)
    PROVE  Locking'
<1> USE DEF At, Goto, Tables, Outside, Close, Reads, TypeOK
<1>1. CASE DropPoison(k)  BY <1>1, QuietStep DEF DropPoison, Writing
<1>2. CASE Begin(k)  BY <1>2, QuietStep DEF Begin, Writing
<1>3. CASE Dedupe(k)  BY <1>3, QuietStep DEF Dedupe, Writing
<1>4. CASE RecordRelease(k)  BY <1>4, QuietStep DEF RecordRelease, Writing
<1>5. CASE PreRead(k)  BY <1>5, QuietStep DEF PreRead, Writing
<1>6. CASE Decide(k)  BY <1>6, QuietStep DEF Decide, Writing
<1>7. CASE UpsertStart(k)  BY <1>7, QuietStep DEF UpsertStart, Writing
<1>8. CASE UpsertApply(k)  BY <1>8, ApplyStep
<1>9. CASE InsertEvent(k)
  <2> SUFFICES ASSUME NEW j \in Jobs, pc'[j] \in Writing
               PROVE  /\ pc[j] \in Writing
                      /\ pc'[j] = "commit" => pc[j] = "commit" \/ ~KeyTaken(j)
    BY <1>9, SameUpsert
       DEF InsertEvent, Locking, LockHeld, WriteCurrent, IdsFresh, RequestsNamed, Writing
  <2>1. CASE j = k  BY <1>9, <2>1 DEF InsertEvent, Writing
  <2>2. CASE j # k  BY <1>9, <2>2 DEF InsertEvent, Writing
  <2>3. QED  BY <2>1, <2>2
<1>10. CASE DuplicateKey(k) \/ Raise(k)  BY <1>10, EndStep DEF DuplicateKey, Raise
<1>11. CASE Commit(k)  BY <1>11, CommitStep
<1>12. CASE Finish(k)  BY <1>12, QuietStep DEF Finish, Writing
<1>13. QED
  BY <1>1, <1>2, <1>3, <1>4, <1>5, <1>6, <1>7, <1>8, <1>9, <1>10, <1>11, <1>12
     DEF Work

LEMMA LockingTriage ==
    ASSUME TypeOK, Locking, NEW u \in Users, Triage(u)
    PROVE  Locking'
<1> USE DEF Locking, Tables
<1>1. CASE UNCHANGED <<env, issue, events, nextId, rowLock, pc, txn, write>>
           /\ RequestsNamed'
  <2>1. LockHeld' /\ IdsFresh'  BY <1>1 DEF LockHeld, IdsFresh
  <2>2. WriteCurrent'  BY <1>1, SameUpsert DEF WriteCurrent
  <2>3. QED  BY <1>1, <2>1, <2>2
<1>2. CASE \E a \in Actions : StartAction(u, a)
  <2>1. RequestsNamed'
    BY <1>2 DEF StartAction, RequestsNamed, IdsFresh, TypeOK
  <2>2. QED  BY <1>1, <1>2, <2>1 DEF StartAction
<1>3. CASE AbandonAction(u)
  <2>1. RequestsNamed'  BY <1>3 DEF AbandonAction, RequestsNamed, Idle, TypeOK
  <2>2. QED  BY <1>1, <1>3, <2>1 DEF AbandonAction
<1>4. ASSUME NEW row, Complete(u, row), request[u].id # 0,
             row = NoIssue \/ row.id = issue.id
      PROVE  Locking'
  <2>1. \A j \in Jobs : pc[j] \notin Writing
    BY <1>4, JobsAssumption DEF Complete, RowFree, LockHeld
  <2>2. LockHeld' /\ WriteCurrent'
    BY <1>4, <2>1 DEF Complete, LockHeld, WriteCurrent
  <2>3. IdsFresh'
    <3>1. nextId \in Nat \ {0}  BY DEF TypeOK
    <3>2. QED  BY <1>4, <3>1 DEF Complete, IdsFresh, NoIssue
  <2>4. RequestsNamed'  BY <1>4 DEF Complete, RequestsNamed, Idle, TypeOK
  <2>5. QED  BY <2>2, <2>3, <2>4
<1>5. CASE set_issue_status(u)
  <2>1. request[u].id # 0  BY <1>5 DEF set_issue_status, RequestsNamed
  <2>2. Rewritten(request[u]).id = issue.id
    BY <1>5 DEF set_issue_status, Rewritten, Resolved, TypeOK, IssueRows
  <2>3. QED  BY <1>4, <1>5, <2>1, <2>2 DEF set_issue_status
<1>6. CASE delete_issue(u)
  <2>1. request[u].id # 0  BY <1>6 DEF delete_issue, RequestsNamed
  <2>2. QED  BY <1>4, <1>6, <2>1 DEF delete_issue
<1>7. QED  BY <1>2, <1>3, <1>5, <1>6 DEF Triage

\* The lock discipline of the upsert and the triage UPDATEs, for ever.
THEOREM LockingHolds == Spec => []Locking
<1>1. Init => Locking
  BY JobsAssumption
     DEF Init, Locking, LockHeld, WriteCurrent, IdsFresh, RequestsNamed, Writing,
         NoIssue, Idle
<1>2. TypeOK /\ Locking /\ [Next]_vars => Locking'
  <2> SUFFICES ASSUME TypeOK, Locking, [Next]_vars  PROVE Locking'  OBVIOUS
  <2>1. CASE \E j \in Jobs : Work(j) \/ Raise(j)  BY <2>1, LockingWork
  <2>2. CASE \E u \in Users : Triage(u)  BY <2>2, LockingTriage
  <2>3. CASE UNCHANGED vars
    <3>1. LockHeld' /\ IdsFresh' /\ RequestsNamed'
      BY <2>3 DEF vars, Locking, LockHeld, IdsFresh, RequestsNamed
    <3>2. WriteCurrent'  BY <2>3, SameUpsert DEF vars, Locking, WriteCurrent
    <3>3. QED  BY <3>1, <3>2 DEF Locking
  <2>4. QED  BY <2>1, <2>2, <2>3 DEF Next, Rest
<1>3. QED  BY <1>1, <1>2, TypeCorrect, PTL DEF Spec

-----------------------------------------------------------------------------
(* Refinement: the committed rows move as IssueStore says.                 *)

\* A commit stores one event row together with its count.
LEMMA CommitStores ==
    ASSUME TypeOK, Locking, NEW k \in Jobs, Commit(k)
    PROVE  Store!Store
<1> DEFINE row == EventRow(k)
<1>1. /\ issue' = UpsertedRow(k) /\ events' = events \cup {row}
      /\ row.issue_id = issue'.id /\ row.received_at = env[k].received_at
      /\ row.release = env[k].release
  BY DEF Commit, At, Locking, WriteCurrent, Writing, EventRow
<1>2. row \in events' \ events
  <2>1. ~KeyTaken(k)  BY DEF Commit, At, Locking, WriteCurrent, Writing
  <2>2. row.event_id = env[k].event_id  BY DEF EventRow
  <2>3. QED  BY <1>1, <2>1, <2>2 DEF KeyTaken
<1>3. /\ issue.id \in Nat /\ nextId \in Nat
      /\ \A r \in events : r.issue_id \in Nat
  BY DEF TypeOK, IssueRows, EventRows
<1> HIDE DEF row
<1>4. CASE issue = NoIssue
  <2>1. issue' = InsertedRow(k)  BY <1>1, <1>4 DEF UpsertedRow
  <2>2. row.issue_id = nextId  BY <1>1, <2>1 DEF InsertedRow
  <2>3. \A r \in events : r.issue_id # row.issue_id
    BY <1>3, <2>2 DEF Locking, IdsFresh
  <2>4. Store!NewIssue(row)
    BY <1>1, <1>4, <2>1, <2>2, <2>3
       DEF Store!NewIssue, InsertedRow, Locking, IdsFresh, NoIssue, Store!NoIssue,
           NoRelease, Store!NoRelease
  <2>5. QED  BY <1>1, <1>2, <2>4 DEF Store!Store
<1>5. CASE issue # NoIssue
  <2>1. issue' = UpdatedRow(k) /\ row.issue_id = issue.id
    BY <1>1, <1>5 DEF UpsertedRow, UpdatedRow
  <2>2. issue \in IssueRows  BY DEF TypeOK
  <2>3. CASE Regresses(k)
    <3>1. Store!Regression(row)
      BY <1>1, <2>1, <2>2, <2>3
         DEF Store!Regression, Store!Counted, UpdatedRow, Regresses, IssueRows,
             Greatest, Store!Greatest
    <3>2. QED  BY <1>1, <1>2, <3>1 DEF Store!Store
  <2>4. CASE ~Regresses(k)
    <3>1. Store!Occurrence(row)
      BY <1>1, <1>5, <2>1, <2>2, <2>4
         DEF Store!Occurrence, Store!Counted, UpdatedRow, IssueRows,
             Greatest, Store!Greatest, NoIssue, Store!NoIssue, NoRelease,
             Store!NoRelease
    <3>2. QED  BY <1>1, <1>2, <3>1 DEF Store!Store
  <2>5. QED  BY <2>3, <2>4
<1>6. QED  BY <1>4, <1>5

\* A triage action that completes rewrites the row alone, or meets a row that is
\* gone and does nothing.
LEMMA TriageStores ==
    ASSUME TypeOK, Locking, NEW u \in Users, Triage(u)
    PROVE  Store!Triage \/ UNCHANGED <<issue, events>>
<1>1. CASE \E a \in Actions : StartAction(u, a)
  BY <1>1 DEF StartAction, Tables
<1>2. CASE AbandonAction(u)  BY <1>2 DEF AbandonAction, Tables
<1>3. ASSUME NEW row, Complete(u, row), request[u].id # 0
      PROVE  \/ issue' = row /\ issue # NoIssue /\ UNCHANGED events
             \/ UNCHANGED <<issue, events>>
  BY <1>3 DEF Complete, NoIssue
<1>4. CASE set_issue_status(u)
  <2>1. request[u].latest \in Releases \cup {NoRelease} /\ request[u].id # 0
    BY <1>4 DEF TypeOK, set_issue_status, Locking, RequestsNamed
  <2>2. \/ issue' = Rewritten(request[u]) /\ issue # NoIssue /\ UNCHANGED events
        \/ UNCHANGED <<issue, events>>
    BY <1>3, <1>4, <2>1 DEF set_issue_status
  <2>3. QED
    BY <1>4, <2>1, <2>2
       DEF set_issue_status, Rewritten, Resolved, Store!Triage, NoIssue,
           Store!NoIssue, NoRelease, Store!NoRelease
<1>5. CASE delete_issue(u)
  <2>1. request[u].id # 0
    BY <1>5 DEF delete_issue, Locking, RequestsNamed
  <2>2. QED
    BY <1>3, <1>5, <2>1
       DEF delete_issue, Store!Triage, NoIssue, Store!NoIssue, NoRelease,
           Store!NoRelease
<1>6. QED  BY <1>1, <1>2, <1>4, <1>5 DEF Triage

\* Every step of the transactions is a step of the store or does not show.
LEMMA StoreStep ==
    ASSUME TypeOK, Locking, [Next]_vars
    PROVE  [Store!Next]_(Store!vars)
<1> USE DEF Store!Next, Store!vars
<1>1. ASSUME NEW k \in Jobs, Work(k) \/ Raise(k)
      PROVE  Store!Store \/ UNCHANGED <<issue, events>>
  <2>1. CASE Commit(k)  BY <2>1, CommitStores
  <2>2. CASE ~Commit(k)
    BY <1>1, <2>2
       DEF Work, Raise, EndAttempt, DropPoison, Begin, Dedupe, RecordRelease,
           PreRead, Decide, UpsertStart, UpsertApply, InsertEvent, DuplicateKey,
           Finish, Reads, Tables
  <2>3. QED  BY <2>1, <2>2
<1>2. CASE \E u \in Users : Triage(u)  BY <1>2, TriageStores
<1>3. CASE UNCHANGED vars  BY <1>3 DEF vars
<1>4. QED  BY <1>1, <1>2, <1>3 DEF Next, Rest

\* The transactions of the workers and the members implement the atomic store.
THEOREM StoreImplemented == Spec => ImplementsStore
<1>1. Init => Store!Init
  BY DEF Init, Store!Init, NoIssue, Store!NoIssue, NoRelease, Store!NoRelease
<1>2. TypeOK /\ Locking /\ [Next]_vars => [Store!Next]_(Store!vars)
  BY StoreStep
<1>3. QED
  BY <1>1, <1>2, TypeCorrect, LockingHolds, PTL DEF Spec, ImplementsStore, Store!Spec

-----------------------------------------------------------------------------
(* What the rows tell, from the steps of the store.                        *)

\* "Came back in" shows on a regressed issue only, and an unresolved one carries
\* no fix release: no statement of a worker or a member leaves a stale marker.
THEOREM MarkersHold == Spec => []MarkersFollowStatus
<1>1. Init => MarkersFollowStatus  BY DEF Init, MarkersFollowStatus, NoIssue
<1>2. TypeOK /\ MarkersFollowStatus /\ [Store!Next]_(Store!vars)
        => MarkersFollowStatus'
  <2> SUFFICES ASSUME TypeOK, MarkersFollowStatus, [Store!Next]_(Store!vars)
               PROVE  MarkersFollowStatus'
    OBVIOUS
  <2> USE DEF MarkersFollowStatus, NoRelease, Store!NoRelease
  <2>1. CASE Store!Store
    BY <2>1 DEF Store!Store, Store!NewIssue, Store!Occurrence, Store!Regression,
                Store!Counted
  <2>2. CASE Store!Triage
    <3>0. issue \in IssueRows  BY DEF TypeOK
    <3>1. CASE issue' = Store!NoIssue  BY <3>1 DEF Store!NoIssue
    <3>2. CASE issue' # Store!NoIssue  BY <2>2, <3>0, <3>2 DEF Store!Triage, IssueRows
    <3>3. QED  BY <3>1, <3>2
  <2>3. CASE UNCHANGED Store!vars  BY <2>3 DEF Store!vars
  <2>4. QED  BY <2>1, <2>2, <2>3 DEF Store!Next
<1>3. TypeOK /\ Locking /\ [Next]_vars => [Store!Next]_(Store!vars)
  BY StoreStep
<1>4. QED  BY <1>1, <1>2, <1>3, TypeCorrect, LockingHolds, PTL DEF Spec

\* The events rows are finitely many, so they can be counted.
Counting == IsFiniteSet(events) /\ CountMatchesRows

LEMMA CountingStep ==
    ASSUME TypeOK, Counting, [Store!Next]_(Store!vars)
    PROVE  Counting'
<1> USE DEF Counting, CountMatchesRows
<1>0. issue \in IssueRows /\ NoIssue = Store!NoIssue
  BY DEF TypeOK, NoIssue, Store!NoIssue, NoRelease, Store!NoRelease
<1>1. IsFiniteSet(OwnRows)
  <2>1. OwnRows \subseteq events  BY DEF OwnRows
  <2>2. QED  BY <2>1, FS_Subset
<1>2. ASSUME Store!Store  PROVE Counting'
  <2>1. PICK row \in events' \ events :
           /\ events' = events \cup {row}
           /\ Store!NewIssue(row) \/ Store!Occurrence(row) \/ Store!Regression(row)
    BY <1>2 DEF Store!Store
  <2>2. IsFiniteSet(events')  BY <2>1, FS_AddElement
  <2>3. CASE Store!NewIssue(row)
    <3>1. OwnRows' = {row}  BY <2>1, <2>3 DEF OwnRows, Store!NewIssue
    <3>2. issue'.event_count = 1  BY <2>3 DEF Store!NewIssue
    <3>3. QED  BY <2>2, <3>1, <3>2, FS_Singleton
  <2>4. CASE Store!Occurrence(row) \/ Store!Regression(row)
    <3>1. /\ issue # NoIssue /\ row.issue_id = issue.id /\ issue'.id = issue.id
          /\ issue'.event_count = issue.event_count + 1
      BY <2>4, <1>0
         DEF Store!Occurrence, Store!Regression, Store!Counted, NoIssue
    <3>2. OwnRows' = OwnRows \cup {row} /\ row \notin OwnRows
      BY <2>1, <3>1 DEF OwnRows
    <3>3. Cardinality(OwnRows') = Cardinality(OwnRows) + 1
      BY <1>1, <3>2, FS_AddElement
    <3>4. QED  BY <2>2, <3>1, <3>3
  <2>5. QED  BY <2>1, <2>3, <2>4
<1>3. CASE Store!Triage
  <2>1. events' = events  BY <1>3 DEF Store!Triage
  <2>2. \/ issue' = NoIssue
        \/ issue'.id = issue.id /\ issue'.event_count = issue.event_count
    BY <1>0, <1>3 DEF Store!Triage, IssueRows
  <2>3. CASE issue' = NoIssue  BY <2>1, <2>3
  <2>4. CASE issue'.id = issue.id /\ issue'.event_count = issue.event_count
    <3>1. issue # NoIssue  BY <1>0, <1>3 DEF Store!Triage
    <3>2. OwnRows' = OwnRows  BY <2>1, <2>4 DEF OwnRows
    <3>3. QED  BY <2>1, <2>4, <3>1, <3>2
  <2>5. QED  BY <2>2, <2>3, <2>4
<1>4. CASE UNCHANGED Store!vars  BY <1>4 DEF Store!vars, OwnRows
<1>5. QED  BY <1>2, <1>3, <1>4 DEF Store!Next

\* event_count is the number of the issue's event rows, whatever races, rollbacks
\* and retries happened.
THEOREM CountHolds == Spec => []CountMatchesRows
<1>1. Init => Counting  BY FS_EmptySet DEF Init, Counting, CountMatchesRows
<1>2. TypeOK /\ Locking /\ Counting /\ [Next]_vars => Counting'
  BY StoreStep, CountingStep
<1>3. Counting => CountMatchesRows  BY DEF Counting
<1>4. QED  BY <1>1, <1>2, <1>3, TypeCorrect, LockingHolds, PTL DEF Spec

LEMMA SeenTimesStep ==
    ASSUME TypeOK, TypeOK', SeenTimesMatchRows, [Store!Next]_(Store!vars)
    PROVE  SeenTimesMatchRows'
<1> USE DEF SeenTimesMatchRows
<1>0. /\ issue \in IssueRows /\ NoIssue = Store!NoIssue
      /\ \A r \in events' : r.received_at \in Nat
  BY DEF TypeOK, NoIssue, Store!NoIssue, NoRelease, Store!NoRelease, EventRows
<1>1. ASSUME Store!Store  PROVE SeenTimesMatchRows'
  <2>1. PICK row \in events' \ events :
           /\ events' = events \cup {row}
           /\ Store!NewIssue(row) \/ Store!Occurrence(row) \/ Store!Regression(row)
    BY <1>1 DEF Store!Store
  <2>2. CASE Store!NewIssue(row)
    <3>1. OwnRows' = {row}  BY <2>1, <2>2 DEF OwnRows, Store!NewIssue
    <3>2. QED  BY <1>0, <2>2, <3>1 DEF Store!NewIssue
  <2>3. CASE Store!Occurrence(row) \/ Store!Regression(row)
    <3>1. /\ issue # NoIssue /\ row.issue_id = issue.id /\ issue'.id = issue.id
          /\ issue'.first_seen = issue.first_seen
          /\ issue'.last_seen = Store!Greatest(issue.last_seen, row.received_at)
      BY <2>3, <1>0
         DEF Store!Occurrence, Store!Regression, Store!Counted, NoIssue
    <3>2. OwnRows' = OwnRows \cup {row} /\ OwnRows \subseteq events'
      BY <2>1, <3>1 DEF OwnRows
    <3>3. issue.last_seen \in Nat  BY <1>0 DEF IssueRows
    <3>4. QED  BY <1>0, <3>1, <3>2, <3>3, <2>1 DEF Store!Greatest
  <2>4. QED  BY <2>1, <2>2, <2>3
<1>2. CASE Store!Triage
  <2>1. \/ issue' = NoIssue
        \/ /\ issue # NoIssue /\ OwnRows' = OwnRows
           /\ issue'.first_seen = issue.first_seen
           /\ issue'.last_seen = issue.last_seen
    BY <1>0, <1>2 DEF Store!Triage, IssueRows, OwnRows
  <2>2. QED  BY <2>1
<1>3. CASE UNCHANGED Store!vars  BY <1>3 DEF Store!vars, OwnRows
<1>4. QED  BY <1>1, <1>2, <1>3 DEF Store!Next

\* The row's first and last times are those of rows stored for it, the last one
\* the newest of all, although jobs are processed out of order.
THEOREM SeenTimesHold == Spec => []SeenTimesMatchRows
<1>1. Init => SeenTimesMatchRows  BY DEF Init, SeenTimesMatchRows
<1>2. TypeOK /\ TypeOK' /\ Locking /\ SeenTimesMatchRows /\ [Next]_vars
        => SeenTimesMatchRows'
  BY StoreStep, SeenTimesStep
<1>3. QED  BY <1>1, <1>2, TypeCorrect, LockingHolds, PTL DEF Spec

-----------------------------------------------------------------------------
(* Duplicates.                                                             *)

\* Only a commit adds a row, and the key of its row is not taken.
LEMMA EventsStep ==
    ASSUME TypeOK, Locking, [Next]_vars
    PROVE  \/ events' = events
           \/ \E k \in Jobs : /\ Commit(k) /\ ~KeyTaken(k)
                             /\ events' = events \cup {EventRow(k)}
<1>1. ASSUME NEW k \in Jobs, Work(k) \/ Raise(k), ~Commit(k)
      PROVE  events' = events
  BY <1>1
     DEF Work, Raise, EndAttempt, DropPoison, Begin, Dedupe, RecordRelease, PreRead,
         Decide, UpsertStart, UpsertApply, InsertEvent, DuplicateKey, Finish, Reads,
         Tables
<1>2. ASSUME NEW k \in Jobs, Commit(k)
      PROVE  ~KeyTaken(k) /\ events' = events \cup {EventRow(k)}
  BY <1>2 DEF Commit, At, Locking, WriteCurrent, Writing
<1>3. ASSUME NEW u \in Users, Triage(u)  PROVE events' = events
  BY <1>3 DEF Triage, StartAction, set_issue_status, delete_issue, AbandonAction,
              Complete, Tables
<1>4. CASE UNCHANGED vars  BY <1>4 DEF vars
<1>5. QED  BY <1>1, <1>2, <1>3, <1>4 DEF Next, Rest

\* A delivery is stored once, however often arq runs its job and even while an
\* attempt it took for dead is still going.
THEOREM OneRowHolds == Spec => []OneRowPerDelivery
<1>1. Init => OneRowPerDelivery  BY DEF Init, OneRowPerDelivery
<1>2. TypeOK /\ Locking /\ OneRowPerDelivery /\ [Next]_vars => OneRowPerDelivery'
  <2> SUFFICES ASSUME TypeOK, Locking, OneRowPerDelivery,
                      NEW k \in Jobs, ~KeyTaken(k),
                      events' = events \cup {EventRow(k)}
               PROVE  OneRowPerDelivery'
    BY EventsStep DEF OneRowPerDelivery
  <2>1. /\ EventRow(k).event_id = env[k].event_id
        /\ EventRow(k).received_at = env[k].received_at
    BY DEF EventRow
  <2>2. QED  BY <2>1 DEF OneRowPerDelivery, KeyTaken
<1>3. QED  BY <1>1, <1>2, TypeCorrect, LockingHolds, PTL DEF Spec

\* A transaction that began with its event id stored does not get past its
\* duplicate check; the rows it sees there never go.
LateStops ==
    \A j \in Jobs :
        /\ pc[j] = "dedupe" /\ txn[j].late => Stored(env[j].event_id)
        /\ pc[j] \in InTransaction \ {"dedupe"} => ~txn[j].late

\* Stored events stay stored, and the envelopes never change.
LEMMA StoredStays ==
    ASSUME TypeOK, Locking, [Next]_vars
    PROVE  env' = env /\ \A e : Stored(e) => Stored(e)'
<1>1. \A e : Stored(e) => Stored(e)'
  BY EventsStep DEF Stored
<1>2. env' = env
  BY DEF Next, Rest, vars, Work, Raise, EndAttempt, DropPoison, Begin, Dedupe,
         RecordRelease, PreRead, Decide, UpsertStart, UpsertApply, InsertEvent,
         DuplicateKey, Commit, Finish, Reads, Triage, StartAction, set_issue_status,
         delete_issue, AbandonAction, Complete
<1>3. QED  BY <1>1, <1>2

LEMMA LateStopsStep ==
    ASSUME TypeOK, Locking, LateStops, [Next]_vars
    PROVE  LateStops'
<1> USE DEF LateStops, InTransaction
<1>1. \A e : Stored(e) => Stored(e)'  BY StoredStays
<1>2. env' = env  BY StoredStays
<1>3. ASSUME UNCHANGED <<pc, txn>>  PROVE LateStops'
  BY <1>1, <1>2, <1>3
<1>4. ASSUME NEW k \in Jobs, Work(k) \/ Raise(k)  PROVE LateStops'
  <2> SUFFICES ASSUME NEW j \in Jobs
               PROVE  /\ pc'[j] = "dedupe" /\ txn'[j].late => Stored(env[j].event_id)'
                      /\ pc'[j] \in InTransaction \ {"dedupe"} => ~txn'[j].late
    BY <1>2
  <2> USE DEF TypeOK, At, Goto, Close
  <2>1. CASE j # k
    <3>1. pc'[j] = pc[j] /\ txn'[j] = txn[j]
      BY <1>4, <2>1
         DEF Work, Raise, EndAttempt, DropPoison, Begin, Dedupe, RecordRelease,
             PreRead, Decide, UpsertStart, UpsertApply, InsertEvent, DuplicateKey,
             Commit, Finish
    <3>2. QED  BY <1>1, <1>2, <3>1
  <2>2. CASE j = k /\ Begin(k)
    <3>1. txn'[k] = Opened(now', Stored(env[k].event_id)) /\ pc'[k] = "dedupe"
      BY <2>2 DEF Begin
    <3>2. txn'[k].late = Stored(env[k].event_id)  BY <3>1 DEF Opened
    <3>3. QED  BY <1>1, <1>2, <2>2, <3>1, <3>2
  <2>3. CASE j = k /\ Dedupe(k)
    BY <1>2, <2>3 DEF Dedupe, Duplicate
  <2>4. CASE j = k /\ ~Begin(k) /\ ~Dedupe(k)
    <3>1. CASE RecordRelease(k) \/ PreRead(k) \/ Decide(k) \/ UpsertStart(k)
               \/ UpsertApply(k) \/ InsertEvent(k)
      <4>1. /\ pc[k] \in InTransaction \ {"dedupe"} /\ pc'[k] # "dedupe"
            /\ txn'[k].late = txn[k].late
        BY <3>1
           DEF RecordRelease, PreRead, Decide, UpsertStart, UpsertApply, InsertEvent,
               Txns
      <4>2. QED  BY <2>4, <4>1
    <3>2. CASE DropPoison(k) \/ Commit(k) \/ Finish(k)
      BY <2>4, <3>2 DEF DropPoison, Commit, Finish
    <3>3. CASE DuplicateKey(k) \/ Raise(k)
      BY <2>4, <3>3 DEF DuplicateKey, Raise, EndAttempt, Outcomes
    <3>4. QED  BY <1>4, <2>4, <3>1, <3>2, <3>3 DEF Work
  <2>5. QED  BY <2>1, <2>2, <2>3, <2>4
<1>5. CASE \E u \in Users : Triage(u)
  BY <1>3, <1>5 DEF Triage, StartAction, set_issue_status, delete_issue,
                   AbandonAction, Complete
<1>6. CASE UNCHANGED vars  BY <1>3, <1>6 DEF vars
<1>7. QED  BY <1>4, <1>5, <1>6 DEF Next, Rest

\* A resend whose transaction begins once the event is stored adds nothing: only
\* transactions that overlap can store one event id twice.
THEOREM NoLateDuplicateHolds == Spec => []NoLateDuplicate
<1>1. Init => LateStops /\ NoLateDuplicate
  BY DEF Init, LateStops, NoLateDuplicate, InTransaction
<1>2. TypeOK /\ Locking /\ LateStops /\ [Next]_vars => LateStops'
  BY LateStopsStep
<1>3. TypeOK /\ Locking /\ LateStops /\ NoLateDuplicate /\ [Next]_vars
        => NoLateDuplicate'
  <2> SUFFICES ASSUME TypeOK, LateStops, NoLateDuplicate, NEW k \in Jobs,
                      Commit(k), events' = events \cup {EventRow(k)}
               PROVE  NoLateDuplicate'
    BY EventsStep DEF NoLateDuplicate
  <2>1. ~txn[k].late  BY DEF Commit, At, LateStops, InTransaction
  <2>2. ~EventRow(k).late  BY <2>1 DEF EventRow
  <2>3. QED  BY <2>2 DEF NoLateDuplicate
<1>4. QED  BY <1>1, <1>2, <1>3, TypeCorrect, LockingHolds, PTL DEF Spec

\* Past its commit, or done without being poison, a job's event is stored.
EndsStored ==
    \A j \in Jobs :
        (pc[j] = "committed" \/ (pc[j] = "done" /\ ~env[j].poison))
            => Stored(env[j].event_id)

\* A job that ended well without being poison left its event stored, by itself or
\* by the transaction its duplicate check saw.
THEOREM DoneHolds == Spec => []DoneMeansStored
<1>1. Init => EndsStored  BY DEF Init, EndsStored
<1>2. TypeOK /\ Locking /\ EndsStored /\ [Next]_vars => EndsStored'
  <2> SUFFICES ASSUME TypeOK, Locking, EndsStored, [Next]_vars,
                      NEW j \in Jobs,
                      pc'[j] = "committed" \/ (pc'[j] = "done" /\ ~env[j].poison)
               PROVE  Stored(env[j].event_id)'
    BY StoredStays DEF EndsStored
  <2>1. CASE pc'[j] = pc[j]  BY <2>1, StoredStays DEF EndsStored
  <2>2. CASE pc'[j] # pc[j]
    <3> USE DEF At, Goto, TypeOK
    <3>1. PICK k \in Jobs : Work(k) \/ Raise(k)
      BY <2>2
         DEF Next, Rest, vars, Triage, StartAction, set_issue_status, delete_issue,
             AbandonAction, Complete
    <3>2. k = j
      BY <2>2, <3>1
         DEF Work, Raise, EndAttempt, DropPoison, Begin, Dedupe, RecordRelease,
             PreRead, Decide, UpsertStart, UpsertApply, InsertEvent, DuplicateKey,
             Commit, Finish
    <3>3. CASE Commit(j)
      <4>1. EventRow(j).event_id = env[j].event_id  BY DEF EventRow
      <4>2. EventRow(j) \in events' /\ env' = env  BY <3>3 DEF Commit
      <4>3. QED  BY <4>1, <4>2 DEF Stored
    <3>4. CASE Dedupe(j)
      BY <2>2, <3>4, StoredStays DEF Dedupe, Duplicate
    <3>5. CASE Finish(j)
      BY <3>5, StoredStays DEF Finish, EndsStored
    <3>6. CASE DropPoison(j)  BY <3>6 DEF DropPoison
    <3>7. CASE DuplicateKey(j) \/ Raise(j)
      BY <3>7 DEF DuplicateKey, Raise, EndAttempt, Outcomes
    <3>8. CASE Begin(j) \/ RecordRelease(j) \/ PreRead(j) \/ Decide(j)
               \/ UpsertStart(j) \/ UpsertApply(j) \/ InsertEvent(j)
      BY <3>8 DEF Begin, RecordRelease, PreRead, Decide, UpsertStart, UpsertApply,
                  InsertEvent
    <3>9. QED
      BY <3>1, <3>2, <3>3, <3>4, <3>5, <3>6, <3>7, <3>8 DEF Work
  <2>3. QED  BY <2>1, <2>2
<1>3. EndsStored => DoneMeansStored  BY DEF EndsStored, DoneMeansStored, At
<1>4. QED  BY <1>1, <1>2, <1>3, TypeCorrect, LockingHolds, PTL DEF Spec

-----------------------------------------------------------------------------
(* Releases and regressions.                                               *)

Recorded == InTransaction \ {"dedupe", "release"}    \* the release is recorded
Decided == Recorded \ {"preread", "decide"}

\* A transaction past its release upsert either inserted the release, alone, or
\* has found a committed one.
ReleaseRows ==
    /\ \A j \in Jobs :
          /\ pc[j] \in InTransaction => txn[j].start # 0
          /\ pc[j] = "release" => env[j].release # NoRelease
          /\ txn[j].newRelease =>
                /\ pc[j] \in Recorded /\ env[j].release # NoRelease
                /\ releases[env[j].release] = 0
          /\ pc[j] \in Recorded /\ env[j].release # NoRelease /\ ~txn[j].newRelease
                => releases[env[j].release] # 0
    /\ \A j, k \in Jobs :
          j # k /\ txn[j].newRelease /\ txn[k].newRelease
              => env[j].release # env[k].release

\* What a step does to the releases and to the other jobs.
LEMMA OthersStay ==
    ASSUME TypeOK, NEW k \in Jobs, Work(k) \/ Raise(k)
    PROVE  /\ env' = env /\ request' = request
           /\ \A j \in Jobs \ {k} : pc'[j] = pc[j] /\ txn'[j] = txn[j]
           /\ ~Commit(k) => UNCHANGED <<releases, issue, flips>>
BY DEF Work, Raise, EndAttempt, DropPoison, Begin, Dedupe, RecordRelease, PreRead,
       Decide, UpsertStart, UpsertApply, InsertEvent, DuplicateKey, Commit, Finish,
       Reads, TypeOK, Goto, Close, Tables, Outside

LEMMA TriageStays ==
    ASSUME NEW u \in Users, Triage(u)
    PROVE  UNCHANGED <<env, releases, pc, txn, flips>>
BY DEF Triage, StartAction, set_issue_status, delete_issue, AbandonAction, Complete,
       Tables

\* The steps of an attempt, as the release proofs need them.
LEMMA OwnStep ==
    ASSUME TypeOK, NEW k \in Jobs, Work(k) \/ Raise(k), ~Commit(k)
    PROVE  \/ pc'[k] \notin InTransaction /\ txn'[k] = NoTxn
           \/ pc'[k] = "done" /\ pc[k] = "queued" /\ txn'[k] = txn[k]
           \/ pc'[k] = "dedupe" /\ ~txn'[k].newRelease /\ txn'[k].start # 0
           \/ /\ pc[k] = "dedupe" /\ txn'[k] = txn[k]
              /\ pc'[k] = IF env[k].release = NoRelease THEN "preread" ELSE "release"
           \/ RecordRelease(k) \/ PreRead(k) \/ Decide(k) \/ UpsertStart(k)
           \/ UpsertApply(k) \/ InsertEvent(k)
<1> USE DEF TypeOK, At, Goto, Close, InTransaction
<1>1. CASE DropPoison(k)  BY <1>1 DEF DropPoison
<1>2. CASE Begin(k)
  <2>1. /\ txn'[k] = Opened(now', Stored(env[k].event_id)) /\ pc'[k] = "dedupe"
        /\ now' # 0
    BY <1>2 DEF Begin
  <2>2. ~txn'[k].newRelease /\ txn'[k].start # 0  BY <2>1 DEF Opened
  <2>3. QED  BY <2>1, <2>2
<1>3. CASE Dedupe(k)  BY <1>3 DEF Dedupe
<1>4. CASE Finish(k)  BY <1>4 DEF Finish
<1>5. CASE DuplicateKey(k) \/ Raise(k)
  BY <1>5 DEF DuplicateKey, Raise, EndAttempt, Outcomes
<1>6. QED  BY <1>1, <1>2, <1>3, <1>4, <1>5 DEF Work

\* What the steps inside a transaction change of what it knows.
LEMMA InnerSteps ==
    ASSUME TypeOK, NEW k \in Jobs
    PROVE  /\ RecordRelease(k) =>
                 /\ pc[k] = "release" /\ pc'[k] = "preread"
                 /\ txn'[k].newRelease = (releases[env[k].release] = 0)
                 /\ txn'[k].start = txn[k].start
           /\ PreRead(k) =>
                 /\ pc[k] = "preread" /\ pc'[k] = "decide"
                 /\ txn'[k].fix = issue.resolved_in_release
                 /\ txn'[k].newRelease = txn[k].newRelease
                 /\ txn'[k].start = txn[k].start
           /\ Decide(k) =>
                 /\ pc[k] = "decide" /\ pc'[k] = "upsert"
                 /\ txn'[k].should = decide_regression(k)
                 /\ txn'[k].fix = txn[k].fix
                 /\ txn'[k].newRelease = txn[k].newRelease
                 /\ txn'[k].start = txn[k].start
           /\ UpsertStart(k) \/ UpsertApply(k) \/ InsertEvent(k) =>
                 /\ pc[k] \in Decided /\ pc'[k] \in Decided
                 /\ txn'[k].should = txn[k].should
                 /\ txn'[k].fix = txn[k].fix
                 /\ txn'[k].newRelease = txn[k].newRelease
                 /\ txn'[k].start = txn[k].start
<1> USE DEF TypeOK, At, Goto
<1>1. txn[k] \in Txns  OBVIOUS
<1>2. RecordRelease(k) =>
         txn' = [txn EXCEPT ![k].newRelease = releases[env[k].release] = 0]
  BY DEF RecordRelease
<1>3. ASSUME NEW b \in BOOLEAN
      PROVE  /\ [txn EXCEPT ![k].newRelease = b][k].newRelease = b
             /\ [txn EXCEPT ![k].newRelease = b][k].start = txn[k].start
             /\ [txn EXCEPT ![k].should = b][k].should = b
             /\ [txn EXCEPT ![k].should = b][k].fix = txn[k].fix
             /\ [txn EXCEPT ![k].should = b][k].newRelease = txn[k].newRelease
             /\ [txn EXCEPT ![k].should = b][k].start = txn[k].start
  BY <1>1 DEF Txns
<1>4. (releases[env[k].release] = 0) \in BOOLEAN /\ decide_regression(k) \in BOOLEAN
  BY DEF decide_regression
<1>5. Decide(k) => txn' = [txn EXCEPT ![k].should = decide_regression(k)]
  BY DEF Decide
<1>6. RecordRelease(k) =>
         /\ pc[k] = "release" /\ pc'[k] = "preread"
         /\ txn'[k].newRelease = (releases[env[k].release] = 0)
         /\ txn'[k].start = txn[k].start
  <2>1. ASSUME RecordRelease(k)
        PROVE  /\ txn'[k].newRelease = (releases[env[k].release] = 0)
               /\ txn'[k].start = txn[k].start
    BY <1>2, <1>3, <1>4, <2>1
  <2>2. QED  BY <2>1 DEF RecordRelease
<1>7. Decide(k) =>
         /\ pc[k] = "decide" /\ pc'[k] = "upsert"
         /\ txn'[k].should = decide_regression(k)
         /\ txn'[k].fix = txn[k].fix
         /\ txn'[k].newRelease = txn[k].newRelease
         /\ txn'[k].start = txn[k].start
  <2>1. ASSUME Decide(k)
        PROVE  /\ txn'[k].should = decide_regression(k)
               /\ txn'[k].fix = txn[k].fix
               /\ txn'[k].newRelease = txn[k].newRelease
               /\ txn'[k].start = txn[k].start
    BY <1>3, <1>4, <1>5, <2>1
  <2>2. QED  BY <2>1 DEF Decide
<1>8. PreRead(k) =>
         /\ pc[k] = "preread" /\ pc'[k] = "decide"
         /\ txn'[k].fix = issue.resolved_in_release
         /\ txn'[k].newRelease = txn[k].newRelease
         /\ txn'[k].start = txn[k].start
  BY <1>1 DEF PreRead, Txns
<1>9. UpsertStart(k) \/ UpsertApply(k) \/ InsertEvent(k) =>
         /\ pc[k] \in Decided /\ pc'[k] \in Decided
         /\ txn'[k].should = txn[k].should
         /\ txn'[k].fix = txn[k].fix
         /\ txn'[k].newRelease = txn[k].newRelease
         /\ txn'[k].start = txn[k].start
  BY <1>1 DEF UpsertStart, UpsertApply, InsertEvent, Txns, Decided, Recorded,
              InTransaction
<1>10. QED  BY <1>6, <1>7, <1>8, <1>9

\* Created_at of a known release never changes, and a commit records its release.
LEMMA ReleasesStay ==
    ASSUME TypeOK, ReleaseRows, [Next]_vars
    PROVE  \A v \in Releases : releases[v] # 0 => releases'[v] = releases[v]
<1>1. ASSUME NEW k \in Jobs, Commit(k)
      PROVE  \A v \in Releases : releases[v] # 0 => releases'[v] = releases[v]
  BY <1>1 DEF Commit, ReleaseRows, TypeOK
<1>2. QED
  BY <1>1, OthersStay, TriageStays DEF Next, Rest, vars

\* The release an attempt decides about is known once the attempt has passed its
\* release upsert, and waits keep two attempts from inserting it twice.
LEMMA ReleaseRowsStep ==
    ASSUME TypeOK, ReleaseRows, [Next]_vars
    PROVE  ReleaseRows'
<1> DEFINE Row(j) ==
             /\ pc[j] \in InTransaction => txn[j].start # 0
             /\ pc[j] = "release" => env[j].release # NoRelease
             /\ txn[j].newRelease =>
                   /\ pc[j] \in Recorded /\ env[j].release # NoRelease
                   /\ releases[env[j].release] = 0
             /\ pc[j] \in Recorded /\ env[j].release # NoRelease /\ ~txn[j].newRelease
                   => releases[env[j].release] # 0
           Alone(j, l) ==
             j # l /\ txn[j].newRelease /\ txn[l].newRelease
                 => env[j].release # env[l].release
<1>1. ASSUME UNCHANGED <<env, releases, pc, txn>>  PROVE ReleaseRows'
  BY <1>1 DEF ReleaseRows
<1>2. ASSUME NEW k \in Jobs, Work(k) \/ Raise(k), ~Commit(k)
      PROVE  ReleaseRows'
  <2>1. \A j \in Jobs \ {k} : Row(j)'
    BY <1>2, OthersStay DEF ReleaseRows
  <2>2. Row(k)' /\ \A j \in Jobs \ {k} : Alone(j, k)' /\ Alone(k, j)'
    <3> USE DEF Recorded, InTransaction, Decided
    <3>0. /\ env' = env /\ releases' = releases
          /\ \A j \in Jobs \ {k} : txn'[j] = txn[j]
      BY <1>2, OthersStay
    <3>1. CASE ~txn'[k].newRelease /\ pc'[k] \notin Recorded
               /\ (pc'[k] \in InTransaction => txn'[k].start # 0)
               /\ pc'[k] # "release"
      BY <3>1
    <3>2. CASE pc'[k] \notin InTransaction /\ txn'[k] = NoTxn
      BY <3>1, <3>2 DEF NoTxn, Opened
    <3>3. CASE pc'[k] = "done" /\ pc[k] = "queued" /\ txn'[k] = txn[k]
      BY <3>1, <3>3 DEF ReleaseRows
    <3>4. CASE pc'[k] = "dedupe" /\ ~txn'[k].newRelease /\ txn'[k].start # 0
      BY <3>1, <3>4
    <3>5. CASE /\ pc[k] = "dedupe" /\ txn'[k] = txn[k]
               /\ pc'[k] = IF env[k].release = NoRelease THEN "preread" ELSE "release"
      BY <3>0, <3>5 DEF ReleaseRows
    <3>6. CASE RecordRelease(k)
      <4>1. env[k].release # NoRelease
        BY <3>6 DEF RecordRelease, At, ReleaseRows
      <4>2. \A j \in Jobs \ {k} : txn[j].newRelease => env[j].release # env[k].release
        BY <3>6 DEF RecordRelease, ReleaseLocked
      <4>3. /\ pc[k] = "release" /\ pc'[k] = "preread"
            /\ txn'[k].newRelease = (releases[env[k].release] = 0)
            /\ txn'[k].start = txn[k].start
        BY <3>6, InnerSteps
      <4>4. QED  BY <3>0, <4>1, <4>2, <4>3 DEF ReleaseRows
    <3>7. CASE PreRead(k) \/ Decide(k) \/ UpsertStart(k) \/ UpsertApply(k)
               \/ InsertEvent(k)
      <4>1. /\ txn'[k].newRelease = txn[k].newRelease /\ txn'[k].start = txn[k].start
            /\ pc[k] \in Recorded /\ pc'[k] \in Recorded
        BY <3>7, InnerSteps
      <4>2. QED  BY <3>0, <4>1 DEF ReleaseRows
    <3>8. QED
      BY <1>2, OwnStep, <3>2, <3>3, <3>4, <3>5, <3>6, <3>7
  <2>3. \A j, l \in Jobs \ {k} : Alone(j, l)'
    BY <1>2, OthersStay DEF ReleaseRows
  <2>4. QED  BY <2>1, <2>2, <2>3 DEF ReleaseRows
<1>3. ASSUME NEW k \in Jobs, Commit(k)
      PROVE  ReleaseRows'
  <2>1. /\ pc[k] = "commit" /\ pc'[k] = "committed" /\ txn'[k] = NoTxn
        /\ env' = env /\ \A j \in Jobs \ {k} : pc'[j] = pc[j] /\ txn'[j] = txn[j]
    BY <1>3 DEF Commit, At, Goto, TypeOK
  <2>2. Row(k)' /\ \A j \in Jobs : Alone(j, k)' /\ Alone(k, j)'
    BY <2>1 DEF NoTxn, Opened, InTransaction, Recorded
  <2>3. \A j \in Jobs \ {k} : Row(j)'
    <3> SUFFICES ASSUME NEW j \in Jobs \ {k}  PROVE Row(j)'  OBVIOUS
    <3>1. \A v \in Releases : releases[v] # 0 => releases'[v] = releases[v]
      BY <1>3, ReleasesStay DEF Next, Work
    <3>2. env[j].release \in Releases \cup {NoRelease}  BY DEF TypeOK, Envelopes
    <3>3. txn[j].newRelease => releases'[env[j].release] = releases[env[j].release]
      BY <1>3, <3>2 DEF Commit, ReleaseRows, TypeOK
    <3>4. QED  BY <2>1, <3>1, <3>2, <3>3 DEF ReleaseRows
  <2>4. \A j, l \in Jobs \ {k} : Alone(j, l)'  BY <2>1 DEF ReleaseRows
  <2>5. QED  BY <2>2, <2>3, <2>4 DEF ReleaseRows
<1>4. QED
  BY <1>1, <1>2, <1>3, TriageStays DEF Next, Rest, vars

LEMMA ReleaseRowsInit == Init => ReleaseRows
BY DEF Init, ReleaseRows, NoTxn, Opened, InTransaction, Recorded

\* Whoever names a fix release names a recorded one: the issue, the attempts that
\* read it, and the resolve that is about to set it.
FixKnown ==
    /\ FixReleaseExists
    /\ \A j \in Jobs : pc[j] \in Recorded \ {"preread"} /\ txn[j].fix # NoRelease
                        => releases[txn[j].fix] # 0
    /\ \A u \in Users : request[u].latest # NoRelease
                        => releases[request[u].latest] # 0

LEMMA FixKnownStep ==
    ASSUME TypeOK, Locking, ReleaseRows, FixKnown, [Next]_vars
    PROVE  FixKnown'
<1> USE DEF FixKnown, FixReleaseExists
<1>0. /\ \A v \in Releases : releases[v] # 0 => releases'[v] # 0
      /\ issue.resolved_in_release \in Releases \cup {NoRelease}
      /\ \A j \in Jobs : txn[j].fix \in Releases \cup {NoRelease}
      /\ \A u \in Users : request[u].latest \in Releases \cup {NoRelease}
  BY ReleasesStay DEF TypeOK, IssueRows, Txns
<1>1. ASSUME NEW k \in Jobs, Work(k) \/ Raise(k)
      PROVE  FixKnown'
  <2>1. issue'.resolved_in_release \in {issue.resolved_in_release, NoRelease}
    <3>1. CASE Commit(k)
      <4>1. issue' = UpsertedRow(k)
        BY <3>1 DEF Commit, At, Locking, WriteCurrent, Writing
      <4>2. QED  BY <4>1 DEF UpsertedRow, InsertedRow, UpdatedRow
    <3>2. CASE ~Commit(k)  BY <1>1, <3>2, OthersStay
    <3>3. QED  BY <3>1, <3>2
  <2>2. \A u \in Users : request'[u].latest = request[u].latest
    BY <1>1, OthersStay
  <2>3. \A j \in Jobs \ {k} : pc'[j] = pc[j] /\ txn'[j] = txn[j]
    BY <1>1, OthersStay
  <2>4. \/ pc'[k] \notin Recorded \ {"preread"}
        \/ pc[k] \in Recorded \ {"preread"} /\ txn'[k].fix = txn[k].fix
        \/ txn'[k].fix = issue.resolved_in_release
    <3> USE DEF Recorded, InTransaction, Decided
    <3>1. CASE Commit(k)  BY <3>1 DEF Commit, Goto, TypeOK
    <3>2. CASE ~Commit(k)  BY <1>1, <3>2, OwnStep, InnerSteps
    <3>3. QED  BY <3>1, <3>2
  <2>5. QED  BY <1>0, <2>1, <2>2, <2>3, <2>4
<1>2. ASSUME NEW u \in Users, Triage(u)  PROVE FixKnown'
  <2>1. releases' = releases /\ pc' = pc /\ txn' = txn  BY <1>2, TriageStays
  <2>2. CASE \E a \in Actions : StartAction(u, a)
    <3>1. PICK a \in Actions, latest \in LatestRelease :
             request' = [request EXCEPT ![u] =
                           [action |-> a, id |-> issue.id, latest |-> latest]]
      BY <2>2 DEF StartAction
    <3>2. latest # NoRelease => releases[latest] # 0
      BY DEF LatestRelease, Latest, Known
    <3>3. issue' = issue  BY <2>2 DEF StartAction, Tables
    <3>4. QED  BY <2>1, <3>1, <3>2, <3>3 DEF TypeOK
  <2>3. CASE set_issue_status(u) \/ delete_issue(u) \/ AbandonAction(u)
    <3>1. request' = [request EXCEPT ![u] = Idle]
      BY <2>3 DEF set_issue_status, delete_issue, AbandonAction, Complete
    <3>2. issue'.resolved_in_release
             \in {issue.resolved_in_release, NoRelease, request[u].latest}
      <4>1. issue \in IssueRows  BY DEF TypeOK
      <4>2. ASSUME set_issue_status(u)
            PROVE  Rewritten(request[u]).resolved_in_release
                     \in {issue.resolved_in_release, NoRelease, request[u].latest}
        <5>1. Resolved(request[u]).resolved_in_release = request[u].latest
          BY <4>1 DEF Resolved, IssueRows
        <5>2. QED  BY <4>1, <4>2, <5>1 DEF set_issue_status, Rewritten, IssueRows
      <4>3. CASE set_issue_status(u)
        BY <4>2, <4>3 DEF set_issue_status, Complete
      <4>4. CASE delete_issue(u)  BY <4>4 DEF delete_issue, Complete, NoIssue
      <4>5. CASE AbandonAction(u)  BY <4>5 DEF AbandonAction, Tables
      <4>6. QED  BY <2>3, <4>3, <4>4, <4>5
    <3>3. QED  BY <2>1, <1>0, <3>1, <3>2 DEF Idle, TypeOK
  <2>4. QED  BY <1>2, <2>2, <2>3 DEF Triage
<1>3. CASE UNCHANGED vars  BY <1>3 DEF vars
<1>4. QED  BY <1>1, <1>2, <1>3 DEF Next, Rest

\* The fix release always has a row to be ordered by: the branch of
\* decide_regression for an unorderable pair is dead for fix releases.
THEOREM FixReleaseHolds == Spec => []FixReleaseExists
<1>1. Init => ReleaseRows /\ FixKnown
  BY ReleaseRowsInit
     DEF Init, FixKnown, FixReleaseExists, NoIssue, Recorded, InTransaction, Idle
<1>2. TypeOK /\ Locking /\ ReleaseRows /\ FixKnown /\ [Next]_vars
        => ReleaseRows' /\ FixKnown'
  BY ReleaseRowsStep, FixKnownStep
<1>3. FixKnown => FixReleaseExists  BY DEF FixKnown
<1>4. QED  BY <1>1, <1>2, <1>3, TypeCorrect, LockingHolds, PTL DEF Spec

\* The decision an attempt carries stays right about the two releases it compared.
DecisionKept ==
    \A j \in Jobs :
        /\ pc[j] \in Decided /\ txn[j].should
        /\ txn[j].fix # NoRelease /\ env[j].release # NoRelease
        => Newer(j)

LEMMA DecisionKeptStep ==
    ASSUME TypeOK, Locking, ReleaseRows, FixKnown, DecisionKept, [Next]_vars
    PROVE  DecisionKept'
<1>0. /\ \A v \in Releases : releases[v] # 0 => releases'[v] = releases[v]
      /\ env' = env
      /\ \A j \in Jobs : /\ txn[j].fix \in Releases \cup {NoRelease}
                         /\ env[j].release \in Releases \cup {NoRelease}
  BY ReleasesStay, StoredStays DEF TypeOK, Envelopes, Txns
\* The order of the two releases stands while the transaction is open.
<1>1. ASSUME NEW j \in Jobs, pc[j] \in Recorded \ {"preread"},
             txn[j].fix # NoRelease, env[j].release # NoRelease, Newer(j),
             pc'[j] \in Decided, txn'[j].fix = txn[j].fix,
             txn'[j].newRelease = txn[j].newRelease, txn'[j].start = txn[j].start
      PROVE  Newer(j)'
  <2>1. releases[txn[j].fix] # 0 /\ releases'[txn[j].fix] = releases[txn[j].fix]
    BY <1>0, <1>1 DEF FixKnown
  <2>2. CASE txn[j].newRelease
    <3>1. env[j].release # txn[j].fix  BY <2>1, <2>2 DEF ReleaseRows
    <3>2. QED  BY <1>0, <1>1, <2>1, <2>2, <3>1 DEF Newer, CreatedAt
  <2>3. CASE ~txn[j].newRelease
    <3>1. releases[env[j].release] # 0  BY <1>1, <2>3 DEF ReleaseRows, Recorded
    <3>2. releases'[env[j].release] = releases[env[j].release]
      BY <1>0, <1>1, <3>1
    <3>3. QED  BY <1>0, <1>1, <2>1, <2>3, <3>2 DEF Newer, CreatedAt
  <2>4. QED  BY <2>2, <2>3
<1>2. ASSUME NEW j \in Jobs, pc'[j] = pc[j], txn'[j] = txn[j],
             pc'[j] \in Decided, txn'[j].should,
             txn'[j].fix # NoRelease, env[j].release # NoRelease
      PROVE  Newer(j)'
  BY <1>1, <1>2 DEF DecisionKept, Decided
<1>3. ASSUME NEW k \in Jobs, Work(k) \/ Raise(k),
             pc'[k] \in Decided, txn'[k].should,
             txn'[k].fix # NoRelease, env[k].release # NoRelease
      PROVE  Newer(k)'
  <2>1. CASE Commit(k)
    BY <1>3, <2>1 DEF Commit, Goto, TypeOK, Decided, Recorded, InTransaction
  <2>2. CASE Decide(k)
    <3>1. decide_regression(k) /\ txn'[k].fix = txn[k].fix
          /\ txn'[k].newRelease = txn[k].newRelease /\ txn'[k].start = txn[k].start
          /\ pc[k] = "decide"
      BY <1>3, <2>2, InnerSteps
    <3>2. pc[k] \in Recorded \ {"preread"}
      BY <3>1 DEF Recorded, InTransaction
    <3>3. CreatedAt(k, txn[k].fix) # 0 /\ CreatedAt(k, env[k].release) # 0
      BY <1>3, <3>1, <3>2 DEF FixKnown, ReleaseRows, CreatedAt, Recorded, InTransaction
    <3>4. Newer(k)  BY <1>3, <3>1, <3>3 DEF decide_regression
    <3>5. QED  BY <1>1, <1>3, <3>1, <3>2, <3>4
  <2>3. CASE UpsertStart(k) \/ UpsertApply(k) \/ InsertEvent(k)
    <3>1. /\ pc[k] \in Decided /\ txn[k].should /\ txn'[k].fix = txn[k].fix
          /\ txn'[k].newRelease = txn[k].newRelease /\ txn'[k].start = txn[k].start
      BY <1>3, <2>3, InnerSteps
    <3>2. QED  BY <1>1, <1>3, <3>1 DEF DecisionKept, Decided
  <2>4. QED
    BY <1>3, <2>1, <2>2, <2>3, OwnStep, InnerSteps DEF Decided, Recorded, InTransaction
<1>4. ASSUME NEW k \in Jobs, Work(k) \/ Raise(k)  PROVE DecisionKept'
  BY <1>0, <1>2, <1>3, <1>4, OthersStay DEF DecisionKept
<1>5. CASE UNCHANGED <<pc, txn>>  BY <1>0, <1>2, <1>5 DEF DecisionKept
<1>6. QED  BY <1>4, <1>5, TriageStays DEF Next, Rest, vars

\* The releases a transition names are recorded, and a decision on the fix release
\* the issue still carried was right.
FlipsOrdered ==
    /\ FreshDecisionsFollowOrder
    /\ \A f \in flips : /\ f.fix # NoRelease => releases[f.fix] # 0
                        /\ f.release # NoRelease => releases[f.release] # 0

LEMMA FlipsOrderedStep ==
    ASSUME TypeOK, Locking, ReleaseRows, FixKnown, DecisionKept, FlipsOrdered,
           [Next]_vars
    PROVE  FlipsOrdered'
<1> USE DEF FlipsOrdered, FreshDecisionsFollowOrder
<1>0. /\ \A v \in Releases : releases[v] # 0 => releases'[v] = releases[v]
      /\ \A f \in flips : /\ f.fix \in Releases \cup {NoRelease}
                          /\ f.release \in Releases \cup {NoRelease}
  BY ReleasesStay DEF TypeOK, Flips
<1>1. CASE flips' = flips  BY <1>0, <1>1
<1>2. ASSUME NEW k \in Jobs, Commit(k), issue.status = "resolved",
             write[k].row.status = "regressed", flips' = flips \cup {Flip(k)}
      PROVE  FlipsOrdered'
  <2> DEFINE f == Flip(k)
  <2>1. /\ f.fix = issue.resolved_in_release /\ f.seenFix = txn[k].fix
        /\ f.release = env[k].release
    BY DEF Flip
  <2>2. pc[k] = "commit" /\ write[k].row = UpsertedRow(k)
    BY <1>2 DEF Commit, At, Locking, WriteCurrent, Writing
  <2>3. txn[k].should
    BY <1>2, <2>2 DEF UpsertedRow, UpdatedRow, InsertedRow, Regresses, NoIssue
  <2>4. /\ issue.resolved_in_release \in Releases \cup {NoRelease}
        /\ env[k].release \in Releases \cup {NoRelease}
    BY DEF TypeOK, IssueRows, Envelopes
  <2>5. f.fix # NoRelease => releases[f.fix] # 0 /\ releases'[f.fix] = releases[f.fix]
    BY <1>0, <2>1, <2>4 DEF FixKnown, FixReleaseExists
  <2>6. f.release # NoRelease =>
           releases'[f.release] = CreatedAt(k, f.release) /\ releases'[f.release] # 0
    BY <1>2, <2>1, <2>2, <2>4
       DEF Commit, CreatedAt, ReleaseRows, TypeOK, Recorded, InTransaction
  <2>7. f.fix = f.seenFix /\ f.fix # NoRelease /\ f.release # NoRelease
           => releases'[f.release] > releases'[f.fix]
    <3> SUFFICES ASSUME f.fix = f.seenFix, f.fix # NoRelease, f.release # NoRelease
                 PROVE  releases'[f.release] > releases'[f.fix]
      OBVIOUS
    <3>1. Newer(k)
      BY <2>1, <2>2, <2>3 DEF DecisionKept, Decided, Recorded, InTransaction
    <3>2. CreatedAt(k, f.fix) = releases[f.fix]
      BY <2>1, <2>5 DEF CreatedAt, ReleaseRows
    <3>3. QED  BY <2>1, <2>5, <2>6, <3>1, <3>2 DEF Newer
  <2> HIDE DEF f
  <2>8. QED  BY <1>0, <1>2, <2>5, <2>6, <2>7 DEF f
<1>3. QED
  BY <1>1, <1>2, OthersStay, TriageStays DEF Next, Rest, vars, Commit

\* An attempt that decided on the fix release the issue still carries brings the
\* issue back only for a release first seen strictly after the fix: every failure
\* of "stragglers do not regress" needs a resolve during the attempt.
THEOREM FreshDecisionsHold == Spec => []FreshDecisionsFollowOrder
<1>1. Init => ReleaseRows /\ FixKnown /\ DecisionKept /\ FlipsOrdered
  BY ReleaseRowsInit
     DEF Init, FixKnown, FixReleaseExists, NoIssue, Recorded, InTransaction, Idle,
         DecisionKept, Decided, FlipsOrdered, FreshDecisionsFollowOrder
<1>2. TypeOK /\ Locking /\ ReleaseRows /\ FixKnown /\ DecisionKept /\ FlipsOrdered
        /\ [Next]_vars
        => ReleaseRows' /\ FixKnown' /\ DecisionKept' /\ FlipsOrdered'
  BY ReleaseRowsStep, FixKnownStep, DecisionKeptStep, FlipsOrderedStep
<1>3. FlipsOrdered => FreshDecisionsFollowOrder  BY DEF FlipsOrdered
<1>4. QED  BY <1>1, <1>2, <1>3, TypeCorrect, LockingHolds, PTL DEF Spec

-----------------------------------------------------------------------------
(* Alerts.                                                                 *)

Backed(job, id) == \E r \in events : r.job = job /\ r.issue_id = id
Returned(id) == \E f \in flips : f.issue = id
Announced(id) == \E a \in alerts : a.kind = "new" /\ a.issue = id

\* A regressed issue did come back; an attempt past its commit has a row and, if it
\* claims a return, a return to show; and of the attempts past their commit and the
\* alerts already sent only one can announce an issue as new.
Earned ==
    /\ issue.status = "regressed" => Returned(issue.id)
    /\ \A a \in alerts : a.kind = "new" => a.issue < nextId
    /\ \A j \in Jobs : pc[j] = "committed" =>
          /\ Backed(j, write[j].row.id)
          /\ write[j].regressed => Returned(write[j].row.id)
          /\ write[j].created => write[j].row.id < nextId /\ ~Announced(write[j].row.id)
    /\ \A j, k \in Jobs :
          /\ j # k /\ pc[j] = "committed" /\ pc[k] = "committed"
          /\ write[j].created /\ write[k].created
          => write[j].row.id # write[k].row.id

\* Rows and returns only ever grow, and only a commit or the end of an attempt shows.
LEMMA EarnedFrame ==
    ASSUME TypeOK, NEW k \in Jobs, Work(k) \/ Raise(k), ~Commit(k)
    PROVE  /\ UNCHANGED <<issue, events, nextId, flips>>
           /\ \A j \in Jobs \ {k} : pc'[j] = pc[j] /\ write'[j] = write[j]
           /\ pc'[k] # "committed"
           /\ Finish(k) \/ alerts' = alerts
<1> USE DEF TypeOK, At, Goto, Close, Tables, Outside, Reads
<1>1. CASE DropPoison(k) \/ Begin(k) \/ Dedupe(k)
  BY <1>1 DEF DropPoison, Begin, Dedupe
<1>2. CASE RecordRelease(k) \/ PreRead(k) \/ Decide(k)
  BY <1>2 DEF RecordRelease, PreRead, Decide
<1>3. CASE UpsertStart(k) \/ UpsertApply(k) \/ InsertEvent(k)
  BY <1>3 DEF UpsertStart, UpsertApply, InsertEvent
<1>4. CASE DuplicateKey(k) \/ Raise(k)
  BY <1>4 DEF DuplicateKey, Raise, EndAttempt, Outcomes
<1>5. CASE Finish(k)  BY <1>5 DEF Finish
<1>6. QED  BY <1>1, <1>2, <1>3, <1>4, <1>5 DEF Work

\* A step that commits nothing, sends nothing and lets nobody past a commit.
LEMMA EarnedQuiet ==
    ASSUME Earned, UNCHANGED <<events, nextId, flips, alerts>>,
           issue'.status = "regressed" => issue' = issue,
           \A j \in Jobs : pc'[j] = "committed" => pc[j] = "committed" /\ write'[j] = write[j]
    PROVE  Earned'
BY DEF Earned, Backed, Returned, Announced

\* A commit stores the row and records the return that its alert will tell of; the id
\* of an issue it creates is new to everybody.
LEMMA EarnedCommit ==
    ASSUME TypeOK, Locking, Earned, NEW k \in Jobs, Commit(k)
    PROVE  Earned'
<1> DEFINE id == write[k].row.id
<1>1. /\ issue' = UpsertedRow(k) /\ write[k].row = issue'
      /\ write[k].created = Created(k) /\ write[k].regressed = Transition(k)
  BY DEF Commit, At, Locking, WriteCurrent, Writing
<1>2. /\ alerts' = alerts /\ write' = write
      /\ nextId' = IF Created(k) THEN nextId + 1 ELSE nextId
      /\ \A j \in Jobs \ {k} : pc'[j] = pc[j]
      /\ events' = events \cup {EventRow(k)} /\ flips \subseteq flips'
  BY <1>1 DEF Commit, Goto, TypeOK
<1>3. nextId \in Nat /\ issue.id \in Nat /\ \A a \in alerts : a.issue \in Nat
  BY DEF TypeOK, IssueRows, Alerts
<1>3a. \A j \in Jobs : write[j].row.id \in Nat  BY DEF TypeOK, Writes, IssueRows
<1>4. Backed(k, id)'
  <2>1. EventRow(k).job = k /\ EventRow(k).issue_id = id  BY DEF EventRow
  <2>2. QED  BY <1>2, <2>1 DEF Backed
<1>5. issue'.status = "regressed" => Returned(issue.id)'
  <2> SUFFICES ASSUME issue'.status = "regressed"  PROVE Returned(issue.id)'
    OBVIOUS
  <2>1. issue'.id = issue.id
    BY <1>1 DEF UpsertedRow, InsertedRow, UpdatedRow
  <2>2. CASE issue.status = "resolved"
    <3>1. flips' = flips \cup {Flip(k)}  BY <1>1, <2>2 DEF Commit
    <3>2. Flip(k).issue = issue.id  BY DEF Flip
    <3>3. QED  BY <2>1, <3>1, <3>2 DEF Returned
  <2>3. CASE issue.status # "resolved"
    <3>1. issue.status = "regressed"
      BY <1>1, <2>3 DEF UpsertedRow, InsertedRow, UpdatedRow, Regresses
    <3>2. QED  BY <1>2, <2>1, <3>1 DEF Earned, Returned
  <2>4. QED  BY <2>2, <2>3
<1>6. write[k].regressed => Returned(id)'
  BY <1>1, <1>2, <1>5 DEF Transition
<1>7. Created(k) => id = nextId
  BY <1>1 DEF Created, UpsertedRow, InsertedRow
<1>8. Created(k) => id < nextId' /\ ~Announced(id)'
  BY <1>2, <1>3, <1>7 DEF Announced, Earned
<1>9. \A j \in Jobs \ {k} : pc[j] = "committed" /\ write[j].created /\ Created(k)
                              => write[j].row.id # id
  BY <1>3, <1>3a, <1>7 DEF Earned
<1>10. nextId' \in Nat /\ nextId <= nextId'  BY <1>2, <1>3
<1>11. \A j \in Jobs \ {k} : pc'[j] = "committed" =>
          /\ Backed(j, write[j].row.id)'
          /\ write[j].regressed => Returned(write[j].row.id)'
          /\ write[j].created => write[j].row.id < nextId' /\ ~Announced(write[j].row.id)'
  BY <1>2, <1>3, <1>3a, <1>10 DEF Earned, Backed, Returned, Announced
<1>12. \A a \in alerts : a.kind = "new" => a.issue < nextId'
  BY <1>3, <1>10 DEF Earned
<1> HIDE DEF id
<1>13. \A j \in Jobs : pc'[j] = "committed" =>
          /\ Backed(j, write[j].row.id)'
          /\ write[j].regressed => Returned(write[j].row.id)'
          /\ write[j].created => write[j].row.id < nextId' /\ ~Announced(write[j].row.id)'
  BY <1>1, <1>4, <1>6, <1>8, <1>11 DEF id
<1>14. \A i, j \in Jobs :
          /\ i # j /\ pc'[i] = "committed" /\ pc'[j] = "committed"
          /\ write[i].created /\ write[j].created
          => write[i].row.id # write[j].row.id
  <2> SUFFICES ASSUME NEW i \in Jobs, NEW j \in Jobs, i # j,
                      pc'[i] = "committed", pc'[j] = "committed",
                      write[i].created, write[j].created
               PROVE  write[i].row.id # write[j].row.id
    OBVIOUS
  <2>1. CASE i = k  BY <1>1, <1>2, <1>9, <2>1 DEF id
  <2>2. CASE j = k  BY <1>1, <1>2, <1>9, <2>2 DEF id
  <2>3. CASE i # k /\ j # k  BY <1>2, <2>3 DEF Earned
  <2>4. QED  BY <2>1, <2>2, <2>3
<1>15. QED  BY <1>2, <1>5, <1>12, <1>13, <1>14 DEF Earned

\* What a finishing attempt announces as new, no other attempt will.
LEMMA EarnedFinish ==
    ASSUME TypeOK, Earned, NEW k \in Jobs, Finish(k), alerts' = alerts \cup {Alert(k)},
           write[k].created \/ write[k].regressed
    PROVE  Earned'
<1>1. /\ UNCHANGED <<issue, events, nextId, flips>>
      /\ \A j \in Jobs \ {k} : pc'[j] = pc[j] /\ write'[j] = write[j]
      /\ pc[k] = "committed" /\ pc'[k] = "done"
  BY DEF Finish, Goto, Close, Tables, At, TypeOK
<1>2. Alert(k).issue = write[k].row.id /\ (Alert(k).kind = "new" => write[k].created)
  BY DEF Alert
<1>3. \A a \in alerts' : a.kind = "new" => a.issue < nextId'
  BY <1>1, <1>2 DEF Earned
<1>4. \A j \in Jobs : pc'[j] = "committed" /\ write'[j].created
                        => ~Announced(write[j].row.id)'
  BY <1>1, <1>2 DEF Earned, Announced
<1>5. \A j \in Jobs : pc'[j] = "committed" =>
         j # k /\ pc[j] = "committed" /\ write'[j] = write[j]
  BY <1>1
<1>6. QED  BY <1>1, <1>3, <1>4, <1>5 DEF Earned, Backed, Returned

\* A triage action leaves the attempts and what they sent alone, and never shows an
\* issue as come back.
LEMMA EarnedTriage ==
    ASSUME TypeOK, Earned, NEW u \in Users, Triage(u)
    PROVE  UNCHANGED <<events, nextId, flips, alerts, pc, write>>
           /\ (issue'.status = "regressed" => issue' = issue)
<1>0. issue \in IssueRows  BY DEF TypeOK
<1>1. CASE (\E a \in Actions : StartAction(u, a)) \/ AbandonAction(u)
  BY <1>1 DEF StartAction, AbandonAction, Tables
<1>2. CASE set_issue_status(u)
  <2>1. Rewritten(request[u]).status # "regressed"
    BY <1>0, <1>2 DEF set_issue_status, Rewritten, Resolved, IssueRows
  <2>2. QED  BY <1>2, <2>1 DEF set_issue_status, Complete
<1>3. CASE delete_issue(u)  BY <1>3 DEF delete_issue, Complete, NoIssue
<1>4. QED  BY <1>1, <1>2, <1>3 DEF Triage

LEMMA EarnedStep ==
    ASSUME TypeOK, Locking, Earned, [Next]_vars
    PROVE  Earned'
<1>1. ASSUME NEW k \in Jobs, Work(k) \/ Raise(k)  PROVE Earned'
  <2>1. CASE Commit(k)  BY <2>1, EarnedCommit
  <2>2. CASE ~Commit(k) /\ alerts' = alerts
    BY <1>1, <2>2, EarnedFrame, EarnedQuiet
  <2>3. CASE ~Commit(k) /\ alerts' # alerts
    <3>1. Finish(k)  BY <1>1, <2>3, EarnedFrame
    <3>2. QED  BY <2>3, <3>1, EarnedFinish DEF Finish
  <2>4. QED  BY <2>1, <2>2, <2>3
<1>2. ASSUME NEW u \in Users, Triage(u)  PROVE Earned'
  BY <1>2, EarnedTriage, EarnedQuiet
<1>3. CASE UNCHANGED vars  BY <1>3, EarnedQuiet DEF vars
<1>4. QED  BY <1>1, <1>2, <1>3 DEF Next, Rest

\* How an alert comes about.
LEMMA AlertsStep ==
    ASSUME TypeOK, Locking, [Next]_vars
    PROVE  /\ events \subseteq events' /\ flips \subseteq flips'
           /\ \/ alerts' = alerts
              \/ \E k \in Jobs : /\ Finish(k) /\ alerts' = alerts \cup {Alert(k)}
                                 /\ write[k].created \/ write[k].regressed
<1>1. ASSUME NEW k \in Jobs, Commit(k)
      PROVE  alerts' = alerts /\ flips \subseteq flips'
  BY <1>1 DEF Commit
<1>2. ASSUME NEW k \in Jobs, Finish(k)
      PROVE  \/ alerts' = alerts
             \/ /\ alerts' = alerts \cup {Alert(k)}
                /\ write[k].created \/ write[k].regressed
  BY <1>2 DEF Finish
<1>3. ASSUME NEW u \in Users, Triage(u)
      PROVE  UNCHANGED <<flips, alerts>>
  BY <1>3 DEF Triage, StartAction, set_issue_status, delete_issue, AbandonAction, Complete
<1>4. events \subseteq events'  BY EventsStep
<1>5. CASE UNCHANGED vars  BY <1>4, <1>5 DEF vars
<1>6. QED  BY <1>1, <1>2, <1>3, <1>4, <1>5, EarnedFrame DEF Next, Rest

\* An alert is about a stored event of the job that sent it, tells of a return only when
\* there was one, and announces an issue as new once: whatever is lost, rolled back or
\* run again between the commit and the enqueue.
THEOREM AlertsAreEarnedHolds == Spec => []AlertsAreEarned
<1> USE DEF AlertsAreEarned, AlertsAreBacked, OneNewAlert
<1>1. Init => Earned /\ AlertsAreEarned
  BY DEF Init, Earned, NoIssue
<1>2. TypeOK /\ Locking /\ Earned /\ [Next]_vars => Earned'  BY EarnedStep
<1>3. TypeOK /\ Locking /\ Earned /\ AlertsAreEarned /\ [Next]_vars => AlertsAreEarned'
  <2> SUFFICES ASSUME TypeOK, Locking, Earned, AlertsAreEarned, [Next]_vars
               PROVE  AlertsAreEarned'
    OBVIOUS
  <2>1. CASE alerts' = alerts  BY <2>1, AlertsStep
  <2>2. ASSUME NEW k \in Jobs, Finish(k), alerts' = alerts \cup {Alert(k)},
               write[k].created \/ write[k].regressed
        PROVE  AlertsAreEarned'
    <3>1. /\ Alert(k).job = k /\ Alert(k).issue = write[k].row.id
          /\ Alert(k).kind = IF write[k].regressed THEN "regression" ELSE "new"
      BY DEF Alert
    <3>2. pc[k] = "committed"  BY <2>2 DEF Finish, At
    <3>3. AlertsAreBacked'
      BY <2>2, <3>1, <3>2, AlertsStep DEF Earned, Backed, Returned
    <3>4. OneNewAlert'
      BY <2>2, <3>1, <3>2 DEF Earned, Announced
    <3>5. QED  BY <3>3, <3>4
  <2>3. QED  BY <2>1, <2>2, AlertsStep
<1>4. QED  BY <1>1, <1>2, <1>3, TypeCorrect, LockingHolds, PTL DEF Spec

-----------------------------------------------------------------------------
(* What the audit log tells.                                               *)

\* An id is audited only once it was given out.
AuditNamesKnown == \A i \in DOMAIN audit : audit[i].issue < nextId

\* The rows of the log about an issue are the older ones and the last.
LEMMA LastActionAppended ==
    ASSUME TypeOK, NEW a \in Actions, issue.id \in Nat, issue'.id = issue.id,
           audit' = Append(audit, [action |-> a, issue |-> issue.id])
    PROVE  LastAction' = a
<1> DEFINE Entry == [action : Actions, issue : Nat]
           entry == [action |-> a, issue |-> issue.id]
           own == {i \in DOMAIN audit' : audit'[i].issue = issue'.id}
           n == Len(audit) + 1
<1>1. audit \in Seq(Entry) /\ entry \in Entry  BY DEF TypeOK
<1> HIDE DEF Entry
<1>2. /\ Len(audit) \in Nat /\ DOMAIN audit' = 1 .. n
      /\ audit'[n] = entry
  BY <1>1, AppendProperties, LenProperties
<1>3. n \in own /\ \A k \in own : k <= n /\ k \in Nat  BY <1>2
<1>4. (CHOOSE i \in own : \A k \in own : k <= i) = n
  <2>1. \A i \in own : (\A k \in own : k <= i) => i = n  BY <1>2, <1>3
  <2>2. QED  BY <1>3, <2>1
<1>5. LastAction' = IF own = {} THEN "none"
                    ELSE audit'[CHOOSE i \in own : \A k \in own : k <= i].action
  BY DEF LastAction
<1>6. QED  BY <1>2, <1>3, <1>4, <1>5

\* A worker's commit adds no row to the log.
LEMMA ExplainedCommit ==
    ASSUME TypeOK, Locking, AuditNamesKnown, StatusIsExplained, NEW k \in Jobs, Commit(k)
    PROVE  AuditNamesKnown' /\ StatusIsExplained'
<1>1. /\ audit' = audit /\ issue' = UpsertedRow(k)
      /\ nextId' = IF Created(k) THEN nextId + 1 ELSE nextId
  BY DEF Commit, At, Locking, WriteCurrent, Writing
<1>2. nextId \in Nat /\ \A i \in DOMAIN audit : audit[i].issue \in Nat
  <2> DEFINE Entry == [action : Actions, issue : Nat]
  <2>1. audit \in Seq(Entry) /\ nextId \in Nat  BY DEF TypeOK
  <2>2. \A i \in DOMAIN audit : audit[i] \in Entry
    <3> HIDE DEF Entry
    <3>1. QED  BY <2>1
  <2>3. QED  BY <2>1, <2>2
<1>3. AuditNamesKnown'  BY <1>1, <1>2 DEF AuditNamesKnown
<1>4. CASE issue = NoIssue
  <2>1. issue'.id = nextId /\ issue'.status = "unresolved"
    BY <1>1, <1>4 DEF UpsertedRow, InsertedRow
  <2>2. {i \in DOMAIN audit' : audit'[i].issue = issue'.id} = {}
    BY <1>1, <1>2, <2>1 DEF AuditNamesKnown
  <2>3. LastAction' = "none"  BY <2>2 DEF LastAction
  <2>4. QED  BY <1>3, <2>1, <2>3 DEF StatusIsExplained
<1>5. CASE issue # NoIssue
  <2>1. /\ issue'.id = issue.id
        /\ issue'.status = IF Regresses(k) THEN "regressed" ELSE issue.status
    BY <1>1, <1>5 DEF UpsertedRow, UpdatedRow
  <2>2. LastAction' = LastAction  BY <1>1, <2>1 DEF LastAction
  <2>3. QED  BY <1>3, <2>1, <2>2 DEF StatusIsExplained, Regresses
<1>6. QED  BY <1>4, <1>5

\* A triage action that completes writes its status and its row of the log together.
LEMMA ExplainedTriage ==
    ASSUME TypeOK, Locking, AuditNamesKnown, StatusIsExplained, NEW u \in Users, Triage(u)
    PROVE  AuditNamesKnown' /\ StatusIsExplained'
<1>0. issue \in IssueRows /\ request[u].action \in Actions \cup {"none"}
  BY DEF TypeOK
<1>1. ASSUME UNCHANGED <<issue, audit, nextId>>
      PROVE  AuditNamesKnown' /\ StatusIsExplained'
  BY <1>1 DEF AuditNamesKnown, StatusIsExplained, LastAction
<1>2. ASSUME NEW row, Complete(u, row), issue.id = request[u].id
      PROVE  AuditNamesKnown'
  <2> DEFINE Entry == [action : Actions \cup {"none"}, issue : Nat]
             entry == [action |-> request[u].action, issue |-> issue.id]
  <2>1. audit \in Seq([action : Actions, issue : Nat])  BY DEF TypeOK
  <2>2. Len(audit) \in Nat /\ DOMAIN audit = 1 .. Len(audit)  BY <2>1, LenProperties
  <2>3. /\ DOMAIN audit' = 1 .. Len(audit) + 1
        /\ audit'[Len(audit) + 1] = entry
        /\ \A i \in 1 .. Len(audit) : audit'[i] = audit[i]
    <3>1. audit' = Append(audit, entry)  BY <1>2 DEF Complete
    <3>2. QED  BY <2>1, <2>2, <3>1
  <2>4. issue.id < nextId /\ nextId' = nextId  BY <1>2 DEF Complete, Locking, IdsFresh
  <2>5. QED  BY <2>2, <2>3, <2>4 DEF AuditNamesKnown
<1>3. CASE (\E a \in Actions : StartAction(u, a)) \/ AbandonAction(u)
  BY <1>1, <1>3 DEF StartAction, AbandonAction, Tables
<1>4. CASE set_issue_status(u) /\ issue.id = request[u].id
  <2> DEFINE a == request[u].action
  <2>1. /\ Complete(u, Rewritten(request[u])) /\ a \in {"resolve", "ignore", "reopen"}
        /\ issue' = Rewritten(request[u])
        /\ audit' = Append(audit, [action |-> a, issue |-> issue.id])
    BY <1>4 DEF set_issue_status, Complete
  <2>2. /\ issue'.id = issue.id /\ issue.id \in Nat
        /\ a = "resolve" => issue'.status = "resolved"
        /\ a = "ignore" => issue'.status = "ignored"
        /\ a = "reopen" => issue'.status = "unresolved"
    BY <1>0, <2>1 DEF Rewritten, Resolved, IssueRows
  <2>3. LastAction' = a  BY <2>1, <2>2, LastActionAppended DEF Actions
  <2>4. StatusIsExplained'  BY <2>1, <2>2, <2>3 DEF StatusIsExplained
  <2>5. QED  BY <1>2, <1>4, <2>1, <2>4
<1>5. CASE delete_issue(u) /\ issue.id = request[u].id
  <2>1. Complete(u, NoIssue) /\ issue' = NoIssue
    BY <1>5 DEF delete_issue, Complete
  <2>2. StatusIsExplained'  BY <2>1 DEF StatusIsExplained, NoIssue
  <2>3. QED  BY <1>2, <1>5, <2>1, <2>2
<1>6. CASE (set_issue_status(u) \/ delete_issue(u)) /\ issue.id # request[u].id
  BY <1>1, <1>6 DEF set_issue_status, delete_issue, Complete
<1>7. QED  BY <1>3, <1>4, <1>5, <1>6 DEF Triage

\* No worker overwrites a triage action it did not see: the status shown is explained by
\* the last action that committed, and no marker outlives the status it belongs to.
THEOREM StatusTellsHistoryHolds == Spec => []StatusTellsHistory
<1>1. Init => AuditNamesKnown /\ StatusIsExplained
  BY DEF Init, AuditNamesKnown, StatusIsExplained, NoIssue
<1>2. TypeOK /\ Locking /\ AuditNamesKnown /\ StatusIsExplained /\ [Next]_vars
        => AuditNamesKnown' /\ StatusIsExplained'
  <2> SUFFICES ASSUME TypeOK, Locking, AuditNamesKnown, StatusIsExplained, [Next]_vars
               PROVE  AuditNamesKnown' /\ StatusIsExplained'
    OBVIOUS
  <2>1. ASSUME UNCHANGED <<issue, audit, nextId>>
        PROVE  AuditNamesKnown' /\ StatusIsExplained'
    BY <2>1 DEF AuditNamesKnown, StatusIsExplained, LastAction
  <2>2. ASSUME NEW k \in Jobs, Work(k) \/ Raise(k), ~Commit(k)
        PROVE  UNCHANGED <<issue, audit, nextId>>
    BY <2>2
       DEF Work, Raise, EndAttempt, DropPoison, Begin, Dedupe, RecordRelease, PreRead,
           Decide, UpsertStart, UpsertApply, InsertEvent, DuplicateKey, Finish, Reads,
           Tables, Outside
  <2>3. CASE UNCHANGED vars  BY <2>1, <2>3 DEF vars
  <2>4. QED  BY <2>1, <2>2, <2>3, ExplainedCommit, ExplainedTriage DEF Next, Rest
<1>3. MarkersFollowStatus /\ StatusIsExplained => StatusTellsHistory
  BY DEF StatusTellsHistory
<1>4. QED  BY <1>1, <1>2, <1>3, TypeCorrect, LockingHolds, MarkersHold, PTL DEF Spec

-----------------------------------------------------------------------------
(* The properties of the runs, from the theorems above.                    *)

\* What the issue row says of its events is what the event rows say.
THEOREM IssueMatchesRowsHolds == Spec => []IssueMatchesRows
<1>1. CountMatchesRows /\ SeenTimesMatchRows => IssueMatchesRows
  BY DEF IssueMatchesRows
<1>2. QED  BY <1>1, CountHolds, SeenTimesHold, PTL

\* Each delivery is stored once: by one row, before the job reports success, and not
\* by a resend that could have seen it.
THEOREM DeliveredOnceHolds == Spec => []DeliveredOnce
<1>1. OneRowPerDelivery /\ NoLateDuplicate /\ DoneMeansStored => DeliveredOnce
  BY DEF DeliveredOnce
<1>2. QED  BY <1>1, OneRowHolds, NoLateDuplicateHolds, DoneHolds, PTL

\* The fix release can always be ordered, and a decision on the current fix brings
\* the issue back for a newer release only.
THEOREM RegressionsFollowReleasesHolds == Spec => []RegressionsFollowReleases
<1>1. FixReleaseExists /\ FreshDecisionsFollowOrder => RegressionsFollowReleases
  BY DEF RegressionsFollowReleases
<1>2. QED  BY <1>1, FixReleaseHolds, FreshDecisionsHold, PTL
=============================================================================
