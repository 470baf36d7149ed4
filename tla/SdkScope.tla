------------------------------ MODULE SdkScope ------------------------------
(***************************************************************************)
(* The breadcrumbs, tags and user the SDKs attach to an event.             *)
(*                                                                         *)
(* Python keeps them in context variables (sdks/python/.../_scope.py): a   *)
(* task or thread starts with a copy of its parent's bindings, so both see *)
(* the same list object and every write must make a new one.  Node keeps a *)
(* Scope object per request in AsyncLocalStorage (sdks/node/src/scope.ts): *)
(* runInScope clones it, and what the request awaits shares the clone, so  *)
(* writes are made in place.  What an event carries was read at capture    *)
(* and waits in a queue while the application goes on writing.             *)
(*                                                                         *)
(* A scope is a list of crumbs here: a tag and the user are rebound and    *)
(* cloned in the same statements.                                          *)
(***************************************************************************)
EXTENDS Integers, Sequences

CONSTANTS
    Root,               \* the context the program starts in
    Contexts,           \* requests, tasks and threads, Root among them
    MAX_BREADCRUMBS,
    MaxCrumbs,          \* bound: breadcrumbs added
    MaxEvents           \* bound: events captured

ASSUME ScopeAssumption ==
    /\ Root \in Contexts
    /\ MAX_BREADCRUMBS \in Nat \ {0}
    /\ MaxCrumbs \in Nat /\ MaxEvents \in Nat

VARIABLES
    sdk,        \* "python" or "node"
    scope,      \* [Contexts -> the object it is bound to], 0: not running
    heap,       \* objects allocated so far; each a sequence of crumbs
    queued,     \* captured events not yet sent: [crumbs : object, trail]
    trail,      \* all a context should see: what it inherited and added, in order
    added       \* crumbs so far; the number of one is its name

scopeVars == <<sdk, scope, heap, queued, trail, added>>

Started(c) == scope[c] # 0

Newest(crumbs) == SubSeq(crumbs, Len(crumbs) - MAX_BREADCRUMBS + 1, Len(crumbs))
Trimmed(crumbs) == IF Len(crumbs) > MAX_BREADCRUMBS THEN Newest(crumbs) ELSE crumbs

ScopeInit ==
    /\ sdk \in {"python", "node"}
    /\ scope = [c \in Contexts |-> IF c = Root THEN 1 ELSE 0]
    /\ heap = << <<>> >>
    /\ queued = <<>>
    /\ trail = [c \in Contexts |-> <<>>]
    /\ added = 0

\* A task or thread copies its parent's context: the bindings, not the objects.
CopyContext(c, d) ==
    /\ sdk = "python"
    /\ Started(c) /\ ~Started(d)
    /\ scope' = [scope EXCEPT ![d] = scope[c]]
    /\ trail' = [trail EXCEPT ![d] = trail[c]]
    /\ UNCHANGED <<sdk, heap, queued, added>>

\* The request handler forks a scope for each request.
runInScope(c, d) ==
    /\ sdk = "node"
    /\ Started(c) /\ ~Started(d)
    /\ heap' = Append(heap, heap[scope[c]])
    /\ scope' = [scope EXCEPT ![d] = Len(heap')]
    /\ trail' = [trail EXCEPT ![d] = trail[c]]
    /\ UNCHANGED <<sdk, queued, added>>

\* The write itself: a new list bound in this context, or the shared object pushed to.
Written_InPlace(c, crumb) ==
    /\ heap' = [heap EXCEPT ![scope[c]] = Trimmed(Append(@, crumb))]
    /\ UNCHANGED scope

Written(c, crumb) ==
    IF sdk = "python"
    THEN /\ heap' = Append(heap, Trimmed(Append(heap[scope[c]], crumb)))
         /\ scope' = [scope EXCEPT ![c] = Len(heap')]
    ELSE /\ heap' = [heap EXCEPT ![scope[c]] = Trimmed(Append(@, crumb))]
         /\ UNCHANGED scope

add_breadcrumb(c) ==
    /\ Started(c) /\ added < MaxCrumbs
    /\ added' = added + 1
    /\ Written(c, added')
    /\ trail' = [trail EXCEPT ![c] = Append(@, added')]
    /\ UNCHANGED <<sdk, queued>>

\* build_event copies the list (get_breadcrumbs, BreadcrumbBuffer.all) and submits.
capture(c) ==
    /\ Started(c) /\ Len(queued) < MaxEvents
    /\ heap' = Append(heap, heap[scope[c]])
    /\ queued' = Append(queued, [crumbs |-> Len(heap'), trail |-> trail[c]])
    /\ UNCHANGED <<sdk, scope, trail, added>>

ScopeNext ==
    \/ \E c, d \in Contexts : CopyContext(c, d) \/ runInScope(c, d)
    \/ \E c \in Contexts : add_breadcrumb(c) \/ capture(c)

ScopeSpec == ScopeInit /\ [][ScopeNext]_scopeVars

-----------------------------------------------------------------------------

\* "Concurrent requests must not bleed context into each other", "setting a tag or
\* adding a breadcrumb in one task does not bleed into an unrelated task": a context
\* sees the newest of what it inherited when it began and of what it added itself,
\* and an event carries what its context saw at capture, however long it is queued.
ScopesDoNotBleed ==
    /\ \A c \in Contexts : Started(c) => heap[scope[c]] = Trimmed(trail[c])
    /\ \A n \in DOMAIN queued : heap[queued[n].crumbs] = Trimmed(queued[n].trail)
=============================================================================
