------------------------------ MODULE SdkHooks ------------------------------
(***************************************************************************)
(* Who hears of a crash: the handlers that init installs and close removes,*)
(* among those of the program and of other libraries.                      *)
(*                                                                         *)
(* Python (_hooks.py over sys.excepthook) and the browser (instrument.ts   *)
(* over window.onerror) have one slot: a handler keeps the one it replaced *)
(* and calls it in turn, so the slot holds a chain that never changes      *)
(* below its head.  Node keeps a list of listeners and calls all of them.  *)
(***************************************************************************)
EXTENDS Integers, Sequences, FiniteSets, SequencesExt

CONSTANTS
    Others,         \* handlers of the program and of other libraries
    Chaining,       \* those that call the handler they replaced
    MaxClients      \* bound: calls of init that make a client

ASSUME HooksAssumption ==
    /\ Chaining \subseteq Others /\ "sdk" \notin Others
    /\ MaxClients \in Nat

VARIABLES
    runtime,    \* "python", "browser" or "node"
    slot,       \* handlers in the order a crash reaches them
    replaced,   \* what who installed a handler would put back: who |-> chain
    default,    \* the client of the module-level calls; 0: none
    hooked,     \* the client whose handler was installed last; 0: none
    made,       \* clients made so far
    closed,     \* clients whose transport is closed
    intact      \* history: nobody has covered or uncovered that handler since

hookVars == <<runtime, slot, replaced, default, hooked, made, closed, intact>>

Sdk == "sdk"
Own(client) == [by |-> Sdk, client |-> client]
Other(o) == [by |-> o, client |-> 0]

HooksInit ==
    /\ runtime \in {"python", "browser", "node"}
    /\ slot = <<>>
    /\ replaced = <<>>
    /\ default = 0 /\ hooked = 0 /\ made = 0
    /\ closed = {}
    /\ intact = TRUE

\* removeListener takes out one listener; no handler is in the list twice.
Listens(h) == \E n \in DOMAIN slot : slot[n] = h
Without(h) ==
    IF Listens(h) THEN RemoveAt(slot, CHOOSE n \in DOMAIN slot : slot[n] = h) ELSE slot

\* sys.excepthook and window.onerror are replaced; process.on appends.
Put(by, h) ==
    IF runtime = "node"
    THEN slot' = Append(slot, h) /\ UNCHANGED replaced
    ELSE /\ slot' = <<h>> \o slot
         /\ replaced' = [who \in DOMAIN replaced \cup {by} |->
                            IF who = by THEN slot ELSE replaced[who]]

\* ... and put back; process.removeListener takes one listener out.
PutBack(by, h) == slot' = IF runtime = "node" THEN Without(h) ELSE replaced[by]

-----------------------------------------------------------------------------
(* The SDKs.                                                               *)

Installed_Forgotten == FALSE        \* init would install once more: CrashIsReportedOnce
Installed == hooked # 0

\* Python: every init makes a client and replaces the default one; the excepthooks are
\* installed once and keep the client they were installed for.
init_python(wanted) ==
    /\ runtime = "python" /\ made < MaxClients
    /\ made' = made + 1
    /\ default' = made'
    /\ IF wanted /\ ~Installed
       THEN Put(Sdk, Own(made')) /\ hooked' = made' /\ intact' = TRUE
       ELSE UNCHANGED <<slot, replaced, hooked, intact>>
    /\ UNCHANGED <<runtime, closed>>

\* JavaScript: a second init is a no-op until close.  Node's handlers can be refused.
init_js(wanted) ==
    /\ runtime # "python" /\ made < MaxClients
    /\ default = 0
    /\ made' = made + 1
    /\ default' = made'
    /\ IF wanted \/ runtime = "browser"
       THEN Put(Sdk, Own(made')) /\ hooked' = made' /\ intact' = TRUE
       ELSE UNCHANGED <<slot, replaced, hooked, intact>>
    /\ UNCHANGED <<runtime, closed>>

\* Client.close: the transport is closed, the hooks stay.
close_python ==
    /\ runtime = "python" /\ default # 0
    /\ closed' = closed \cup {default}
    /\ UNCHANGED <<runtime, slot, replaced, default, hooked, made, intact>>

\* What init replaced is put back, over whatever was installed since.
close_js ==
    /\ runtime # "python" /\ default # 0
    /\ IF hooked = default THEN PutBack(Sdk, Own(default)) ELSE UNCHANGED slot
    /\ default' = 0 /\ hooked' = 0
    /\ closed' = IF runtime = "browser" THEN closed \cup {default} ELSE closed
    /\ UNCHANGED <<runtime, replaced, made, intact>>

\* Node's close goes on to flush the client, and closes its transport after that.
CloseEnds(client) ==
    /\ runtime = "node"
    /\ client \in (1 .. made) \ (closed \cup {default})
    /\ closed' = closed \cup {client}
    /\ UNCHANGED <<runtime, slot, replaced, default, hooked, made, intact>>

-----------------------------------------------------------------------------
(* The others.                                                             *)

Install(o) ==
    /\ ~Listens(Other(o)) /\ o \notin DOMAIN replaced
    /\ Put(o, Other(o))
    /\ intact' = (intact /\ (runtime = "node" \/ o \in Chaining))
    /\ UNCHANGED <<runtime, default, hooked, made, closed>>

\* Once a library puts back what it replaced, even if it is no longer on top, or no
\* longer there.
Uninstall(o) ==
    /\ IF runtime = "node"
       THEN Listens(Other(o)) /\ UNCHANGED <<replaced, intact>>
       ELSE /\ o \in DOMAIN replaced
            /\ replaced' = [by \in DOMAIN replaced \ {o} |-> replaced[by]]
            /\ intact' = (intact /\ slot # <<>> /\ Head(slot) = Other(o))
    /\ PutBack(o, Other(o))
    /\ UNCHANGED <<runtime, default, hooked, made, closed>>

HooksNext ==
    \/ \E wanted \in BOOLEAN : init_python(wanted) \/ init_js(wanted)
    \/ close_python \/ close_js
    \/ \E client \in 1 .. MaxClients : CloseEnds(client)
    \/ \E o \in Others : Install(o) \/ Uninstall(o)

HooksSpec == HooksInit /\ [][HooksNext]_hookVars

-----------------------------------------------------------------------------
(* Correctness.                                                            *)

\* The handlers a crash reaches: all down to the first that does not pass it on.
Reached(n) ==
    \/ runtime = "node"
    \/ \A k \in 1 .. n - 1 : slot[k].by \in Chaining \cup {Sdk}

\* The transports that take the report: a closed one drops it.
Reporters ==
    {n \in DOMAIN slot : Reached(n) /\ slot[n].by = Sdk /\ slot[n].client \notin closed}

\* A crash is reported once at most, and by the client whose handler is installed unless
\* that client was closed or its handler is covered: whatever the order of init, close
\* and the coming and going of other handlers, which may bring back the handler of a
\* client that was closed before.
CrashIsReportedOnce ==
    /\ Cardinality(Reporters) <= 1
    /\ hooked \notin closed \cup {0} /\ intact =>
        \E n \in Reporters : slot[n].client = hooked
=============================================================================
