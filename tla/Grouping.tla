------------------------------ MODULE Grouping ------------------------------
(***************************************************************************)
(* How an error becomes an exception in an envelope (the SDKs' _envelope.py*)
(* and stacktrace.ts) and how the worker groups it: normalize_envelope,    *)
(* walk_to_root_cause, compute_fingerprint (server/app/jobs/               *)
(* process_event.py).                                                      *)
(*                                                                         *)
(* The chain exception, cause, cause of the cause... is a sequence, the    *)
(* presented exception first.  A fingerprint is what is hashed; a name     *)
(* longer than its limit is one that Cut shortens.                         *)
(***************************************************************************)
EXTENDS Integers, Sequences, FiniteSets, SequencesExt

CONSTANTS
    MAX_FRAMES,                 \* the same in the Python SDK and the server
    MAX_CAUSE_DEPTH,            \* the same in all SDKs and the server
    FINGERPRINT_FRAME_LIMIT,
    Names,                      \* file and function names
    Cut,                        \* [Names -> Names], truncate_string(name, ..._MAX)
    Errors,                     \* error objects of a program
    NoError,
    Volatile,                   \* tokens of a message that normalize_message collapses,
                                \* [token -> placeholder]
    Programs                    \* what the programs' errors may look like

VARIABLE
    reports         \* errors reported, in order: [platform, errors, top]

Platforms == {"python", "node"}

\* The errors of a program, each with its frames in the order of the calls.
IsProgram(errors) ==
    \A e \in Errors :
        /\ errors[e].cause \in Errors \cup {NoError}
        /\ errors[e].context \in Errors \cup {NoError}
        /\ errors[e].suppress \in BOOLEAN
        /\ errors[e].frames \in Seq([file : Names, func : Names, line : Nat, in_app : BOOLEAN])

ASSUME GroupingAssumption ==
    /\ MAX_FRAMES \in Nat \ {0} /\ MAX_CAUSE_DEPTH \in Nat \ {0}
    /\ FINGERPRINT_FRAME_LIMIT \in Nat \ {0}
    /\ \A n \in Names : Cut[n] \in Names /\ Cut[Cut[n]] = Cut[n]
    /\ NoError \notin Errors
    /\ \A errors \in Programs : IsProgram(errors)

LastN(s, n) == IF Len(s) > n THEN SubSeq(s, Len(s) - n + 1, Len(s)) ELSE s

-----------------------------------------------------------------------------
(* The SDKs.  A program's errors: [Errors -> [type, cause, context,        *)
(* suppress, frames]].                                                     *)

\* _next_cause: __cause__ wins over __context__.
_next_cause(errors, e) ==
    IF errors[e].cause # NoError THEN errors[e].cause
    ELSE IF errors[e].suppress THEN NoError ELSE errors[e].context

NextOf(platform, errors, e) ==
    IF platform = "python"
    THEN IF _next_cause(errors, e) = e THEN NoError ELSE _next_cause(errors, e)
    ELSE errors[e].cause

\* _build_exception and exceptionFromError: at most MAX_CAUSE_DEPTH links of a graph
\* that may well be a ring.
Links(platform, errors, top) ==
    LET link[d \in 1 .. MAX_CAUSE_DEPTH] ==
            IF d = 1 THEN top
            ELSE IF link[d - 1] = NoError THEN NoError
            ELSE NextOf(platform, errors, link[d - 1])
    IN  link

Chain(platform, errors, top) ==
    LET link == Links(platform, errors, top)
        found == {d \in 1 .. MAX_CAUSE_DEPTH : link[d] # NoError}
    IN  [d \in found |-> link[d]]

\* _build_frames caps the stack; the JavaScript SDKs send all of it.  They read it
\* crash first and turn it round.
BuildFrames(platform, frames) ==
    IF platform = "python" THEN LastN(frames, MAX_FRAMES)
    ELSE Reverse(Reverse(frames))

build_event(platform, errors, top) ==
    LET chain == Chain(platform, errors, top)
    IN  [platform |-> platform, level |-> "error", message |-> <<>>,
         exception |-> [d \in DOMAIN chain |->
            [type |-> errors[chain[d]].type,
             frames |-> BuildFrames(platform, errors[chain[d]].frames)]]]

-----------------------------------------------------------------------------
(* The worker.                                                             *)

_normalize_frame(f) == [f EXCEPT !.file = Cut[@], !.func = Cut[@]]

\* frames[:MAX_FRAMES] would keep the wrong end.
Capped_First(frames) == SubSeq(frames, 1, IF Len(frames) < MAX_FRAMES THEN Len(frames) ELSE MAX_FRAMES)
Capped(frames) == LastN(frames, MAX_FRAMES)

_normalize_exception(x) ==
    [x EXCEPT !.frames = LET capped == Capped(@) IN
        [n \in DOMAIN capped |-> _normalize_frame(capped[n])]]

normalize_envelope(env) ==
    LET kept == {d \in DOMAIN env.exception : d <= MAX_CAUSE_DEPTH}
    IN  [env EXCEPT !.exception = [d \in kept |-> _normalize_exception(env.exception[d])]]

walk_to_root_cause(exception) == exception[Len(exception)]

normalize_message(message) ==
    [n \in DOMAIN message |->
        IF message[n] \in DOMAIN Volatile THEN Volatile[message[n]] ELSE message[n]]

InApp(frames) ==
    LET kept[n \in 0 .. Len(frames)] ==
            IF n = 0 THEN <<>>
            ELSE IF frames[n].in_app THEN Append(kept[n - 1], frames[n]) ELSE kept[n - 1]
    IN  kept[Len(frames)]

compute_fingerprint(env) ==
    IF env.exception = <<>>
    THEN [platform |-> env.platform, level |-> env.level,
          message |-> normalize_message(env.message)]
    ELSE LET root == walk_to_root_cause(env.exception)
             in_app == InApp(root.frames)
             candidates == IF in_app # <<>> THEN in_app ELSE root.frames
             selected == LastN(candidates, FINGERPRINT_FRAME_LIMIT)
         IN  [platform |-> env.platform, type |-> root.type,
              frames |-> [n \in DOMAIN selected |-> <<selected[n].file, selected[n].func>>]]

Fingerprint(env) == compute_fingerprint(normalize_envelope(env))

-----------------------------------------------------------------------------
(* Errors are reported one after the other.                                *)

\* capture_exception: any error may be the one presented.
Report(platform, errors, top) ==
    reports' = Append(reports, [platform |-> platform, errors |-> errors, top |-> top])

GroupingInit == reports = <<>>

GroupingNext ==
    \E platform \in Platforms, errors \in Programs, top \in Errors :
        Report(platform, errors, top)

GroupingSpec == GroupingInit /\ [][GroupingNext]_reports

-----------------------------------------------------------------------------
(* What grouping should be, said of the errors themselves.                 *)

\* The errors a reader of the report calls causes, by their distance from the top; past
\* the last cause, that one.
CauseAt(platform, errors, top, distance) ==
    LET at[n \in 0 .. distance] ==
            IF n = 0 THEN top
            ELSE IF NextOf(platform, errors, at[n - 1]) = NoError THEN at[n - 1]
            ELSE NextOf(platform, errors, at[n - 1])
    IN  at[distance]

RootCause(r) == r.errors[CauseAt(r.platform, r.errors, r.top, MAX_CAUSE_DEPTH - 1)]

\* Where it crashed: the nearest frames of the application, or of the libraries if no
\* frame near the crash is the application's; each with its rank from the crash.
CrashSite(frames) ==
    LET near == {n \in DOMAIN frames : Len(frames) - n < MAX_FRAMES}
        app == {n \in near : frames[n].in_app}
        pool == IF app = {} THEN near ELSE app
        rank(n) == Cardinality({k \in pool : k > n})
    IN  {<<rank(n), Cut[frames[n].file], Cut[frames[n].func]>> :
            n \in {k \in pool : rank(k) < FINGERPRINT_FRAME_LIMIT}}

SameCrash(r, s) ==
    /\ r.platform = s.platform
    /\ RootCause(r).type = RootCause(s).type
    /\ CrashSite(RootCause(r).frames) = CrashSite(RootCause(s).frames)

Sent(r) == build_event(r.platform, r.errors, r.top)

\* Two reports are of one issue exactly when their root causes are the same error at
\* the same place: whatever wrapped it, whatever the lines, and wherever the caps of
\* the SDK and of the server cut the stack and the chain of causes.  And an envelope that
\* is already normalised is of the issue it was of.
IssuesAreCrashes ==
    /\ \A i, j \in DOMAIN reports :
           (Fingerprint(Sent(reports[i])) = Fingerprint(Sent(reports[j])))
               <=> SameCrash(reports[i], reports[j])
    /\ \A i \in DOMAIN reports :
           Fingerprint(normalize_envelope(Sent(reports[i]))) = Fingerprint(Sent(reports[i]))
=============================================================================
