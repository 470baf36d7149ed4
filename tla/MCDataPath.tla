----------------------------- MODULE MCDataPath -----------------------------
(***************************************************************************)
(* Instances of what an event passes on its way from a program to a reader:*)
(* the handler that hears of it, the scope it is captured with, the        *)
(* grouping of its exception, the map of its frames, and the listing of its*)
(* issue.  A behaviour is about one of them; the state of the others       *)
(* stands still.                                                           *)
(***************************************************************************)
EXTENDS SdkHooks, SdkScope, Grouping, SourceMapDecode, Listing

CONSTANTS x, y      \* two error objects

VARIABLE
    subject         \* what this behaviour is about

vars == <<hookVars, scopeVars, listVars, subject, reports, program>>

-----------------------------------------------------------------------------
(* Errors: one with any stack of up to four frames, or two linked in any   *)
(* way, rings among them.                                                  *)

MCCut == [n \in Names |-> IF n \in {"long1", "long2"} THEN "long" ELSE n]

MCVolatile == [token \in {"123", "456"} |-> "<n>"]

Frame(file, line, in_app) == [file |-> file, func |-> "f", line |-> line, in_app |-> in_app]
Frames == {Frame("a", 1, TRUE), Frame("long1", 1, TRUE), Frame("lib", 1, FALSE)}
\* The same places in another build.
Moved == {Frame("a", 2, TRUE), Frame("long2", 2, TRUE), Frame("lib", 2, FALSE)}

Error(type, cause, context, suppress, frames) ==
    [type |-> type, cause |-> cause, context |-> context, suppress |-> suppress, frames |-> frames]

Stacks(frames) == UNION {[1 .. n -> frames] : n \in 0 .. 4}
Alone(stack) == [e \in Errors |-> Error("T", NoError, NoError, FALSE, stack)]
Linked(cause, context, suppress) ==
    [e \in Errors |-> Error(e, cause[e], context[e], suppress, <<Frame("a", 1, TRUE)>>)]

Causes == [Errors -> Errors \cup {NoError}]

MCPrograms ==
    {Alone(stack) : stack \in Stacks(Frames) \cup Stacks(Moved)}
        \cup {Linked(cause, context, suppress) :
                cause \in Causes, context \in Causes, suppress \in BOOLEAN}

\* A second report is of the same platform and of the same kind as the first.
Reported ==
    /\ subject = "errors"
    /\ \/ /\ reports = <<>>
          /\ \E p \in Platforms :
             \/ \E stack \in Stacks(Frames) : Report(p, Alone(stack), x)
             \/ \E cause, context \in Causes, suppress \in BOOLEAN :
                    Report(p, Linked(cause, context, suppress), x)
       \/ /\ Len(reports) = 1
          /\ \/ /\ reports[1].errors[x].type = "T"
                /\ \E stack \in Stacks(Moved) : Report(reports[1].platform, Alone(stack), x)
             \/ /\ reports[1].errors[x].type # "T"
                /\ \E cause \in Causes :
                       Report(reports[1].platform, Linked(cause, [e \in Errors |-> NoError], FALSE), x)
    /\ UNCHANGED <<hookVars, scopeVars, listVars, subject, program>>

-----------------------------------------------------------------------------
(* Programs of up to three segments on up to two lines.                    *)

Seg(src, line, col, name) == [src |-> src, line |-> line, col |-> col, name |-> name]
\* From nowhere; in the program; in a dependency, past its content; with a name that is
\* empty; in a source without a path and content, with a name the map does not have; in a
\* source that it does not have.
Segs == {Unmapped, Seg(0, 0, 4, NoName), Seg(1, 20, 0, 0), Seg(0, 20, 4, 1), Seg(2, 0, 0, 2),
         Seg(3, 0, 0, 0)}

MCSegments ==
    {[gen |-> gen, src |-> s.src, line |-> s.line, col |-> s.col, name |-> s.name] :
        s \in Segs, gen \in {0, 2, 4, 6}}

MCSources == [n \in 0 .. 2 |-> CASE n = 0 -> [path |-> "app", length |-> 22]
                                  [] n = 1 -> [path |-> "dep", length |-> 20]
                                  [] n = 2 -> [path |-> "", length |-> 0]]
MCSymbolNames == [n \in 0 .. 1 |-> IF n = 0 THEN "named" ELSE ""]

\* A context of their own, so that a frame shows which one it keeps.
OwnContext == [pre |-> {99}, at |-> {100}, post |-> {101}]

MCMinifiedFrames ==
    {[filename |-> f, function |-> "m", lineno |-> l, colno |-> c, in_app |-> TRUE,
      context |-> OwnContext, raw |-> <<>>] :
        f \in {"min", "dep.min"}, l \in {NoNumber} \cup 0 .. 3, c \in {NoNumber} \cup 0 .. 8}

\* A segment starts where the last one of its line does, or two columns further on.
Compile ==
    /\ subject = "maps"
    /\ \/ /\ Len(FlattenSeq(program)) < 3
          /\ LET row == program[Len(program)]
                 gen == IF row = <<>> THEN 0 ELSE row[Len(row)].gen
             IN  \E seg \in Segments : seg.gen \in {gen, gen + 2} /\ NewSegment(seg)
       \/ Len(program) < 2 /\ NewLine
    /\ UNCHANGED <<hookVars, scopeVars, listVars, subject, reports>>

-----------------------------------------------------------------------------

Init ==
    /\ subject \in {"hooks", "scope", "errors", "maps", "pages", "chart"}
    /\ HooksInit /\ ScopeInit /\ ListInit
    /\ subject # "hooks" => runtime = "node"
    /\ subject # "scope" => sdk = "node"
    /\ subject # "pages" =>
        /\ times = [r \in Rows |-> <<>>]
        /\ sort = "count" /\ per_page = DEFAULT_PER_PAGE
    /\ GroupingInit
    /\ MapInit

Next ==
    \/ subject = "hooks" /\ HooksNext /\ UNCHANGED <<scopeVars, listVars, subject, reports, program>>
    \/ subject = "scope" /\ ScopeNext /\ UNCHANGED <<hookVars, listVars, subject, reports, program>>
    \/ Reported
    \/ Compile
    \/ subject = "pages" /\ PagesNext /\ UNCHANGED <<hookVars, scopeVars, subject, reports, program>>
    \/ subject = "chart" /\ ChartNext /\ UNCHANGED <<hookVars, scopeVars, subject, reports, program>>

Spec == Init /\ [][Next]_vars
=============================================================================
