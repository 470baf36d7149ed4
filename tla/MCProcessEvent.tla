--------------------------- MODULE MCProcessEvent ---------------------------
(***************************************************************************)
(* Workloads for ProcessEvent: which envelope each of the jobs carries.    *)
(***************************************************************************)
EXTENDS ProcessEvent, TLC

CONSTANTS j1, j2, j3, e1, e2, e3, u1

Envelope(e, r, t) ==
    [event_id |-> e, release |-> r, received_at |-> t, poison |-> FALSE]
Poison == [Envelope(e3, NoRelease, 1) EXCEPT !.poison = TRUE]

\* Two jobs that may fail and run again: the same event id received later, one job
\* delivered twice, two builds, an untagged build, a poison envelope.
Resent == j1 :> Envelope(e1, 1, 1) @@ j2 :> Envelope(e1, 1, 2)
Redelivered == j1 :> Envelope(e1, 1, 1) @@ j2 :> Envelope(e1, 1, 1)
TwoBuilds == j1 :> Envelope(e1, 1, 2) @@ j2 :> Envelope(e2, 2, 1)
Untagged == j1 :> Envelope(e1, 1, 1) @@ j2 :> Envelope(e2, NoRelease, 2)
Poisoned == j1 :> Envelope(e1, 1, 1) @@ j2 :> Poison

PairWorkload == {Resent, Redelivered, TwoBuilds, Untagged, Poisoned}

\* A member does more where there is less for the jobs to do.
PairActions ==
    [w \in PairWorkload |-> CASE w = Poisoned -> 3 [] w = Untagged -> 2 [] OTHER -> 1]

\* Three jobs, each tried once: a build, a newer build and a straggler.
TripleWorkload ==
    { j1 :> Envelope(e1, 1, 1) @@ j2 :> Envelope(e2, 2, 3) @@ j3 :> Envelope(e3, 1, 2) }

TripleActions == [w \in TripleWorkload |-> 1]
=============================================================================
