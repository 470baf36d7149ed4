--------------------------- MODULE MCHousekeeping ---------------------------
(***************************************************************************)
(* Instances of Retention: rows of two organizations without uploads, and  *)
(* uploads without rows.                                                   *)
(***************************************************************************)
EXTENDS Retention, TLC

CONSTANTS p1, p2, u1, u2, d1

MCOrgOf == p1 :> "o1" @@ p2 :> "o2"
MCTarget == u1 :> d1 @@ u2 :> d1

Plan(r1, r2, up, rd, n, e, k, t) ==
    [retention |-> p1 :> r1 @@ p2 :> r2, uploads |-> up, readers |-> rd,
     rows |-> n, edits |-> e, runs |-> k, ticks |-> t]

MCPlans ==
    { \* two ceilings and a second run; a project that may appear; equal values
      \* that may be raised
      Plan(1, 2, {}, {}, 2, 0, 2, 6),
      Plan(1, 0, {}, {}, 2, 1, 1, 5),
      Plan(1, 1, {}, {}, 2, 1, 1, 5),
      \* two uploads of one name: read, and pruned
      Plan(1, 0, {u1, u2}, Readers, 0, 0, 0, 0),
      Plan(1, 0, {u1, u2}, {}, 0, 0, 1, 4) }
=============================================================================
