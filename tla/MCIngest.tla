------------------------------ MODULE MCIngest ------------------------------
(***************************************************************************)
(* Requests for Ingest; the invariants do not tell them apart.             *)
(***************************************************************************)
EXTENDS Ingest, TLC

CONSTANTS r1, r2, r3, r4

Interchangeable == Permutations(Requests)
=============================================================================
