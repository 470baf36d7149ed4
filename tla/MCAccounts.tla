---------------------------- MODULE MCAccounts ----------------------------
(***************************************************************************)
(* Three addresses for Accounts, two of which differ in case only, and two *)
(* requests, which are interchangeable.                                    *)
(***************************************************************************)
EXTENDS Accounts, TLC

CONSTANTS r1, r2

MCAddresses == {"Ann", "ann", "bob"}
MCLower == [a \in MCAddresses |-> IF a = "bob" THEN "bob" ELSE "ann"]

Interchangeable == Permutations({r1, r2})
=============================================================================
