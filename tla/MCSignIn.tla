----------------------------- MODULE MCSignIn -----------------------------
(***************************************************************************)
(* The instances of Accounts and Login.  They write different columns and  *)
(* read none of each other's, so a behaviour is about one of them and the  *)
(* state of the other stands still.  Toggles of the administrator flag and *)
(* invites only share the users that signups make, so a behaviour has one  *)
(* or the other.                                                           *)
(***************************************************************************)
EXTENDS MCAccounts, Login

VARIABLE subject

SignInInit == Init /\ LoginInit /\ subject \in {"invites", "administrators", "login"}

NobodyDoes(step) == \A r \in Requests : req'[r].at # step

SignInNext ==
    /\ UNCHANGED subject
    /\ \/ subject = "invites" /\ Next /\ NobodyDoes("toggle") /\ UNCHANGED loginVars
       \/ subject = "administrators" /\ Next /\ NobodyDoes("invite") /\ UNCHANGED loginVars
       \/ subject = "login" /\ LoginNext /\ UNCHANGED vars

SignInSpec == SignInInit /\ [][SignInNext]_<<vars, loginVars, subject>>
=============================================================================
