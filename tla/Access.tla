------------------------------- MODULE Access -------------------------------
(***************************************************************************)
(* Accounts, sessions and API keys in one database: a step is a step of    *)
(* one of them.  Each is served by goroutines of its own and they share no *)
(* variable: what a sign-in reads of a user, and what a key reads of his   *)
(* permissions, each module keeps for itself.                              *)
(***************************************************************************)
EXTENDS Accounts, Sessions, ApiKeys

accessVars == <<accountVars, sessionVars, keyVars>>

AccessInit == AccountsInit /\ SessionsInit /\ KeysInit

AccessNext ==
    \/ AccountsNext /\ UNCHANGED <<sessionVars, keyVars>>
    \/ SessionsNext /\ UNCHANGED <<accountVars, keyVars>>
    \/ KeysNext /\ UNCHANGED <<accountVars, sessionVars>>

AccessSpec == AccessInit /\ [][AccessNext]_accessVars

\* The rows and the calls keep their shape.
TypeOK == AccountsOK /\ SessionsOK /\ KeysOK
=============================================================================
