------------------------------ MODULE MCAccess ------------------------------
(* An instance of Access for TLC: each behaviour moves one of the three    *)
(* and leaves the others in their initial state.                           *)
EXTENDS Access, TLC

CONSTANTS e1, e2, n1, n2, g1

MCEmailOf == [g \in {g1} |-> e1]
MCNameOf == [e \in {e1, e2} |-> IF e = e1 THEN n1 ELSE n2]

AccountsAtRest == acts = 0 /\ \A i \in UserIds : users[i] = NoUser
SessionsAtRest == visits = 0 /\ now = 0
KeysAtRest == jobs = 0 /\ ever = {}

\* Ids come in order, as the rows of a table are inserted.
InOrder(table, none) == \A i \in DOMAIN table : i > 1 /\ table[i] # none => table[i - 1] # none

Ordered == InOrder(users, NoUser) /\ InOrder(tokens, NoToken) /\ InOrder(keys, NoKey)

\* A third call on accounts only among Google sign-ins.
Bound == acts > 2 => \A s \in Servers : act[s] # NoAct => act[s].op = "google"

MCInit == AccessInit /\ Ordered

MCNext ==
    \/ /\ SessionsAtRest /\ KeysAtRest
       /\ AccountsNext /\ Bound'
       /\ UNCHANGED <<sessionVars, keyVars>>
    \/ /\ AccountsAtRest /\ KeysAtRest
       /\ SessionsNext
       /\ UNCHANGED <<accountVars, keyVars>>
    \/ /\ AccountsAtRest /\ SessionsAtRest
       /\ KeysNext
       /\ UNCHANGED <<accountVars, sessionVars>>

MCSpec == MCInit /\ [][MCNext /\ Ordered']_accessVars

Symmetry ==
    UNION {Permutations(S) : S \in {Servers, Doors, Clients, Perms}}
=============================================================================
