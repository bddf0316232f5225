----------------------------- MODULE MCBranches -----------------------------
(* Instance of UserBranches, and so of Branches, for TLC. *)
EXTENDS UserBranches, TLC

CONSTANTS gen, c1, c2

MCOwnCodes == {[form |-> gen, num |-> 3]}
MCScopes == {{c1}}

\* A third call only among calls of one company on branches.
Bound == begun > 2 =>
    /\ \A i \in RowIds : ub[i] = NoRow
    /\ \A w \in Clerks : sync[w] = NoCall
    /\ \A i \in Ids : branches[i] # NoRow => branches[i].company = c1
    /\ \A a \in Admins : call[a] # NoCall => call[a].company = c1

MCSpec == SyncInit /\ [][Next /\ Bound']_vars

Symmetry == Permutations(Ids) \cup Permutations(Admins) \cup Permutations(RowIds) \cup Permutations(Clerks)
=============================================================================
