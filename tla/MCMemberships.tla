---- MODULE MCMemberships ----
EXTENDS Memberships, TLC
CONSTANTS u1, u2, c1, c2
MCFounded == u1 :> c1
\* No company, one, both in either order, and the same one twice.
MCLists == {<<>>, <<c1>>, <<c2>>, <<c1, c2>>, <<c2, c1>>, <<c1, c1>>}
Symmetry == Permutations(Ids) \cup Permutations(Admins)
====
