---------------------------- MODULE UserBranches ----------------------------
(***************************************************************************)
(* UserBranchService: the branches a user may work in.  A user without any *)
(* row is not restricted at all (middleware.BranchScope), so removing the  *)
(* last row of a user does not narrow his access but lifts every bound.    *)
(*                                                                         *)
(* SyncUserBranches is a sequence of single statements; assignment at the  *)
(* creation of a user commits with the user.  The module composes with     *)
(* BranchService, which deletes branches meanwhile.  The tree of companies *)
(* does not change: a scope is the set of companies it makes visible.      *)
(***************************************************************************)
EXTENDS Branches

CONSTANTS
    Users,      \* users that exist
    NewUsers,   \* users not created yet
    RowIds,     \* ids of user_branches rows; bounds the rows ever inserted
    Clerks,     \* goroutines serving calls on user_branches
    Scopes,     \* the sets of companies a caller may be bound to
    NoScope     \* the caller is a super admin

ASSUME ScopesAssumption == Scopes \subseteq SUBSET Companies /\ NoScope \notin Scopes
ASSUME UsersAssumption == Users \cap NewUsers = {}

VARIABLES
    ub,      \* core.user_branches: id -> row
    sync,    \* clerk -> its call
    step,    \* clerk -> the statement its call executes next
    solo     \* clerk -> nothing else changed or ran since its call began (history)

syncVars == <<ub, sync, step, solo>>
vars == <<branchVars, syncVars>>

UserRow == [user : Users \cup NewUsers, branch : Ids, deleted : BOOLEAN]

ASSUME NoUserRowAssumption == NoRow \notin UserRow

\* adds: branches still to insert; current: the rows read; gone: rows read
\* whose branch was deleted; had: the branches of the user at the start (history).
Sync == [user : Users \cup NewUsers, desired : SUBSET Ids, scope : Scopes \cup {NoScope},
         adds : SUBSET Ids, current : SUBSET RowIds, gone : SUBSET RowIds, had : SUBSET Ids]

Steps == {"idle", "read", "resolve", "add", "commit", "done"}

ASSUME NoSyncAssumption == NoCall \notin Sync

-----------------------------------------------------------------------------
HeldRow(i) == ub[i] # NoRow /\ ~ub[i].deleted

\* user_branches_user_branch_active_key
UniqueRows ==
    \A i, j \in RowIds :
        i # j /\ HeldRow(i) /\ HeldRow(j) /\ ub[i].user = ub[j].user => ub[i].branch # ub[j].branch

RowsOf(u) == {i \in RowIds : HeldRow(i) /\ ub[i].user = u}

\* FindBranchIDsByUser
BranchesOf(u) == {ub[i].branch : i \in RowsOf(u)}

\* BranchScope and IsBranchAllowed: no rows, no bound.
MayUse(u, b) == BranchesOf(u) # {} => b \in BranchesOf(u)

LiveBranches == {b \in Ids : Held(branches, b)}

InScope(b, scope) == scope # NoScope => branches[b].company \in scope

\* validateBranches: every id names a live branch in the caller's scope.
Valid(desired, scope) == \A b \in desired : b \in LiveBranches /\ InScope(b, scope)

\* Users may have been given branches before.
SyncInit ==
    /\ Init
    /\ ub \in [RowIds -> {NoRow} \cup [user : Users, branch : LiveBranches, deleted : {FALSE}]]
    /\ UniqueRows
    /\ sync = [w \in Clerks |-> NoCall]
    /\ step = [w \in Clerks |-> "idle"]
    /\ solo = [w \in Clerks |-> FALSE]

Existing == {u \in NewUsers : \E i \in RowIds : ub[i] # NoRow /\ ub[i].user = u}

BeginSync(w, label, u, desired, scope) ==
    /\ step[w] = "idle"
    /\ begun < MaxCalls
    /\ Valid(desired, scope)
    /\ begun' = begun + 1
    /\ step' = [step EXCEPT ![w] = label]
    /\ sync' = [sync EXCEPT ![w] =
                   [user |-> u, desired |-> desired, scope |-> scope, adds |-> desired,
                    current |-> {}, gone |-> {}, had |-> BranchesOf(u)]]
    /\ solo' = [v \in Clerks |-> v = w /\ \A x \in Clerks \ {w} : step[x] \in {"idle", "done"}]
    /\ UNCHANGED ub

\* SyncUserBranches, up to validateBranches.
BeginSyncUserBranches(w, u, desired, scope) ==
    u \in Users \cup Existing /\ BeginSync(w, "read", u, desired, scope)

\* AssignUserToBranchesTx, inside the transaction that inserts the user.
BeginAssign(w, u, desired, scope) ==
    /\ u \in NewUsers \ Existing
    /\ desired # {}
    /\ \A x \in Clerks : sync[x] # NoCall => sync[x].user # u
    /\ BeginSync(w, "commit", u, desired, scope)

To(w, label) ==
    /\ step' = [step EXCEPT ![w] = label]
    /\ UNCHANGED <<solo, begun>>

\* The rows of all branches wanted, with the user.
CommitAssign(w) ==
    /\ step[w] = "commit"
    /\ \E id \in [sync[w].desired -> RowIds] :
          /\ \A b, d \in sync[w].desired : id[b] = id[d] => b = d
          /\ \A b \in sync[w].desired : ub[id[b]] = NoRow
          /\ ub' = [i \in RowIds |->
                      IF \E b \in sync[w].desired : id[b] = i
                      THEN [user |-> sync[w].user, deleted |-> FALSE,
                            branch |-> CHOOSE b \in sync[w].desired : id[b] = i]
                      ELSE ub[i]]
    /\ To(w, "done")
    /\ UNCHANGED sync

\* FindByUser
ReadCurrent(w) ==
    /\ step[w] = "read"
    /\ LET k == sync[w] IN
       sync' = [sync EXCEPT ![w] = [k EXCEPT !.current = RowsOf(k.user),
                                             !.adds = k.adds \ BranchesOf(k.user)]]
    /\ To(w, "resolve")
    /\ UNCHANGED ub

\* FindBranchesByIDsWithCompany on the branches read.
Resolve(w) ==
    /\ step[w] = "resolve"
    /\ sync' = [sync EXCEPT ![w].gone =
                   {i \in sync[w].current : ub[i].branch \notin LiveBranches}]
    /\ To(w, "add")
    /\ UNCHANGED ub

\* Mutant: nothing stops a second row.
InsertAnyway(w, b, i) ==
    /\ ub[i] = NoRow
    /\ ub' = [ub EXCEPT ![i] = [user |-> sync[w].user, branch |-> b, deleted |-> FALSE]]

InsertRow(w, b, i) ==
    /\ ub[i] = NoRow
    /\ b \notin BranchesOf(sync[w].user)
    /\ ub' = [ub EXCEPT ![i] = [user |-> sync[w].user, branch |-> b, deleted |-> FALSE]]

Add(w) ==
    /\ step[w] = "add"
    /\ \E b \in sync[w].adds :
          /\ \E i \in RowIds : InsertRow(w, b, i)
          /\ sync' = [sync EXCEPT ![w].adds = @ \ {b}]
    /\ UNCHANGED <<step, solo, begun>>

\* Mutant: the removals come first.
AddedBefore(w) == TRUE

Added(w) == sync[w].adds = {}

\* Mutant: the scope of the caller is not looked at.
ExtrasAnywhere(w) ==
    {i \in sync[w].current : HeldRow(i) /\ ub[i].branch \notin sync[w].desired}

\* The rows read and not wanted; a scoped caller leaves those of other
\* companies, and those whose branch is gone.
Extras(w) ==
    {i \in sync[w].current :
        /\ ub[i].branch \notin sync[w].desired
        /\ sync[w].scope # NoScope => i \notin sync[w].gone /\ InScope(ub[i].branch, sync[w].scope)}

\* SoftDelete, of a row another call may have deleted already.
Remove(w) ==
    /\ step[w] = "add"
    /\ Added(w)
    /\ \E i \in Extras(w) :
          /\ ub' = [ub EXCEPT ![i].deleted = TRUE]
          /\ sync' = [sync EXCEPT ![w].current = @ \ {i}]
    /\ UNCHANGED <<step, solo, begun>>

FinishSync(w) ==
    /\ step[w] = "add"
    /\ sync[w].adds = {}
    /\ Extras(w) = {}
    /\ To(w, "done")
    /\ UNCHANGED <<ub, sync>>

\* The call returns: its answer, or the error of a statement (a second row for
\* a branch among them).
EndSync(w) ==
    /\ \/ step[w] = "done"
       \/ (step[w] # "idle" /\ Faults)
       \/ (step[w] = "add" /\ sync[w].adds \cap BranchesOf(sync[w].user) # {})
    /\ step' = [step EXCEPT ![w] = "idle"]
    /\ sync' = [sync EXCEPT ![w] = NoCall]
    /\ solo' = [solo EXCEPT ![w] = FALSE]
    /\ UNCHANGED <<ub, begun>>

SyncNext == \E w \in Clerks :
    \/ \E u \in Users \cup NewUsers, desired \in SUBSET Ids, scope \in Scopes \cup {NoScope} :
          BeginSyncUserBranches(w, u, desired, scope) \/ BeginAssign(w, u, desired, scope)
    \/ ReadCurrent(w) \/ Resolve(w) \/ Add(w) \/ Remove(w) \/ FinishSync(w)
    \/ CommitAssign(w) \/ EndSync(w)

\* A write of the branch service disturbs every call on user_branches.
BranchStep ==
    /\ BranchNext
    /\ solo' = [w \in Clerks |-> solo[w] /\ branches' = branches]
    /\ UNCHANGED <<ub, sync, step>>

Next == BranchStep \/ (SyncNext /\ UNCHANGED <<branches, pc, call, alone>>)

Spec == SyncInit /\ [][Next]_vars

-----------------------------------------------------------------------------
(* Properties *)

\* Shape and the unique index of core.user_branches: at most one live row for
\* a user and a branch (migration 000009).
TypeOK ==
    /\ BranchesOK
    /\ ub \in [RowIds -> UserRow \cup {NoRow}]
    /\ UniqueRows
    /\ sync \in [Clerks -> Sync \cup {NoCall}]
    /\ step \in [Clerks -> Steps]
    /\ solo \in [Clerks -> BOOLEAN]

\* A call that nothing disturbed leaves the user exactly the branches asked
\* for, plus those it may not take away (SyncUserBranches, AssignUserToBranchesTx).
SoloSyncDelivers ==
    \A w \in Clerks : step[w] = "done" /\ solo[w] =>
        LET k == sync[w]
            kept == {b \in k.had : k.scope # NoScope
                                   /\ (b \notin LiveBranches \/ ~InScope(b, k.scope))}
        IN  BranchesOf(k.user) = k.desired \cup kept

\* A call never lets its user into a branch that he neither had nor is given,
\* not even between two of its statements: removals before the additions would
\* leave him without rows, and so without bounds.  It holds of a call that no
\* other call on user_branches overlaps (SyncUserBranches, BranchScope).
NeverWidened ==
    \A w \in Clerks : step[w] # "idle" /\ solo[w] =>
        LET k == sync[w] IN
        k.had # {} /\ k.desired # {} =>
            \A b \in Ids : MayUse(k.user, b) => b \in k.had \cup k.desired

\* Whatever else runs, a call bound to a scope neither gives nor takes a branch
\* of a company outside it (validateBranches, the removal loop).
ScopeRespected ==
    [][\A w \in Clerks, i \in RowIds :
          /\ sync[w] # NoCall /\ <<sync[w], step[w]>>' # <<sync[w], step[w]>>
          /\ ub'[i] # ub[i]
          /\ sync[w].scope # NoScope
          => InScope(ub'[i].branch, sync[w].scope)]_vars
=============================================================================
