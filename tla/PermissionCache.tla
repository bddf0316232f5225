--------------------------- MODULE PermissionCache ---------------------------
(***************************************************************************)
(* A user's effective permissions, kept in Redis by internal/shared/authz  *)
(* and invalidated by the role service after its own writes.  Lookups and  *)
(* role operations run concurrently; every SQL statement and every Redis   *)
(* command is one step.  A role operation reads the role, writes it (or an *)
(* assignment of it), then deletes the cached sets page by page with SCAN  *)
(* and DEL.  Redis errors are swallowed on both sides, the request context *)
(* may end between two steps, and company memberships, which also grant a  *)
(* role, are written by other services that never invalidate.              *)
(*                                                                         *)
(* A role's permission map is the set of codes it expands to: levels are   *)
(* nested, so "the higher level wins" is the union of the expansions.      *)
(***************************************************************************)
EXTENDS Naturals

CONSTANTS
    Users, Companies,
    Roles,          \* role ids that exist or may be created
    SystemRoles,    \* the seeded ones, is_system
    Codes,          \* permission codes, "resource:action"
    Grants,         \* the sets of codes a permission map may expand to
    Admins,         \* requests running a role operation
    Calls,          \* requests running GetPermissions
    NoCompany,      \* no company context, or a global assignment
    NoRole,         \* no active membership, or one without a role
    None,           \* no entry, no row, no operation
    MaxChanges      \* bound: rows written

ASSUME RolesAssumption == SystemRoles \subseteq Roles /\ NoRole \notin Roles
ASSUME GrantsAssumption == {} \in Grants /\ Grants \subseteq SUBSET Codes
ASSUME NoCompanyAssumption == NoCompany \notin Companies
ASSUME BoundAssumption == MaxChanges \in Nat

VARIABLES
    roles,          \* core.roles
    userRoles,      \* core.user_roles: the company_id of the row of a user and role
    members,        \* core.company_users: the role an active membership grants
    cache,          \* Redis; cause says why an entry may be out of date
    calls,          \* answers fetched and not yet stored
    change,         \* role operations: checked, not yet written
    sweep,          \* role operations: written, invalidating
    changes         \* rows written so far

db == <<roles, userRoles, members>>
vars == <<roles, userRoles, members, cache, calls, change, sweep, changes>>

Scopes == Companies \cup {NoCompany}

\* perms:user:<user_id>:company:<company_id|->
Keys == Users \X Scopes

Row == [status : {"none", "live", "deleted"}, active : BOOLEAN, codes : Grants]
Entry == [val : SUBSET Codes, cause : {"none", "overtaken", "unswept"}]
Call == [key : Keys, val : SUBSET Codes, overtaken : BOOLEAN]
Change ==
    [op : {"row"}, role : Roles, active : BOOLEAN, codes : Grants]
        \cup [op : {"permissions"}, role : Roles, codes : Grants]
        \cup [op : {"delete"}, role : Roles]
        \cup [op : {"assign", "remove"}, role : Roles, user : Users, scope : Scopes]
Sweep == [keys : SUBSET Keys, todo : SUBSET Keys, page : SUBSET Keys, started : BOOLEAN]

ASSUME NoneAssumption == None \notin Scopes \cup Entry \cup Call \cup Change \cup Sweep

Cached == {k \in Keys : cache[k] # None}

---------------------------------------------------------------------------
\* GetUserRoles: one query over both ways of holding a role.
Holds(k, r) ==
    \/ userRoles[<<k[1], r>>] \in {NoCompany, k[2]}
    \/ k[2] \in Companies /\ members[k] = r

\* GetUserPermissions: the live, active roles, merged.
Answer(k) ==
    UNION {roles[r].codes : r \in {s \in Roles : /\ Holds(k, s)
                                                 /\ roles[s].status = "live"
                                                 /\ roles[s].active}}

Init ==
    /\ roles \in [Roles -> Row]
    /\ \A r \in Roles : roles[r].status = IF r \in SystemRoles THEN "live" ELSE "none"
    /\ \A r \in Roles \ SystemRoles : ~roles[r].active /\ roles[r].codes = {}
    /\ userRoles = [p \in Users \X Roles |-> None]
    /\ members = [p \in Users \X Companies |-> NoRole]
    /\ cache = [k \in Keys |-> None]
    /\ calls = [c \in Calls |-> None]
    /\ change = [a \in Admins |-> None]
    /\ sweep = [a \in Admins |-> None]
    /\ changes = 0

\* A write to the database: answers fetched before it may now be out of date.
Written ==
    /\ changes < MaxChanges
    /\ changes' = changes + 1
    /\ calls' = [c \in Calls |->
                    IF calls[c] # None /\ \E k \in Keys : /\ calls[c].key = k
                                                         /\ Answer(k)' # Answer(k)
                    THEN [calls[c] EXCEPT !.overtaken = TRUE]
                    ELSE calls[c]]

---------------------------------------------------------------------------
(* GetPermissions *)

\* Mutant: the key is built from its two ids in the wrong order.
FetchSwapped(c, k) ==
    /\ calls[c] = None
    /\ calls' = [calls EXCEPT ![c] =
                    [key |-> <<k[2], k[1]>>, val |-> Answer(k), overtaken |-> FALSE]]
    /\ UNCHANGED <<db, cache, change, sweep, changes>>

\* GET misses, or fails: the database answers.  A hit changes nothing.
Fetch(c, k) ==
    /\ calls[c] = None
    /\ calls' = [calls EXCEPT ![c] = [key |-> k, val |-> Answer(k), overtaken |-> FALSE]]
    /\ UNCHANGED <<db, cache, change, sweep, changes>>

\* Mutant: the answer is kept and set again later.
StoreAgain(c) ==
    /\ calls[c] # None
    /\ cache' = [cache EXCEPT ![calls[c].key] =
                    [val |-> calls[c].val,
                     cause |-> IF calls[c].overtaken THEN "overtaken" ELSE "none"]]
    /\ UNCHANGED <<db, calls, change, sweep, changes>>

\* SET with the TTL, over whatever the key holds by now.
Store(c) ==
    /\ calls[c] # None
    /\ cache' = [cache EXCEPT ![calls[c].key] =
                    [val |-> calls[c].val,
                     cause |-> IF calls[c].overtaken THEN "overtaken" ELSE "none"]]
    /\ calls' = [calls EXCEPT ![c] = None]
    /\ UNCHANGED <<db, change, sweep, changes>>

\* SET fails, or the request ends: the answer is returned, not stored.
StoreFails(c) ==
    /\ calls[c] # None
    /\ calls' = [calls EXCEPT ![c] = None]
    /\ UNCHANGED <<db, cache, change, sweep, changes>>

---------------------------------------------------------------------------
(* The role service *)

\* A new id: nobody holds the role, and nothing is invalidated.
Create(r, active, codes) ==
    /\ roles[r].status = "none"
    /\ roles' = [roles EXCEPT ![r] = [status |-> "live", active |-> active, codes |-> codes]]
    /\ UNCHANGED <<userRoles, members, cache, change, sweep>>
    /\ Written

Idle(a) == change[a] = None /\ sweep[a] = None

\* FindByID and the checks on the row: what the operation is about to write.
Check(a, ch) ==
    /\ Idle(a)
    /\ change' = [change EXCEPT ![a] = ch]
    /\ UNCHANGED <<db, cache, calls, sweep, changes>>

\* A field the request leaves out keeps the value read here.
CheckUpdate(a, r) ==
    /\ roles[r].status = "live"
    /\ \E active \in BOOLEAN, codes \in Grants :
          Check(a, [op |-> "row", role |-> r, active |-> active, codes |-> codes])

CheckUpdatePermissions(a, r) ==
    /\ roles[r].status = "live"
    /\ \E codes \in Grants : Check(a, [op |-> "permissions", role |-> r, codes |-> codes])

CheckDelete(a, r) ==
    /\ roles[r].status = "live"
    /\ r \notin SystemRoles
    /\ Check(a, [op |-> "delete", role |-> r])

CheckAssign(a, r, u, s) ==
    /\ roles[r].status = "live"
    /\ Check(a, [op |-> "assign", role |-> r, user |-> u, scope |-> s])

\* RemoveRoleFromUser reads nothing first.
CheckRemove(a, r, u, s) ==
    Check(a, [op |-> "remove", role |-> r, user |-> u, scope |-> s])

\* Mutant: only the set without a company.
UserKeyOnly(u) == {<<u, NoCompany>>}

UserKeys(u) == {u} \X Scopes            \* InvalidateUser
AllKeys == Keys                         \* InvalidateAll

BeginSweep(a, K) ==
    /\ change' = [change EXCEPT ![a] = None]
    /\ sweep' = [sweep EXCEPT ![a] = [keys |-> K, todo |-> K, page |-> {}, started |-> FALSE]]

\* Mutant: the UPDATE lacks "AND deleted_at IS NULL".
WriteRowAnyway(ch) ==
    roles' = [roles EXCEPT ![ch.role].active = ch.active, ![ch.role].codes = ch.codes]

WriteRow(ch) ==
    roles' = [roles EXCEPT ![ch.role] =
                 IF @.status = "live"
                 THEN [@ EXCEPT !.active = ch.active, !.codes = ch.codes]
                 ELSE @]

WritePermissions(ch) ==
    roles' = [roles EXCEPT ![ch.role] =
                 IF @.status = "live" THEN [@ EXCEPT !.codes = ch.codes] ELSE @]

SoftDelete(ch) ==
    roles' = [roles EXCEPT ![ch.role] =
                 IF @.status = "live" THEN [@ EXCEPT !.status = "deleted"] ELSE @]

\* ON CONFLICT (user_id, role_id) DO NOTHING, whatever the company of the row.
InsertUserRole(ch) ==
    userRoles' = [userRoles EXCEPT ![<<ch.user, ch.role>>] = IF @ = None THEN ch.scope ELSE @]

DeleteUserRole(ch) ==
    userRoles' = [userRoles EXCEPT ![<<ch.user, ch.role>>] = IF @ = ch.scope THEN None ELSE @]

\* The write of a checked operation, after which its invalidation begins.
WriteRole(a, ch) ==
    /\ change[a] = ch
    /\ \/ ch.op = "row" /\ WriteRow(ch)
       \/ ch.op = "permissions" /\ WritePermissions(ch)
       \/ ch.op = "delete" /\ SoftDelete(ch)
    /\ BeginSweep(a, AllKeys)
    /\ UNCHANGED <<userRoles, members, cache>>
    /\ Written

WriteUserRole(a, ch) ==
    /\ change[a] = ch
    /\ \/ ch.op = "assign" /\ InsertUserRole(ch)
       \/ ch.op = "remove" /\ DeleteUserRole(ch)
    /\ BeginSweep(a, UserKeys(ch.user))
    /\ UNCHANGED <<roles, members, cache>>
    /\ Written

---------------------------------------------------------------------------
(* Invalidation *)

\* Keys leave Redis: SCAN need not return a key that was away meanwhile.
Uncached(sw, K) ==
    IF sw # None /\ sw.started THEN [sw EXCEPT !.todo = @ \ K] ELSE sw

\* SCAN returns a page of matching keys; the keys that are there from the
\* first SCAN to the last are all returned.
Scan(a) ==
    /\ sweep[a] # None
    /\ sweep[a].page = {}
    /\ \E page \in SUBSET (sweep[a].keys \cap Cached) :
          /\ sweep[a].started => page # {}
          /\ sweep' = [sweep EXCEPT ![a].page = page,
                                    ![a].todo = (@ \cap Cached) \ page,
                                    ![a].started = TRUE]
    /\ UNCHANGED <<db, cache, calls, change, changes>>

DelPage(a) ==
    /\ sweep[a] # None
    /\ sweep[a].page # {}
    /\ cache' = [k \in Keys |-> IF k \in sweep[a].page THEN None ELSE cache[k]]
    /\ sweep' = [b \in Admins |-> IF b = a THEN [sweep[a] EXCEPT !.page = {}]
                                  ELSE Uncached(sweep[b], sweep[a].page)]
    /\ UNCHANGED <<db, calls, change, changes>>

\* The cursor is 0 again.
SweepEnds(a) ==
    /\ sweep[a] # None
    /\ sweep[a].started
    /\ sweep[a].todo = {} /\ sweep[a].page = {}
    /\ sweep' = [sweep EXCEPT ![a] = None]
    /\ UNCHANGED <<db, cache, calls, change, changes>>

Marked(K) ==
    cache' = [k \in Keys |-> IF k \in K /\ cache[k] # None
                            THEN [cache[k] EXCEPT !.cause = "unswept"]
                            ELSE cache[k]]

\* SCAN or DEL fails, the request ends or the process does: the error is
\* swallowed and the keys not deleted yet stay.
SweepFails(a) ==
    /\ sweep[a] # None
    /\ Marked(sweep[a].todo \cup sweep[a].page)
    /\ sweep' = [sweep EXCEPT ![a] = None]
    /\ UNCHANGED <<db, calls, change, changes>>

\* The checks or the write fail: nothing was written.
WriteFails(a) ==
    /\ change[a] # None
    /\ change' = [change EXCEPT ![a] = None]
    /\ UNCHANGED <<db, cache, calls, sweep, changes>>

---------------------------------------------------------------------------
(* The environment *)

\* The company and user services write company_users and never invalidate.
SetMembership(u, co, r) ==
    /\ r \in Roles => roles[r].status # "none"
    /\ members' = [members EXCEPT ![<<u, co>>] = r]
    /\ Marked({<<u, co>>})
    /\ UNCHANGED <<roles, userRoles, change, sweep>>
    /\ Written

\* Redis drops an entry whose TTL has passed.
Expire(k) ==
    /\ cache[k] # None
    /\ cache' = [cache EXCEPT ![k] = None]
    /\ sweep' = [a \in Admins |-> Uncached(sweep[a], {k})]
    /\ UNCHANGED <<db, calls, change, changes>>

---------------------------------------------------------------------------
Lookup(c) == (\E k \in Keys : Fetch(c, k)) \/ Store(c) \/ StoreFails(c)

Operate(a) ==
    \/ \E r \in Roles : CheckUpdate(a, r) \/ CheckUpdatePermissions(a, r) \/ CheckDelete(a, r)
    \/ \E r \in Roles, u \in Users, s \in Scopes : CheckAssign(a, r, u, s) \/ CheckRemove(a, r, u, s)
    \/ \E ch \in Change : WriteRole(a, ch) \/ WriteUserRole(a, ch)
    \/ WriteFails(a)
    \/ Scan(a) \/ DelPage(a) \/ SweepEnds(a) \/ SweepFails(a)

Next ==
    \/ \E c \in Calls : Lookup(c)
    \/ \E a \in Admins : Operate(a)
    \/ \E r \in Roles, active \in BOOLEAN, codes \in Grants : Create(r, active, codes)
    \/ \E u \in Users, co \in Companies, r \in Roles \cup {NoRole} : SetMembership(u, co, r)
    \/ \E k \in Keys : Expire(k)

Spec == Init /\ [][Next]_vars

\* Redis expires entries; nothing else need ever happen.
FairSpec == Spec /\ \A k \in Keys : WF_vars(Expire(k))

---------------------------------------------------------------------------
(* Properties *)

TypeOK ==
    /\ roles \in [Roles -> Row]
    /\ userRoles \in [Users \X Roles -> Scopes \cup {None}]
    /\ members \in [Users \X Companies -> Roles \cup {NoRole}]
    /\ cache \in [Keys -> Entry \cup {None}]
    /\ calls \in [Calls -> Call \cup {None}]
    /\ change \in [Admins -> Change \cup {None}]
    /\ sweep \in [Admins -> Sweep \cup {None}]
    /\ changes \in 0 .. MaxChanges

Fresh(k) == cache[k] # None => cache[k].val = Answer(k)

\* The keys an operation has yet to delete.
Owes(a, k) == sweep[a] # None /\ k \in sweep[a].todo \cup sweep[a].page

\* A cached set that is not the user's effective one was stored by a lookup
\* that a write overtook, or left by an invalidation that failed or that no
\* service started, or an operation still running has it to delete: every
\* write of the role service invalidates every set it changes.
StaleHasCause ==
    \A k \in Keys :
        ~Fresh(k) => cache[k].cause # "none" \/ \E a \in Admins : Owes(a, k)

\* A soft-deleted role is not brought back or altered by an operation that
\* had read it before.
DeletedRoleStays ==
    [][\A r \in Roles : roles[r].status = "deleted" => roles'[r] = roles[r]]_vars

\* Once the role data no longer changes, the TTL heals the cache, whatever
\* invalidation failed or was overtaken.
TTLHeals == <>[](\A k \in Keys : Fresh(k))

=============================================================================
