---------------------------- MODULE Memberships ----------------------------
(***************************************************************************)
(* CompanyService: who owns a company, who is a member of it and which     *)
(* company is a user's primary one.  Except for the creation of a user,    *)
(* the service opens no transaction: a call is a sequence of statements    *)
(* that commit one by one, one action each, and a later statement writes   *)
(* what an earlier one read.  Two partial unique indexes are all that      *)
(* stops a write.                                                          *)
(*                                                                         *)
(* A membership's role, a company's name and its place in the hierarchy    *)
(* are left out.  A call refused on its first read changes nothing and is  *)
(* not represented.                                                        *)
(***************************************************************************)
EXTENDS Integers, Sequences

CONSTANTS
    Users, Companies,
    Founders,   \* users that signed up: they own the company SignUp made them
    Founded,    \* founder -> that company
    Ids,        \* ids of membership rows; bounds the rows ever inserted
    Admins,     \* goroutines serving calls, one call at a time each
    MaxCalls,   \* bounds the calls ever begun
    Lists,      \* the company_ids a request may carry
    Faults,     \* whether statements may fail
    NoUser, NoCompany, NoId, NoRow, NoCall

ASSUME ListsAssumption == Lists \subseteq Seq(Companies)
ASSUME MaxCallsAssumption == MaxCalls \in Nat
ASSUME FoundedAssumption ==
    /\ Founders \subseteq Users
    /\ Founded \in [Founders -> Companies]
    /\ \A u, v \in Founders : Founded[u] = Founded[v] => u = v

VARIABLES
    users,  \* core.users: the ids that exist
    comp,   \* core.companies: id -> its deletion state and owner
    mem,    \* core.company_users: id -> row
    pc,     \* admin -> the statement its call executes next
    call,   \* admin -> the call's request and what it has read
    alone,  \* admin -> no other call ran since its own began (history)
    begun   \* calls begun so far

vars == <<users, comp, mem, pc, call, alone, begun>>

Row == [company : Companies, user : Users, primary : BOOLEAN,
        active : BOOLEAN, deleted : BOOLEAN]

ASSUME NoRowAssumption == NoRow \notin Row

Company == [status : {"absent", "live", "deleted"}, owner : Users \cup {NoUser}]

Call == [op : {"Create", "Update", "AddUser", "UpdateUser", "RemoveUser", "Sync", "CreateUser"},
         company : Companies \cup {NoCompany}, user : Users, list : Lists \cup {<<>>},
         active : {"keep", "on", "off"}, primary : BOOLEAN, role : BOOLEAN,
         pos : Nat, id : Ids \cup {NoId}, row : Row \cup {NoRow},
         owner : Users \cup {NoUser}, current : SUBSET Ids, promoted : BOOLEAN]

Labels == {"idle", "getPrimary", "exists", "insert", "writeCompany", "checkOwner",
           "unset", "set", "write", "findMember", "softDelete", "next", "drop",
           "assign", "commit", "done"}

-----------------------------------------------------------------------------
(* Rows and indexes. *)

\* WHERE deleted_at IS NULL
Held(table, i) == table[i] # NoRow /\ ~table[i].deleted

\* company_users_company_user_active_key and company_users_user_primary_key.
Unique(table) ==
    \A i, j \in Ids :
        i # j /\ Held(table, i) /\ Held(table, j) /\ table[i].user = table[j].user
        => /\ table[i].company # table[j].company
           /\ ~(table[i].primary /\ table[j].primary)

MembershipIds(c, u) == {i \in Ids : Held(mem, i) /\ mem[i].company = c /\ mem[i].user = u}

\* FindByUser: memberships that are not deactivated.
ActiveIds(u) == {i \in Ids : Held(mem, i) /\ mem[i].user = u /\ mem[i].active}

HasPrimary(u) == \E i \in ActiveIds(u) : mem[i].primary

Live(c) == comp[c].status = "live"

\* What companyRepo.FindByID tells of the owner.
OwnerOf(c) == IF Live(c) THEN comp[c].owner ELSE NoUser

NewRow(c, u, primary) == [company |-> c, user |-> u, primary |-> primary,
                          active |-> TRUE, deleted |-> FALSE]

Init ==
    /\ users = Founders
    /\ comp = [c \in Companies |->
                 IF \E u \in Founders : Founded[u] = c
                 THEN [status |-> "live", owner |-> CHOOSE u \in Founders : Founded[u] = c]
                 ELSE [status |-> "absent", owner |-> NoUser]]
    /\ \E id \in [Founders -> Ids] :
          /\ \A u, v \in Founders : id[u] = id[v] => u = v
          /\ mem = [i \in Ids |->
                      IF \E u \in Founders : id[u] = i
                      THEN LET u == CHOOSE u \in Founders : id[u] = i
                           IN NewRow(Founded[u], u, TRUE)
                      ELSE NoRow]
    /\ pc = [a \in Admins |-> "idle"]
    /\ call = [a \in Admins |-> NoCall]
    /\ alone = [a \in Admins |-> FALSE]
    /\ begun = 0

-----------------------------------------------------------------------------
(* Calls. *)

Blank(op, c, u) ==
    [op |-> op, company |-> c, user |-> u, list |-> <<>>, active |-> "keep",
     primary |-> FALSE, role |-> FALSE, pos |-> 1, id |-> NoId, row |-> NoRow,
     owner |-> NoUser, current |-> {}, promoted |-> FALSE]

Begin(a, label, k) ==
    /\ pc[a] = "idle"
    /\ begun < MaxCalls
    /\ begun' = begun + 1
    /\ pc' = [pc EXCEPT ![a] = label]
    /\ call' = [call EXCEPT ![a] = k]
    /\ alone' = [b \in Admins |-> b = a /\ \A d \in Admins \ {a} : pc[d] \in {"idle", "done"}]

Goto(a, label) == pc' = [pc EXCEPT ![a] = label]

\* The call returns an error, or its answer has been sent.
Return(a) ==
    /\ pc' = [pc EXCEPT ![a] = "idle"]
    /\ call' = [call EXCEPT ![a] = NoCall]
    /\ alone' = [alone EXCEPT ![a] = FALSE]
    /\ UNCHANGED <<users, comp, mem, begun>>

\* Mutant: neither index exists.
CommitUnchecked(t) == mem' = t

\* A statement that leaves the table as t; it fails unless the indexes allow it.
Commit(t) == Unique(t) /\ mem' = t

\* INSERT INTO core.company_users.
Insert(row) == \E i \in Ids : mem[i] = NoRow /\ Commit([mem EXCEPT ![i] = row])
InsertFails(row) ==
    \E i \in Ids : mem[i] = NoRow /\ ~Unique([mem EXCEPT ![i] = row])

-----------------------------------------------------------------------------
(* Beginnings: each makes the first read that can refuse the call. *)

BeginCreate(a, c, u) ==
    /\ comp[c].status = "absent"
    /\ comp' = [comp EXCEPT ![c] = [status |-> "live", owner |-> u]]
    /\ Begin(a, "getPrimary", Blank("Create", c, u))
    /\ UNCHANGED <<users, mem>>

\* u is the owner to write: the one read, or the one to transfer to.
BeginUpdate(a, c, u) ==
    /\ Live(c)
    /\ Begin(a, IF u = comp[c].owner THEN "writeCompany" ELSE "exists",
             Blank("Update", c, u))
    /\ UNCHANGED <<users, comp, mem>>

BeginAddUser(a, c, u) ==
    /\ Live(c)
    /\ Begin(a, "exists", Blank("AddUser", c, u))
    /\ UNCHANGED <<users, comp, mem>>

BeginUpdateUser(a, c, u, active, primary) ==
    /\ \E i \in MembershipIds(c, u) :
          Begin(a, CASE active = "off" -> "checkOwner"
                     [] active # "off" /\ primary -> "unset"
                     [] OTHER -> "write",
                [Blank("UpdateUser", c, u) EXCEPT !.active = active, !.primary = primary,
                                                  !.id = i, !.row = mem[i]])
    /\ UNCHANGED <<users, comp, mem>>

BeginRemoveUser(a, c, u) ==
    /\ Live(c) /\ comp[c].owner # u
    /\ Begin(a, "findMember", [Blank("RemoveUser", c, u) EXCEPT !.owner = comp[c].owner])
    /\ UNCHANGED <<users, comp, mem>>

BeginSync(a, u, list, role) ==
    /\ Begin(a, IF list = <<>> THEN "drop" ELSE "next",
             [Blank("Sync", NoCompany, u) EXCEPT !.list = list, !.role = role,
                   !.current = ActiveIds(u), !.promoted = HasPrimary(u)])
    /\ UNCHANGED <<users, comp, mem>>

BeginCreateUser(a, u, list) ==
    /\ u \notin users
    /\ list # <<>>
    /\ Begin(a, "assign", [Blank("CreateUser", NoCompany, u) EXCEPT !.list = list])
    /\ UNCHANGED <<users, comp, mem>>

\* Delete and Restore read the company and then write under the same condition.
DeleteCompany(c) ==
    /\ Live(c)
    /\ comp' = [comp EXCEPT ![c].status = "deleted"]
    /\ alone' = [a \in Admins |-> FALSE]
    /\ UNCHANGED <<users, mem, pc, call, begun>>
RestoreCompany(c) ==
    /\ comp[c].status = "deleted"
    /\ comp' = [comp EXCEPT ![c].status = "live"]
    /\ alone' = [a \in Admins |-> FALSE]
    /\ UNCHANGED <<users, mem, pc, call, begun>>

-----------------------------------------------------------------------------
(* Statements. *)

\* The company a statement is about: of Sync, the element it is at.
Target(a) == IF call[a].op = "Sync" THEN call[a].list[call[a].pos] ELSE call[a].company

\* SyncUserCompanies is done with one element of the list.
Advance(a, promoted) ==
    /\ Goto(a, IF call[a].pos = Len(call[a].list) THEN "drop" ELSE "next")
    /\ call' = [call EXCEPT ![a].pos = @ + 1, ![a].promoted = promoted,
                            ![a].id = NoId, ![a].row = NoRow]

\* The next statement for an existing membership of a synchronised user.
Promote(a) ==
    IF call[a].promoted
    THEN Advance(a, TRUE)
    ELSE Goto(a, "unset") /\ call' = [call EXCEPT ![a].id = NoId, ![a].row = NoRow]

\* Create takes an error for "no primary".
GetPrimary(a) ==
    /\ pc[a] = "getPrimary"
    /\ \E found \in {HasPrimary(call[a].user)} \cup (IF Faults THEN {FALSE} ELSE {}) :
          call' = [call EXCEPT ![a].promoted = found]
    /\ Goto(a, "insert")
    /\ UNCHANGED <<users, comp, mem, alone, begun>>

\* MembershipExists counts deactivated memberships.
Exists(a) ==
    /\ pc[a] = "exists"
    /\ LET exists == MembershipIds(call[a].company, call[a].user) # {} IN
       IF exists /\ call[a].op = "AddUser"
       THEN Return(a)
       ELSE /\ Goto(a, IF exists THEN "writeCompany" ELSE "insert")
            /\ UNCHANGED <<users, comp, mem, call, alone, begun>>

MemberRow(a) == NewRow(Target(a), call[a].user,
                       call[a].op \in {"Create", "Sync"} /\ ~call[a].promoted)

InsertMember(a) ==
    /\ pc[a] = "insert"
    /\ Insert(MemberRow(a))
    /\ IF call[a].op = "Sync"
       THEN Advance(a, TRUE)
       ELSE /\ Goto(a, IF call[a].op = "Update" THEN "writeCompany" ELSE "done")
            /\ UNCHANGED call
    /\ UNCHANGED <<users, comp, alone, begun>>

\* Create only logs the error and answers that the company was created.
InsertRefused(a) ==
    /\ pc[a] = "insert"
    /\ InsertFails(MemberRow(a)) \/ (Faults /\ call[a].op = "Create")
    /\ IF call[a].op = "Create"
       THEN Goto(a, "done") /\ UNCHANGED <<users, comp, mem, call, alone, begun>>
       ELSE Return(a)

WriteCompany(a) ==
    /\ pc[a] = "writeCompany"
    /\ comp' = IF Live(call[a].company)
               THEN [comp EXCEPT ![call[a].company].owner = call[a].user]
               ELSE comp
    /\ Goto(a, "done")
    /\ UNCHANGED <<users, mem, call, alone, begun>>

\* Mutant: the owner is deactivated like anybody else.
CheckNothing(a) ==
    /\ pc[a] = "checkOwner"
    /\ Goto(a, IF call[a].primary THEN "unset" ELSE "write")
    /\ UNCHANGED <<users, comp, mem, call, alone, begun>>

\* ErrCannotDeactivateOwner; a deleted company has nobody to protect.
CheckOwner(a) ==
    /\ pc[a] = "checkOwner"
    /\ IF OwnerOf(call[a].company) = call[a].user
       THEN Return(a)
       ELSE /\ Goto(a, IF call[a].primary THEN "unset" ELSE "write")
            /\ call' = [call EXCEPT ![a].owner = OwnerOf(call[a].company)]
            /\ UNCHANGED <<users, comp, mem, alone, begun>>

\* SetPrimaryCompany, first statement.
Unset(a) ==
    /\ pc[a] = "unset"
    /\ mem' = [i \in Ids |->
                 IF Held(mem, i) /\ mem[i].user = call[a].user
                 THEN [mem[i] EXCEPT !.primary = FALSE] ELSE mem[i]]
    /\ Goto(a, "set")
    /\ UNCHANGED <<users, comp, call, alone, begun>>

\* SetPrimaryCompany, second statement.
Marked(a) == [i \in Ids |->
                IF i \in MembershipIds(Target(a), call[a].user)
                THEN [mem[i] EXCEPT !.primary = TRUE] ELSE mem[i]]
SetPrimary(a) ==
    /\ pc[a] = "set"
    /\ IF Unique(Marked(a))
       THEN /\ mem' = Marked(a)
            /\ IF call[a].op = "Sync"
               THEN Advance(a, TRUE)
               ELSE Goto(a, "write") /\ UNCHANGED call
            /\ UNCHANGED <<users, comp, alone, begun>>
       ELSE Return(a)

\* Mutant: without deleted_at IS NULL.
RewrittenAnyway(a) == [mem EXCEPT ![call[a].id].primary = call[a].row.primary \/ call[a].primary,
                                  ![call[a].id].active = call[a].row.active]
\* Mutant: the row in hand does not learn that it became the primary one.
RewrittenStale(a) ==
    IF Held(mem, call[a].id)
    THEN [mem EXCEPT ![call[a].id].primary = call[a].row.primary]
    ELSE mem

\* UPDATE core.company_users writes role, is_primary and is_active as read,
\* but for what the request changes.
Rewritten(a) ==
    IF Held(mem, call[a].id)
    THEN [mem EXCEPT ![call[a].id].primary = call[a].row.primary \/ call[a].primary,
                     ![call[a].id].active = CASE call[a].active = "on" -> TRUE
                                              [] call[a].active = "off" -> FALSE
                                              [] OTHER -> call[a].row.active]
    ELSE mem
WriteMember(a) ==
    /\ pc[a] = "write"
    /\ IF Unique(Rewritten(a))
       THEN /\ mem' = Rewritten(a)
            /\ IF call[a].op = "Sync"
               THEN Promote(a)
               ELSE Goto(a, "done") /\ UNCHANGED call
            /\ UNCHANGED <<users, comp, alone, begun>>
       ELSE Return(a)

FindMember(a) ==
    /\ pc[a] = "findMember"
    /\ LET found == MembershipIds(call[a].company, call[a].user) IN
       IF found = {}
       THEN Return(a)
       ELSE /\ \E i \in found : call' = [call EXCEPT ![a].id = i]
            /\ Goto(a, "softDelete")
            /\ UNCHANGED <<users, comp, mem, alone, begun>>

Removed(i) == IF Held(mem, i) THEN [mem EXCEPT ![i].deleted = TRUE] ELSE mem
SoftDelete(a) ==
    /\ pc[a] = "softDelete"
    /\ mem' = Removed(call[a].id)
    /\ Goto(a, IF call[a].op = "Sync" THEN "drop" ELSE "done")
    /\ UNCHANGED <<users, comp, call, alone, begun>>

\* SyncUserCompanies: the element at pos is among the memberships read at the
\* start, and is re-read when its role is to be written; or it is added.
SyncNext(a) ==
    /\ pc[a] = "next"
    /\ LET known == {i \in call[a].current : mem[i].company = Target(a)} IN
       \/ /\ known # {}
          /\ \E i \in known :
                IF call[a].role /\ Held(mem, i)
                THEN Goto(a, "write") /\ call' = [call EXCEPT ![a].id = i, ![a].row = mem[i]]
                ELSE Promote(a)
          /\ UNCHANGED <<users, comp, mem, alone, begun>>
       \/ /\ known = {} /\ Live(Target(a))
          /\ Goto(a, "insert")
          /\ UNCHANGED <<users, comp, mem, call, alone, begun>>
       \/ /\ known = {} /\ ~Live(Target(a))
          /\ Return(a)

\* Memberships outside the list, but for the user's own companies.
SyncDrop(a) ==
    /\ pc[a] = "drop"
    /\ LET k == call[a]
           rest == {i \in k.current : \A n \in DOMAIN k.list : k.list[n] # mem[i].company}
       IN \/ /\ rest = {}
             /\ Goto(a, "done")
             /\ UNCHANGED call
          \/ \E i \in rest :
             /\ Goto(a, IF OwnerOf(mem[i].company) = k.user THEN "drop" ELSE "softDelete")
             /\ call' = [call EXCEPT ![a].current = @ \ {i}, ![a].id = i,
                                     ![a].owner = OwnerOf(mem[i].company)]
    /\ UNCHANGED <<users, comp, mem, alone, begun>>

\* UserService.Create: the inserts of AssignUserToCompaniesTx become visible
\* with the user, when the transaction commits.
Assign(a) ==
    /\ pc[a] = "assign"
    /\ IF Live(call[a].list[call[a].pos])
       THEN /\ Goto(a, IF call[a].pos = Len(call[a].list) THEN "commit" ELSE "assign")
            /\ call' = [call EXCEPT ![a].pos = @ + 1]
            /\ UNCHANGED <<users, comp, mem, alone, begun>>
       ELSE Return(a)

\* The table with one row more for each element of the list, the first primary.
Assigned(a, id) ==
    [i \in Ids |-> IF \E n \in DOMAIN id : id[n] = i
                   THEN LET n == CHOOSE n \in DOMAIN id : id[n] = i
                        IN NewRow(call[a].list[n], call[a].user, n = 1)
                   ELSE mem[i]]
FreshIds(list) == {id \in [DOMAIN list -> Ids] :
    \A m, n \in DOMAIN list : mem[id[n]] = NoRow /\ (id[m] = id[n] => m = n)}
CommitUser(a) ==
    /\ pc[a] = "commit"
    /\ \E id \in FreshIds(call[a].list) :
          IF call[a].user \notin users /\ Unique(Assigned(a, id))
          THEN /\ mem' = Assigned(a, id)
               /\ users' = users \cup {call[a].user}
               /\ Goto(a, "done")
               /\ UNCHANGED <<comp, call, alone, begun>>
          ELSE Return(a)

\* A statement fails, the client goes away or the process ends.
Fail(a) == Faults /\ pc[a] \notin {"idle", "done"} /\ Return(a)

Answer(a) == pc[a] = "done" /\ Return(a)

-----------------------------------------------------------------------------
Request(a) ==
    \/ \E c \in Companies, u \in users :
          \/ BeginCreate(a, c, u) \/ BeginUpdate(a, c, u)
          \/ BeginAddUser(a, c, u) \/ BeginRemoveUser(a, c, u)
          \/ \E active \in {"keep", "on", "off"}, primary \in BOOLEAN :
                BeginUpdateUser(a, c, u, active, primary)
    \/ \E u \in users, list \in Lists, role \in BOOLEAN : BeginSync(a, u, list, role)
    \/ \E u \in Users, list \in Lists : BeginCreateUser(a, u, list)

Statement(a) ==
    \/ GetPrimary(a) \/ Exists(a) \/ InsertMember(a) \/ InsertRefused(a)
    \/ WriteCompany(a) \/ CheckOwner(a) \/ Unset(a) \/ SetPrimary(a)
    \/ WriteMember(a) \/ FindMember(a) \/ SoftDelete(a) \/ SyncNext(a)
    \/ SyncDrop(a) \/ Assign(a) \/ CommitUser(a) \/ Fail(a) \/ Answer(a)

Next ==
    \/ \E a \in Admins : Request(a) \/ Statement(a)
    \/ \E c \in Companies : DeleteCompany(c) \/ RestoreCompany(c)

Spec == Init /\ [][Next]_vars

-----------------------------------------------------------------------------
(* Properties. *)

\* Variables keep their shape, and both unique indexes hold.
TypeOK ==
    /\ users \subseteq Users
    /\ comp \in [Companies -> Company]
    /\ mem \in [Ids -> Row \cup {NoRow}]
    /\ pc \in [Admins -> Labels]
    /\ call \in [Admins -> Call \cup {NoCall}]
    /\ alone \in [Admins -> BOOLEAN]
    /\ begun \in 0..MaxCalls
    /\ Unique(mem)
    /\ \A i \in Ids : mem[i] # NoRow => mem[i].user \in users

\* A call holding an old row or an old id never alters a membership that was
\* removed meanwhile: rejoining makes a new row.
RemovedStays ==
    [][\A i \in Ids : mem[i] # NoRow /\ mem[i].deleted => mem'[i] = mem[i]]_vars

Serves(c) == \E i \in ActiveIds(comp[c].owner) : mem[i].company = c

\* The checks of RemoveUser, UpdateUser and SyncUserCompanies keep the owner of
\* a company an active member, as long as no other call or deletion of a
\* company ran since the one that checked began.
OwnerKeptByLoneCalls ==
    [][\A c \in Companies :
          Live(c) /\ Serves(c) /\ comp'[c] = comp[c] /\ ~Serves(c)'
          => \E a \in Admins : pc'[a] # pc[a] /\ ~alone[a]]_vars

CompaniesOf(u) == {mem[i].company : i \in ActiveIds(u)}

Owned(u) == {c \in Companies : OwnerOf(c) = u}

\* A call that succeeded without company from other calls did what was asked,
\* over all of its statements.
LoneCallsDeliver ==
    \A a \in Admins : pc[a] = "done" /\ alone[a] =>
        LET k == call[a]
            rows == {mem[i] : i \in MembershipIds(k.company, k.user)}
        IN CASE k.op = "Update" -> OwnerOf(k.company) = k.user
             [] k.op = "AddUser" -> \E r \in rows : r.active /\ ~r.primary
             [] k.op = "UpdateUser" -> \E r \in rows :
                                         /\ k.primary => r.primary
                                         /\ k.active # "keep" => r.active = (k.active = "on")
             [] k.op = "RemoveUser" -> rows = {}
             [] k.op \in {"Sync", "CreateUser"} ->
                    LET listed == {k.list[n] : n \in DOMAIN k.list} IN
                    /\ listed \subseteq CompaniesOf(k.user)
                    /\ CompaniesOf(k.user) \subseteq listed \cup Owned(k.user)
                    /\ k.op = "CreateUser" => HasPrimary(k.user)
             [] OTHER -> TRUE

\* The creator of a company becomes a member of it.
OwnerJoins ==
    \A a \in Admins :
        pc[a] = "done" /\ alone[a] /\ call[a].op = "Create" => Serves(call[a].company)

=============================================================================
