------------------------- MODULE Memberships_proofs -------------------------
(***************************************************************************)
(* For any users, companies, rows, requests and number of calls: the       *)
(* tables keep their shape and both indexes hold, removed memberships stay *)
(* as they are, and calls that run alone keep a company's owner a member.  *)
(***************************************************************************)
EXTENDS Memberships, TLAPS

USE ListsAssumption, MaxCallsAssumption, FoundedAssumption, NoRowAssumption

\* What a call needs to have at hand for the statement it executes next.
Shape(l, k) ==
    /\ k \in Call
    /\ k.op \notin {"Sync", "CreateUser"} => k.company \in Companies
    /\ k.op = "Sync" =>
          l \in {"next", "write", "unset", "set", "insert", "drop", "softDelete", "done"}
    /\ k.op = "CreateUser" <=> l \in {"assign", "commit"} \/ (l = "done" /\ k.op = "CreateUser")
    /\ l \in {"next", "drop"} => k.op = "Sync"
    /\ k.op = "Sync" /\ l \in {"next", "write", "unset", "set", "insert"}
          => k.pos \in 1 .. Len(k.list)
    /\ l = "assign" => k.pos \in 1 .. Len(k.list)
    /\ l = "write" => k.id \in Ids /\ k.row \in Row /\ k.op \in {"UpdateUser", "Sync"}
    /\ l \in {"checkOwner", "unset", "set"} /\ k.op # "Sync"
          => k.op = "UpdateUser" /\ k.id \in Ids /\ k.row \in Row
    /\ l = "findMember" => k.op = "RemoveUser"
    /\ l = "softDelete" => k.id \in Ids /\ k.op \in {"RemoveUser", "Sync"}

Tables ==
    /\ users \in SUBSET Users
    /\ comp \in [Companies -> Company]
    /\ mem \in [Ids -> Row \cup {NoRow}]
    /\ Unique(mem)
    /\ \A i \in Ids : mem[i] # NoRow => mem[i].user \in users

Serving(a) == Shape(pc[a], call[a]) /\ (call[a].op # "CreateUser" => call[a].user \in users)

Calls ==
    /\ pc \in [Admins -> Labels]
    /\ call \in [Admins -> Call \cup {NoCall}]
    /\ alone \in [Admins -> BOOLEAN]
    /\ begun \in 0 .. MaxCalls
    /\ \A a \in Admins : pc[a] = "idle" \/ Serving(a)

\* What a call has read and will act on: the rows it names stay rows of the
\* same company and user; and while it is alone, what it checked still holds.
ReadSync(a) ==
    call[a].op = "Sync" =>
        /\ call[a].active = "keep"
        /\ \A i \in call[a].current : mem[i] \in Row /\ mem[i].user = call[a].user
        /\ pc[a] = "softDelete" =>
              /\ mem[call[a].id] \in Row /\ mem[call[a].id].user = call[a].user
              /\ alone[a] => OwnerOf(mem[call[a].id].company) # call[a].user
        /\ pc[a] = "write" /\ alone[a] => call[a].row.active = mem[call[a].id].active

ReadRemove(a) ==
    call[a].op = "RemoveUser" =>
        /\ pc[a] \in {"findMember", "softDelete"} /\ alone[a]
              => OwnerOf(call[a].company) # call[a].user
        /\ pc[a] = "softDelete" => /\ mem[call[a].id] \in Row
                                   /\ mem[call[a].id].company = call[a].company
                                   /\ mem[call[a].id].user = call[a].user

ReadUpdate(a) ==
    call[a].op = "UpdateUser" /\ pc[a] \in {"checkOwner", "unset", "set", "write"} =>
        /\ mem[call[a].id] \in Row
        /\ mem[call[a].id].company = call[a].company
        /\ mem[call[a].id].user = call[a].user
        /\ alone[a] => call[a].row.active = mem[call[a].id].active
        /\ call[a].active = "off" /\ pc[a] # "checkOwner" /\ alone[a]
              => OwnerOf(call[a].company) # call[a].user

Reads ==
    \A a \in Admins :
        /\ pc[a] # "idle" => ReadSync(a) /\ ReadRemove(a) /\ ReadUpdate(a)
        /\ alone[a] => /\ pc[a] # "idle"
                       /\ \A b \in Admins \ {a} : pc[b] \in {"idle", "done"}

IInv == Tables /\ Calls /\ Reads

-----------------------------------------------------------------------------
(* The tables. *)

LEMMA TargetType ==
    ASSUME IInv, NEW a \in Admins, pc[a] \in {"set", "insert"}
    PROVE  Target(a) \in Companies /\ call[a].user \in users /\ call[a].op # "CreateUser"
<1>1. Serving(a)
  BY DEF IInv, Calls
<1>2. call[a].op # "CreateUser" /\ call[a].user \in users /\ call[a] \in Call
  BY <1>1 DEF Serving, Shape
<1>3. CASE call[a].op = "Sync"
  <2>1. call[a].pos \in 1 .. Len(call[a].list)
    BY <1>1, <1>3 DEF Serving, Shape
  <2>2. call[a].list \in Seq(Companies)
    <3>1. call[a].list \in Lists \cup {<<>>}
      BY <1>2 DEF Call
    <3>2. <<>> \in Seq(Companies)
      OBVIOUS
    <3>3. Lists \subseteq Seq(Companies)
      BY ListsAssumption
    <3> QED BY <3>1, <3>2, <3>3
  <2> QED BY <1>2, <1>3, <2>1, <2>2 DEF Target
<1>4. CASE call[a].op # "Sync"
  BY <1>1, <1>2, <1>4 DEF Serving, Shape, Target
<1> QED BY <1>2, <1>3, <1>4

LEMMA NewRowType ==
    ASSUME NEW c \in Companies, NEW u \in Users, NEW p \in BOOLEAN
    PROVE  NewRow(c, u, p) \in Row /\ NewRow(c, u, p).user = u
BY DEF NewRow, Row

\* Tables from the table after a write: each row is the old one, a new row of
\* a known user, or a rewritten row of the same user.
LEMMA TablesWrite ==
    ASSUME Tables, users' = users, comp' = comp, Unique(mem'),
           mem' = [i \in Ids |-> mem'[i]],
           \A i \in Ids : \/ mem'[i] = mem[i]
                          \/ mem'[i] \in Row /\ mem'[i].user \in users
    PROVE  Tables'
<1>1. mem' \in [Ids -> Row \cup {NoRow}]
  <2>1. \A i \in Ids : mem'[i] \in Row \cup {NoRow}
    BY DEF Tables
  <2> QED BY <2>1
<1>2. \A i \in Ids : mem'[i] # NoRow => mem'[i].user \in users'
  BY DEF Tables
<1>3. Unique(mem)'
  BY DEF Unique, Held
<1> QED BY <1>1, <1>2, <1>3 DEF Tables

LEMMA HeldRow ==
    ASSUME Tables, NEW i \in Ids, Held(mem, i)
    PROVE  mem[i] \in Row /\ mem[i].user \in users /\ mem[i] # NoRow
BY DEF Tables, Held

LEMMA InsertTables ==
    ASSUME IInv, NEW a \in Admins, InsertMember(a)
    PROVE  Tables'
<1>1. PICK i \in Ids : mem[i] = NoRow /\ Commit([mem EXCEPT ![i] = MemberRow(a)])
  BY DEF InsertMember, Insert
<1>2. users' = users /\ comp' = comp
  BY DEF InsertMember
<1>3. pc[a] = "insert" /\ mem' = [mem EXCEPT ![i] = MemberRow(a)] /\ Unique(mem')
  BY <1>1 DEF InsertMember, Commit
<1>4. call[a].user \in Users /\ call[a].user \in users /\ Target(a) \in Companies
  BY <1>3, TargetType DEF IInv, Tables
<1>5. MemberRow(a) \in Row /\ MemberRow(a).user \in users
  <2>1. (call[a].op \in {"Create", "Sync"} /\ ~call[a].promoted) \in BOOLEAN
    OBVIOUS
  <2> QED BY <1>4, <2>1, NewRowType DEF MemberRow
<1>6. mem \in [Ids -> Row \cup {NoRow}] /\ Tables
  BY DEF IInv, Tables
<1>7. \A j \in Ids : \/ mem'[j] = mem[j]
                     \/ mem'[j] \in Row /\ mem'[j].user \in users
  BY <1>3, <1>5, <1>6
<1>8. mem' = [j \in Ids |-> mem'[j]]
  BY <1>3, <1>6
<1> QED BY <1>2, <1>3, <1>6, <1>7, <1>8, TablesWrite

LEMMA UnsetTables ==
    ASSUME IInv, NEW a \in Admins, Unset(a)
    PROVE  Tables'
<1>1. Tables /\ users' = users /\ comp' = comp
  BY DEF IInv, Unset
<1>2. \A i \in Ids : \/ mem'[i] = mem[i]
                     \/ /\ Held(mem, i) /\ mem'[i] = [mem[i] EXCEPT !.primary = FALSE]
  BY DEF Unset
<1>3. \A i \in Ids : \/ mem'[i] = mem[i]
                     \/ mem'[i] \in Row /\ mem'[i].user \in users
  BY <1>1, <1>2, HeldRow DEF Row
<1>4. mem' = [i \in Ids |-> mem'[i]]
  BY DEF Unset
<1>5. ASSUME NEW i \in Ids, Held(mem', i)
      PROVE  /\ Held(mem, i)
             /\ mem'[i].company = mem[i].company /\ mem'[i].user = mem[i].user
             /\ mem'[i].primary => mem[i].primary
  BY <1>1, <1>2, <1>5, HeldRow DEF Held, Row
<1>6. Unique(mem')
  <2>1. Unique(mem)
    BY <1>1 DEF Tables
  <2> SUFFICES ASSUME NEW i \in Ids, NEW j \in Ids, i # j, Held(mem', i), Held(mem', j),
                      mem'[i].user = mem'[j].user
               PROVE  /\ mem'[i].company # mem'[j].company
                      /\ ~(mem'[i].primary /\ mem'[j].primary)
    BY DEF Unique
  <2> QED BY <1>5, <2>1 DEF Unique
<1> QED BY <1>1, <1>3, <1>4, <1>6, TablesWrite

LEMMA SetPrimaryTables ==
    ASSUME IInv, NEW a \in Admins, SetPrimary(a)
    PROVE  Tables'
<1>1. Tables
  BY DEF IInv
<1>2. CASE ~Unique(Marked(a))
  <2>1. UNCHANGED <<users, comp, mem>>
    BY <1>2 DEF SetPrimary, Return
  <2> QED BY <1>1, <2>1 DEF Tables, Unique, Held
<1>3. CASE Unique(Marked(a))
  <2>1. users' = users /\ comp' = comp /\ mem' = Marked(a)
    BY <1>3 DEF SetPrimary
  <2>2. \A i \in Ids : \/ mem'[i] = mem[i]
                       \/ Held(mem, i) /\ mem'[i] = [mem[i] EXCEPT !.primary = TRUE]
    BY <2>1 DEF Marked, MembershipIds
  <2>3. \A i \in Ids : \/ mem'[i] = mem[i]
                       \/ mem'[i] \in Row /\ mem'[i].user \in users
    BY <1>1, <2>2, HeldRow DEF Row
  <2>4. mem' = [i \in Ids |-> mem'[i]]
    BY <2>1 DEF Marked
  <2> QED BY <1>1, <1>3, <2>1, <2>3, <2>4, TablesWrite
<1> QED BY <1>2, <1>3

\* What UPDATE core.company_users makes of the rows.
LEMMA RewrittenRows ==
    ASSUME IInv, NEW a \in Admins, pc[a] = "write"
    PROVE  /\ Rewritten(a) = [i \in Ids |-> Rewritten(a)[i]]
           /\ \A i \in Ids :
                 \/ Rewritten(a)[i] = mem[i]
                 \/ /\ i = call[a].id /\ Held(mem, i)
                    /\ Rewritten(a)[i] \in Row
                    /\ Rewritten(a)[i].user = mem[i].user
                    /\ Rewritten(a)[i].company = mem[i].company
                    /\ Rewritten(a)[i].deleted = mem[i].deleted
                    /\ Rewritten(a)[i].active =
                          CASE call[a].active = "on" -> TRUE
                            [] call[a].active = "off" -> FALSE
                            [] OTHER -> call[a].row.active
<1> DEFINE id == call[a].id
           p == call[a].row.primary \/ call[a].primary
           act == CASE call[a].active = "on" -> TRUE
                    [] call[a].active = "off" -> FALSE
                    [] OTHER -> call[a].row.active
<1>1. Serving(a) /\ mem \in [Ids -> Row \cup {NoRow}]
  BY DEF IInv, Calls, Tables
<1>2. id \in Ids /\ call[a] \in Call /\ call[a].row \in Row
  BY <1>1 DEF Serving, Shape
<1>3. p \in BOOLEAN
  OBVIOUS
<1>4. act \in BOOLEAN
  BY <1>2 DEF Row
<1>5. CASE ~Held(mem, id)
  BY <1>1, <1>5 DEF Rewritten
<1>6. CASE Held(mem, id)
  <2>1. mem[id] \in Row
    BY <1>2, <1>6, HeldRow DEF IInv
  <2>2. Rewritten(a) = [mem EXCEPT ![id].primary = p, ![id].active = act]
    BY <1>6 DEF Rewritten
  <2> HIDE DEF id, p, act
  <2>3. /\ Rewritten(a) = [i \in Ids |-> Rewritten(a)[i]]
        /\ Rewritten(a)[id] = [mem[id] EXCEPT !.primary = p, !.active = act]
        /\ \A i \in Ids : i # id => Rewritten(a)[i] = mem[i]
    BY <1>1, <1>2, <2>2
  <2>4. /\ Rewritten(a)[id] \in Row
        /\ Rewritten(a)[id].user = mem[id].user
        /\ Rewritten(a)[id].company = mem[id].company
        /\ Rewritten(a)[id].deleted = mem[id].deleted
        /\ Rewritten(a)[id].active = act
    BY <1>3, <1>4, <2>1, <2>3 DEF Row
  <2>5. \A i \in Ids :
           \/ Rewritten(a)[i] = mem[i]
           \/ /\ i = id /\ Held(mem, i)
              /\ Rewritten(a)[i] \in Row
              /\ Rewritten(a)[i].user = mem[i].user
              /\ Rewritten(a)[i].company = mem[i].company
              /\ Rewritten(a)[i].deleted = mem[i].deleted
              /\ Rewritten(a)[i].active = act
    BY <1>6, <2>3, <2>4
  <2> USE DEF id, act
  <2> QED BY <2>3, <2>5
<1> QED BY <1>5, <1>6

LEMMA WriteMemberTables ==
    ASSUME IInv, NEW a \in Admins, WriteMember(a)
    PROVE  Tables'
<1>1. Tables /\ pc[a] = "write"
  BY DEF IInv, WriteMember
<1>2. CASE ~Unique(Rewritten(a))
  <2>1. UNCHANGED <<users, comp, mem>>
    BY <1>2 DEF WriteMember, Return
  <2> QED BY <1>1, <2>1 DEF Tables, Unique, Held
<1>3. CASE Unique(Rewritten(a))
  <2>1. users' = users /\ comp' = comp /\ mem' = Rewritten(a)
    BY <1>3 DEF WriteMember
  <2>2. \A i \in Ids : \/ mem'[i] = mem[i]
                       \/ mem'[i] \in Row /\ mem'[i].user \in users
    BY <1>1, <2>1, RewrittenRows, HeldRow
  <2>3. mem' = [i \in Ids |-> mem'[i]]
    BY <1>1, <2>1, RewrittenRows
  <2> QED BY <1>1, <1>3, <2>1, <2>2, <2>3, TablesWrite
<1> QED BY <1>2, <1>3

LEMMA SoftDeleteTables ==
    ASSUME IInv, NEW a \in Admins, SoftDelete(a)
    PROVE  Tables'
<1>1. Tables /\ users' = users /\ comp' = comp /\ mem' = Removed(call[a].id)
  BY DEF IInv, SoftDelete
<1>2. call[a].id \in Ids
  BY DEF SoftDelete, IInv, Calls, Serving, Shape
<1>3. mem \in [Ids -> Row \cup {NoRow}]
  BY <1>1 DEF Tables
<1>4. \A i \in Ids : \/ mem'[i] = mem[i]
                     \/ Held(mem, i) /\ mem'[i] = [mem[i] EXCEPT !.deleted = TRUE]
  BY <1>1, <1>2, <1>3 DEF Removed
<1>5. \A i \in Ids : \/ mem'[i] = mem[i]
                     \/ /\ mem'[i] \in Row /\ mem'[i].user \in users
                        /\ mem'[i].deleted
  BY <1>1, <1>4, HeldRow DEF Row
<1>6. mem' = [i \in Ids |-> mem'[i]]
  BY <1>1, <1>3 DEF Removed
<1>7. \A i \in Ids : Held(mem', i) => mem'[i] = mem[i] /\ Held(mem, i)
  BY <1>5 DEF Held
<1>8. Unique(mem')
  <2>1. Unique(mem)
    BY <1>1 DEF Tables
  <2> QED BY <1>7, <2>1 DEF Unique
<1> QED BY <1>1, <1>5, <1>6, <1>8, TablesWrite

LEMMA CommitUserTables ==
    ASSUME IInv, NEW a \in Admins, CommitUser(a)
    PROVE  Tables'
<1>1. PICK id \in FreshIds(call[a].list) :
         IF call[a].user \notin users /\ Unique(Assigned(a, id))
         THEN mem' = Assigned(a, id) /\ users' = users \cup {call[a].user} /\ comp' = comp
         ELSE UNCHANGED <<users, comp, mem>>
  BY DEF CommitUser, Return
<1>2. Tables
  BY DEF IInv
<1>3. CASE UNCHANGED <<users, comp, mem>>
  BY <1>2, <1>3 DEF Tables, Unique, Held
<1>4. CASE /\ Unique(Assigned(a, id)) /\ mem' = Assigned(a, id)
           /\ users' = users \cup {call[a].user} /\ comp' = comp
  <2>1. Serving(a)
    BY DEF IInv, Calls, CommitUser
  <2>2. call[a].user \in Users /\ call[a].list \in Lists \cup {<<>>}
    BY <2>1 DEF Serving, Shape, Call
  <2>3. call[a].list \in Seq(Companies)
    <3>1. <<>> \in Seq(Companies)
      OBVIOUS
    <3>2. Lists \subseteq Seq(Companies)
      BY ListsAssumption
    <3> QED BY <2>2, <3>1, <3>2
  <2>4. id \in [DOMAIN call[a].list -> Ids]
    BY DEF FreshIds
  <2>5. ASSUME NEW i \in Ids
        PROVE  \/ mem'[i] = mem[i]
               \/ mem'[i] \in Row /\ mem'[i].user = call[a].user
    <3>1. CASE \E n \in DOMAIN id : id[n] = i
      <4> DEFINE n == CHOOSE n \in DOMAIN id : id[n] = i
      <4>1. n \in DOMAIN call[a].list
        BY <3>1, <2>4
      <4>2. call[a].list[n] \in Companies
        BY <4>1, <2>3
      <4>3. mem'[i] = NewRow(call[a].list[n], call[a].user, n = 1)
        BY <1>4, <3>1 DEF Assigned
      <4>4. (n = 1) \in BOOLEAN
        OBVIOUS
      <4> HIDE DEF n
      <4>5. NewRow(call[a].list[n], call[a].user, n = 1) \in Row
        BY <4>2, <4>4, <2>2, NewRowType
      <4>6. NewRow(call[a].list[n], call[a].user, n = 1).user = call[a].user
        BY DEF NewRow
      <4> QED BY <4>3, <4>5, <4>6
    <3>2. CASE ~\E n \in DOMAIN id : id[n] = i
      BY <1>4, <3>2 DEF Assigned
    <3> QED BY <3>1, <3>2
  <2>6. mem' \in [Ids -> Row \cup {NoRow}]
    <3>1. mem' = [i \in Ids |-> mem'[i]]
      BY <1>4 DEF Assigned
    <3>2. \A i \in Ids : mem'[i] \in Row \cup {NoRow}
      BY <2>5, <1>2 DEF Tables
    <3> QED BY <3>1, <3>2
  <2>7. \A i \in Ids : mem'[i] # NoRow => mem'[i].user \in users'
    BY <2>5, <1>2, <1>4 DEF Tables
  <2>8. users' \in SUBSET Users /\ comp' \in [Companies -> Company]
    BY <2>2, <1>2, <1>4 DEF Tables
  <2>9. Unique(mem)'
    BY <1>4 DEF Unique, Held
  <2> QED BY <2>6, <2>7, <2>8, <2>9 DEF Tables
<1> QED BY <1>1, <1>3, <1>4

LEMMA CompanyTables ==
    ASSUME Tables, mem' = mem, users' = users, comp' \in [Companies -> Company]
    PROVE  Tables'
BY DEF Tables, Unique, Held

LEMMA TablesStep ==
    ASSUME IInv, Next
    PROVE  Tables'
<1>1. Tables /\ comp \in [Companies -> Company] /\ users \subseteq Users
  BY DEF IInv, Tables
<1>2. ASSUME NEW c \in Companies, DeleteCompany(c) \/ RestoreCompany(c) PROVE Tables'
  <2>1. comp' \in [Companies -> Company] /\ mem' = mem /\ users' = users
    BY <1>1, <1>2 DEF DeleteCompany, RestoreCompany, Company
  <2> QED BY <1>1, <2>1, CompanyTables
<1>3. ASSUME NEW a \in Admins, Request(a) PROVE Tables'
  <2>1. CASE UNCHANGED <<users, comp, mem>>
    BY <1>1, <2>1, CompanyTables
  <2>2. CASE \E c \in Companies, u \in users : BeginCreate(a, c, u)
    <3>1. comp' \in [Companies -> Company] /\ mem' = mem /\ users' = users
      BY <1>1, <2>2 DEF BeginCreate, Company
    <3> QED BY <1>1, <3>1, CompanyTables
  <2> QED BY <1>3, <2>1, <2>2
          DEF Request, BeginUpdate, BeginAddUser, BeginRemoveUser, BeginUpdateUser,
              BeginSync, BeginCreateUser
<1>4. ASSUME NEW a \in Admins, Statement(a) PROVE Tables'
  <2>1. CASE UNCHANGED <<users, comp, mem>>
    BY <1>1, <2>1, CompanyTables
  <2>2. CASE WriteCompany(a)
    <3>1. call[a].user \in Users
      BY <2>2 DEF WriteCompany, IInv, Calls, Serving, Shape, Call
    <3>2. comp' \in [Companies -> Company] /\ mem' = mem /\ users' = users
      BY <1>1, <2>2, <3>1 DEF WriteCompany, Company
    <3> QED BY <1>1, <3>2, CompanyTables
  <2>3. CASE InsertMember(a)
    BY <2>3, InsertTables
  <2>4. CASE Unset(a)
    BY <2>4, UnsetTables
  <2>5. CASE SetPrimary(a)
    BY <2>5, SetPrimaryTables
  <2>6. CASE WriteMember(a)
    BY <2>6, WriteMemberTables
  <2>7. CASE SoftDelete(a)
    BY <2>7, SoftDeleteTables
  <2>8. CASE CommitUser(a)
    BY <2>8, CommitUserTables
  <2>9. CASE \/ GetPrimary(a) \/ Exists(a) \/ InsertRefused(a) \/ CheckOwner(a)
             \/ FindMember(a) \/ SyncNext(a) \/ SyncDrop(a) \/ Assign(a) \/ Fail(a)
             \/ Answer(a)
    <3>1. UNCHANGED <<users, comp, mem>>
      BY <2>9 DEF GetPrimary, Exists, InsertRefused, CheckOwner, FindMember, SyncNext,
                  SyncDrop, Assign, Fail, Answer, Return
    <3> QED BY <2>1, <3>1
  <2> QED BY <1>4, <2>2, <2>3, <2>4, <2>5, <2>6, <2>7, <2>8, <2>9 DEF Statement
<1> QED BY <1>2, <1>3, <1>4 DEF Next

-----------------------------------------------------------------------------
(* The calls. *)

\* Only a moves: it becomes idle, or its new call fits its new label.
Moves(a, l, k) ==
    /\ pc' = [pc EXCEPT ![a] = l] /\ call' = [call EXCEPT ![a] = k]
    /\ l \in Labels
    /\ \/ l = "idle" /\ k = NoCall
       \/ Shape(l, k) /\ (k.op # "CreateUser" => k.user \in users)

LEMMA CallsMove ==
    ASSUME Calls, NEW a \in Admins, NEW l, NEW k, Moves(a, l, k), users \subseteq users',
           alone' \in [Admins -> BOOLEAN], begun' \in 0 .. MaxCalls
    PROVE  Calls'
<1>1. pc' \in [Admins -> Labels] /\ pc'[a] = l /\ call'[a] = k
  BY DEF Calls, Moves
<1>2. k \in Call \cup {NoCall}
  BY DEF Moves, Shape
<1>3. call' \in [Admins -> Call \cup {NoCall}]
  BY <1>2 DEF Calls, Moves
<1>4. ASSUME NEW b \in Admins PROVE pc'[b] = "idle" \/ Serving(b)'
  <2>1. CASE b = a
    BY <1>1, <2>1 DEF Moves, Serving
  <2>2. CASE b # a
    <3>1. pc'[b] = pc[b] /\ call'[b] = call[b]
      BY <2>2 DEF Calls, Moves
    <3>2. pc[b] = "idle" \/ Serving(b)
      BY DEF Calls
    <3> QED BY <3>1, <3>2 DEF Serving
  <2> QED BY <2>1, <2>2
<1> QED BY <1>1, <1>3, <1>4 DEF Calls

LEMMA ReturnCalls ==
    ASSUME IInv, NEW a \in Admins, Return(a)
    PROVE  Calls'
<1>1. Moves(a, "idle", NoCall)
  BY DEF Return, Moves, Labels
<1>2. alone' \in [Admins -> BOOLEAN] /\ begun' \in 0 .. MaxCalls /\ users' = users
  BY DEF Return, IInv, Calls
<1> QED BY <1>1, <1>2, CallsMove DEF IInv

\* A statement that is not a return leaves alone and begun as they are.
LEMMA GotoCalls ==
    ASSUME IInv, NEW a \in Admins, NEW l, NEW k, Moves(a, l, k), users \subseteq users',
           UNCHANGED <<alone, begun>>
    PROVE  Calls'
<1>1. alone' \in [Admins -> BOOLEAN] /\ begun' \in 0 .. MaxCalls
  BY DEF IInv, Calls
<1> QED BY <1>1, CallsMove DEF IInv

LEMMA BeginCalls ==
    ASSUME IInv, NEW a \in Admins, NEW l \in Labels, NEW k, Begin(a, l, k), users' = users,
           Shape(l, k), k.op # "CreateUser" => k.user \in users
    PROVE  Calls'
<1>1. Moves(a, l, k)
  BY DEF Begin, Moves
<1>2. alone' \in [Admins -> BOOLEAN]
  BY DEF Begin
<1>3. begun' \in 0 .. MaxCalls
  BY DEF Begin, IInv, Calls
<1> QED BY <1>1, <1>2, <1>3, CallsMove DEF IInv

LEMMA BlankType ==
    ASSUME NEW op \in {"Create", "Update", "AddUser", "UpdateUser", "RemoveUser", "Sync",
                       "CreateUser"},
           NEW c \in Companies \cup {NoCompany}, NEW u \in Users
    PROVE  Blank(op, c, u) \in Call
BY DEF Blank, Call

LEMMA RequestCalls ==
    ASSUME IInv, NEW a \in Admins, Request(a)
    PROVE  Calls'
<1>1. users \in SUBSET Users /\ mem \in [Ids -> Row \cup {NoRow}]
      /\ comp \in [Companies -> Company]
  BY DEF IInv, Tables
<1>2. ASSUME NEW c \in Companies, NEW u \in users, BeginCreate(a, c, u) PROVE Calls'
  <2>1. Shape("getPrimary", Blank("Create", c, u))
    BY <1>1, BlankType DEF Shape, Blank
  <2>2. "getPrimary" \in Labels /\ Blank("Create", c, u).user = u
    BY DEF Labels, Blank
  <2> QED BY <1>2, <2>1, <2>2, BeginCalls DEF BeginCreate
<1>3. ASSUME NEW c \in Companies, NEW u \in users, BeginUpdate(a, c, u) PROVE Calls'
  <2> DEFINE l == IF u = comp[c].owner THEN "writeCompany" ELSE "exists"
  <2>1. l \in Labels /\ l \in {"writeCompany", "exists"} /\ Blank("Update", c, u).user = u
    BY DEF Labels, Blank
  <2>2. Begin(a, l, Blank("Update", c, u)) /\ users' = users
    BY <1>3 DEF BeginUpdate
  <2> HIDE DEF l
  <2>3. Shape(l, Blank("Update", c, u))
    BY <1>1, <2>1, BlankType DEF Shape, Blank
  <2> QED BY <2>1, <2>2, <2>3, BeginCalls
<1>4. ASSUME NEW c \in Companies, NEW u \in users, BeginAddUser(a, c, u) PROVE Calls'
  <2>1. Shape("exists", Blank("AddUser", c, u))
    BY <1>1, BlankType DEF Shape, Blank
  <2>2. "exists" \in Labels /\ Blank("AddUser", c, u).user = u
    BY DEF Labels, Blank
  <2> QED BY <1>4, <2>1, <2>2, BeginCalls DEF BeginAddUser
<1>5. ASSUME NEW c \in Companies, NEW u \in users, BeginRemoveUser(a, c, u) PROVE Calls'
  <2> DEFINE k == [Blank("RemoveUser", c, u) EXCEPT !.owner = comp[c].owner]
  <2>1. comp[c].owner \in Users \cup {NoUser}
    BY <1>1 DEF Company
  <2>2. k \in Call /\ k.op = "RemoveUser" /\ k.company = c /\ k.user = u
    BY <1>1, <2>1 DEF Blank, Call
  <2>3. Begin(a, "findMember", k) /\ users' = users /\ "findMember" \in Labels
    BY <1>5 DEF BeginRemoveUser, Labels
  <2> HIDE DEF k
  <2>4. Shape("findMember", k)
    BY <2>2 DEF Shape
  <2> QED BY <2>2, <2>3, <2>4, BeginCalls
<1>6. ASSUME NEW c \in Companies, NEW u \in users, NEW act \in {"keep", "on", "off"},
             NEW pr \in BOOLEAN, BeginUpdateUser(a, c, u, act, pr)
      PROVE  Calls'
  <2> DEFINE l == CASE act = "off" -> "checkOwner"
                    [] act # "off" /\ pr -> "unset"
                    [] OTHER -> "write"
  <2>1. PICK i \in MembershipIds(c, u) :
           Begin(a, l, [Blank("UpdateUser", c, u) EXCEPT !.active = act, !.primary = pr,
                                                         !.id = i, !.row = mem[i]])
    BY <1>6 DEF BeginUpdateUser
  <2> DEFINE k == [Blank("UpdateUser", c, u) EXCEPT !.active = act, !.primary = pr,
                                                    !.id = i, !.row = mem[i]]
  <2>2. i \in Ids /\ mem[i] \in Row
    BY <1>1 DEF MembershipIds, Held
  <2>3. /\ k \in Call /\ k.op = "UpdateUser" /\ k.company = c /\ k.user = u
        /\ k.id = i /\ k.row = mem[i]
    BY <1>1, <2>2 DEF Blank, Call
  <2>4. Begin(a, l, k) /\ users' = users
    BY <1>6, <2>1 DEF BeginUpdateUser
  <2>5. l \in {"checkOwner", "unset", "write"} /\ l \in Labels
    BY DEF Labels
  <2> HIDE DEF l, k
  <2>6. Shape(l, k)
    BY <2>2, <2>3, <2>5 DEF Shape
  <2> QED BY <2>3, <2>4, <2>5, <2>6, BeginCalls
<1>7. ASSUME NEW u \in users, NEW list \in Lists, NEW role \in BOOLEAN,
             BeginSync(a, u, list, role)
      PROVE  Calls'
  <2> DEFINE l == IF list = <<>> THEN "drop" ELSE "next"
             k == [Blank("Sync", NoCompany, u) EXCEPT !.list = list, !.role = role,
                      !.current = ActiveIds(u), !.promoted = HasPrimary(u)]
  <2>1. ActiveIds(u) \in SUBSET Ids /\ HasPrimary(u) \in BOOLEAN
    BY DEF ActiveIds, HasPrimary
  <2>2. k \in Call /\ k.op = "Sync" /\ k.user = u /\ k.list = list /\ k.pos = 1
    BY <1>1, <2>1 DEF Blank, Call
  <2>3. list \in Seq(Companies)
    BY ListsAssumption
  <2>4. l \in Labels /\ l \in {"drop", "next"}
    BY DEF Labels
  <2>5. l = "next" => 1 \in 1 .. Len(list)
    BY <2>3
  <2>6. Begin(a, l, k) /\ users' = users
    BY <1>7 DEF BeginSync
  <2> HIDE DEF l, k
  <2>7. Shape(l, k)
    BY <2>2, <2>4, <2>5 DEF Shape
  <2> QED BY <2>2, <2>4, <2>6, <2>7, BeginCalls
<1>8. ASSUME NEW u \in Users, NEW list \in Lists, BeginCreateUser(a, u, list) PROVE Calls'
  <2> DEFINE k == [Blank("CreateUser", NoCompany, u) EXCEPT !.list = list]
  <2>1. k \in Call /\ k.op = "CreateUser" /\ k.list = list /\ k.pos = 1
    BY DEF Blank, Call
  <2>2. list \in Seq(Companies) /\ list # <<>>
    BY <1>8, ListsAssumption DEF BeginCreateUser
  <2>3. 1 \in 1 .. Len(list)
    BY <2>2
  <2>4. Begin(a, "assign", k) /\ users' = users /\ "assign" \in Labels
    BY <1>8 DEF BeginCreateUser, Labels
  <2> HIDE DEF k
  <2>5. Shape("assign", k)
    BY <2>1, <2>3 DEF Shape
  <2> QED BY <2>1, <2>4, <2>5, BeginCalls
<1> QED BY <1>2, <1>3, <1>4, <1>5, <1>6, <1>7, <1>8 DEF Request

LEMMA ServingType ==
    ASSUME IInv, NEW a \in Admins, pc[a] # "idle"
    PROVE  /\ Serving(a) /\ call[a] \in Call /\ call[a].list \in Seq(Companies)
           /\ pc \in [Admins -> Labels] /\ call \in [Admins -> Call \cup {NoCall}]
<1>1. Serving(a) /\ pc \in [Admins -> Labels] /\ call \in [Admins -> Call \cup {NoCall}]
  BY DEF IInv, Calls
<1>2. call[a] \in Call
  BY <1>1 DEF Serving, Shape
<1>3. call[a].list \in Lists \cup {<<>>}
  BY <1>2 DEF Call
<1>4. <<>> \in Seq(Companies)
  OBVIOUS
<1>5. Lists \subseteq Seq(Companies)
  BY ListsAssumption
<1> QED BY <1>1, <1>2, <1>3, <1>4, <1>5

LEMMA AdvanceCalls ==
    ASSUME IInv, NEW a \in Admins, pc[a] \in {"insert", "set", "write", "next"},
           call[a].op = "Sync", NEW p \in BOOLEAN, Advance(a, p),
           users' = users, UNCHANGED <<alone, begun>>
    PROVE  Calls'
<1> DEFINE l == IF call[a].pos = Len(call[a].list) THEN "drop" ELSE "next"
           k == [call[a] EXCEPT !.pos = @ + 1, !.promoted = p, !.id = NoId, !.row = NoRow]
<1>1. /\ Serving(a) /\ call[a] \in Call /\ call[a].list \in Seq(Companies)
      /\ call \in [Admins -> Call \cup {NoCall}]
  BY ServingType
<1>2. call[a].pos \in 1 .. Len(call[a].list)
  BY <1>1 DEF Serving, Shape
<1>3. /\ k \in Call /\ k.op = "Sync" /\ k.user = call[a].user
      /\ k.list = call[a].list /\ k.pos = call[a].pos + 1
  <2>1. call[a].pos \in Nat
    BY <1>1 DEF Call
  <2>2. call[a].pos + 1 \in Nat
    BY <2>1
  <2> QED BY <1>1, <2>2 DEF Call
<1>4. l = "drop" \/ (l = "next" /\ k.pos \in 1 .. Len(k.list))
  BY <1>1, <1>2, <1>3
<1>5. pc' = [pc EXCEPT ![a] = l] /\ call' = [call EXCEPT ![a] = k]
  BY <1>1 DEF Advance, Goto
<1>6. call[a].user \in users
  BY <1>1 DEF Serving
<1> HIDE DEF l, k
<1>7. Shape(l, k) /\ l \in Labels
  BY <1>3, <1>4 DEF Shape, Labels
<1>8. Moves(a, l, k)
  BY <1>3, <1>5, <1>6, <1>7 DEF Moves
<1> QED BY <1>8, GotoCalls

LEMMA PromoteCalls ==
    ASSUME IInv, NEW a \in Admins, pc[a] \in {"write", "next"},
           call[a].op = "Sync", Promote(a), users' = users, UNCHANGED <<alone, begun>>
    PROVE  Calls'
<1>1. CASE call[a].promoted
  BY <1>1, AdvanceCalls DEF Promote
<1>2. CASE ~call[a].promoted
  <2> DEFINE k == [call[a] EXCEPT !.id = NoId, !.row = NoRow]
  <2>1. /\ Serving(a) /\ call[a] \in Call
        /\ call \in [Admins -> Call \cup {NoCall}]
    BY ServingType
  <2>2. call[a].pos \in 1 .. Len(call[a].list) /\ call[a].user \in users
    BY <2>1 DEF Serving, Shape
  <2>3. /\ k \in Call /\ k.op = "Sync" /\ k.user = call[a].user
        /\ k.list = call[a].list /\ k.pos = call[a].pos
    BY <2>1 DEF Call
  <2>4. pc' = [pc EXCEPT ![a] = "unset"] /\ call' = [call EXCEPT ![a] = k]
    BY <1>2, <2>1 DEF Promote, Goto
  <2> HIDE DEF k
  <2>5. Shape("unset", k) /\ "unset" \in Labels
    BY <2>2, <2>3 DEF Shape, Labels
  <2>6. Moves(a, "unset", k)
    BY <2>2, <2>3, <2>4, <2>5 DEF Moves
  <2> QED BY <2>6, GotoCalls
<1> QED BY <1>1, <1>2

\* The statement ends the call or is followed by another of the same request.
LEMMA StayCalls ==
    ASSUME IInv, NEW a \in Admins, NEW l \in Labels, pc[a] # "idle", l # "idle",
           pc' = [pc EXCEPT ![a] = l], call' = call, users \subseteq users',
           Shape(l, call[a]), UNCHANGED <<alone, begun>>
    PROVE  Calls'
<1>1. call' = [call EXCEPT ![a] = call[a]]
  BY ServingType
<1>2. call[a].op # "CreateUser" => call[a].user \in users
  BY ServingType DEF Serving
<1> QED BY <1>1, <1>2, GotoCalls DEF Moves

LEMMA StatementCalls ==
    ASSUME IInv, NEW a \in Admins, Statement(a)
    PROVE  Calls'
<1> USE DEF Labels
<1>0. mem \in [Ids -> Row \cup {NoRow}] /\ comp \in [Companies -> Company]
  BY DEF IInv, Tables
<1>1. ASSUME GetPrimary(a) PROVE Calls'
  <2>1. PICK found \in BOOLEAN : call' = [call EXCEPT ![a].promoted = found]
    BY <1>1 DEF GetPrimary, HasPrimary
  <2> DEFINE k == [call[a] EXCEPT !.promoted = found]
  <2>2. Serving(a) /\ call[a] \in Call /\ call \in [Admins -> Call \cup {NoCall}]
    BY <1>1, ServingType DEF GetPrimary
  <2>3. call' = [call EXCEPT ![a] = k]
    BY <2>1, <2>2
  <2>4. k \in Call /\ k.op = call[a].op /\ k.user = call[a].user /\ k.company = call[a].company
    BY <2>2 DEF Call
  <2>5. call[a].op \notin {"Sync", "CreateUser"} /\ call[a].user \in users
        /\ call[a].company \in Companies
    BY <1>1, <2>2 DEF GetPrimary, Serving, Shape
  <2> HIDE DEF k
  <2>6. Moves(a, "insert", k)
    BY <1>1, <2>3, <2>4, <2>5 DEF Moves, Shape, GetPrimary, Goto
  <2> QED BY <1>1, <2>6, GotoCalls DEF GetPrimary
<1>2. ASSUME Exists(a) PROVE Calls'
  <2>1. CASE Return(a)
    BY <2>1, ReturnCalls
  <2>2. ASSUME NEW l \in {"writeCompany", "insert"}, Goto(a, l),
               UNCHANGED <<users, comp, mem, call, alone, begun>>
        PROVE Calls'
    <3>1. Serving(a) /\ pc[a] = "exists"
      BY <1>2, ServingType DEF Exists
    <3>2. Shape(l, call[a])
      BY <3>1 DEF Serving, Shape
    <3> QED BY <2>2, <3>1, <3>2, StayCalls DEF Goto
  <2> QED BY <1>2, <2>1, <2>2 DEF Exists
<1>3. ASSUME InsertMember(a) PROVE Calls'
  <2>1. Serving(a) /\ pc[a] = "insert" /\ users' = users /\ UNCHANGED <<alone, begun>>
    BY <1>3, ServingType DEF InsertMember
  <2>2. CASE call[a].op = "Sync"
    BY <1>3, <2>1, <2>2, AdvanceCalls DEF InsertMember
  <2>3. CASE call[a].op # "Sync"
    <3> DEFINE l == IF call[a].op = "Update" THEN "writeCompany" ELSE "done"
    <3>1. Goto(a, l) /\ call' = call
      BY <1>3, <2>3 DEF InsertMember
    <3>2. Shape(l, call[a])
      BY <2>1, <2>3 DEF Serving, Shape
    <3> QED BY <2>1, <3>1, <3>2, StayCalls DEF Goto
  <2> QED BY <2>2, <2>3
<1>4. ASSUME InsertRefused(a) PROVE Calls'
  <2>1. CASE call[a].op # "Create"
    BY <1>4, <2>1, ReturnCalls DEF InsertRefused
  <2>2. CASE call[a].op = "Create"
    <3>1. Serving(a) /\ pc[a] = "insert"
      BY <1>4, ServingType DEF InsertRefused
    <3>2. Shape("done", call[a])
      BY <2>2, <3>1 DEF Serving, Shape
    <3> QED BY <1>4, <2>2, <3>1, <3>2, StayCalls DEF InsertRefused, Goto
  <2> QED BY <2>1, <2>2
<1>5. ASSUME WriteCompany(a) PROVE Calls'
  <2>1. Serving(a) /\ pc[a] = "writeCompany"
    BY <1>5, ServingType DEF WriteCompany
  <2>2. Shape("done", call[a])
    BY <2>1 DEF Serving, Shape
  <2> QED BY <1>5, <2>1, <2>2, StayCalls DEF WriteCompany, Goto
<1>6. ASSUME CheckOwner(a) PROVE Calls'
  <2>1. CASE OwnerOf(call[a].company) = call[a].user
    BY <1>6, <2>1, ReturnCalls DEF CheckOwner
  <2>2. CASE OwnerOf(call[a].company) # call[a].user
    <3> DEFINE l == IF call[a].primary THEN "unset" ELSE "write"
               k == [call[a] EXCEPT !.owner = OwnerOf(call[a].company)]
    <3>1. Serving(a) /\ call[a] \in Call /\ call \in [Admins -> Call \cup {NoCall}]
          /\ pc[a] = "checkOwner"
      BY <1>6, ServingType DEF CheckOwner
    <3>2. call[a].company \in Companies /\ call[a].user \in users
          /\ call[a].op \notin {"Sync", "CreateUser"}
      BY <3>1 DEF Serving, Shape
    <3>3. OwnerOf(call[a].company) \in Users \cup {NoUser}
      BY <1>0, <3>2 DEF OwnerOf, Company
    <3>4. k \in Call /\ k.op = call[a].op /\ k.user = call[a].user
          /\ k.company = call[a].company /\ k.id = call[a].id /\ k.row = call[a].row
      BY <3>1, <3>3 DEF Call
    <3>5. call[a].op = "UpdateUser" /\ call[a].id \in Ids /\ call[a].row \in Row
      BY <3>1, <3>2 DEF Serving, Shape
    <3>6. pc' = [pc EXCEPT ![a] = l] /\ call' = [call EXCEPT ![a] = k]
      BY <1>6, <2>2, <3>1 DEF CheckOwner, Goto
    <3>7. l \in {"unset", "write"}
      OBVIOUS
    <3> HIDE DEF l, k
    <3>8. Moves(a, l, k)
      BY <3>2, <3>4, <3>5, <3>6, <3>7 DEF Moves, Shape
    <3> QED BY <1>6, <2>2, <3>8, GotoCalls DEF CheckOwner
  <2> QED BY <2>1, <2>2

<1>7. ASSUME Unset(a) PROVE Calls'
  <2>1. Serving(a) /\ pc[a] = "unset"
    BY <1>7, ServingType DEF Unset
  <2>2. Shape("set", call[a])
    BY <2>1 DEF Serving, Shape
  <2> QED BY <1>7, <2>1, <2>2, StayCalls DEF Unset, Goto
<1>8. ASSUME SetPrimary(a) PROVE Calls'
  <2>1. Serving(a) /\ pc[a] = "set"
    BY <1>8, ServingType DEF SetPrimary
  <2>2. CASE ~Unique(Marked(a))
    BY <1>8, <2>2, ReturnCalls DEF SetPrimary
  <2>3. CASE Unique(Marked(a)) /\ call[a].op = "Sync"
    BY <1>8, <2>1, <2>3, AdvanceCalls DEF SetPrimary
  <2>4. CASE Unique(Marked(a)) /\ call[a].op # "Sync"
    <3>1. Shape("write", call[a])
      BY <2>1, <2>4 DEF Serving, Shape
    <3> QED BY <1>8, <2>1, <2>4, <3>1, StayCalls DEF SetPrimary, Goto
  <2> QED BY <2>2, <2>3, <2>4
<1>9. ASSUME WriteMember(a) PROVE Calls'
  <2>1. Serving(a) /\ pc[a] = "write"
    BY <1>9, ServingType DEF WriteMember
  <2>2. CASE ~Unique(Rewritten(a))
    BY <1>9, <2>2, ReturnCalls DEF WriteMember
  <2>3. CASE Unique(Rewritten(a)) /\ call[a].op = "Sync"
    BY <1>9, <2>1, <2>3, PromoteCalls DEF WriteMember
  <2>4. CASE Unique(Rewritten(a)) /\ call[a].op # "Sync"
    <3>1. Shape("done", call[a])
      BY <2>1, <2>4 DEF Serving, Shape
    <3> QED BY <1>9, <2>1, <2>4, <3>1, StayCalls DEF WriteMember, Goto
  <2> QED BY <2>2, <2>3, <2>4
<1>10. ASSUME FindMember(a) PROVE Calls'
  <2>1. Serving(a) /\ pc[a] = "findMember" /\ call[a] \in Call
        /\ call \in [Admins -> Call \cup {NoCall}]
    BY <1>10, ServingType DEF FindMember
  <2>2. CASE Return(a)
    BY <2>2, ReturnCalls
  <2>3. CASE ~Return(a)
    <3>1. PICK i \in Ids : call' = [call EXCEPT ![a].id = i]
      BY <1>10, <2>3 DEF FindMember, MembershipIds
    <3> DEFINE k == [call[a] EXCEPT !.id = i]
    <3>2. /\ k \in Call /\ k.op = call[a].op /\ k.user = call[a].user
          /\ k.company = call[a].company /\ k.id = i
      BY <2>1 DEF Call
    <3>3. call[a].op = "RemoveUser" /\ call[a].company \in Companies /\ call[a].user \in users
      BY <2>1 DEF Serving, Shape
    <3>4. call' = [call EXCEPT ![a] = k] /\ pc' = [pc EXCEPT ![a] = "softDelete"]
      BY <1>10, <2>1, <2>3, <3>1 DEF FindMember, Goto
    <3> HIDE DEF k
    <3>5. Moves(a, "softDelete", k)
      BY <3>2, <3>3, <3>4 DEF Moves, Shape
    <3> QED BY <1>10, <2>3, <3>5, GotoCalls DEF FindMember
  <2> QED BY <2>2, <2>3
<1>11. ASSUME SoftDelete(a) PROVE Calls'
  <2> DEFINE l == IF call[a].op = "Sync" THEN "drop" ELSE "done"
  <2>1. Serving(a) /\ pc[a] = "softDelete"
    BY <1>11, ServingType DEF SoftDelete
  <2>2. Shape(l, call[a])
    BY <2>1 DEF Serving, Shape
  <2> QED BY <1>11, <2>1, <2>2, StayCalls DEF SoftDelete, Goto
<1>12. ASSUME SyncNext(a) PROVE Calls'
  <2>1. /\ Serving(a) /\ pc[a] = "next" /\ call[a] \in Call
        /\ call \in [Admins -> Call \cup {NoCall}]
    BY <1>12, ServingType DEF SyncNext
  <2>2. call[a].op = "Sync" /\ call[a].user \in users
        /\ call[a].pos \in 1 .. Len(call[a].list)
    BY <2>1 DEF Serving, Shape
  <2>3. CASE Return(a)
    BY <2>3, ReturnCalls
  <2>4. CASE Promote(a) /\ UNCHANGED <<users, alone, begun>>
    BY <2>1, <2>2, <2>4, PromoteCalls
  <2>5. CASE Goto(a, "insert") /\ UNCHANGED <<users, call, alone, begun>>
    <3>1. Shape("insert", call[a])
      BY <2>1, <2>2 DEF Serving, Shape
    <3> QED BY <2>1, <2>5, <3>1, StayCalls DEF Goto
  <2>6. ASSUME NEW i \in call[a].current, Held(mem, i), Goto(a, "write"),
               call' = [call EXCEPT ![a].id = i, ![a].row = mem[i]],
               UNCHANGED <<users, alone, begun>>
        PROVE  Calls'
    <3> DEFINE k == [call[a] EXCEPT !.id = i, !.row = mem[i]]
    <3>1. i \in Ids /\ mem[i] \in Row
      BY <1>0, <2>1, <2>6 DEF Call, Held
    <3>2. /\ k \in Call /\ k.op = "Sync" /\ k.user = call[a].user
          /\ k.list = call[a].list /\ k.pos = call[a].pos /\ k.id = i /\ k.row = mem[i]
      BY <2>1, <2>2, <3>1 DEF Call
    <3>3. call' = [call EXCEPT ![a] = k]
      BY <2>1, <2>6
    <3> HIDE DEF k
    <3>4. Moves(a, "write", k)
      BY <2>2, <2>6, <3>1, <3>2, <3>3 DEF Moves, Shape, Goto
    <3> QED BY <2>6, <3>4, GotoCalls
  <2> QED BY <1>12, <2>3, <2>4, <2>5, <2>6 DEF SyncNext
<1>13. ASSUME SyncDrop(a) PROVE Calls'
  <2>1. /\ Serving(a) /\ pc[a] = "drop" /\ call[a] \in Call
        /\ call \in [Admins -> Call \cup {NoCall}]
    BY <1>13, ServingType DEF SyncDrop
  <2>2. call[a].op = "Sync" /\ call[a].user \in users
    BY <2>1 DEF Serving, Shape
  <2>3. CASE Goto(a, "done") /\ call' = call
    <3>1. Shape("done", call[a])
      BY <2>1, <2>2 DEF Serving, Shape
    <3> QED BY <1>13, <2>1, <2>3, <3>1, StayCalls DEF Goto, SyncDrop
  <2>4. ASSUME NEW i \in call[a].current, NEW l \in {"drop", "softDelete"}, Goto(a, l),
               OwnerOf(mem[i].company) \in Users \cup {NoUser},
               call' = [call EXCEPT ![a].current = @ \ {i}, ![a].id = i,
                                    ![a].owner = OwnerOf(mem[i].company)]
        PROVE  Calls'
    <3> DEFINE k == [call[a] EXCEPT !.current = @ \ {i}, !.id = i,
                                    !.owner = OwnerOf(mem[i].company)]
    <3>1. i \in Ids
      BY <2>1 DEF Call
    <3>2. k \in Call /\ k.op = "Sync" /\ k.user = call[a].user /\ k.id = i
      BY <2>1, <2>2, <2>4, <3>1 DEF Call
    <3>3. call' = [call EXCEPT ![a] = k]
      BY <2>1, <2>4
    <3> HIDE DEF k
    <3>4. Moves(a, l, k)
      BY <2>2, <2>4, <3>1, <3>2, <3>3 DEF Moves, Shape, Goto
    <3> QED BY <1>13, <3>4, GotoCalls DEF SyncDrop
  <2>5. ASSUME NEW i \in call[a].current
        PROVE  OwnerOf(mem[i].company) \in Users \cup {NoUser}
    <3>1. mem[i] \in Row
      BY <2>1, <2>2 DEF IInv, Reads, ReadSync
    <3>2. comp[mem[i].company] \in Company
      BY <1>0, <3>1 DEF Row
    <3> QED BY <3>2 DEF OwnerOf, Company
  <2> QED BY <1>13, <2>3, <2>4, <2>5 DEF SyncDrop
<1>14. ASSUME Assign(a) PROVE Calls'
  <2>1. /\ Serving(a) /\ pc[a] = "assign" /\ call[a] \in Call
        /\ call \in [Admins -> Call \cup {NoCall}]
        /\ call[a].list \in Seq(Companies)
    BY <1>14, ServingType DEF Assign
  <2>2. call[a].op = "CreateUser" /\ call[a].pos \in 1 .. Len(call[a].list)
    BY <2>1 DEF Serving, Shape
  <2>3. CASE Return(a)
    BY <2>3, ReturnCalls
  <2>4. CASE ~Return(a)
    <3> DEFINE l == IF call[a].pos = Len(call[a].list) THEN "commit" ELSE "assign"
               k == [call[a] EXCEPT !.pos = @ + 1]
    <3>1. /\ k \in Call /\ k.op = "CreateUser" /\ k.list = call[a].list
          /\ k.pos = call[a].pos + 1
      <4>1. call[a].pos \in Nat
        BY <2>1 DEF Call
      <4>2. call[a].pos + 1 \in Nat
        BY <4>1
      <4> QED BY <2>1, <2>2, <4>2 DEF Call
    <3>2. l = "commit" \/ (l = "assign" /\ k.pos \in 1 .. Len(k.list))
      BY <2>1, <2>2, <3>1
    <3>3. pc' = [pc EXCEPT ![a] = l] /\ call' = [call EXCEPT ![a] = k]
      BY <1>14, <2>1, <2>4 DEF Assign, Goto
    <3> HIDE DEF l, k
    <3>4. Moves(a, l, k)
      BY <3>1, <3>2, <3>3 DEF Moves, Shape
    <3> QED BY <1>14, <2>4, <3>4, GotoCalls DEF Assign
  <2> QED BY <2>3, <2>4
<1>15. ASSUME CommitUser(a) PROVE Calls'
  <2>1. Serving(a) /\ pc[a] = "commit"
    BY <1>15, ServingType DEF CommitUser
  <2>2. CASE Return(a)
    BY <2>2, ReturnCalls
  <2>3. CASE ~Return(a)
    <3>1. Shape("done", call[a])
      BY <2>1 DEF Serving, Shape
    <3>2. users \subseteq users' /\ Goto(a, "done") /\ UNCHANGED <<call, alone, begun>>
      BY <1>15, <2>3 DEF CommitUser
    <3> QED BY <2>1, <3>1, <3>2, StayCalls DEF Goto
  <2> QED BY <2>2, <2>3
<1>16. ASSUME Fail(a) \/ Answer(a) PROVE Calls'
  BY <1>16, ReturnCalls DEF Fail, Answer
<1> QED BY <1>1, <1>2, <1>3, <1>4, <1>5, <1>6, <1>7, <1>8, <1>9, <1>10, <1>11, <1>12,
           <1>13, <1>14, <1>15, <1>16 DEF Statement

-----------------------------------------------------------------------------
(* What a step leaves of the rows. *)

\* Rows stay rows of the same company and user.
RowsKept ==
    \A i \in Ids : mem[i] \in Row =>
        /\ mem'[i] \in Row
        /\ mem'[i].company = mem[i].company /\ mem'[i].user = mem[i].user

\* Nobody is removed, deactivated or activated.
StatusKept ==
    \A i \in Ids : mem[i] \in Row =>
        mem'[i].active = mem[i].active /\ mem'[i].deleted = mem[i].deleted

LEMMA UnchangedKept ==
    ASSUME mem' = mem PROVE RowsKept /\ StatusKept
BY DEF RowsKept, StatusKept

LEMMA InsertKept ==
    ASSUME IInv, NEW a \in Admins, InsertMember(a)
    PROVE  RowsKept /\ StatusKept
<1>1. PICK i \in Ids : mem[i] = NoRow /\ mem' = [mem EXCEPT ![i] = MemberRow(a)]
  BY DEF InsertMember, Insert, Commit
<1>2. mem \in [Ids -> Row \cup {NoRow}]
  BY DEF IInv, Tables
<1>3. \A j \in Ids : mem[j] \in Row => mem'[j] = mem[j]
  BY <1>1, <1>2, NoRowAssumption
<1> QED BY <1>3 DEF RowsKept, StatusKept

LEMMA MarkKept ==
    ASSUME NEW p \in BOOLEAN,
           \A i \in Ids : mem'[i] = mem[i] \/ mem'[i] = [mem[i] EXCEPT !.primary = p]
    PROVE  RowsKept /\ StatusKept
BY DEF RowsKept, StatusKept, Row

LEMMA CommitUserKept ==
    ASSUME IInv, NEW a \in Admins, CommitUser(a)
    PROVE  RowsKept /\ StatusKept
<1>1. PICK id \in FreshIds(call[a].list) : mem' = mem \/ mem' = Assigned(a, id)
  BY DEF CommitUser, Return
<1>2. CASE mem' = mem
  BY <1>2, UnchangedKept
<1>3. CASE mem' = Assigned(a, id)
  <2>1. \A n \in DOMAIN id : mem[id[n]] = NoRow
    BY DEF FreshIds
  <2>2. \A i \in Ids : mem[i] \in Row => mem'[i] = mem[i]
    BY <1>3, <2>1, NoRowAssumption DEF Assigned
  <2> QED BY <2>2 DEF RowsKept, StatusKept
<1> QED BY <1>1, <1>2, <1>3

LEMMA WriteMemberKept ==
    ASSUME IInv, NEW a \in Admins, WriteMember(a)
    PROVE  RowsKept
<1>1. mem' = mem \/ mem' = Rewritten(a)
  BY DEF WriteMember, Return
<1>2. pc[a] = "write"
  BY DEF WriteMember
<1> SUFFICES ASSUME NEW i \in Ids, mem[i] \in Row
             PROVE  /\ mem'[i] \in Row
                    /\ mem'[i].company = mem[i].company /\ mem'[i].user = mem[i].user
  BY DEF RowsKept
<1>3. \/ Rewritten(a)[i] = mem[i]
      \/ /\ Rewritten(a)[i] \in Row /\ Rewritten(a)[i].company = mem[i].company
         /\ Rewritten(a)[i].user = mem[i].user
  BY <1>2, RewrittenRows
<1> QED BY <1>1, <1>3

LEMMA SoftDeleteKept ==
    ASSUME IInv, NEW a \in Admins, SoftDelete(a)
    PROVE  RowsKept
<1>1. mem \in [Ids -> Row \cup {NoRow}] /\ call[a].id \in Ids
  BY DEF SoftDelete, IInv, Calls, Serving, Shape, Tables
<1>2. \A i \in Ids : mem'[i] = mem[i] \/ mem'[i] = [mem[i] EXCEPT !.deleted = TRUE]
  BY <1>1 DEF SoftDelete, Removed
<1> SUFFICES ASSUME NEW i \in Ids, mem[i] \in Row
             PROVE  /\ mem'[i] \in Row
                    /\ mem'[i].company = mem[i].company /\ mem'[i].user = mem[i].user
  BY DEF RowsKept
<1>3. [mem[i] EXCEPT !.deleted = TRUE] \in Row
  BY DEF Row
<1> QED BY <1>2, <1>3 DEF Row

LEMMA StatementKept ==
    ASSUME IInv, NEW a \in Admins, Statement(a)
    PROVE  RowsKept /\ (WriteMember(a) \/ SoftDelete(a) \/ StatusKept)
<1>1. CASE InsertMember(a)
  BY <1>1, InsertKept
<1>2. CASE Unset(a)
  <2>1. \A i \in Ids : mem'[i] = mem[i] \/ mem'[i] = [mem[i] EXCEPT !.primary = FALSE]
    BY <1>2 DEF Unset
  <2> QED BY <2>1, MarkKept
<1>3. CASE SetPrimary(a)
  <2>1. \A i \in Ids : mem'[i] = mem[i] \/ mem'[i] = [mem[i] EXCEPT !.primary = TRUE]
    BY <1>3 DEF SetPrimary, Marked, Return
  <2> QED BY <2>1, MarkKept
<1>4. CASE WriteMember(a)
  BY <1>4, WriteMemberKept
<1>5. CASE SoftDelete(a)
  BY <1>5, SoftDeleteKept
<1>6. CASE CommitUser(a)
  BY <1>6, CommitUserKept
<1>7. CASE mem' = mem
  BY <1>7, UnchangedKept
<1> QED BY <1>1, <1>2, <1>3, <1>4, <1>5, <1>6, <1>7
        DEF Statement, GetPrimary, Exists, InsertRefused, WriteCompany, CheckOwner, FindMember,
            SyncNext, SyncDrop, Assign, Fail, Answer, Return

LEMMA RequestKept ==
    ASSUME NEW a \in Admins, Request(a)
    PROVE  mem' = mem
BY DEF Request, BeginCreate, BeginUpdate, BeginAddUser, BeginRemoveUser, BeginUpdateUser,
       BeginSync, BeginCreateUser

-----------------------------------------------------------------------------
(* The calls of the others. *)

\* A step of a begins a call, ends it, or executes a statement of it.
Executes(a) ==
    /\ pc[a] \notin {"idle", "done"} /\ pc'[a] # "idle" /\ alone' = alone
    /\ \A b \in Admins \ {a} : pc'[b] = pc[b] /\ call'[b] = call[b]

Begins(a) ==
    /\ pc[a] = "idle" /\ pc'[a] # "idle"
    /\ alone' = [b \in Admins |-> b = a /\ \A d \in Admins \ {a} : pc[d] \in {"idle", "done"}]
    /\ \A b \in Admins \ {a} : pc'[b] = pc[b] /\ call'[b] = call[b]

LEMMA AdvanceExecutes ==
    ASSUME IInv, NEW a \in Admins, pc[a] \notin {"idle", "done"}, alone' = alone,
           NEW p, Advance(a, p)
    PROVE  Executes(a) /\ pc'[a] \in {"drop", "next"}
BY ServingType DEF Advance, Goto, Executes

LEMMA PromoteExecutes ==
    ASSUME IInv, NEW a \in Admins, pc[a] \notin {"idle", "done"}, alone' = alone, Promote(a)
    PROVE  Executes(a) /\ pc'[a] \in {"drop", "next", "unset"}
<1>1. CASE call[a].promoted
  BY <1>1, AdvanceExecutes DEF Promote
<1>2. CASE ~call[a].promoted
  BY <1>2, ServingType DEF Promote, Goto, Executes
<1> QED BY <1>1, <1>2

LEMMA StatementExecutes ==
    ASSUME IInv, NEW a \in Admins, Statement(a), ~Return(a)
    PROVE  Executes(a)
<1>0. pc[a] # "idle" => pc \in [Admins -> Labels] /\ call \in [Admins -> Call \cup {NoCall}]
  BY ServingType
<1>1. CASE GetPrimary(a) \/ Exists(a) \/ InsertRefused(a) \/ WriteCompany(a)
  BY <1>0, <1>1 DEF GetPrimary, Exists, InsertRefused, WriteCompany, Goto, Executes
<1>2. CASE CheckOwner(a) \/ Unset(a) \/ FindMember(a) \/ SoftDelete(a)
  BY <1>0, <1>2 DEF CheckOwner, Unset, FindMember, SoftDelete, Goto, Executes
<1>3. CASE InsertMember(a)
  <2>1. CASE call[a].op = "Sync"
    BY <1>3, <2>1, AdvanceExecutes DEF InsertMember
  <2>2. CASE call[a].op # "Sync"
    BY <1>0, <1>3, <2>2 DEF InsertMember, Goto, Executes
  <2> QED BY <2>1, <2>2
<1>4. CASE SetPrimary(a)
  <2>1. CASE call[a].op = "Sync"
    BY <1>4, <2>1, AdvanceExecutes DEF SetPrimary
  <2>2. CASE call[a].op # "Sync"
    BY <1>0, <1>4, <2>2 DEF SetPrimary, Goto, Executes
  <2> QED BY <2>1, <2>2
<1>5. CASE WriteMember(a)
  <2>1. CASE call[a].op = "Sync"
    BY <1>5, <2>1, PromoteExecutes DEF WriteMember
  <2>2. CASE call[a].op # "Sync"
    BY <1>0, <1>5, <2>2 DEF WriteMember, Goto, Executes
  <2> QED BY <2>1, <2>2
<1>6. CASE SyncNext(a)
  <2>1. CASE Promote(a) /\ alone' = alone
    BY <1>6, <2>1, PromoteExecutes DEF SyncNext
  <2>2. CASE ~(Promote(a) /\ alone' = alone)
    BY <1>0, <1>6, <2>2 DEF SyncNext, Goto, Executes
  <2> QED BY <2>1, <2>2
<1>7. CASE SyncDrop(a) \/ Assign(a) \/ CommitUser(a)
  BY <1>0, <1>7 DEF SyncDrop, Assign, CommitUser, Goto, Executes
<1> QED BY <1>1, <1>2, <1>3, <1>4, <1>5, <1>6, <1>7 DEF Statement, Fail, Answer

LEMMA BeginBegins ==
    ASSUME IInv, NEW a \in Admins, NEW l, NEW k, Begin(a, l, k), l # "idle"
    PROVE  Begins(a)
BY DEF IInv, Calls, Begin, Begins

LEMMA RequestBegins ==
    ASSUME IInv, NEW a \in Admins, Request(a)
    PROVE  Begins(a)
<1>1. ASSUME NEW c \in Companies, NEW u \in users,
             \/ BeginCreate(a, c, u) \/ BeginUpdate(a, c, u)
             \/ BeginAddUser(a, c, u) \/ BeginRemoveUser(a, c, u)
      PROVE  Begins(a)
  BY <1>1, BeginBegins DEF BeginCreate, BeginUpdate, BeginAddUser, BeginRemoveUser
<1>2. ASSUME NEW c \in Companies, NEW u \in users, NEW act \in {"keep", "on", "off"},
             NEW pr \in BOOLEAN, BeginUpdateUser(a, c, u, act, pr)
      PROVE  Begins(a)
  <2> DEFINE l == CASE act = "off" -> "checkOwner"
                    [] act # "off" /\ pr -> "unset"
                    [] OTHER -> "write"
  <2>1. l # "idle" /\ \E k : Begin(a, l, k)
    BY <1>2 DEF BeginUpdateUser
  <2> HIDE DEF l
  <2> QED BY <2>1, BeginBegins
<1>3. ASSUME NEW u \in users, NEW list \in Lists, NEW role \in BOOLEAN,
             BeginSync(a, u, list, role)
      PROVE  Begins(a)
  <2> DEFINE l == IF list = <<>> THEN "drop" ELSE "next"
  <2>1. l # "idle" /\ \E k : Begin(a, l, k)
    BY <1>3 DEF BeginSync
  <2> HIDE DEF l
  <2> QED BY <2>1, BeginBegins
<1>4. ASSUME NEW u \in Users, NEW list \in Lists, BeginCreateUser(a, u, list)
      PROVE  Begins(a)
  BY <1>4, BeginBegins DEF BeginCreateUser
<1> QED BY <1>1, <1>2, <1>3, <1>4 DEF Request

\* While a call is alone, the others begin nothing but end what is done.
LEMMA OthersQuiet ==
    ASSUME IInv, NEW a \in Admins, Request(a) \/ Statement(a),
           NEW b \in Admins, b # a
    PROVE  /\ pc'[b] = pc[b] /\ call'[b] = call[b]
           /\ alone'[b] => alone[b] /\ mem' = mem /\ comp' = comp
<1>1. CASE Request(a)
  <2>1. Begins(a)
    BY <1>1, RequestBegins
  <2> QED BY <2>1 DEF Begins
<1>2. CASE Statement(a) /\ Return(a)
  BY <1>2 DEF Return, IInv, Calls
<1>3. CASE Statement(a) /\ ~Return(a)
  <2>1. Executes(a)
    BY <1>3, StatementExecutes
  <2>2. ~alone[b]
    BY <2>1 DEF Executes, IInv, Reads
  <2> QED BY <2>1, <2>2 DEF Executes
<1> QED BY <1>1, <1>2, <1>3

LEMMA AloneMeans ==
    ASSUME IInv, NEW a \in Admins, Request(a) \/ Statement(a)
    PROVE  \A b \in Admins : alone'[b] =>
              pc'[b] # "idle" /\ \A d \in Admins \ {b} : pc'[d] \in {"idle", "done"}
<1>1. CASE Request(a)
  <2>1. Begins(a)
    BY <1>1, RequestBegins
  <2> QED BY <2>1 DEF Begins
<1>2. CASE Statement(a) /\ Return(a)
  BY <1>2 DEF Return, IInv, Calls, Reads
<1>3. CASE Statement(a) /\ ~Return(a)
  <2>1. Executes(a)
    BY <1>3, StatementExecutes
  <2> QED BY <2>1 DEF Executes, IInv, Reads
<1> QED BY <1>1, <1>2, <1>3

LEMMA OtherReads ==
    ASSUME IInv, RowsKept, NEW b \in Admins, pc[b] # "idle",
           pc'[b] = pc[b] /\ call'[b] = call[b],
           alone'[b] => alone[b] /\ mem' = mem /\ comp' = comp
    PROVE  ReadSync(b)' /\ ReadRemove(b)' /\ ReadUpdate(b)'
<1>1. Serving(b) /\ call[b] \in Call
  BY ServingType
<1>2. ReadSync(b) /\ ReadRemove(b) /\ ReadUpdate(b)
  BY DEF IInv, Reads
<1>3. call[b].current \subseteq Ids
  BY <1>1 DEF Call
<1>4. /\ pc[b] \in {"softDelete", "write"} => call[b].id \in Ids
      /\ call[b].op = "UpdateUser" /\ pc[b] \in {"checkOwner", "unset", "set"}
            => call[b].id \in Ids
  BY <1>1 DEF Serving, Shape
<1>5. CASE alone'[b]
  <2>1. alone[b] /\ mem' = mem /\ comp' = comp /\ alone'[b] = alone[b]
    BY <1>5 DEF IInv, Calls
  <2>2. \A c : OwnerOf(c)' = OwnerOf(c)
    BY <2>1 DEF OwnerOf, Live
  <2>3. ReadSync(b)'
    BY <1>2, <1>5, <2>1, <2>2 DEF ReadSync
  <2>4. ReadRemove(b)'
    BY <1>2, <1>5, <2>1, <2>2 DEF ReadRemove
  <2>5. ReadUpdate(b)'
    BY <1>2, <1>5, <2>1, <2>2 DEF ReadUpdate
  <2> QED BY <2>3, <2>4, <2>5
<1>6. CASE ~alone'[b]
  <2> DEFINE m == call[b].id
  <2>1. ASSUME NEW i \in Ids, mem[i] \in Row
        PROVE  mem'[i] \in Row /\ mem'[i].company = mem[i].company /\ mem'[i].user = mem[i].user
    BY <2>1 DEF RowsKept
  <2>2. m \in Ids /\ mem[m] \in Row =>
           mem'[m] \in Row /\ mem'[m].company = mem[m].company /\ mem'[m].user = mem[m].user
    BY <2>1
  <2>3. ReadSync(b)'
    <3> SUFFICES ASSUME call[b].op = "Sync"
                 PROVE  /\ call[b].active = "keep"
                        /\ \A i \in call[b].current : mem'[i] \in Row /\ mem'[i].user = call[b].user
                        /\ pc[b] = "softDelete" =>
                              mem'[m] \in Row /\ mem'[m].user = call[b].user
      BY <1>6 DEF ReadSync
    <3>1. ASSUME NEW i \in call[b].current PROVE mem'[i] \in Row /\ mem'[i].user = call[b].user
      <4>1. i \in Ids /\ mem[i] \in Row /\ mem[i].user = call[b].user
        BY <1>2, <1>3 DEF ReadSync
      <4> QED BY <2>1, <4>1
    <3>2. pc[b] = "softDelete" => m \in Ids /\ mem[m] \in Row /\ mem[m].user = call[b].user
      BY <1>2, <1>4 DEF ReadSync
    <3>3. call[b].active = "keep"
      BY <1>2 DEF ReadSync
    <3> QED BY <2>2, <3>1, <3>2, <3>3
  <2>4. ReadRemove(b)'
    <3>1. call[b].op = "RemoveUser" /\ pc[b] = "softDelete" =>
             /\ m \in Ids /\ mem[m] \in Row
             /\ mem[m].company = call[b].company /\ mem[m].user = call[b].user
      BY <1>2, <1>4 DEF ReadRemove
    <3> QED BY <1>6, <2>2, <3>1 DEF ReadRemove
  <2>5. ReadUpdate(b)'
    <3>1. call[b].op = "UpdateUser" /\ pc[b] \in {"checkOwner", "unset", "set", "write"} =>
             /\ m \in Ids /\ mem[m] \in Row
             /\ mem[m].company = call[b].company /\ mem[m].user = call[b].user
      BY <1>2, <1>4 DEF ReadUpdate
    <3> QED BY <1>6, <2>2, <3>1 DEF ReadUpdate
  <2> QED BY <2>3, <2>4, <2>5
<1> QED BY <1>5, <1>6

-----------------------------------------------------------------------------
(* The call that takes a step. *)

LEMMA PlainReads ==
    ASSUME NEW a \in Admins, call'[a].op # "Sync",
           pc'[a] \notin {"findMember", "softDelete", "checkOwner", "unset", "set", "write"}
    PROVE  ReadSync(a)' /\ ReadRemove(a)' /\ ReadUpdate(a)'
BY DEF ReadSync, ReadRemove, ReadUpdate

LEMMA SyncReads ==
    ASSUME IInv, RowsKept, NEW a \in Admins, pc[a] # "idle", call[a].op = "Sync",
           call'[a].op = "Sync", call'[a].active = call[a].active,
           call'[a].user = call[a].user, call'[a].current \subseteq call[a].current,
           pc'[a] \notin {"softDelete", "write"}
    PROVE  ReadSync(a)' /\ ReadRemove(a)' /\ ReadUpdate(a)'
<1>1. call[a] \in Call
  BY ServingType
<1>2. call[a].current \subseteq Ids
  BY <1>1 DEF Call
<1>3. ReadSync(a)
  BY DEF IInv, Reads
<1>4. call'[a].active = "keep"
  BY <1>3 DEF ReadSync
<1>5. ASSUME NEW i \in call'[a].current PROVE mem'[i] \in Row /\ mem'[i].user = call'[a].user
  <2>1. i \in Ids /\ mem[i] \in Row /\ mem[i].user = call[a].user
    BY <1>2, <1>3 DEF ReadSync
  <2> QED BY <2>1 DEF RowsKept
<1> QED BY <1>4, <1>5 DEF ReadSync, ReadRemove, ReadUpdate

LEMMA AdvanceReads ==
    ASSUME IInv, RowsKept, NEW a \in Admins, pc[a] # "idle", call[a].op = "Sync",
           NEW p, Advance(a, p)
    PROVE  ReadSync(a)' /\ ReadRemove(a)' /\ ReadUpdate(a)'
<1>1. /\ call[a] \in Call /\ pc \in [Admins -> Labels]
      /\ call \in [Admins -> Call \cup {NoCall}]
  BY ServingType
<1>2. /\ pc'[a] \in {"drop", "next"}
      /\ call'[a] = [call[a] EXCEPT !.pos = @ + 1, !.promoted = p, !.id = NoId, !.row = NoRow]
  BY <1>1 DEF Advance, Goto
<1>3. /\ call'[a].op = call[a].op /\ call'[a].active = call[a].active
      /\ call'[a].user = call[a].user /\ call'[a].current = call[a].current
  BY <1>1, <1>2 DEF Call
<1> QED BY <1>2, <1>3, SyncReads

LEMMA PromoteReads ==
    ASSUME IInv, RowsKept, NEW a \in Admins, pc[a] # "idle", call[a].op = "Sync", Promote(a)
    PROVE  ReadSync(a)' /\ ReadRemove(a)' /\ ReadUpdate(a)'
<1>1. CASE call[a].promoted
  BY <1>1, AdvanceReads DEF Promote
<1>2. CASE ~call[a].promoted
  <2>1. /\ call[a] \in Call /\ pc \in [Admins -> Labels]
        /\ call \in [Admins -> Call \cup {NoCall}]
    BY ServingType
  <2>2. pc'[a] = "unset" /\ call'[a] = [call[a] EXCEPT !.id = NoId, !.row = NoRow]
    BY <1>2, <2>1 DEF Promote, Goto
  <2>3. /\ call'[a].op = call[a].op /\ call'[a].active = call[a].active
        /\ call'[a].user = call[a].user /\ call'[a].current = call[a].current
    BY <2>1, <2>2 DEF Call
  <2> QED BY <2>2, <2>3, SyncReads
<1> QED BY <1>1, <1>2

\* Between the check of UpdateUser and its write, the row in hand stays current.
LEMMA UpdateReads ==
    ASSUME IInv, RowsKept, StatusKept, comp' = comp, alone' = alone, NEW a \in Admins,
           pc[a] \in {"checkOwner", "unset", "set"}, call[a].op = "UpdateUser",
           call'[a].op = call[a].op, call'[a].company = call[a].company,
           call'[a].user = call[a].user, call'[a].active = call[a].active,
           call'[a].id = call[a].id, call'[a].row = call[a].row,
           call[a].active = "off" /\ alone[a] => OwnerOf(call[a].company) # call[a].user
    PROVE  ReadSync(a)' /\ ReadRemove(a)' /\ ReadUpdate(a)'
<1> DEFINE m == call[a].id
<1>1. Serving(a)
  BY ServingType
<1>2. m \in Ids
  BY <1>1 DEF Serving, Shape
<1>3. ReadUpdate(a)
  BY DEF IInv, Reads
<1>4. /\ mem[m] \in Row /\ mem[m].company = call[a].company /\ mem[m].user = call[a].user
      /\ alone[a] => call[a].row.active = mem[m].active
  BY <1>3 DEF ReadUpdate
<1>5. /\ mem'[m] \in Row /\ mem'[m].company = mem[m].company /\ mem'[m].user = mem[m].user
      /\ mem'[m].active = mem[m].active
  BY <1>2, <1>4 DEF RowsKept, StatusKept
<1>6. call[a].active = "off" /\ alone[a] => (OwnerOf(call[a].company) # call[a].user)'
  BY DEF OwnerOf, Live
<1>7. ReadUpdate(a)'
  BY <1>4, <1>5, <1>6 DEF ReadUpdate
<1> QED BY <1>7 DEF ReadSync, ReadRemove

LEMMA StatementReads ==
    ASSUME IInv, NEW a \in Admins, Statement(a), ~Return(a)
    PROVE  ReadSync(a)' /\ ReadRemove(a)' /\ ReadUpdate(a)'
<1>0. RowsKept /\ Executes(a)
  BY StatementKept, StatementExecutes
<1>1. /\ Serving(a) /\ call[a] \in Call /\ pc \in [Admins -> Labels] /\ pc[a] # "idle"
      /\ call \in [Admins -> Call \cup {NoCall}] /\ alone' = alone
  BY <1>0, ServingType DEF Executes
<1>2. CASE GetPrimary(a)
  <2>1. PICK found : call' = [call EXCEPT ![a].promoted = found]
    BY <1>2 DEF GetPrimary
  <2>2. call'[a].op = call[a].op /\ pc'[a] = "insert" /\ call[a].op # "Sync"
    BY <1>1, <1>2, <2>1 DEF GetPrimary, Goto, Call, Serving, Shape
  <2> QED BY <2>2, PlainReads
<1>3. CASE Exists(a) \/ WriteCompany(a) \/ InsertRefused(a)
  <2>1. pc'[a] \in {"writeCompany", "insert", "done"} /\ call' = call /\ call[a].op # "Sync"
    BY <1>1, <1>3 DEF Exists, WriteCompany, InsertRefused, Goto, Serving, Shape
  <2> QED BY <2>1, PlainReads
<1>4. CASE InsertMember(a)
  <2>1. CASE call[a].op = "Sync"
    BY <1>0, <1>1, <1>4, <2>1, AdvanceReads DEF InsertMember
  <2>2. CASE call[a].op # "Sync"
    <3>1. pc'[a] \in {"writeCompany", "done"} /\ call' = call
      BY <1>1, <1>4, <2>2 DEF InsertMember, Goto
    <3> QED BY <2>2, <3>1, PlainReads
  <2> QED BY <2>1, <2>2
<1>5. CASE CheckOwner(a)
  <2>1. /\ OwnerOf(call[a].company) # call[a].user
        /\ call'[a] = [call[a] EXCEPT !.owner = OwnerOf(call[a].company)]
        /\ mem' = mem /\ comp' = comp /\ pc[a] = "checkOwner"
    BY <1>1, <1>5 DEF CheckOwner
  <2>2. /\ call'[a].op = call[a].op /\ call'[a].company = call[a].company
        /\ call'[a].user = call[a].user /\ call'[a].active = call[a].active
        /\ call'[a].id = call[a].id /\ call'[a].row = call[a].row
    BY <1>1, <2>1 DEF Call
  <2>3. call[a].op = "UpdateUser"
    BY <1>1, <2>1 DEF Serving, Shape
  <2>4. StatusKept
    BY <2>1, UnchangedKept
  <2> QED BY <1>0, <1>1, <2>1, <2>2, <2>3, <2>4, UpdateReads
<1>6. CASE Unset(a) \/ SetPrimary(a)
  <2>1. pc[a] \in {"unset", "set"} /\ comp' = comp
    BY <1>6 DEF Unset, SetPrimary, Return
  <2>2. CASE call[a].op = "Sync"
    <3>1. CASE Unset(a)
      <4>1. pc'[a] = "set" /\ call' = call
        BY <1>1, <3>1 DEF Unset, Goto
      <4> QED BY <1>0, <1>1, <2>2, <4>1, SyncReads
    <3>2. CASE SetPrimary(a)
      BY <1>0, <1>1, <2>2, <3>2, AdvanceReads DEF SetPrimary
    <3> QED BY <1>6, <3>1, <3>2
  <2>3. CASE call[a].op # "Sync"
    <3>1. call[a].op = "UpdateUser"
      BY <1>1, <2>1, <2>3 DEF Serving, Shape
    <3>2. call' = call
      BY <1>6, <2>3 DEF Unset, SetPrimary
    <3>3. StatusKept
      <4>1. CASE Unset(a)
        <5>1. \A i \in Ids : mem'[i] = mem[i] \/ mem'[i] = [mem[i] EXCEPT !.primary = FALSE]
          BY <4>1 DEF Unset
        <5> QED BY <5>1, MarkKept
      <4>2. CASE SetPrimary(a)
        <5>1. \A i \in Ids : mem'[i] = mem[i] \/ mem'[i] = [mem[i] EXCEPT !.primary = TRUE]
          BY <4>2 DEF SetPrimary, Marked, Return
        <5> QED BY <5>1, MarkKept
      <4> QED BY <1>6, <4>1, <4>2
    <3>4. call[a].active = "off" /\ alone[a] => OwnerOf(call[a].company) # call[a].user
      BY <1>1, <2>1, <3>1 DEF IInv, Reads, ReadUpdate
    <3> QED BY <1>0, <1>1, <2>1, <3>1, <3>2, <3>3, <3>4, UpdateReads
  <2> QED BY <2>2, <2>3
<1>7. CASE WriteMember(a)
  <2>1. CASE call[a].op = "Sync"
    BY <1>0, <1>1, <1>7, <2>1, PromoteReads DEF WriteMember
  <2>2. CASE call[a].op # "Sync"
    <3>1. pc'[a] = "done" /\ call' = call
      BY <1>1, <1>7, <2>2 DEF WriteMember, Goto
    <3> QED BY <2>2, <3>1, PlainReads
  <2> QED BY <2>1, <2>2
<1>8. CASE FindMember(a)
  <2>1. PICK i \in MembershipIds(call[a].company, call[a].user) :
             call' = [call EXCEPT ![a].id = i]
    BY <1>8 DEF FindMember
  <2>2. /\ pc[a] = "findMember" /\ pc'[a] = "softDelete" /\ mem' = mem /\ comp' = comp
        /\ call'[a].id = i /\ call'[a].op = call[a].op /\ call'[a].company = call[a].company
        /\ call'[a].user = call[a].user
    BY <1>1, <1>8, <2>1 DEF FindMember, Goto, Call
  <2>3. call[a].op = "RemoveUser"
    BY <1>1, <2>2 DEF Serving, Shape
  <2>4. i \in Ids /\ mem[i].company = call[a].company /\ mem[i].user = call[a].user
    BY DEF MembershipIds
  <2>5. mem[i] \in Row
    BY HeldRow DEF IInv, MembershipIds
  <2>6. alone[a] => OwnerOf(call[a].company) # call[a].user
    BY <1>1, <2>2, <2>3 DEF IInv, Reads, ReadRemove
  <2>7. alone'[a] => (OwnerOf(call[a].company) # call[a].user)'
    BY <1>1, <2>2, <2>6 DEF OwnerOf, Live
  <2>8. ReadRemove(a)'
    BY <2>2, <2>4, <2>5, <2>7 DEF ReadRemove
  <2> QED BY <2>2, <2>3, <2>8 DEF ReadSync, ReadUpdate
<1>9. CASE SoftDelete(a)
  <2>1. call' = call /\ pc'[a] = IF call[a].op = "Sync" THEN "drop" ELSE "done"
    BY <1>1, <1>9 DEF SoftDelete, Goto
  <2>2. CASE call[a].op = "Sync"
    BY <1>0, <1>1, <2>1, <2>2, SyncReads
  <2>3. CASE call[a].op # "Sync"
    BY <2>1, <2>3, PlainReads
  <2> QED BY <2>2, <2>3
<1>10. CASE SyncNext(a)
  <2>1. call[a].op = "Sync" /\ pc[a] = "next" /\ mem' = mem
    BY <1>1, <1>10 DEF SyncNext, Serving, Shape
  <2>2. CASE Promote(a)
    BY <1>0, <1>1, <2>1, <2>2, PromoteReads
  <2>3. CASE Goto(a, "insert") /\ call' = call
    <3>1. pc'[a] = "insert"
      BY <1>1, <2>3 DEF Goto
    <3> QED BY <1>0, <1>1, <2>1, <2>3, <3>1, SyncReads
  <2>4. ASSUME NEW i \in call[a].current, Goto(a, "write"),
               call' = [call EXCEPT ![a].id = i, ![a].row = mem[i]]
        PROVE  ReadSync(a)' /\ ReadRemove(a)' /\ ReadUpdate(a)'
    <3>1. /\ pc'[a] = "write" /\ call'[a] = [call[a] EXCEPT !.id = i, !.row = mem[i]]
      BY <1>1, <2>4 DEF Goto
    <3>2. /\ call'[a].op = "Sync" /\ call'[a].active = call[a].active
          /\ call'[a].user = call[a].user /\ call'[a].current = call[a].current
          /\ call'[a].id = i /\ call'[a].row = mem[i]
      BY <1>1, <2>1, <3>1 DEF Call
    <3>3. ReadSync(a)
      BY <1>1 DEF IInv, Reads
    <3>4. ReadSync(a)'
      BY <2>1, <3>1, <3>2, <3>3 DEF ReadSync
    <3> QED BY <3>2, <3>4 DEF ReadRemove, ReadUpdate
  <2> QED BY <1>10, <2>2, <2>3, <2>4 DEF SyncNext
<1>11. CASE SyncDrop(a)
  <2>1. call[a].op = "Sync" /\ pc[a] = "drop" /\ mem' = mem /\ comp' = comp
    BY <1>1, <1>11 DEF SyncDrop, Serving, Shape
  <2>2. CASE Goto(a, "done") /\ call' = call
    <3>1. pc'[a] = "done"
      BY <1>1, <2>2 DEF Goto
    <3> QED BY <1>0, <1>1, <2>1, <2>2, <3>1, SyncReads
  <2>3. ASSUME NEW i \in call[a].current,
               Goto(a, IF OwnerOf(mem[i].company) = call[a].user THEN "drop" ELSE "softDelete"),
               call' = [call EXCEPT ![a].current = @ \ {i}, ![a].id = i,
                                    ![a].owner = OwnerOf(mem[i].company)]
        PROVE  ReadSync(a)' /\ ReadRemove(a)' /\ ReadUpdate(a)'
    <3>1. call'[a] = [call[a] EXCEPT !.current = @ \ {i}, !.id = i,
                                     !.owner = OwnerOf(mem[i].company)]
      BY <1>1, <2>3
    <3>2. /\ call'[a].op = "Sync" /\ call'[a].active = call[a].active
          /\ call'[a].user = call[a].user /\ call'[a].current \subseteq call[a].current
          /\ call'[a].id = i
      BY <1>1, <2>1, <3>1 DEF Call
    <3>3. pc'[a] = IF OwnerOf(mem[i].company) = call[a].user THEN "drop" ELSE "softDelete"
      BY <1>1, <2>3 DEF Goto
    <3>4. ReadSync(a)
      BY <1>1 DEF IInv, Reads
    <3>5. mem[i] \in Row /\ mem[i].user = call[a].user
      BY <2>1, <3>4 DEF ReadSync
    <3>6. pc'[a] = "softDelete" => OwnerOf(mem[i].company) # call[a].user
      BY <3>3
    <3>7. pc'[a] = "softDelete" => (OwnerOf(mem[call[a].id].company) # call[a].user)'
      BY <2>1, <3>2, <3>6 DEF OwnerOf, Live
    <3>8. /\ call'[a].active = "keep" /\ pc'[a] # "write"
          /\ \A j \in call'[a].current : mem'[j] \in Row /\ mem'[j].user = call'[a].user
      BY <2>1, <3>2, <3>3, <3>4 DEF ReadSync
    <3>9. ReadSync(a)'
      BY <2>1, <3>2, <3>5, <3>7, <3>8 DEF ReadSync
    <3> QED BY <3>2, <3>9 DEF ReadRemove, ReadUpdate
  <2> QED BY <1>11, <2>2, <2>3 DEF SyncDrop
<1>12. CASE Assign(a) \/ CommitUser(a)
  <2>1. call[a].op = "CreateUser"
    BY <1>1, <1>12 DEF Assign, CommitUser, Serving, Shape
  <2>2. pc'[a] \in {"commit", "assign", "done"}
    BY <1>1, <1>12 DEF Assign, CommitUser, Goto
  <2>3. call'[a].op = call[a].op
    BY <1>1, <1>12 DEF Assign, CommitUser, Call
  <2> QED BY <2>1, <2>2, <2>3, PlainReads
<1> QED BY <1>2, <1>3, <1>4, <1>5, <1>6, <1>7, <1>8, <1>9, <1>10, <1>11, <1>12
        DEF Statement, Fail, Answer

\* A call begins with what its first read told.
LEMMA RequestReads ==
    ASSUME IInv, NEW a \in Admins, Request(a)
    PROVE  ReadSync(a)' /\ ReadRemove(a)' /\ ReadUpdate(a)'
<1>0. /\ mem' = mem /\ pc \in [Admins -> Labels]
      /\ call \in [Admins -> Call \cup {NoCall}]
  BY RequestKept DEF IInv, Calls
<1>1. ASSUME NEW c \in Companies, NEW u \in users,
             BeginCreate(a, c, u) \/ BeginUpdate(a, c, u) \/ BeginAddUser(a, c, u)
      PROVE  ReadSync(a)' /\ ReadRemove(a)' /\ ReadUpdate(a)'
  <2>1. /\ pc'[a] \in {"getPrimary", "writeCompany", "exists"}
        /\ call'[a].op \in {"Create", "Update", "AddUser"}
    BY <1>0, <1>1 DEF BeginCreate, BeginUpdate, BeginAddUser, Begin, Blank
  <2> QED BY <2>1, PlainReads
<1>2. ASSUME NEW c \in Companies, NEW u \in users, BeginRemoveUser(a, c, u)
      PROVE  ReadSync(a)' /\ ReadRemove(a)' /\ ReadUpdate(a)'
  <2>1. /\ pc'[a] = "findMember" /\ comp' = comp /\ comp[c].owner # u /\ Live(c)
        /\ call'[a] = [Blank("RemoveUser", c, u) EXCEPT !.owner = comp[c].owner]
    BY <1>0, <1>2 DEF BeginRemoveUser, Begin
  <2>2. call'[a].op = "RemoveUser" /\ call'[a].company = c /\ call'[a].user = u
    BY <2>1 DEF Blank
  <2>3. (OwnerOf(call[a].company) # call[a].user)'
    BY <2>1, <2>2 DEF OwnerOf, Live
  <2>4. ReadRemove(a)'
    BY <2>1, <2>3 DEF ReadRemove
  <2> QED BY <2>2, <2>4 DEF ReadSync, ReadUpdate
<1>3. ASSUME NEW c \in Companies, NEW u \in users, NEW act \in {"keep", "on", "off"},
             NEW pr \in BOOLEAN, BeginUpdateUser(a, c, u, act, pr)
      PROVE  ReadSync(a)' /\ ReadRemove(a)' /\ ReadUpdate(a)'
  <2>1. PICK i \in MembershipIds(c, u) :
             /\ pc'[a] = CASE act = "off" -> "checkOwner"
                           [] act # "off" /\ pr -> "unset"
                           [] OTHER -> "write"
             /\ call'[a] = [Blank("UpdateUser", c, u) EXCEPT !.active = act, !.primary = pr,
                                                             !.id = i, !.row = mem[i]]
    BY <1>0, <1>3 DEF BeginUpdateUser, Begin
  <2>2. /\ call'[a].op = "UpdateUser" /\ call'[a].company = c /\ call'[a].user = u
        /\ call'[a].active = act /\ call'[a].id = i /\ call'[a].row = mem[i]
    BY <2>1 DEF Blank
  <2>3. act = "off" => pc'[a] = "checkOwner"
    BY <2>1
  <2>4. i \in Ids /\ mem[i].company = c /\ mem[i].user = u
    BY DEF MembershipIds
  <2>5. mem[i] \in Row
    BY HeldRow DEF IInv, MembershipIds
  <2>6. ReadUpdate(a)'
    BY <1>0, <2>2, <2>3, <2>4, <2>5 DEF ReadUpdate
  <2> QED BY <2>2, <2>6 DEF ReadSync, ReadRemove
<1>4. ASSUME NEW u \in users, NEW list \in Lists, NEW role \in BOOLEAN,
             BeginSync(a, u, list, role)
      PROVE  ReadSync(a)' /\ ReadRemove(a)' /\ ReadUpdate(a)'
  <2>1. /\ pc'[a] = IF list = <<>> THEN "drop" ELSE "next"
        /\ call'[a] = [Blank("Sync", NoCompany, u) EXCEPT !.list = list, !.role = role,
                             !.current = ActiveIds(u), !.promoted = HasPrimary(u)]
    BY <1>0, <1>4 DEF BeginSync, Begin
  <2>2. /\ call'[a].op = "Sync" /\ call'[a].active = "keep" /\ call'[a].user = u
        /\ call'[a].current = ActiveIds(u)
    BY <2>1 DEF Blank
  <2>3. ASSUME NEW i \in ActiveIds(u) PROVE mem[i] \in Row /\ mem[i].user = u
    BY HeldRow DEF IInv, ActiveIds
  <2>4. pc'[a] \in {"drop", "next"}
    BY <2>1
  <2>5. ReadSync(a)'
    BY <1>0, <2>2, <2>3, <2>4 DEF ReadSync
  <2> QED BY <2>2, <2>5 DEF ReadRemove, ReadUpdate
<1>5. ASSUME NEW u \in Users, NEW list \in Lists, BeginCreateUser(a, u, list)
      PROVE  ReadSync(a)' /\ ReadRemove(a)' /\ ReadUpdate(a)'
  <2>1. pc'[a] = "assign" /\ call'[a].op = "CreateUser"
    BY <1>0, <1>5 DEF BeginCreateUser, Begin, Blank
  <2> QED BY <2>1, PlainReads
<1> QED BY <1>1, <1>2, <1>3, <1>4, <1>5 DEF Request

LEMMA ReadsStep ==
    ASSUME IInv, Next
    PROVE  Reads'
<1>1. ASSUME NEW a \in Admins, Request(a) \/ Statement(a)
      PROVE  Reads'
  <2>1. RowsKept
    BY <1>1, StatementKept, RequestKept, UnchangedKept
  <2>2. \A b \in Admins : alone'[b] =>
           pc'[b] # "idle" /\ \A d \in Admins \ {b} : pc'[d] \in {"idle", "done"}
    BY <1>1, AloneMeans
  <2>3. ASSUME NEW b \in Admins, pc'[b] # "idle"
        PROVE  (ReadSync(b) /\ ReadRemove(b) /\ ReadUpdate(b))'
    <3>1. CASE b # a
      <4>1. /\ pc'[b] = pc[b] /\ call'[b] = call[b]
            /\ alone'[b] => alone[b] /\ mem' = mem /\ comp' = comp
        BY <1>1, <3>1, OthersQuiet
      <4> QED BY <2>1, <2>3, <4>1, OtherReads
    <3>2. CASE b = a /\ Request(a)
      BY <3>2, RequestReads
    <3>3. CASE b = a /\ Statement(a)
      <4>1. ~Return(a)
        BY <2>3, <3>3 DEF Return, IInv, Calls
      <4> QED BY <3>3, <4>1, StatementReads
    <3> QED BY <1>1, <3>1, <3>2, <3>3
  <2> QED BY <2>2, <2>3 DEF Reads
<1>2. ASSUME NEW c \in Companies, DeleteCompany(c) \/ RestoreCompany(c)
      PROVE  Reads'
  <2>1. mem' = mem /\ pc' = pc /\ call' = call /\ \A b \in Admins : ~alone'[b]
    BY <1>2 DEF DeleteCompany, RestoreCompany
  <2>2. RowsKept
    BY <2>1, UnchangedKept
  <2>3. ASSUME NEW b \in Admins, pc[b] # "idle"
        PROVE  (ReadSync(b) /\ ReadRemove(b) /\ ReadUpdate(b))'
    BY <2>1, <2>2, <2>3, OtherReads
  <2> QED BY <2>1, <2>3 DEF Reads
<1> QED BY <1>1, <1>2 DEF Next

LEMMA CallsStep ==
    ASSUME IInv, Next
    PROVE  Calls'
<1>1. ASSUME NEW c \in Companies, DeleteCompany(c) \/ RestoreCompany(c)
      PROVE  Calls'
  <2>1. /\ users' = users /\ pc' = pc /\ call' = call /\ begun' = begun
        /\ alone' \in [Admins -> BOOLEAN]
    BY <1>1 DEF DeleteCompany, RestoreCompany
  <2> QED BY <2>1 DEF IInv, Calls, Serving
<1> QED BY <1>1, RequestCalls, StatementCalls DEF Next

LEMMA Inductive ==
    ASSUME IInv, [Next]_vars
    PROVE  IInv'
<1>1. CASE Next
  BY <1>1, TablesStep, CallsStep, ReadsStep DEF IInv
<1>2. CASE UNCHANGED vars
  <2>1. Tables'
    BY <1>2 DEF IInv, Tables, Unique, Held, vars
  <2>2. Calls'
    BY <1>2 DEF IInv, Calls, Serving, vars
  <2>3. Reads'
    BY <1>2 DEF IInv, Reads, ReadSync, ReadRemove, ReadUpdate, OwnerOf, Live, vars
  <2> QED BY <2>1, <2>2, <2>3 DEF IInv
<1> QED BY <1>1, <1>2

-----------------------------------------------------------------------------
(* The theorems. *)

LEMMA Initially ==
    ASSUME Init
    PROVE  IInv
<1>1. users = Founders /\ Founders \subseteq Users
  BY DEF Init
<1>2. comp \in [Companies -> Company]
  <2>1. ASSUME NEW c \in Companies PROVE comp[c] \in Company
    <3>1. CASE \E u \in Founders : Founded[u] = c
      <4>1. comp[c] = [status |-> "live", owner |-> CHOOSE u \in Founders : Founded[u] = c]
        BY <3>1 DEF Init
      <4>2. (CHOOSE u \in Founders : Founded[u] = c) \in Users
        BY <1>1, <3>1
      <4> QED BY <4>1, <4>2 DEF Company
    <3>2. CASE ~\E u \in Founders : Founded[u] = c
      <4>1. comp[c] = [status |-> "absent", owner |-> NoUser]
        BY <3>2 DEF Init
      <4> QED BY <4>1 DEF Company
    <3> QED BY <3>1, <3>2
  <2>2. comp = [c \in Companies |-> comp[c]]
    BY DEF Init
  <2> QED BY <2>1, <2>2
<1>3. PICK id \in [Founders -> Ids] :
         /\ \A u, v \in Founders : id[u] = id[v] => u = v
         /\ mem = [i \in Ids |->
                     IF \E u \in Founders : id[u] = i
                     THEN LET u == CHOOSE u \in Founders : id[u] = i
                          IN NewRow(Founded[u], u, TRUE)
                     ELSE NoRow]
  BY DEF Init
<1>4. ASSUME NEW i \in Ids
      PROVE  \/ mem[i] = NoRow
             \/ \E u \in Founders : id[u] = i /\ mem[i] = NewRow(Founded[u], u, TRUE)
  <2>1. CASE \E u \in Founders : id[u] = i
    <3> DEFINE w == CHOOSE u \in Founders : id[u] = i
    <3>1. w \in Founders /\ id[w] = i
      BY <2>1
    <3>2. mem[i] = NewRow(Founded[w], w, TRUE)
      BY <1>3, <2>1
    <3> QED BY <3>1, <3>2
  <2>2. CASE ~\E u \in Founders : id[u] = i
    BY <1>3, <2>2
  <2> QED BY <2>1, <2>2
<1>5. ASSUME NEW i \in Ids, mem[i] # NoRow
      PROVE  mem[i] \in Row /\ \E u \in Founders : id[u] = i /\ mem[i].user = u
  <2>1. PICK u \in Founders : id[u] = i /\ mem[i] = NewRow(Founded[u], u, TRUE)
    BY <1>4, <1>5
  <2>2. Founded[u] \in Companies /\ u \in Users
    BY <1>1, FoundedAssumption
  <2>3. NewRow(Founded[u], u, TRUE) \in Row /\ NewRow(Founded[u], u, TRUE).user = u
    BY <2>2, NewRowType
  <2> QED BY <2>1, <2>3
<1>6. mem \in [Ids -> Row \cup {NoRow}]
  <2>1. \A i \in Ids : mem[i] \in Row \cup {NoRow}
    BY <1>5
  <2> QED BY <1>3, <2>1
<1>7. Unique(mem)
  BY <1>5 DEF Unique, Held
<1>8. Tables
  BY <1>1, <1>2, <1>5, <1>6, <1>7 DEF Tables
<1>9. Calls /\ Reads
  BY DEF Init, Calls, Reads, Labels
<1> QED BY <1>8, <1>9 DEF IInv

THEOREM Invariance == Spec => []IInv
BY Initially, Inductive, PTL DEF Spec

\* Whatever calls run at once, the tables keep their shape and no user gets two
\* memberships of a company or two primary companies.
THEOREM MembershipsTypeOK == Spec => []TypeOK
<1>1. IInv => TypeOK
  BY DEF IInv, Tables, Calls, TypeOK
<1> QED BY <1>1, Invariance, PTL

LEMMA RemovedStep ==
    ASSUME IInv, Next, NEW i \in Ids, mem[i] # NoRow, mem[i].deleted
    PROVE  mem'[i] = mem[i]
<1>0. mem \in [Ids -> Row \cup {NoRow}] /\ ~Held(mem, i)
  BY DEF IInv, Tables, Held
<1>1. ASSUME NEW a \in Admins, InsertMember(a) PROVE mem'[i] = mem[i]
  <2>1. PICK j \in Ids : mem[j] = NoRow /\ mem' = [mem EXCEPT ![j] = MemberRow(a)]
    BY <1>1 DEF InsertMember, Insert, Commit
  <2> QED BY <1>0, <2>1
<1>2. ASSUME NEW a \in Admins, Unset(a) \/ SetPrimary(a) PROVE mem'[i] = mem[i]
  BY <1>0, <1>2 DEF Unset, SetPrimary, Marked, MembershipIds, Return
<1>3. ASSUME NEW a \in Admins, WriteMember(a) PROVE mem'[i] = mem[i]
  BY <1>0, <1>3 DEF WriteMember, Rewritten, Return
<1>4. ASSUME NEW a \in Admins, SoftDelete(a) PROVE mem'[i] = mem[i]
  BY <1>0, <1>4 DEF SoftDelete, Removed
<1>5. ASSUME NEW a \in Admins, CommitUser(a) PROVE mem'[i] = mem[i]
  <2>1. PICK id \in FreshIds(call[a].list) : mem' = mem \/ mem' = Assigned(a, id)
    BY <1>5 DEF CommitUser, Return
  <2>2. \A n \in DOMAIN id : mem[id[n]] = NoRow
    BY DEF FreshIds
  <2> QED BY <2>1, <2>2 DEF Assigned
<1>6. ASSUME NEW a \in Admins, Statement(a), mem' # mem
      PROVE  \/ InsertMember(a) \/ Unset(a) \/ SetPrimary(a) \/ WriteMember(a)
             \/ SoftDelete(a) \/ CommitUser(a)
  BY <1>6 DEF Statement, GetPrimary, Exists, InsertRefused, WriteCompany, CheckOwner, FindMember,
              SyncNext, SyncDrop, Assign, Fail, Answer, Return
<1>7. CASE \E c \in Companies : DeleteCompany(c) \/ RestoreCompany(c)
  BY <1>7 DEF DeleteCompany, RestoreCompany
<1> QED BY <1>1, <1>2, <1>3, <1>4, <1>5, <1>6, <1>7, RequestKept DEF Next

\* A membership that was removed is never written again: whoever joins anew gets
\* a new row, however old the row or the id a call in flight holds.
THEOREM MembershipsRemovedStays == Spec => RemovedStays
<1>1. IInv /\ [Next]_vars
      => [\A i \in Ids : mem[i] # NoRow /\ mem[i].deleted => mem'[i] = mem[i]]_vars
  BY RemovedStep
<1> QED BY <1>1, Invariance, PTL DEF Spec, RemovedStays

LEMMA ServesKept ==
    ASSUME NEW c \in Companies, comp'[c] = comp[c],
           NEW i \in ActiveIds(comp[c].owner), mem[i].company = c,
           mem'[i] # NoRow, mem'[i].company = mem[i].company, mem'[i].user = mem[i].user,
           mem'[i].active, ~mem'[i].deleted
    PROVE  Serves(c)'
<1>1. i \in Ids /\ mem[i].user = comp[c].owner
  BY DEF ActiveIds
<1>2. (i \in ActiveIds(comp[c].owner))'
  BY <1>1 DEF ActiveIds, Held
<1> QED BY <1>2 DEF Serves

LEMMA OwnerKeptStep ==
    ASSUME IInv, Next, NEW c \in Companies, Live(c), Serves(c), comp'[c] = comp[c], ~Serves(c)'
    PROVE  \E a \in Admins : pc'[a] # pc[a] /\ ~alone[a]
<1>1. PICK i \in ActiveIds(comp[c].owner) : mem[i].company = c
  BY DEF Serves
<1>2. /\ i \in Ids /\ mem[i] \in Row /\ mem[i] # NoRow /\ ~mem[i].deleted /\ mem[i].active
      /\ mem[i].user = comp[c].owner /\ Held(mem, i)
  BY HeldRow DEF IInv, ActiveIds, Held
<1>3. OwnerOf(c) = mem[i].user
  BY <1>2 DEF OwnerOf
<1>4. mem' # mem
  BY <1>1, <1>2, ServesKept
<1>5. PICK a \in Admins : Statement(a)
  BY <1>4, RequestKept DEF Next, DeleteCompany, RestoreCompany
<1>6. RowsKept /\ (WriteMember(a) \/ SoftDelete(a) \/ StatusKept)
  BY <1>5, StatementKept
<1>7. /\ mem'[i] \in Row /\ mem'[i] # NoRow
      /\ mem'[i].company = mem[i].company /\ mem'[i].user = mem[i].user
  BY <1>2, <1>6, NoRowAssumption DEF RowsKept
<1>8. ~(mem'[i].active /\ ~mem'[i].deleted)
  BY <1>1, <1>7, ServesKept
<1>9. ~StatusKept
  BY <1>2, <1>8 DEF StatusKept
<1>10. ~Return(a) /\ mem'[i] # mem[i]
  BY <1>2, <1>4, <1>8 DEF Return
<1>11. Executes(a)
  BY <1>5, <1>10, StatementExecutes
<1>12. Serving(a) /\ pc \in [Admins -> Labels] /\ call[a] \in Call
  BY <1>11, ServingType DEF Executes
<1>13. ReadSync(a) /\ ReadRemove(a) /\ ReadUpdate(a)
  BY <1>11 DEF IInv, Reads, Executes
<1>14. mem \in [Ids -> Row \cup {NoRow}]
  BY DEF IInv, Tables
<1>15. CASE WriteMember(a)
  <2>1. pc[a] = "write" /\ mem' = Rewritten(a) /\ comp' = comp
    BY <1>10, <1>15 DEF WriteMember
  <2>2. call[a].id = i
    <3> DEFINE p == call[a].row.primary \/ call[a].primary
               e == CASE call[a].active = "on" -> TRUE
                      [] call[a].active = "off" -> FALSE
                      [] OTHER -> call[a].row.active
    <3>1. mem' = mem \/ mem' = [mem EXCEPT ![call[a].id].primary = p, ![call[a].id].active = e]
      BY <2>1 DEF Rewritten
    <3> HIDE DEF p, e
    <3> QED BY <1>2, <1>10, <1>14, <3>1
  <2>3. /\ mem'[i].deleted = mem[i].deleted
        /\ mem'[i].active = CASE call[a].active = "on" -> TRUE
                               [] call[a].active = "off" -> FALSE
                               [] OTHER -> call[a].row.active
    <3>1. call[a].row.active \in BOOLEAN /\ call[a].row.primary \in BOOLEAN
          /\ call[a].primary \in BOOLEAN
      BY <1>12, <2>1 DEF Serving, Shape, Call, Row
    <3>2. mem'[i] = [mem[i] EXCEPT !.primary = call[a].row.primary \/ call[a].primary,
                                   !.active = CASE call[a].active = "on" -> TRUE
                                                [] call[a].active = "off" -> FALSE
                                                [] OTHER -> call[a].row.active]
      BY <1>2, <1>14, <2>1, <2>2 DEF Rewritten
    <3> QED BY <1>2, <3>1, <3>2 DEF Row
  <2>4. call[a].active # "on" /\ (call[a].active = "off" \/ ~call[a].row.active)
    BY <1>2, <1>8, <2>3
  <2>5. call[a].op \in {"UpdateUser", "Sync"}
    BY <1>12, <2>1 DEF Serving, Shape
  <2>6. ~alone[a]
    <3>1. CASE call[a].op = "Sync"
      BY <1>2, <1>13, <2>1, <2>2, <2>4, <3>1 DEF ReadSync
    <3>2. CASE call[a].op = "UpdateUser"
      BY <1>1, <1>2, <1>3, <1>13, <2>1, <2>2, <2>4, <3>2 DEF ReadUpdate
    <3> QED BY <2>5, <3>1, <3>2
  <2>7. pc'[a] # "write"
    <3>1. CASE call[a].op = "Sync"
      BY <1>10, <1>11, <1>15, <3>1, PromoteExecutes DEF WriteMember, Executes
    <3>2. CASE call[a].op # "Sync"
      BY <1>10, <1>12, <1>15, <3>2 DEF WriteMember, Goto
    <3> QED BY <3>1, <3>2
  <2> QED BY <2>1, <2>6, <2>7
<1>16. CASE SoftDelete(a)
  <2>1. /\ pc[a] = "softDelete" /\ mem' = Removed(call[a].id)
        /\ pc'[a] \in {"drop", "done"}
    BY <1>12, <1>16 DEF SoftDelete, Goto
  <2>2. call[a].id = i
    BY <1>10, <1>14, <2>1 DEF Removed
  <2>3. call[a].op \in {"RemoveUser", "Sync"}
    BY <1>12, <2>1 DEF Serving, Shape
  <2>4. ~alone[a]
    <3>1. CASE call[a].op = "Sync"
      BY <1>1, <1>3, <1>13, <2>1, <2>2, <3>1 DEF ReadSync
    <3>2. CASE call[a].op = "RemoveUser"
      BY <1>1, <1>3, <1>13, <2>1, <2>2, <3>2 DEF ReadRemove
    <3> QED BY <2>3, <3>1, <3>2
  <2> QED BY <2>1, <2>4
<1> QED BY <1>6, <1>9, <1>15, <1>16

\* RemoveUser, UpdateUser and SyncUserCompanies never take the membership of a
\* live company's owner away, unless another call ran since they began.
THEOREM MembershipsOwnerKept == Spec => OwnerKeptByLoneCalls
<1>1. IInv /\ [Next]_vars
      => [\A c \in Companies :
            Live(c) /\ Serves(c) /\ comp'[c] = comp[c] /\ ~Serves(c)'
            => \E a \in Admins : pc'[a] # pc[a] /\ ~alone[a]]_vars
  BY OwnerKeptStep
<1> QED BY <1>1, Invariance, PTL DEF Spec, OwnerKeptByLoneCalls

-----------------------------------------------------------------------------
(* What a lone call delivers. *)

Listed(k) == {k.list[n] : n \in DOMAIN k.list}

\* Calls about one company: what has been checked still holds, and the last
\* statement did what was asked.
LonePlain(a) ==
    LET k == call[a]
        rows == MembershipIds(k.company, k.user)
    IN
    /\ k.op = "Update" =>
          /\ pc[a] \in {"exists", "insert", "writeCompany", "done"}
          /\ Live(k.company)
          /\ pc[a] = "done" => comp[k.company].owner = k.user
    /\ k.op = "AddUser" =>
          /\ pc[a] \in {"exists", "insert", "done"}
          /\ pc[a] = "done" => \E i \in rows : mem[i].active /\ ~mem[i].primary
    /\ k.op = "UpdateUser" =>
          /\ pc[a] \in {"checkOwner", "unset", "set", "write", "done"}
          /\ k.id \in rows
          /\ pc[a] = "done" => /\ k.primary => mem[k.id].primary
                               /\ k.active = "on" => mem[k.id].active
                               /\ k.active = "off" => ~mem[k.id].active
    /\ k.op = "RemoveUser" =>
          /\ pc[a] \in {"findMember", "softDelete", "done"}
          /\ pc[a] = "softDelete" => k.id \in rows
          /\ pc[a] = "done" => rows = {}

LoneCreate(a) ==
    LET k == call[a] IN
    k.op = "CreateUser" =>
        /\ k.list # <<>>
        /\ pc[a] = "done" => CompaniesOf(k.user) = Listed(k) /\ HasPrimary(k.user)

Loop == {"next", "write", "unset", "set", "insert"}

\* Every active membership of the user was read at the start, is on the list,
\* is that of an owner, or is about to be removed.
Accounted(a) ==
    \A i \in ActiveIds(call[a].user) :
        \/ i \in call[a].current
        \/ mem[i].company \in Listed(call[a])
        \/ OwnerOf(mem[i].company) = call[a].user
        \/ pc[a] = "softDelete" /\ i = call[a].id

\* SyncUserCompanies: the elements of the list before pos are done with.
LoneSync(a) ==
    LET k == call[a]
        companies == CompaniesOf(k.user)
    IN
    k.op = "Sync" =>
        /\ pc[a] \in Loop =>
              /\ \A n \in 1 .. Len(k.list) : n < k.pos => k.list[n] \in companies
              /\ k.current \subseteq ActiveIds(k.user)
        /\ pc[a] \in {"write", "unset", "set"} => k.list[k.pos] \in companies
        /\ pc[a] \notin Loop => \A n \in 1 .. Len(k.list) : k.list[n] \in companies
        /\ Accounted(a)
        /\ pc[a] = "softDelete" => mem[k.id].company \notin Listed(k)
        /\ pc[a] = "done" => companies \subseteq Listed(k) \cup Owned(k.user)

Lone(a) == LonePlain(a) /\ LoneCreate(a) /\ LoneSync(a)

DInv == \A a \in Admins : alone[a] => Lone(a)

\* No active membership comes or goes.
SameActive ==
    /\ \A u : ActiveIds(u)' = ActiveIds(u)
    /\ \A i \in Ids : Held(mem, i) => mem'[i].company = mem[i].company

LEMMA KeptActive ==
    ASSUME IInv, RowsKept, StatusKept, \A i \in Ids : mem[i] = NoRow => mem'[i] = NoRow
    PROVE  SameActive
<1>1. \A i \in Ids : mem[i] \in Row \cup {NoRow}
  BY DEF IInv, Tables
<1>2. ASSUME NEW i \in Ids, mem[i] \in Row
      PROVE  /\ mem'[i] # NoRow /\ mem[i] # NoRow /\ mem'[i].user = mem[i].user
             /\ mem'[i].company = mem[i].company
             /\ mem'[i].active = mem[i].active /\ mem'[i].deleted = mem[i].deleted
  BY <1>2, NoRowAssumption DEF RowsKept, StatusKept
<1>3. ASSUME NEW u, NEW i \in Ids
      PROVE  /\ Held(mem, i) <=> Held(mem', i)
             /\ Held(mem, i) => /\ mem'[i].user = mem[i].user /\ mem'[i].active = mem[i].active
                                /\ mem'[i].company = mem[i].company
  BY <1>1, <1>2 DEF Held
<1> QED BY <1>3 DEF SameActive, ActiveIds, Held

LEMMA SameCompanies ==
    ASSUME SameActive
    PROVE  \A u : CompaniesOf(u)' = CompaniesOf(u)
<1> SUFFICES ASSUME NEW u PROVE CompaniesOf(u)' = CompaniesOf(u)
  OBVIOUS
<1>1. ActiveIds(u)' = ActiveIds(u) /\ \A i \in ActiveIds(u) : mem'[i].company = mem[i].company
  BY DEF SameActive, ActiveIds
<1> QED BY <1>1 DEF CompaniesOf

LEMMA OtherLone ==
    ASSUME NEW b \in Admins, Lone(b), pc'[b] = pc[b], call'[b] = call[b], mem' = mem, comp' = comp
    PROVE  Lone(b)'
<1>1. /\ \A c, u : MembershipIds(c, u)' = MembershipIds(c, u)
      /\ \A u : /\ ActiveIds(u)' = ActiveIds(u) /\ CompaniesOf(u)' = CompaniesOf(u)
                /\ HasPrimary(u)' = HasPrimary(u) /\ Owned(u)' = Owned(u)
      /\ \A c : OwnerOf(c)' = OwnerOf(c) /\ Live(c)' = Live(c)
  BY DEF MembershipIds, ActiveIds, CompaniesOf, HasPrimary, Owned, OwnerOf, Live, Held
<1>2. LonePlain(b)'
  BY <1>1 DEF Lone, LonePlain
<1>3. LoneCreate(b)'
  BY <1>1 DEF Lone, LoneCreate, Listed
<1>4. LoneSync(b)'
  BY <1>1 DEF Lone, LoneSync, Accounted, Listed
<1> QED BY <1>2, <1>3, <1>4 DEF Lone

-----------------------------------------------------------------------------
(* Statements of calls about one company. *)

\* What UPDATE core.company_users makes of the row in hand.
LEMMA RewrittenRow ==
    ASSUME IInv, NEW a \in Admins, pc[a] = "write", Held(mem, call[a].id)
    PROVE  /\ Rewritten(a)[call[a].id] \in Row /\ Held(Rewritten(a), call[a].id)
           /\ Rewritten(a)[call[a].id].user = mem[call[a].id].user
           /\ Rewritten(a)[call[a].id].company = mem[call[a].id].company
           /\ call[a].primary => Rewritten(a)[call[a].id].primary
           /\ call[a].active = "on" => Rewritten(a)[call[a].id].active
           /\ call[a].active = "off" => ~Rewritten(a)[call[a].id].active
<1> DEFINE id == call[a].id
           p == call[a].row.primary \/ call[a].primary
           act == CASE call[a].active = "on" -> TRUE
                    [] call[a].active = "off" -> FALSE
                    [] OTHER -> call[a].row.active
<1>1. Serving(a) /\ mem \in [Ids -> Row \cup {NoRow}]
  BY DEF IInv, Calls, Tables
<1>2. id \in Ids /\ call[a] \in Call /\ call[a].row \in Row
  BY <1>1 DEF Serving, Shape
<1>3. /\ p \in BOOLEAN
      /\ call[a].primary => p
      /\ call[a].active = "on" => act
      /\ call[a].active = "off" => ~act
  OBVIOUS
<1>4. act \in BOOLEAN
  BY <1>2 DEF Row
<1>5. mem[id] \in Row /\ ~mem[id].deleted
  BY <1>2, HeldRow DEF IInv, Held
<1>6. Rewritten(a) = [mem EXCEPT ![id].primary = p, ![id].active = act]
  BY DEF Rewritten
<1> HIDE DEF id, p, act
<1>7. Rewritten(a)[id] = [mem[id] EXCEPT !.primary = p, !.active = act]
  BY <1>1, <1>2, <1>6
<1>8. /\ Rewritten(a)[id] \in Row /\ ~Rewritten(a)[id].deleted
      /\ Rewritten(a)[id].user = mem[id].user /\ Rewritten(a)[id].company = mem[id].company
      /\ Rewritten(a)[id].primary = p /\ Rewritten(a)[id].active = act
  BY <1>3, <1>4, <1>5, <1>7 DEF Row
<1>9. Held(Rewritten(a), id)
  BY <1>8, NoRowAssumption DEF Held
<1> QED BY <1>3, <1>8, <1>9 DEF id

\* Call a keeps its request.
SameRequest(a) ==
    /\ call'[a].op = call[a].op /\ call'[a].company = call[a].company
    /\ call'[a].user = call[a].user /\ call'[a].active = call[a].active
    /\ call'[a].primary = call[a].primary /\ call'[a].list = call[a].list

LEMMA PlainLone ==
    ASSUME IInv, NEW a \in Admins, Statement(a), ~Return(a), Lone(a),
           call[a].op \notin {"Sync", "CreateUser"}
    PROVE  LonePlain(a)' /\ call'[a].op = call[a].op
<1> DEFINE k == call[a]
           rows == MembershipIds(k.company, k.user)
<1>1. /\ Serving(a) /\ k \in Call /\ pc \in [Admins -> Labels] /\ pc[a] # "idle"
      /\ call \in [Admins -> Call \cup {NoCall}] /\ LonePlain(a)
  BY StatementExecutes, ServingType DEF Executes, Lone
<1>2. k.company \in Companies /\ k.op \notin {"Sync", "CreateUser"}
  BY <1>1 DEF Serving, Shape
<1>3. CASE GetPrimary(a) \/ Exists(a) \/ InsertRefused(a)
  <2>1. /\ mem' = mem /\ comp' = comp /\ pc'[a] \in {"insert", "writeCompany", "done"}
        /\ pc[a] \in {"getPrimary", "exists", "insert"}
        /\ pc'[a] = "done" => k.op = "Create"
        /\ pc'[a] = "writeCompany" => k.op # "AddUser"
    BY <1>1, <1>3 DEF GetPrimary, Exists, InsertRefused, Goto
  <2>2. SameRequest(a)
    <3>1. \E found : call'[a] = [k EXCEPT !.promoted = found] \/ call'[a] = k
      BY <1>1, <1>3 DEF GetPrimary, Exists, InsertRefused
    <3>2. PICK found : call'[a] = [k EXCEPT !.promoted = found] \/ call'[a] = k
      BY <3>1
    <3> QED BY <1>1, <3>2 DEF Call, SameRequest
  <2>3. k.op \notin {"UpdateUser", "RemoveUser"}
    BY <1>1, <2>1 DEF LonePlain
  <2> QED BY <1>1, <2>1, <2>2, <2>3 DEF LonePlain, SameRequest, Live
<1>4. CASE InsertMember(a)
  <2>1. /\ comp' = comp /\ call' = call /\ pc[a] = "insert"
        /\ pc'[a] = IF k.op = "Update" THEN "writeCompany" ELSE "done"
    BY <1>1, <1>2, <1>4 DEF InsertMember, Goto
  <2>2. k.op \notin {"UpdateUser", "RemoveUser"}
    BY <1>1, <2>1 DEF LonePlain
  <2>3. k.op = "AddUser" => \E i \in MembershipIds(k.company, k.user)' :
                               mem'[i].active /\ ~mem'[i].primary
    <3>1. PICK i \in Ids : mem[i] = NoRow /\ mem' = [mem EXCEPT ![i] = MemberRow(a)]
      BY <1>4 DEF InsertMember, Insert, Commit
    <3>2. mem'[i] = MemberRow(a) /\ call[a].user \in Users
      BY <1>1, <3>1 DEF IInv, Tables, Call
    <3>3. k.op = "AddUser" => MemberRow(a) = NewRow(k.company, k.user, FALSE)
      BY DEF MemberRow, Target
    <3>4. NewRow(k.company, k.user, FALSE) # NoRow
      BY <1>2, <3>2, NewRowType, NoRowAssumption
    <3> QED BY <2>1, <3>2, <3>3, <3>4 DEF MembershipIds, Held, NewRow
  <2> QED BY <1>1, <2>1, <2>2, <2>3 DEF LonePlain, Live
<1>5. CASE WriteCompany(a)
  <2>1. call' = call /\ pc[a] = "writeCompany" /\ pc'[a] = "done"
    BY <1>1, <1>5 DEF WriteCompany, Goto
  <2>2. k.op \notin {"AddUser", "UpdateUser", "RemoveUser"}
    BY <1>1, <2>1 DEF LonePlain
  <2>3. k.op = "Update" => comp'[k.company].status = "live" /\ comp'[k.company].owner = k.user
    <3>1. comp \in [Companies -> Company]
      BY DEF IInv, Tables
    <3>2. k.op = "Update" => comp' = [comp EXCEPT ![k.company].owner = k.user] /\ comp[k.company].status = "live"
      BY <1>1, <1>5 DEF WriteCompany, LonePlain, Live
    <3> QED BY <1>2, <3>1, <3>2 DEF Company
  <2> QED BY <2>1, <2>2, <2>3 DEF LonePlain, Live
<1>6. CASE CheckOwner(a)
  <2>1. /\ mem' = mem /\ pc[a] = "checkOwner" /\ pc'[a] \in {"unset", "write"}
        /\ call'[a] = [k EXCEPT !.owner = OwnerOf(k.company)]
    BY <1>1, <1>6 DEF CheckOwner, Goto
  <2>2. SameRequest(a) /\ call'[a].id = k.id
    BY <1>1, <2>1 DEF Call, SameRequest
  <2>3. k.op \notin {"AddUser", "Update", "RemoveUser"}
    BY <1>1, <2>1 DEF LonePlain
  <2> QED BY <1>1, <2>1, <2>2, <2>3 DEF LonePlain, SameRequest, MembershipIds, Held
<1>7. CASE Unset(a) \/ SetPrimary(a)
  <2>1. /\ pc[a] \in {"unset", "set"} /\ pc'[a] \in {"set", "write"} /\ call' = call
    BY <1>1, <1>2, <1>7 DEF Unset, SetPrimary, Goto
  <2>2. k.op \notin {"AddUser", "Update", "RemoveUser"}
    BY <1>1, <2>1 DEF LonePlain
  <2>3. \E p \in BOOLEAN : \A i \in Ids : mem'[i] = mem[i] \/ mem'[i] = [mem[i] EXCEPT !.primary = p]
    <3>1. CASE Unset(a)
      BY <3>1 DEF Unset
    <3>2. CASE SetPrimary(a)
      BY <3>2 DEF SetPrimary, Marked
    <3> QED BY <1>7, <3>1, <3>2
  <2>4. RowsKept /\ StatusKept
    BY <2>3, MarkKept
  <2>5. k.op = "UpdateUser" => (k.id \in rows)'
    <3>1. k.op = "UpdateUser" => k.id \in rows
      BY <1>1 DEF LonePlain
    <3>2. \A i \in Ids : Held(mem, i) => /\ Held(mem', i) /\ mem'[i].user = mem[i].user
                                         /\ mem'[i].company = mem[i].company
      BY <2>4, HeldRow, NoRowAssumption DEF RowsKept, StatusKept, Held, IInv
    <3> QED BY <2>1, <3>1, <3>2 DEF MembershipIds, Held
  <2> QED BY <2>1, <2>2, <2>5 DEF LonePlain
<1>8. CASE WriteMember(a)
  <2>1. /\ pc[a] = "write" /\ pc'[a] = "done" /\ call' = call /\ mem' = Rewritten(a)
    BY <1>1, <1>2, <1>8 DEF WriteMember, Goto
  <2>2. k.op = "UpdateUser" /\ k.id \in rows
    BY <1>1, <1>2, <2>1 DEF Serving, Shape, LonePlain
  <2>3. Held(mem, k.id) /\ k.id \in Ids /\ mem[k.id].company = k.company /\ mem[k.id].user = k.user
    BY <2>2 DEF MembershipIds
  <2>4. (k.id \in rows)'
    BY <2>1, <2>3, RewrittenRow DEF MembershipIds, Held
  <2> QED BY <2>1, <2>2, <2>3, <2>4, RewrittenRow DEF LonePlain
<1>9. CASE FindMember(a)
  <2>1. PICK i \in rows : call' = [call EXCEPT ![a].id = i]
    BY <1>9 DEF FindMember
  <2>2. /\ pc[a] = "findMember" /\ pc'[a] = "softDelete" /\ mem' = mem
        /\ call'[a] = [k EXCEPT !.id = i]
    BY <1>1, <1>9, <2>1 DEF FindMember, Goto
  <2>3. SameRequest(a) /\ call'[a].id = i
    BY <1>1, <2>2 DEF Call, SameRequest
  <2>4. k.op \notin {"AddUser", "Update", "UpdateUser"}
    BY <1>1, <2>2 DEF LonePlain
  <2> QED BY <2>1, <2>2, <2>3, <2>4 DEF LonePlain, SameRequest, MembershipIds, Held
<1>10. CASE SoftDelete(a)
  <2>1. /\ pc[a] = "softDelete" /\ pc'[a] = "done" /\ call' = call /\ mem' = Removed(k.id)
    BY <1>1, <1>2, <1>10 DEF SoftDelete, Goto
  <2>2. k.op = "RemoveUser" /\ k.id \in rows
    BY <1>1, <1>2, <2>1 DEF Serving, Shape, LonePlain
  <2>3. /\ k.id \in Ids /\ Held(mem, k.id) /\ mem[k.id].company = k.company
        /\ mem[k.id].user = k.user /\ mem[k.id] \in Row
        /\ Unique(mem) /\ mem \in [Ids -> Row \cup {NoRow}]
    BY <2>2, HeldRow DEF MembershipIds, IInv, Tables
  <2>4. mem' = [mem EXCEPT ![k.id].deleted = TRUE]
    BY <2>1, <2>3 DEF Removed
  <2>5. ASSUME NEW j \in Ids, Held(mem', j), mem'[j].company = k.company, mem'[j].user = k.user
        PROVE  FALSE
    <3>1. j # k.id
      BY <2>3, <2>4, <2>5 DEF Held, Row
    <3>2. mem'[j] = mem[j]
      BY <2>3, <2>4, <3>1
    <3> QED BY <2>3, <2>5, <3>1, <3>2 DEF Unique, Held
  <2>6. rows' = {}
    BY <2>1, <2>5 DEF MembershipIds, Held
  <2> QED BY <2>1, <2>2, <2>6 DEF LonePlain
<1>11. ~(SyncNext(a) \/ SyncDrop(a) \/ Assign(a) \/ CommitUser(a))
  BY <1>1, <1>2 DEF SyncNext, SyncDrop, Assign, CommitUser, Serving, Shape
<1>12. call' = call => call'[a].op = k.op
  OBVIOUS
<1>13. call'[a].op = k.op
  <2>1. CASE GetPrimary(a)
    <3>1. PICK found : call' = [call EXCEPT ![a].promoted = found]
      BY <2>1 DEF GetPrimary
    <3> QED BY <1>1, <3>1 DEF Call
  <2>2. CASE CheckOwner(a)
    BY <1>1, <2>2 DEF CheckOwner, Call
  <2>3. CASE FindMember(a)
    <3>1. PICK i : call' = [call EXCEPT ![a].id = i]
      BY <2>3 DEF FindMember
    <3> QED BY <1>1, <3>1 DEF Call
  <2>4. CASE ~(GetPrimary(a) \/ CheckOwner(a) \/ FindMember(a))
    BY <1>2, <1>11, <2>4 DEF Statement, Exists, InsertMember, InsertRefused, WriteCompany, Unset,
       SetPrimary, WriteMember, SoftDelete, Fail, Answer
  <2> QED BY <2>1, <2>2, <2>3, <2>4
<1> QED BY <1>3, <1>4, <1>5, <1>6, <1>7, <1>8, <1>9, <1>10, <1>11, <1>13 DEF Statement, Fail, Answer

-----------------------------------------------------------------------------
(* Statements of the creation of a user, and of a Sync. *)

LEMMA CreateLone ==
    ASSUME IInv, NEW a \in Admins, Statement(a), ~Return(a), Lone(a), call[a].op = "CreateUser"
    PROVE  LoneCreate(a)' /\ call'[a].op = "CreateUser"
<1> DEFINE list == call[a].list
           user == call[a].user
<1>1. /\ Serving(a) /\ call[a] \in Call /\ list \in Seq(Companies) /\ pc \in [Admins -> Labels]
      /\ call \in [Admins -> Call \cup {NoCall}] /\ list # <<>> /\ pc[a] \notin {"idle", "done"}
  BY StatementExecutes, ServingType DEF Executes, Lone, LoneCreate
<1>2. pc[a] \in {"assign", "commit"} /\ user \in Users
  BY <1>1 DEF Serving, Shape, Call
<1>3. Assign(a) \/ CommitUser(a)
  BY <1>2 DEF Statement, GetPrimary, Exists, InsertMember, InsertRefused, WriteCompany, CheckOwner,
              Unset, SetPrimary, WriteMember, FindMember, SoftDelete, SyncNext, SyncDrop, Fail, Answer
<1>4. CASE Assign(a)
  <2>1. pc'[a] \in {"assign", "commit"} /\ call' = [call EXCEPT ![a].pos = @ + 1]
    BY <1>1, <1>4 DEF Assign, Goto
  <2>2. call'[a].op = "CreateUser" /\ call'[a].list = list
    BY <1>1, <2>1 DEF Call
  <2> QED BY <1>1, <2>1, <2>2 DEF LoneCreate
<1>5. CASE CommitUser(a)
  <2>1. PICK id \in FreshIds(list) :
             /\ user \notin users /\ mem' = Assigned(a, id) /\ pc'[a] = "done" /\ call' = call
    BY <1>1, <1>5 DEF CommitUser, Goto
  <2>2. /\ DOMAIN list = 1 .. Len(list) /\ DOMAIN id = DOMAIN list
        /\ \A n \in DOMAIN list : id[n] \in Ids /\ list[n] \in Companies /\ mem[id[n]] = NoRow
        /\ \A m, n \in DOMAIN list : id[m] = id[n] => m = n
    BY <1>1 DEF FreshIds
  <2>3. 1 \in DOMAIN list
    BY <1>1, <2>2
  <2>4. ASSUME NEW n \in DOMAIN list
        PROVE  /\ mem'[id[n]] # NoRow
               /\ id[n] \in ActiveIds(user)' /\ mem'[id[n]].company = list[n]
               /\ n = 1 => mem'[id[n]].primary
    <3> DEFINE m == CHOOSE m \in DOMAIN id : id[m] = id[n]
    <3>1. m = n
      BY <2>2
    <3>2. mem'[id[n]] = NewRow(list[m], user, m = 1)
      BY <2>1, <2>2 DEF Assigned
    <3> HIDE DEF m
    <3>3. mem'[id[n]] = NewRow(list[n], user, n = 1)
      BY <3>1, <3>2
    <3>4. PICK p \in BOOLEAN : p <=> n = 1
      OBVIOUS
    <3>5. mem'[id[n]] = NewRow(list[n], user, p)
      <4>1. p = (n = 1)
        BY <3>4
      <4> QED BY <3>3, <4>1
    <3>6. NewRow(list[n], user, p) \in Row
      BY <1>2, <2>2, <3>4, NewRowType
    <3>7. /\ mem'[id[n]].company = list[n] /\ mem'[id[n]].user = user
          /\ mem'[id[n]].active /\ ~mem'[id[n]].deleted /\ mem'[id[n]].primary = p
      BY <3>5 DEF NewRow
    <3>8. mem'[id[n]] # NoRow
      BY <3>5, <3>6, NoRowAssumption
    <3>9. id[n] \in ActiveIds(user)'
      BY <2>1, <2>2, <3>7, <3>8 DEF ActiveIds, Held
    <3> QED BY <3>4, <3>7, <3>8, <3>9
  <2>5. ASSUME NEW i \in ActiveIds(user)' PROVE \E n \in DOMAIN list : i = id[n]
    <3>1. i \in Ids /\ mem'[i] # NoRow /\ mem'[i].user = user
      BY <2>1 DEF ActiveIds, Held
    <3>2. SUFFICES ASSUME ~\E n \in DOMAIN id : id[n] = i PROVE FALSE
      BY <2>2
    <3>3. mem'[i] = mem[i]
      BY <2>1, <3>1, <3>2 DEF Assigned
    <3> QED BY <2>1, <3>1, <3>3 DEF IInv, Tables
  <2>6. CompaniesOf(user)' = Listed(call[a])
    <3>1. CompaniesOf(user)' = {mem'[i].company : i \in ActiveIds(user)'}
      BY <2>1 DEF CompaniesOf
    <3> QED BY <2>4, <2>5, <3>1 DEF Listed
  <2>7. HasPrimary(user)'
    BY <2>1, <2>3, <2>4 DEF HasPrimary
  <2> QED BY <1>1, <2>1, <2>6, <2>7 DEF LoneCreate, Listed
<1> QED BY <1>3, <1>4, <1>5

\* What the rest of a Sync may rely on, of user u.
SyncKeeps(k, u) ==
    /\ \A i \in ActiveIds(u) :
          \/ i \in k.current
          \/ mem[i].company \in Listed(k)
          \/ OwnerOf(mem[i].company) = u
    /\ k.current \subseteq ActiveIds(u)

\* A Sync that goes to the next element, or on to the removals.
LEMMA AdvanceLone ==
    ASSUME IInv, NEW a \in Admins, pc[a] \in Loop, call[a].op = "Sync", NEW p, Advance(a, p),
           NEW k, k = call[a], NEW u, u = k.user, SyncKeeps(k, u)',
           \A n \in 1 .. Len(k.list) : n <= k.pos => k.list[n] \in CompaniesOf(u)'
    PROVE  LoneSync(a)' /\ call'[a].op = "Sync"
<1>1. /\ Serving(a) /\ k \in Call /\ k.list \in Seq(Companies) /\ pc \in [Admins -> Labels]
      /\ call \in [Admins -> Call \cup {NoCall}]
  BY ServingType DEF Loop
<1>2. k.pos \in 1 .. Len(k.list) /\ Len(k.list) \in Nat
  BY <1>1 DEF Serving, Shape, Loop
<1>3. /\ pc'[a] = IF k.pos = Len(k.list) THEN "drop" ELSE "next"
      /\ call'[a] = [k EXCEPT !.pos = k.pos + 1, !.promoted = p, !.id = NoId, !.row = NoRow]
  BY <1>1 DEF Advance, Goto
<1>4. /\ call'[a].op = "Sync" /\ call'[a].list = k.list /\ call'[a].user = u
      /\ call'[a].current = k.current /\ call'[a].pos = k.pos + 1
  BY <1>1, <1>3 DEF Call
<1>5. Accounted(a)'
  BY <1>4 DEF Accounted, Listed, SyncKeeps
<1>6. \A n \in 1 .. Len(k.list) : n < k.pos + 1 => k.list[n] \in CompaniesOf(u)'
  BY <1>2
<1>7. pc'[a] = "drop" => \A n \in 1 .. Len(k.list) : k.list[n] \in CompaniesOf(u)'
  BY <1>2, <1>3
<1>8. pc'[a] \in {"drop", "next"} /\ call'[a].current \subseteq ActiveIds(u)'
  BY <1>3, <1>4 DEF SyncKeeps
<1> QED BY <1>4, <1>5, <1>6, <1>7, <1>8 DEF LoneSync, Loop

\* A Sync past the row of a membership it keeps: the next element, or Unset.
LEMMA PromoteLone ==
    ASSUME IInv, NEW a \in Admins, pc[a] \in {"write", "next"}, call[a].op = "Sync", Promote(a),
           comp' = comp,
           NEW k, k = call[a], NEW u, u = k.user, SyncKeeps(k, u)',
           \A n \in 1 .. Len(k.list) : n <= k.pos => k.list[n] \in CompaniesOf(u)'
    PROVE  LoneSync(a)' /\ call'[a].op = "Sync"
<1>1. CASE k.promoted
  BY <1>1, AdvanceLone DEF Promote, Loop
<1>2. CASE ~k.promoted
  <2>1. /\ Serving(a) /\ k \in Call /\ k.list \in Seq(Companies) /\ pc \in [Admins -> Labels]
        /\ call \in [Admins -> Call \cup {NoCall}]
    BY ServingType
  <2>2. k.pos \in 1 .. Len(k.list) /\ Len(k.list) \in Nat
    BY <2>1 DEF Serving, Shape
  <2>3. pc'[a] = "unset" /\ call'[a] = [k EXCEPT !.id = NoId, !.row = NoRow]
    BY <1>2, <2>1 DEF Promote, Goto
  <2>4. /\ call'[a].op = "Sync" /\ call'[a].list = k.list /\ call'[a].user = u
        /\ call'[a].current = k.current /\ call'[a].pos = k.pos
    BY <2>1, <2>3 DEF Call
  <2>5. Accounted(a)'
    BY <2>4 DEF Accounted, Listed, SyncKeeps
  <2>6. /\ \A n \in 1 .. Len(k.list) : n < k.pos => k.list[n] \in CompaniesOf(u)'
        /\ k.list[k.pos] \in CompaniesOf(u)' /\ call'[a].current \subseteq ActiveIds(u)'
    BY <2>2, <2>4 DEF SyncKeeps
  <2> QED BY <2>3, <2>4, <2>5, <2>6 DEF LoneSync, Loop
<1> QED BY <1>1, <1>2

\* The rows active before stay so, and SyncKeeps with them.
LEMMA KeepsSame ==
    ASSUME NEW k, NEW u, SyncKeeps(k, u), SameActive, comp' = comp
    PROVE  SyncKeeps(k, u)'
<1>1. ActiveIds(u)' = ActiveIds(u) /\ \A i \in ActiveIds(u) : mem'[i].company = mem[i].company
  BY DEF SameActive, ActiveIds
<1>2. \A c : OwnerOf(c)' = OwnerOf(c)
  BY DEF OwnerOf, Live
<1> QED BY <1>1, <1>2 DEF SyncKeeps, Listed

\* The statements of a Sync that write: insert, unset, set and write.
LEMMA SyncWriteLone ==
    ASSUME IInv, NEW a \in Admins, Statement(a), ~Return(a), Lone(a), alone[a],
           call[a].op = "Sync", pc[a] \in {"insert", "unset", "set", "write"}
    PROVE  LoneSync(a)' /\ call'[a].op = "Sync"
<1>1. PICK k : k = call[a]
  OBVIOUS
<1>2. PICK u : u = k.user
  OBVIOUS
<1>3. /\ Serving(a) /\ k \in Call /\ k.list \in Seq(Companies) /\ pc \in [Admins -> Labels]
      /\ call \in [Admins -> Call \cup {NoCall}] /\ LoneSync(a)
      /\ mem \in [Ids -> Row \cup {NoRow}]
  BY <1>1, ServingType DEF Lone, IInv, Tables
<1>4. k.pos \in 1 .. Len(k.list) /\ Len(k.list) \in Nat /\ pc[a] \in Loop
  BY <1>1, <1>3 DEF Serving, Shape, Loop
<1>5. SyncKeeps(k, u)
  BY <1>1, <1>2, <1>3, <1>4 DEF LoneSync, Accounted, SyncKeeps
<1>6. /\ \A n \in 1 .. Len(k.list) : n < k.pos => k.list[n] \in CompaniesOf(u)
      /\ pc[a] # "insert" => k.list[k.pos] \in CompaniesOf(u)
  BY <1>1, <1>2, <1>3, <1>4 DEF LoneSync
<1>7. CASE pc[a] = "insert"
  <2>1. InsertMember(a)
    BY <1>1, <1>7 DEF Statement, GetPrimary, Exists, InsertRefused, WriteCompany, CheckOwner,
       Unset, SetPrimary, WriteMember, FindMember, SoftDelete, SyncNext, SyncDrop, Assign,
       CommitUser, Fail, Answer
  <2>2. PICK i \in Ids : mem[i] = NoRow /\ mem' = [mem EXCEPT ![i] = MemberRow(a)]
    BY <2>1 DEF InsertMember, Insert, Commit
  <2>3. Advance(a, TRUE) /\ comp' = comp
    BY <2>1 DEF InsertMember
  <2>4. /\ MemberRow(a).company = k.list[k.pos] /\ MemberRow(a).user = u
        /\ MemberRow(a).active /\ ~MemberRow(a).deleted /\ MemberRow(a) # NoRow
    <3>1. k.list[k.pos] \in Companies /\ u \in Users
      BY <1>2, <1>3, <1>4 DEF Call
    <3>2. PICK p \in BOOLEAN : MemberRow(a) = NewRow(k.list[k.pos], u, p)
      BY <1>1, <1>2, <1>3 DEF MemberRow, Target, Call
    <3> QED BY <3>1, <3>2, NewRowType, NoRowAssumption DEF NewRow
  <2>5. /\ i \notin ActiveIds(u) /\ i \in ActiveIds(u)' /\ mem'[i].company = k.list[k.pos]
        /\ \A j \in Ids : j # i => mem'[j] = mem[j]
    BY <1>3, <2>2, <2>4 DEF ActiveIds, Held
  <2>6. ActiveIds(u)' = ActiveIds(u) \cup {i}
    BY <2>5 DEF ActiveIds, Held
  <2>7. CompaniesOf(u) \subseteq CompaniesOf(u)' /\ k.list[k.pos] \in CompaniesOf(u)'
    <3>1. \A j \in ActiveIds(u) : mem'[j].company = mem[j].company
      BY <2>5 DEF ActiveIds
    <3> QED BY <2>5, <2>6, <3>1 DEF CompaniesOf
  <2>8. SyncKeeps(k, u)'
    <3>1. \A c : OwnerOf(c)' = OwnerOf(c)
      BY <2>3 DEF OwnerOf, Live
    <3>2. mem'[i].company \in Listed(k)
      BY <1>3, <1>4, <2>5 DEF Listed
    <3>3. \A j \in ActiveIds(u) : mem'[j] = mem[j]
      BY <2>5 DEF ActiveIds
    <3> QED BY <1>5, <2>6, <3>1, <3>2, <3>3 DEF SyncKeeps, Listed
  <2>9. \A n \in 1 .. Len(k.list) : n <= k.pos => k.list[n] \in CompaniesOf(u)'
    BY <1>4, <1>6, <2>7
  <2> QED BY <1>1, <1>2, <1>4, <2>3, <2>8, <2>9, AdvanceLone
<1>8. CASE pc[a] # "insert"
  <2>1. Unset(a) \/ SetPrimary(a) \/ WriteMember(a)
    BY <1>8 DEF Statement, GetPrimary, Exists, InsertMember, InsertRefused, WriteCompany, CheckOwner,
       FindMember, SoftDelete, SyncNext, SyncDrop, Assign, CommitUser, Fail, Answer
  <2>2. comp' = comp
    BY <2>1 DEF Unset, SetPrimary, WriteMember, Return
  <2>3. CASE Unset(a) \/ SetPrimary(a)
    <3>1. \E p \in BOOLEAN : \A i \in Ids :
             mem'[i] = mem[i] \/ (mem[i] # NoRow /\ mem'[i] = [mem[i] EXCEPT !.primary = p])
      <4>1. CASE Unset(a)
        BY <4>1 DEF Unset, Held
      <4>2. CASE SetPrimary(a)
        BY <4>2 DEF SetPrimary, Marked, MembershipIds, Held, Return
      <4> QED BY <2>3, <4>1, <4>2
    <3>2. RowsKept /\ StatusKept
      BY <3>1, MarkKept
    <3>3. SameActive
      BY <3>1, <3>2, KeptActive
    <3>4. SyncKeeps(k, u)' /\ CompaniesOf(u)' = CompaniesOf(u)
      BY <1>5, <2>2, <3>3, KeepsSame, SameCompanies
    <3>5. \A n \in 1 .. Len(k.list) : n <= k.pos => k.list[n] \in CompaniesOf(u)'
      BY <1>4, <1>6, <1>8, <3>4
    <3>6. CASE Unset(a)
      <4>1. pc'[a] = "set" /\ call' = call
        BY <1>3, <3>6 DEF Unset, Goto
      <4>2. Accounted(a)'
        BY <1>1, <1>2, <3>4, <4>1 DEF Accounted, SyncKeeps
      <4>3. /\ \A n \in 1 .. Len(k.list) : n < k.pos => k.list[n] \in CompaniesOf(u)'
            /\ k.list[k.pos] \in CompaniesOf(u)' /\ k.current \subseteq ActiveIds(u)'
        BY <1>4, <1>6, <1>8, <3>4 DEF SyncKeeps
      <4> QED BY <1>1, <1>2, <4>1, <4>2, <4>3 DEF LoneSync, Loop
    <3>7. CASE SetPrimary(a)
      <4>1. Advance(a, TRUE)
        BY <3>7 DEF SetPrimary
      <4> QED BY <1>1, <1>2, <1>4, <2>2, <3>4, <3>5, <4>1, AdvanceLone
    <3> QED BY <2>3, <3>6, <3>7
  <2>4. CASE WriteMember(a)
    <3>1. /\ pc[a] = "write" /\ mem' = Rewritten(a) /\ Promote(a)
      BY <2>4 DEF WriteMember
    <3>2. RowsKept
      BY <2>4, WriteMemberKept
    <3>3. call[a].active = "keep" /\ call[a].row.active = mem[call[a].id].active
      BY <1>3, <3>1 DEF IInv, Reads, ReadSync
    <3>4. ASSUME NEW i \in Ids
          PROVE  \/ mem'[i] = mem[i]
                 \/ /\ mem[i] # NoRow
                    /\ mem'[i].active = mem[i].active /\ mem'[i].deleted = mem[i].deleted
      BY <3>1, <3>3, RewrittenRows DEF Held
    <3>5. StatusKept
      BY <3>4 DEF StatusKept
    <3>6. SameActive
      BY <3>2, <3>4, <3>5, KeptActive
    <3>7. SyncKeeps(k, u)' /\ CompaniesOf(u)' = CompaniesOf(u)
      BY <1>5, <2>2, <3>6, KeepsSame, SameCompanies
    <3>8. \A n \in 1 .. Len(k.list) : n <= k.pos => k.list[n] \in CompaniesOf(u)'
      BY <1>4, <1>6, <1>8, <3>7
    <3> QED BY <1>1, <1>2, <2>2, <3>1, <3>7, <3>8, PromoteLone
  <2> QED BY <2>1, <2>3, <2>4
<1> QED BY <1>7, <1>8

\* The statements of a Sync that read, and the removal.
LEMMA SyncReadLone ==
    ASSUME IInv, NEW a \in Admins, Statement(a), ~Return(a), Lone(a), alone[a],
           call[a].op = "Sync", pc[a] \notin {"insert", "unset", "set", "write"}
    PROVE  LoneSync(a)' /\ call'[a].op = "Sync"
<1>1. PICK k : k = call[a]
  OBVIOUS
<1>2. PICK u : u = k.user
  OBVIOUS
<1>3. /\ Serving(a) /\ k \in Call /\ k.list \in Seq(Companies) /\ pc \in [Admins -> Labels]
      /\ call \in [Admins -> Call \cup {NoCall}] /\ LoneSync(a) /\ pc[a] \notin {"idle", "done"}
      /\ mem \in [Ids -> Row \cup {NoRow}]
  BY <1>1, ServingType, StatementExecutes DEF Lone, IInv, Tables, Executes
<1>4. pc[a] \in {"next", "drop", "softDelete"}
  BY <1>3 DEF Serving, Shape
<1>5. CASE pc[a] = "next"
  <2>1. SyncNext(a) /\ mem' = mem /\ comp' = comp
    BY <1>5 DEF Statement, GetPrimary, Exists, InsertMember, InsertRefused, WriteCompany, CheckOwner,
       Unset, SetPrimary, WriteMember, FindMember, SoftDelete, SyncNext, SyncDrop, Assign,
       CommitUser, Fail, Answer
  <2>2. k.pos \in 1 .. Len(k.list) /\ Len(k.list) \in Nat /\ k.list[k.pos] = Target(a)
    BY <1>1, <1>3, <1>5 DEF Serving, Shape, Target
  <2>3. SyncKeeps(k, u) /\ \A n \in 1 .. Len(k.list) : n < k.pos => k.list[n] \in CompaniesOf(u)
    BY <1>1, <1>2, <1>3, <1>5 DEF LoneSync, Accounted, SyncKeeps, Loop
  <2>4. SyncKeeps(k, u)' /\ CompaniesOf(u)' = CompaniesOf(u) /\ ActiveIds(u)' = ActiveIds(u)
    <3>1. ActiveIds(u)' = ActiveIds(u) /\ \A c : OwnerOf(c)' = OwnerOf(c)
      BY <2>1 DEF ActiveIds, OwnerOf, Live, Held
    <3> QED BY <2>1, <2>3, <3>1 DEF SyncKeeps, CompaniesOf, Listed
  <2>5. CASE \E i \in k.current : mem[i].company = Target(a)
    <3>1. PICK i \in k.current : mem[i].company = Target(a)
      BY <2>5
    <3>2. k.list[k.pos] \in CompaniesOf(u)
      BY <2>2, <2>3, <3>1 DEF SyncKeeps, CompaniesOf
    <3>3. \A n \in 1 .. Len(k.list) : n <= k.pos => k.list[n] \in CompaniesOf(u)'
      BY <2>2, <2>3, <2>4, <3>2
    <3>4. \/ Promote(a)
          \/ \E j : pc' = [pc EXCEPT ![a] = "write"] /\ call' = [call EXCEPT ![a].id = j, ![a].row = mem[j]]
      BY <1>1, <2>1, <2>5 DEF SyncNext, Goto
    <3>5. CASE Promote(a)
      BY <1>1, <1>2, <1>5, <2>1, <2>4, <3>3, <3>5, PromoteLone
    <3>6. CASE ~Promote(a)
      <4>1. PICK j : /\ pc' = [pc EXCEPT ![a] = "write"]
                     /\ call' = [call EXCEPT ![a].id = j, ![a].row = mem[j]]
        BY <3>4, <3>6
      <4>2. pc'[a] = "write" /\ call'[a] = [k EXCEPT !.id = j, !.row = mem[j]]
        BY <1>1, <1>3, <4>1
      <4>3. /\ call'[a].op = "Sync" /\ call'[a].list = k.list /\ call'[a].user = u
            /\ call'[a].current = k.current /\ call'[a].pos = k.pos
        BY <1>1, <1>2, <1>3, <4>2 DEF Call
      <4>4. Accounted(a)'
        BY <2>4, <4>3 DEF Accounted, SyncKeeps, Listed
      <4>5. /\ \A n \in 1 .. Len(k.list) : n < k.pos => k.list[n] \in CompaniesOf(u)'
            /\ k.list[k.pos] \in CompaniesOf(u)' /\ call'[a].current \subseteq ActiveIds(u)'
        BY <2>2, <2>4, <3>3, <4>3 DEF SyncKeeps
      <4> QED BY <4>2, <4>3, <4>4, <4>5 DEF LoneSync, Loop
    <3> QED BY <3>5, <3>6
  <2>6. CASE ~\E i \in k.current : mem[i].company = Target(a)
    <3>1. pc'[a] = "insert" /\ call' = call
      BY <1>1, <1>3, <2>1, <2>6 DEF SyncNext, Goto
    <3>2. Accounted(a)'
      BY <1>1, <1>2, <2>4, <3>1 DEF Accounted, SyncKeeps
    <3>3. /\ \A n \in 1 .. Len(k.list) : n < k.pos => k.list[n] \in CompaniesOf(u)'
          /\ k.current \subseteq ActiveIds(u)'
      BY <2>3, <2>4 DEF SyncKeeps
    <3> QED BY <1>1, <1>2, <3>1, <3>2, <3>3 DEF LoneSync, Loop
  <2> QED BY <2>5, <2>6
<1>6. CASE pc[a] = "drop"
  <2>1. SyncDrop(a) /\ mem' = mem /\ comp' = comp
    BY <1>6 DEF Statement, GetPrimary, Exists, InsertMember, InsertRefused, WriteCompany, CheckOwner,
       Unset, SetPrimary, WriteMember, FindMember, SoftDelete, SyncNext, SyncDrop, Assign,
       CommitUser, Fail, Answer
  <2>2. /\ ActiveIds(u)' = ActiveIds(u) /\ CompaniesOf(u)' = CompaniesOf(u)
        /\ \A c : OwnerOf(c)' = OwnerOf(c)
    BY <2>1 DEF ActiveIds, CompaniesOf, OwnerOf, Live, Held
  <2>3. /\ \A n \in 1 .. Len(k.list) : k.list[n] \in CompaniesOf(u)
        /\ \A i \in ActiveIds(u) : \/ i \in k.current
                                   \/ mem[i].company \in Listed(k)
                                   \/ OwnerOf(mem[i].company) = u
    BY <1>1, <1>2, <1>3, <1>6 DEF LoneSync, Accounted, Loop
  <2>4. CASE call' = call
    <3>1. CASE pc'[a] = "done"
      <4>2. ASSUME NEW i \in k.current PROVE mem[i].company \in Listed(k)
        <5>1. {j \in k.current : \A n \in DOMAIN k.list : k.list[n] # mem[j].company} = {}
          BY <1>1, <1>3, <2>1, <3>1 DEF SyncDrop, Goto
        <5> QED BY <4>2, <5>1 DEF Listed
      <4>3. CompaniesOf(u) \subseteq Listed(k) \cup Owned(u)
        <5>1. \A i \in ActiveIds(u) : mem[i].company \in Companies
          BY HeldRow DEF IInv, ActiveIds, Row
        <5> QED BY <2>3, <4>2, <5>1 DEF CompaniesOf, Owned
      <4>4. Owned(u)' = Owned(u)
        BY <2>2 DEF Owned
      <4>5. Accounted(a)'
        BY <1>1, <1>2, <2>1, <2>2, <2>3, <2>4 DEF Accounted
      <4> QED BY <1>1, <1>2, <2>2, <2>3, <2>4, <3>1, <4>3, <4>4, <4>5 DEF LoneSync, Loop, Listed
    <3>2. CASE pc'[a] # "done"
      <4>1. PICK i \in k.current : call' = [call EXCEPT ![a].current = @ \ {i}, ![a].id = i,
                                                  ![a].owner = OwnerOf(mem[i].company)]
        BY <1>1, <1>3, <2>1, <3>2 DEF SyncDrop, Goto
      <4>2. call'[a].current = k.current \ {i}
        BY <1>1, <1>3, <4>1 DEF Call
      <4> QED BY <1>1, <2>4, <4>1, <4>2
    <3> QED BY <3>1, <3>2
  <2>5. CASE call' # call
    <3>1. PICK i \in k.current :
              /\ \A n \in DOMAIN k.list : k.list[n] # mem[i].company
              /\ pc' = [pc EXCEPT ![a] = IF OwnerOf(mem[i].company) = u THEN "drop" ELSE "softDelete"]
              /\ call' = [call EXCEPT ![a].current = @ \ {i}, ![a].id = i,
                                      ![a].owner = OwnerOf(mem[i].company)]
      BY <1>1, <1>2, <2>1, <2>5 DEF SyncDrop, Goto
    <3>2. /\ pc'[a] = IF OwnerOf(mem[i].company) = u THEN "drop" ELSE "softDelete"
          /\ call'[a] = [k EXCEPT !.current = k.current \ {i}, !.id = i, !.owner = OwnerOf(mem[i].company)]
      BY <1>1, <1>3, <3>1
    <3>3. /\ call'[a].op = "Sync" /\ call'[a].list = k.list /\ call'[a].user = u
          /\ call'[a].current = k.current \ {i} /\ call'[a].id = i
      BY <1>1, <1>2, <1>3, <3>2 DEF Call
    <3>4. Accounted(a)'
      BY <2>1, <2>2, <2>3, <3>2, <3>3 DEF Accounted, Listed
    <3>5. mem[i].company \notin Listed(k)
      BY <3>1 DEF Listed
    <3> QED BY <2>1, <2>2, <2>3, <3>2, <3>3, <3>4, <3>5 DEF LoneSync, Loop, Listed
  <2> QED BY <2>4, <2>5
<1>7. CASE pc[a] = "softDelete"
  <2>1. SoftDelete(a) /\ call' = call /\ comp' = comp /\ mem' = Removed(k.id)
    BY <1>1, <1>7 DEF Statement, GetPrimary, Exists, InsertMember, InsertRefused, WriteCompany, CheckOwner,
       Unset, SetPrimary, WriteMember, FindMember, SoftDelete, SyncNext, SyncDrop, Assign,
       CommitUser, Fail, Answer
  <2>2. pc'[a] = "drop" /\ k.id \in Ids
    BY <1>1, <1>3, <1>7, <2>1 DEF SoftDelete, Goto, Serving, Shape
  <2>3. /\ \A n \in 1 .. Len(k.list) : k.list[n] \in CompaniesOf(u)
        /\ mem[k.id].company \notin Listed(k)
        /\ \A i \in ActiveIds(u) : \/ i \in k.current
                                   \/ mem[i].company \in Listed(k)
                                   \/ OwnerOf(mem[i].company) = u
                                   \/ i = k.id
    BY <1>1, <1>2, <1>3, <1>7 DEF LoneSync, Accounted, Loop
  <2>4. \A i \in Ids : i # k.id => mem'[i] = mem[i]
    BY <1>3, <2>1 DEF Removed
  <2>5. k.id \notin ActiveIds(u)'
    <3>1. CASE Held(mem, k.id)
      <4>1. mem[k.id] \in Row /\ mem'[k.id] = [mem[k.id] EXCEPT !.deleted = TRUE]
        BY <1>3, <2>1, <2>2, <3>1, HeldRow DEF Removed, IInv
      <4> QED BY <4>1 DEF ActiveIds, Held, Row
    <3>2. CASE ~Held(mem, k.id)
      BY <2>1, <3>2 DEF Removed, ActiveIds, Held
    <3> QED BY <3>1, <3>2
  <2>6. ActiveIds(u)' = ActiveIds(u) \ {k.id} /\ \A i \in ActiveIds(u)' : mem'[i] = mem[i]
    BY <2>4, <2>5 DEF ActiveIds, Held
  <2>7. \A n \in 1 .. Len(k.list) : k.list[n] \in CompaniesOf(u)'
    <3> SUFFICES ASSUME NEW n \in 1 .. Len(k.list) PROVE k.list[n] \in CompaniesOf(u)'
      OBVIOUS
    <3>1. PICK i \in ActiveIds(u) : mem[i].company = k.list[n]
      BY <2>3 DEF CompaniesOf
    <3>2. i # k.id
      BY <1>3, <2>3, <3>1 DEF Listed
    <3> QED BY <2>6, <3>1, <3>2 DEF CompaniesOf
  <2>8. Accounted(a)'
    <3>1. \A c : OwnerOf(c)' = OwnerOf(c)
      BY <2>1 DEF OwnerOf, Live
    <3> QED BY <1>1, <1>2, <2>1, <2>3, <2>6, <3>1 DEF Accounted
  <2> QED BY <1>1, <1>2, <2>1, <2>2, <2>7, <2>8 DEF LoneSync, Loop
<1> QED BY <1>4, <1>5, <1>6, <1>7

\* A call begins with nothing delivered yet.
LEMMA RequestLone ==
    ASSUME IInv, NEW a \in Admins, Request(a)
    PROVE  Lone(a)'
<1>0. /\ mem' = mem /\ pc \in [Admins -> Labels] /\ call \in [Admins -> Call \cup {NoCall}]
  BY RequestKept DEF IInv, Calls
<1>1. ASSUME NEW c \in Companies, NEW u \in users,
             \/ BeginCreate(a, c, u) \/ BeginUpdate(a, c, u)
             \/ BeginAddUser(a, c, u) \/ BeginRemoveUser(a, c, u)
      PROVE  Lone(a)'
  <2>1. CASE BeginCreate(a, c, u)
    <3>1. call'[a].op = "Create"
      BY <1>0, <2>1 DEF BeginCreate, Begin, Blank
    <3> QED BY <3>1 DEF Lone, LonePlain, LoneCreate, LoneSync
  <2>2. CASE BeginUpdate(a, c, u)
    <3>1. /\ call'[a].op = "Update" /\ call'[a].company = c /\ pc'[a] \in {"exists", "writeCompany"}
          /\ Live(c)'
      BY <1>0, <2>2 DEF BeginUpdate, Begin, Blank, Live
    <3> QED BY <3>1 DEF Lone, LonePlain, LoneCreate, LoneSync, Live
  <2>3. CASE BeginAddUser(a, c, u)
    <3>1. call'[a].op = "AddUser" /\ pc'[a] = "exists"
      BY <1>0, <2>3 DEF BeginAddUser, Begin, Blank
    <3> QED BY <3>1 DEF Lone, LonePlain, LoneCreate, LoneSync
  <2>4. CASE BeginRemoveUser(a, c, u)
    <3>1. /\ pc'[a] = "findMember"
          /\ call'[a] = [Blank("RemoveUser", c, u) EXCEPT !.owner = comp[c].owner]
      BY <1>0, <2>4 DEF BeginRemoveUser, Begin
    <3>2. call'[a].op = "RemoveUser"
      BY <3>1 DEF Blank
    <3> QED BY <3>1, <3>2 DEF Lone, LonePlain, LoneCreate, LoneSync
  <2> QED BY <1>1, <2>1, <2>2, <2>3, <2>4
<1>2. ASSUME NEW c \in Companies, NEW u \in users, NEW act \in {"keep", "on", "off"},
             NEW pr \in BOOLEAN, BeginUpdateUser(a, c, u, act, pr)
      PROVE  Lone(a)'
  <2>1. PICK i \in MembershipIds(c, u) :
             /\ pc'[a] = CASE act = "off" -> "checkOwner"
                           [] act # "off" /\ pr -> "unset"
                           [] OTHER -> "write"
             /\ call'[a] = [Blank("UpdateUser", c, u) EXCEPT !.active = act, !.primary = pr,
                                                             !.id = i, !.row = mem[i]]
    BY <1>0, <1>2 DEF BeginUpdateUser, Begin
  <2>2. /\ call'[a].op = "UpdateUser" /\ call'[a].company = c /\ call'[a].user = u
        /\ call'[a].id = i /\ pc'[a] \in {"checkOwner", "unset", "write"}
    BY <2>1 DEF Blank
  <2>3. (call[a].id \in MembershipIds(call[a].company, call[a].user))'
    BY <1>0, <2>2 DEF MembershipIds, Held
  <2> QED BY <2>2, <2>3 DEF Lone, LonePlain, LoneCreate, LoneSync
<1>3. ASSUME NEW u \in users, NEW list \in Lists, NEW role \in BOOLEAN,
             BeginSync(a, u, list, role)
      PROVE  Lone(a)'
  <2>1. /\ pc'[a] = IF list = <<>> THEN "drop" ELSE "next"
        /\ call'[a] = [Blank("Sync", NoCompany, u) EXCEPT !.list = list, !.role = role,
                             !.current = ActiveIds(u), !.promoted = HasPrimary(u)]
    BY <1>0, <1>3 DEF BeginSync, Begin
  <2>2. /\ call'[a].op = "Sync" /\ call'[a].list = list /\ call'[a].user = u
        /\ call'[a].current = ActiveIds(u) /\ call'[a].pos = 1
    BY <2>1 DEF Blank
  <2>3. ActiveIds(u)' = ActiveIds(u)
    BY <1>0 DEF ActiveIds, Held
  <2>4. Accounted(a)'
    BY <2>2, <2>3 DEF Accounted
  <2>5. pc'[a] \in {"drop", "next"} /\ (pc'[a] = "drop" => list = <<>>)
    BY <2>1
  <2>6. \A n \in 1 .. Len(list) : ~(n < 1) /\ list # <<>>
    OBVIOUS
  <2>7. LoneSync(a)'
    BY <2>2, <2>3, <2>4, <2>5, <2>6 DEF LoneSync, Loop
  <2> QED BY <2>2, <2>7 DEF Lone, LonePlain, LoneCreate
<1>4. ASSUME NEW u \in Users, NEW list \in Lists, BeginCreateUser(a, u, list)
      PROVE  Lone(a)'
  <2>1. /\ pc'[a] = "assign" /\ list # <<>>
        /\ call'[a] = [Blank("CreateUser", NoCompany, u) EXCEPT !.list = list]
    BY <1>0, <1>4 DEF BeginCreateUser, Begin
  <2>2. call'[a].op = "CreateUser" /\ call'[a].list = list
    BY <2>1 DEF Blank
  <2> QED BY <2>1, <2>2 DEF Lone, LonePlain, LoneCreate, LoneSync
<1> QED BY <1>1, <1>2, <1>3, <1>4 DEF Request

LEMMA StatementLone ==
    ASSUME IInv, NEW a \in Admins, Statement(a), ~Return(a), Lone(a), alone[a]
    PROVE  Lone(a)'
<1>1. CASE call[a].op = "Sync"
  <2>1. LoneSync(a)' /\ call'[a].op = "Sync"
    BY <1>1, SyncWriteLone, SyncReadLone
  <2> QED BY <2>1 DEF Lone, LonePlain, LoneCreate
<1>2. CASE call[a].op = "CreateUser"
  <2>1. LoneCreate(a)' /\ call'[a].op = "CreateUser"
    BY <1>2, CreateLone
  <2> QED BY <2>1 DEF Lone, LonePlain, LoneSync
<1>3. CASE call[a].op \notin {"Sync", "CreateUser"}
  <2>1. LonePlain(a)' /\ call'[a].op \notin {"Sync", "CreateUser"}
    BY <1>3, PlainLone
  <2> QED BY <2>1 DEF Lone, LoneCreate, LoneSync
<1> QED BY <1>1, <1>2, <1>3

LEMMA LoneStep ==
    ASSUME IInv, DInv, [Next]_vars
    PROVE  DInv'
<1>1. ASSUME NEW a \in Admins, Request(a) \/ Statement(a), NEW b \in Admins, alone'[b]
      PROVE  Lone(b)'
  <2>1. CASE b # a
    <3>1. /\ pc'[b] = pc[b] /\ call'[b] = call[b] /\ alone[b] /\ mem' = mem /\ comp' = comp
      BY <1>1, <2>1, OthersQuiet
    <3> QED BY <3>1, OtherLone DEF DInv
  <2>2. CASE b = a /\ Request(a)
    BY <2>2, RequestLone
  <2>3. CASE b = a /\ Statement(a)
    <3>1. ~Return(a)
      BY <1>1, <2>3 DEF Return, IInv, Calls
    <3>2. alone[a]
      BY <1>1, <2>3, <3>1, StatementExecutes DEF Executes
    <3> QED BY <2>3, <3>1, <3>2, StatementLone DEF DInv
  <2> QED BY <1>1, <2>1, <2>2, <2>3
<1>2. ASSUME NEW c \in Companies, DeleteCompany(c) \/ RestoreCompany(c)
      PROVE  DInv'
  BY <1>2 DEF DeleteCompany, RestoreCompany, DInv
<1>3. CASE UNCHANGED vars
  <2>1. ASSUME NEW b \in Admins, alone'[b] PROVE Lone(b)'
    BY <1>3, <2>1, OtherLone DEF DInv, vars
  <2> QED BY <2>1 DEF DInv
<1>4. CASE Next
  BY <1>1, <1>2, <1>4 DEF Next, DInv
<1> QED BY <1>3, <1>4

LEMMA Delivers ==
    ASSUME IInv, DInv
    PROVE  LoneCallsDeliver
<1> SUFFICES ASSUME NEW a \in Admins, pc[a] = "done", alone[a]
             PROVE  LET k == call[a]
                        rows == {mem[i] : i \in MembershipIds(k.company, k.user)}
                    IN CASE k.op = "Update" -> OwnerOf(k.company) = k.user
                         [] k.op = "AddUser" -> \E r \in rows : r.active /\ ~r.primary
                         [] k.op = "UpdateUser" -> \E r \in rows :
                                                     /\ k.primary => r.primary
                                                     /\ k.active # "keep" => r.active = (k.active = "on")
                         [] k.op = "RemoveUser" -> rows = {}
                         [] k.op \in {"Sync", "CreateUser"} ->
                                LET listed == {k.list[n] : n \in DOMAIN k.list} IN
                                /\ listed \subseteq CompaniesOf(k.user)
                                /\ CompaniesOf(k.user) \subseteq listed \cup Owned(k.user)
                                /\ k.op = "CreateUser" => HasPrimary(k.user)
                         [] OTHER -> TRUE
  BY DEF LoneCallsDeliver
<1> DEFINE k == call[a]
           ids == MembershipIds(k.company, k.user)
           rows == {mem[i] : i \in ids}
           listed == {k.list[n] : n \in DOMAIN k.list}
<1>1. Lone(a) /\ k \in Call /\ k.list \in Seq(Companies)
  BY ServingType DEF DInv
<1>2. CASE k.op = "Update"
  BY <1>1, <1>2 DEF Lone, LonePlain, OwnerOf
<1>3. CASE k.op = "AddUser"
  <2>1. \E i \in ids : mem[i].active /\ ~mem[i].primary
    BY <1>1, <1>3 DEF Lone, LonePlain
  <2>2. \E r \in rows : r.active /\ ~r.primary
    BY <2>1
  <2> QED BY <1>3, <2>2
<1>4. CASE k.op = "UpdateUser"
  <2>1. /\ k.id \in ids /\ k.primary => mem[k.id].primary
        /\ k.active = "on" => mem[k.id].active
        /\ k.active = "off" => ~mem[k.id].active
        /\ k.active \in {"keep", "on", "off"}
    BY <1>1, <1>4 DEF Lone, LonePlain, Call
  <2>2. k.id \in ids
    BY <1>1, <1>4 DEF Lone, LonePlain
  <2>3. mem[k.id].active \in BOOLEAN
    BY <2>2, HeldRow DEF IInv, MembershipIds, Row
  <2>4. (k.primary => mem[k.id].primary) /\ (k.active # "keep" => mem[k.id].active = (k.active = "on"))
    <3>1. CASE k.active = "on"
      BY <2>1, <2>2, <2>3, <3>1
    <3>2. CASE k.active = "off"
      BY <2>1, <2>2, <2>3, <3>2
    <3>3. CASE k.active = "keep"
      BY <2>1, <2>2, <3>3
    <3> QED BY <2>1, <3>1, <3>2, <3>3
  <2>5. \E r \in rows : /\ k.primary => r.primary
                        /\ k.active # "keep" => r.active = (k.active = "on")
    BY <2>2, <2>4
  <2> QED BY <1>4, <2>5
<1>5. CASE k.op = "RemoveUser"
  <2>1. ids = {}
    BY <1>1, <1>5 DEF Lone, LonePlain
  <2>2. rows = {}
    BY <2>1
  <2> QED BY <1>5, <2>2
<1>6. CASE k.op = "Sync"
  <2>1. /\ \A n \in 1 .. Len(k.list) : k.list[n] \in CompaniesOf(k.user)
        /\ CompaniesOf(k.user) \subseteq listed \cup Owned(k.user)
    BY <1>1, <1>6 DEF Lone, LoneSync, Loop, Listed
  <2>2. listed \subseteq CompaniesOf(k.user)
    BY <1>1, <2>1
  <2> QED BY <1>6, <2>1, <2>2
<1>7. CASE k.op = "CreateUser"
  <2>1. CompaniesOf(k.user) = listed /\ HasPrimary(k.user)
    BY <1>1, <1>7 DEF Lone, LoneCreate, Listed
  <2> QED BY <1>7, <2>1
<1>8. CASE k.op = "Create"
  BY <1>8
<1>9. k.op \in {"Create", "Update", "AddUser", "UpdateUser", "RemoveUser", "Sync", "CreateUser"}
  BY <1>1 DEF Call
<1> QED BY <1>2, <1>3, <1>4, <1>5, <1>6, <1>7, <1>8, <1>9

\* A call that succeeded, and that no other call or deletion of a company ran
\* beside, did over all of its statements what its request asked for.
THEOREM MembershipsDeliver == Spec => []LoneCallsDeliver
<1>1. Init => DInv
  BY DEF Init, DInv
<1>2. IInv /\ DInv /\ [Next]_vars => DInv'
  BY LoneStep
<1>3. IInv /\ DInv => LoneCallsDeliver
  BY Delivers
<1> QED BY <1>1, <1>2, <1>3, Invariance, PTL DEF Spec
=============================================================================
