------------------------ MODULE PermissionCache_proofs ------------------------
(***************************************************************************)
(* StaleHasCause and DeletedRoleStays for any users, companies, roles,     *)
(* operations and lookups.                                                 *)
(***************************************************************************)
EXTENDS PermissionCache, TLAPS

USE RolesAssumption, GrantsAssumption, NoCompanyAssumption, NoneAssumption, BoundAssumption

\* Nobody holds a role id that was never created.
HeldExists ==
    \A r \in Roles : roles[r].status = "none" =>
        \A u \in Users : /\ userRoles[<<u, r>>] = None
                         /\ \A co \in Companies : members[<<u, co>>] # r

\* A role about to be assigned was read, so it has been created.
CheckedExists ==
    \A a \in Admins : change[a] # None /\ change[a].op = "assign"
                        => roles[change[a].role].status # "none"

\* An answer no write has overtaken is still the database's.
CallFresh ==
    \A c \in Calls, k \in Keys :
        calls[c] # None /\ calls[c].key = k /\ ~calls[c].overtaken
            => calls[c].val = Answer(k)

\* An operation invalidates only after its write.
OneStage == \A a \in Admins : change[a] # None => sweep[a] = None

IInv == TypeOK /\ HeldExists /\ CheckedExists /\ CallFresh /\ OneStage /\ StaleHasCause

---------------------------------------------------------------------------
LEMMA AnswerMember ==
    ASSUME NEW k, NEW x
    PROVE  x \in Answer(k) <=>
              \E r \in Roles : /\ Holds(k, r)
                               /\ roles[r].status = "live"
                               /\ roles[r].active
                               /\ x \in roles[r].codes
BY DEF Answer

LEMMA AnswerType == TypeOK => \A k : Answer(k) \in SUBSET Codes
<1> SUFFICES ASSUME TypeOK, NEW k, NEW x \in Answer(k) PROVE x \in Codes
  OBVIOUS
<1>1. PICK r \in Roles : x \in roles[r].codes
  BY AnswerMember
<1>2. roles[r] \in Row
  BY DEF TypeOK
<1> QED BY <1>1, <1>2 DEF Row

LEMMA WrittenType ==
    ASSUME TypeOK, Written
    PROVE  /\ calls' \in [Calls -> Call \cup {None}]
           /\ changes' \in 0 .. MaxChanges
<1>1. calls' \in [Calls -> Call \cup {None}]
  <2> SUFFICES ASSUME NEW c \in Calls PROVE calls'[c] \in Call \cup {None}
    BY DEF Written
  <2>1. calls[c] \in Call \cup {None}
    BY DEF TypeOK
  <2>2. CASE calls[c] = None
    BY <2>2 DEF Written
  <2>3. CASE calls[c] # None
    <3>1. calls[c] \in Call
      BY <2>1, <2>3
    <3>2. [calls[c] EXCEPT !.overtaken = TRUE] \in Call
      BY <3>1 DEF Call
    <3> QED BY <3>1, <3>2 DEF Written
  <2> QED BY <2>2, <2>3
<1>2. changes' \in 0 .. MaxChanges
  BY DEF Written, TypeOK
<1> QED BY <1>1, <1>2

LEMMA BeginSweepType ==
    ASSUME TypeOK, NEW a \in Admins, NEW K \in SUBSET Keys, BeginSweep(a, K)
    PROVE  /\ change' \in [Admins -> Change \cup {None}]
           /\ sweep' \in [Admins -> Sweep \cup {None}]
BY DEF TypeOK, BeginSweep, Sweep

LEMMA UncachedType ==
    ASSUME NEW sw \in Sweep \cup {None}, NEW K
    PROVE  Uncached(sw, K) \in Sweep \cup {None}
BY DEF Uncached, Sweep

LEMMA MarkedType ==
    ASSUME TypeOK, NEW K, Marked(K)
    PROVE  cache' \in [Keys -> Entry \cup {None}]
<1> SUFFICES ASSUME NEW k \in Keys PROVE cache'[k] \in Entry \cup {None}
  BY DEF Marked
<1>1. cache[k] \in Entry \cup {None}
  BY DEF TypeOK
<1>2. cache[k] \in Entry => [cache[k] EXCEPT !.cause = "unswept"] \in Entry
  BY DEF Entry
<1> QED BY <1>1, <1>2 DEF Marked

LEMMA RowType ==
    ASSUME TypeOK, NEW ch \in Change,
           \/ ch.op = "row" /\ WriteRow(ch)
           \/ ch.op = "permissions" /\ WritePermissions(ch)
           \/ ch.op = "delete" /\ SoftDelete(ch)
    PROVE  roles' \in [Roles -> Row]
<1>1. ch.role \in Roles /\ roles[ch.role] \in Row
  BY DEF Change, TypeOK
<1>2. CASE ch.op = "row" /\ WriteRow(ch)
  <2>1. ch.active \in BOOLEAN /\ ch.codes \in Grants
    BY <1>2 DEF Change
  <2>2. [roles[ch.role] EXCEPT !.active = ch.active, !.codes = ch.codes] \in Row
    BY <1>1, <2>1 DEF Row
  <2> QED BY <1>1, <1>2, <2>2 DEF WriteRow, TypeOK
<1>3. CASE ch.op = "permissions" /\ WritePermissions(ch)
  <2>1. ch.codes \in Grants
    BY <1>3 DEF Change
  <2>2. [roles[ch.role] EXCEPT !.codes = ch.codes] \in Row
    BY <1>1, <2>1 DEF Row
  <2> QED BY <1>1, <1>3, <2>2 DEF WritePermissions, TypeOK
<1>4. CASE ch.op = "delete" /\ SoftDelete(ch)
  <2>1. [roles[ch.role] EXCEPT !.status = "deleted"] \in Row
    BY <1>1 DEF Row
  <2> QED BY <1>1, <1>4, <2>1 DEF SoftDelete, TypeOK
<1> QED BY <1>2, <1>3, <1>4

\* What is checked is a change of the right shape, to a role that exists.
LEMMA CheckedInChange ==
    ASSUME NEW a \in Admins,
           \/ \E r \in Roles : CheckUpdate(a, r) \/ CheckUpdatePermissions(a, r) \/ CheckDelete(a, r)
           \/ \E r \in Roles, u \in Users, s \in Scopes : CheckAssign(a, r, u, s) \/ CheckRemove(a, r, u, s)
    PROVE  \E ch \in Change :
              Check(a, ch) /\ (ch.op = "assign" => roles[ch.role].status # "none")
<1>1. ASSUME NEW r \in Roles, CheckUpdate(a, r) PROVE \E ch \in Change : Check(a, ch) /\ ch.op = "row"
  <2>1. PICK active \in BOOLEAN, codes \in Grants :
            Check(a, [op |-> "row", role |-> r, active |-> active, codes |-> codes])
    BY <1>1 DEF CheckUpdate
  <2>2. [op |-> "row", role |-> r, active |-> active, codes |-> codes] \in Change
    BY DEF Change
  <2> QED BY <2>1, <2>2
<1>2. ASSUME NEW r \in Roles, CheckUpdatePermissions(a, r)
      PROVE  \E ch \in Change : Check(a, ch) /\ ch.op = "permissions"
  <2>1. PICK codes \in Grants : Check(a, [op |-> "permissions", role |-> r, codes |-> codes])
    BY <1>2 DEF CheckUpdatePermissions
  <2>2. [op |-> "permissions", role |-> r, codes |-> codes] \in Change
    BY DEF Change
  <2> QED BY <2>1, <2>2
<1>3. ASSUME NEW r \in Roles, CheckDelete(a, r)
      PROVE  \E ch \in Change : Check(a, ch) /\ ch.op = "delete"
  <2>1. [op |-> "delete", role |-> r] \in Change
    BY DEF Change
  <2> QED BY <1>3, <2>1 DEF CheckDelete
<1>4. ASSUME NEW r \in Roles, NEW u \in Users, NEW s \in Scopes, CheckAssign(a, r, u, s)
      PROVE  \E ch \in Change : Check(a, ch) /\ roles[ch.role].status # "none"
  <2>1. [op |-> "assign", role |-> r, user |-> u, scope |-> s] \in Change
    BY DEF Change
  <2> QED BY <1>4, <2>1 DEF CheckAssign
<1>5. ASSUME NEW r \in Roles, NEW u \in Users, NEW s \in Scopes, CheckRemove(a, r, u, s)
      PROVE  \E ch \in Change : Check(a, ch) /\ ch.op = "remove"
  <2>1. [op |-> "remove", role |-> r, user |-> u, scope |-> s] \in Change
    BY DEF Change
  <2> QED BY <1>5, <2>1 DEF CheckRemove
<1> QED BY <1>1, <1>2, <1>3, <1>4, <1>5

LEMMA InitType == Init => TypeOK
<1> SUFFICES ASSUME Init PROVE TypeOK
  OBVIOUS
<1> QED BY DEF Init, TypeOK, Scopes

LEMMA NextType == TypeOK /\ [Next]_vars => TypeOK'
<1> SUFFICES ASSUME TypeOK, [Next]_vars PROVE TypeOK'
  OBVIOUS
<1>1. ASSUME NEW c \in Calls, NEW k \in Keys, Fetch(c, k) PROVE TypeOK'
  <2>1. [key |-> k, val |-> Answer(k), overtaken |-> FALSE] \in Call
    BY AnswerType DEF Call
  <2> QED BY <1>1, <2>1 DEF TypeOK, Fetch, db
<1>2. ASSUME NEW c \in Calls, Store(c) PROVE TypeOK'
  <2>1. calls[c] \in Call
    BY <1>2 DEF TypeOK, Store
  <2>2. calls[c].key \in Keys /\ calls[c].val \in SUBSET Codes
    BY <2>1 DEF Call
  <2>3. [val |-> calls[c].val,
         cause |-> IF calls[c].overtaken THEN "overtaken" ELSE "none"] \in Entry
    BY <2>2 DEF Entry
  <2> QED BY <1>2, <2>2, <2>3 DEF TypeOK, Store, db
<1>3. ASSUME NEW c \in Calls, StoreFails(c) PROVE TypeOK'
  BY <1>3 DEF TypeOK, StoreFails, db
<1>4. ASSUME NEW r \in Roles, NEW active \in BOOLEAN, NEW codes \in Grants, Create(r, active, codes)
      PROVE  TypeOK'
  <2>1. [status |-> "live", active |-> active, codes |-> codes] \in Row
    BY DEF Row
  <2>2. roles' \in [Roles -> Row]
    BY <1>4, <2>1 DEF Create, TypeOK
  <2> QED BY <1>4, <2>2, WrittenType DEF TypeOK, Create
<1>5. ASSUME NEW a \in Admins,
             \/ \E r \in Roles : CheckUpdate(a, r) \/ CheckUpdatePermissions(a, r) \/ CheckDelete(a, r)
             \/ \E r \in Roles, u \in Users, s \in Scopes : CheckAssign(a, r, u, s) \/ CheckRemove(a, r, u, s)
      PROVE  TypeOK'
  <2>1. PICK ch \in Change : Check(a, ch)
    BY <1>5, CheckedInChange
  <2> QED BY <2>1 DEF TypeOK, Check, db
<1>6. ASSUME NEW a \in Admins, NEW ch \in Change, WriteRole(a, ch) PROVE TypeOK'
  <2>1. roles' \in [Roles -> Row]
    BY <1>6, RowType DEF WriteRole
  <2>2. /\ change' \in [Admins -> Change \cup {None}]
        /\ sweep' \in [Admins -> Sweep \cup {None}]
    BY <1>6, BeginSweepType DEF WriteRole, AllKeys
  <2> QED BY <1>6, <2>1, <2>2, WrittenType DEF TypeOK, WriteRole
<1>7. ASSUME NEW a \in Admins, NEW ch \in Change, WriteUserRole(a, ch) PROVE TypeOK'
  <2>1. ch.user \in Users /\ ch.role \in Roles /\ ch.scope \in Scopes
    BY <1>7 DEF WriteUserRole, Change
  <2>2. userRoles' \in [Users \X Roles -> Scopes \cup {None}]
    BY <1>7, <2>1 DEF WriteUserRole, InsertUserRole, DeleteUserRole, TypeOK
  <2>3. UserKeys(ch.user) \in SUBSET Keys
    BY <2>1 DEF UserKeys, Keys
  <2>4. /\ change' \in [Admins -> Change \cup {None}]
        /\ sweep' \in [Admins -> Sweep \cup {None}]
    BY <1>7, <2>3, BeginSweepType DEF WriteUserRole
  <2> QED BY <1>7, <2>2, <2>4, WrittenType DEF TypeOK, WriteUserRole
<1>8. ASSUME NEW a \in Admins, Scan(a) PROVE TypeOK'
  <2>1. sweep[a] \in Sweep
    BY <1>8 DEF TypeOK, Scan
  <2>2. PICK page \in SUBSET (sweep[a].keys \cap Cached) :
          sweep' = [sweep EXCEPT ![a].page = page,
                                 ![a].todo = (@ \cap Cached) \ page,
                                 ![a].started = TRUE]
    BY <1>8 DEF Scan
  <2>3. sweep'[a] \in Sweep
    BY <2>1, <2>2 DEF Sweep, TypeOK
  <2>4. sweep' \in [Admins -> Sweep \cup {None}]
    BY <2>2, <2>3 DEF TypeOK
  <2> QED BY <1>8, <2>4 DEF TypeOK, Scan, db
<1>9. ASSUME NEW a \in Admins, DelPage(a) PROVE TypeOK'
  <2>1. sweep[a] \in Sweep
    BY <1>9 DEF TypeOK, DelPage
  <2>2. [sweep[a] EXCEPT !.page = {}] \in Sweep
    BY <2>1 DEF Sweep
  <2>3. sweep' \in [Admins -> Sweep \cup {None}]
    BY <1>9, <2>2, UncachedType DEF TypeOK, DelPage
  <2>4. cache' \in [Keys -> Entry \cup {None}]
    BY <1>9 DEF TypeOK, DelPage
  <2> QED BY <1>9, <2>3, <2>4 DEF TypeOK, DelPage, db
<1>10. ASSUME NEW a \in Admins, SweepEnds(a) PROVE TypeOK'
  BY <1>10 DEF TypeOK, SweepEnds, db
<1>11. ASSUME NEW a \in Admins, SweepFails(a) PROVE TypeOK'
  <2>1. cache' \in [Keys -> Entry \cup {None}]
    BY <1>11, MarkedType DEF SweepFails
  <2> QED BY <1>11, <2>1 DEF TypeOK, SweepFails, db
<1>12. ASSUME NEW a \in Admins, WriteFails(a) PROVE TypeOK'
  BY <1>12 DEF TypeOK, WriteFails, db
<1>13. ASSUME NEW u \in Users, NEW co \in Companies, NEW r \in Roles \cup {NoRole},
              SetMembership(u, co, r)
       PROVE  TypeOK'
  <2>1. cache' \in [Keys -> Entry \cup {None}]
    BY <1>13, MarkedType DEF SetMembership
  <2>2. members' \in [Users \X Companies -> Roles \cup {NoRole}]
    BY <1>13 DEF SetMembership, TypeOK
  <2> QED BY <1>13, <2>1, <2>2, WrittenType DEF TypeOK, SetMembership
<1>14. ASSUME NEW k \in Keys, Expire(k) PROVE TypeOK'
  <2>1. sweep' \in [Admins -> Sweep \cup {None}]
    BY <1>14, UncachedType DEF TypeOK, Expire
  <2> QED BY <1>14, <2>1 DEF TypeOK, Expire, db
<1>15. CASE UNCHANGED vars
  BY <1>15 DEF TypeOK, vars
<1> QED
  BY <1>1, <1>2, <1>3, <1>4, <1>5, <1>6, <1>7, <1>8, <1>9, <1>10, <1>11, <1>12, <1>13,
     <1>14, <1>15 DEF Next, Lookup, Operate

\* Every variable keeps its type.
THEOREM PermissionTypeOK == Spec => []TypeOK
BY InitType, NextType, PTL DEF Spec

---------------------------------------------------------------------------
(* What a write changes *)

LEMMA DbSame ==
    ASSUME UNCHANGED db
    PROVE  /\ \A k : Answer(k)' = Answer(k)
           /\ HeldExists => HeldExists'
BY DEF db, Answer, Holds, HeldExists

\* A key's answer depends on the rows of the roles it holds.
LEMMA AnswerUnaffected ==
    ASSUME NEW k,
           \A r \in Roles : Holds(k, r)' <=> Holds(k, r),
           \A r \in Roles : Holds(k, r) => roles'[r] = roles[r]
    PROVE  Answer(k)' = Answer(k)
<1>1. ASSUME NEW x PROVE x \in Answer(k)' <=> x \in Answer(k)
  <2>1. x \in Answer(k) <=>
          \E r \in Roles : /\ Holds(k, r)
                           /\ roles[r].status = "live"
                           /\ roles[r].active
                           /\ x \in roles[r].codes
    BY AnswerMember
  <2>2. x \in Answer(k)' <=>
          \E r \in Roles : /\ Holds(k, r)'
                           /\ roles'[r].status = "live"
                           /\ roles'[r].active
                           /\ x \in roles'[r].codes
    BY DEF Answer
  <2> QED BY <2>1, <2>2
<1> QED BY <1>1

LEMMA StatusKept ==
    ASSUME TypeOK, NEW ch \in Change, NEW r \in Roles, roles[r].status # "none",
           \/ ch.op = "row" /\ WriteRow(ch)
           \/ ch.op = "permissions" /\ WritePermissions(ch)
           \/ ch.op = "delete" /\ SoftDelete(ch)
    PROVE  roles'[r].status # "none"
<1>1. ch.role \in Roles /\ roles[ch.role] \in Row /\ roles[r] \in Row
  BY DEF Change, TypeOK
<1>2. CASE ch.op = "row" /\ WriteRow(ch)
  BY <1>1, <1>2 DEF WriteRow, TypeOK, Row
<1>3. CASE ch.op = "permissions" /\ WritePermissions(ch)
  BY <1>1, <1>3 DEF WritePermissions, TypeOK, Row
<1>4. CASE ch.op = "delete" /\ SoftDelete(ch)
  BY <1>1, <1>4 DEF SoftDelete, TypeOK, Row
<1> QED BY <1>2, <1>3, <1>4

LEMMA WrittenCallFresh ==
    ASSUME TypeOK, CallFresh, Written
    PROVE  CallFresh'
<1> SUFFICES ASSUME NEW c \in Calls, NEW k \in Keys,
                    calls'[c] # None, calls'[c].key = k, ~calls'[c].overtaken
             PROVE  calls'[c].val = Answer(k)'
  BY DEF CallFresh
<1>1. calls[c] # None /\ calls[c] \in Call
  BY DEF Written, TypeOK
<1>2. CASE \E l \in Keys : calls[c].key = l /\ Answer(l)' # Answer(l)
  <2>1. calls'[c].overtaken
    BY <1>1, <1>2 DEF Written, Call
  <2> QED BY <2>1
<1>3. CASE ~ \E l \in Keys : calls[c].key = l /\ Answer(l)' # Answer(l)
  <2>1. calls'[c] = calls[c]
    BY <1>1, <1>3 DEF Written
  <2>2. Answer(k)' = Answer(k)
    BY <1>3, <2>1
  <2> QED BY <1>1, <2>1, <2>2 DEF CallFresh
<1> QED BY <1>2, <1>3

LEMMA InitInv == Init => IInv
<1> SUFFICES ASSUME Init PROVE IInv
  OBVIOUS
<1>1. TypeOK
  BY InitType
<1>2. HeldExists /\ CheckedExists /\ CallFresh /\ OneStage /\ StaleHasCause
  BY DEF Init, OneStage, HeldExists, CheckedExists, CallFresh, StaleHasCause, Fresh, Keys
<1> QED BY <1>1, <1>2 DEF IInv

LEMMA MarkedVal ==
    ASSUME TypeOK, NEW K, Marked(K), NEW k \in Keys
    PROVE  /\ (cache'[k] # None) => cache[k] # None /\ cache'[k].val = cache[k].val
           /\ k \in K /\ cache[k] # None => cache'[k] # None /\ cache'[k].cause = "unswept"
           /\ k \notin K => cache'[k] = cache[k]
<1>1. cache[k] \in Entry \cup {None}
  BY DEF TypeOK
<1>2. CASE cache[k] = None
  BY <1>2 DEF Marked
<1>3. CASE cache[k] # None
  <2>1. [cache[k] EXCEPT !.cause = "unswept"] \in Entry
    BY <1>1, <1>3 DEF Entry
  <2>2. [cache[k] EXCEPT !.cause = "unswept"] # None
    BY <2>1
  <2> QED BY <1>1, <1>3, <2>2 DEF Marked, Entry
<1> QED BY <1>2, <1>3

\* Nothing an operation still has to delete is forgotten while it is cached.
LEMMA UncachedOwes ==
    ASSUME TypeOK, NEW a \in Admins, NEW K, NEW k, Owes(a, k), k \notin K,
           sweep'[a] = Uncached(sweep[a], K)
    PROVE  Owes(a, k)'
<1>1. sweep[a] \in Sweep
  BY DEF Owes, TypeOK
<1>2. CASE sweep[a].started
  <2>1. sweep'[a] = [sweep[a] EXCEPT !.todo = @ \ K]
    BY <1>2 DEF Uncached, Owes
  <2>2. sweep'[a] \in Sweep
    BY <1>1, <2>1 DEF Sweep
  <2>3. sweep'[a] # None
    BY <2>2
  <2> QED BY <1>1, <2>1, <2>3 DEF Owes, Sweep
<1>3. CASE ~sweep[a].started
  BY <1>3 DEF Uncached, Owes
<1> QED BY <1>2, <1>3

LEMMA NextInv == IInv /\ [Next]_vars => IInv'
<1> SUFFICES ASSUME IInv, [Next]_vars PROVE (HeldExists /\ CheckedExists /\ CallFresh /\ OneStage /\ StaleHasCause)'
  BY NextType DEF IInv
<1> USE DEF IInv
<1> DEFINE Rest == HeldExists /\ CheckedExists /\ CallFresh /\ OneStage /\ StaleHasCause
<1>0. TypeOK'
  BY NextType
<1>1. ASSUME NEW c \in Calls, NEW k \in Keys, Fetch(c, k) PROVE Rest'
  <2>1. UNCHANGED db /\ HeldExists' /\ \A l : Answer(l)' = Answer(l)
    BY <1>1, DbSame DEF Fetch
  <2>2. CheckedExists' /\ OneStage'
    BY <1>1 DEF Fetch, CheckedExists, OneStage, db
  <2>3. CallFresh'
    BY <1>1, <2>1 DEF Fetch, CallFresh, TypeOK
  <2>4. StaleHasCause'
    BY <1>1, <2>1 DEF Fetch, StaleHasCause, Fresh, Owes
  <2> QED BY <2>1, <2>2, <2>3, <2>4
<1>2. ASSUME NEW c \in Calls, Store(c) PROVE Rest'
  <2>1. UNCHANGED db /\ HeldExists' /\ \A l : Answer(l)' = Answer(l)
    BY <1>2, DbSame DEF Store
  <2>2. CheckedExists' /\ OneStage'
    BY <1>2 DEF Store, CheckedExists, OneStage, db
  <2>3. CallFresh'
    BY <1>2, <2>1 DEF Store, CallFresh, TypeOK
  <2>4. StaleHasCause'
    <3> SUFFICES ASSUME NEW k \in Keys, ~Fresh(k)'
                 PROVE  cache'[k].cause # "none" \/ \E a \in Admins : Owes(a, k)'
      BY DEF StaleHasCause
    <3>1. calls[c] # None /\ calls[c] \in Call
      BY <1>2 DEF Store, TypeOK
    <3>2. CASE k = calls[c].key
      <4>1. /\ cache'[k].val = calls[c].val
            /\ cache'[k].cause = IF calls[c].overtaken THEN "overtaken" ELSE "none"
        BY <1>2, <3>2 DEF Store, TypeOK
      <4>2. ~calls[c].overtaken => calls[c].val = Answer(k)
        BY <3>1, <3>2 DEF CallFresh
      <4> QED BY <2>1, <4>1, <4>2 DEF Fresh
    <3>3. CASE k # calls[c].key
      <4>1. cache'[k] = cache[k]
        BY <1>2, <3>3 DEF Store, TypeOK
      <4>2. ~Fresh(k)
        BY <2>1, <4>1 DEF Fresh
      <4> QED BY <1>2, <4>1, <4>2 DEF StaleHasCause, Owes, Store
    <3> QED BY <3>2, <3>3
  <2> QED BY <2>1, <2>2, <2>3, <2>4
<1>3. ASSUME NEW c \in Calls, StoreFails(c) PROVE Rest'
  <2>1. UNCHANGED db /\ HeldExists' /\ \A l : Answer(l)' = Answer(l)
    BY <1>3, DbSame DEF StoreFails
  <2>2. CheckedExists' /\ CallFresh' /\ OneStage'
    BY <1>3, <2>1 DEF StoreFails, CheckedExists, CallFresh, OneStage, TypeOK, db
  <2>3. StaleHasCause'
    BY <1>3, <2>1 DEF StoreFails, StaleHasCause, Fresh, Owes
  <2> QED BY <2>1, <2>2, <2>3
<1>4. ASSUME NEW r \in Roles, NEW active \in BOOLEAN, NEW codes \in Grants, Create(r, active, codes)
      PROVE  Rest'
  <2>1. \A s \in Roles : s # r => roles'[s] = roles[s]
    BY <1>4 DEF Create, TypeOK
  <2>2. HeldExists'
    BY <1>4, <2>1 DEF Create, HeldExists, TypeOK
  <2>3. \A k \in Keys : Answer(k)' = Answer(k)
    <3> SUFFICES ASSUME NEW k \in Keys PROVE Answer(k)' = Answer(k)
      OBVIOUS
    <3>1. \A s \in Roles : Holds(k, s)' <=> Holds(k, s)
      BY <1>4 DEF Create, Holds
    <3>2. ~Holds(k, r)
      <4>1. k[1] \in Users /\ k[2] \in Scopes /\ k = <<k[1], k[2]>>
        BY DEF Keys
      <4>2. /\ userRoles[<<k[1], r>>] = None
            /\ \A co \in Companies : members[<<k[1], co>>] # r
        BY <1>4, <4>1 DEF Create, HeldExists
      <4>3. None # NoCompany /\ None # k[2]
        BY <4>1 DEF Scopes
      <4> QED BY <4>1, <4>2, <4>3 DEF Holds
    <3> QED BY <2>1, <3>1, <3>2, AnswerUnaffected
  <2>4. CheckedExists' /\ OneStage'
    BY <1>4, <2>1 DEF Create, CheckedExists, OneStage, TypeOK, Change
  <2>5. CallFresh'
    BY <1>4, WrittenCallFresh DEF Create
  <2>6. StaleHasCause'
    BY <1>4, <2>3 DEF Create, StaleHasCause, Fresh, Owes
  <2> QED BY <2>2, <2>4, <2>5, <2>6
<1>5. ASSUME NEW a \in Admins,
             \/ \E r \in Roles : CheckUpdate(a, r) \/ CheckUpdatePermissions(a, r) \/ CheckDelete(a, r)
             \/ \E r \in Roles, u \in Users, s \in Scopes : CheckAssign(a, r, u, s) \/ CheckRemove(a, r, u, s)
      PROVE  Rest'
  <2>1. PICK ch \in Change : Check(a, ch) /\ (ch.op = "assign" => roles[ch.role].status # "none")
    BY <1>5, CheckedInChange
  <2>2. UNCHANGED db /\ HeldExists' /\ \A l : Answer(l)' = Answer(l)
    BY <2>1, DbSame DEF Check
  <2>3. CheckedExists' /\ OneStage'
    BY <2>1 DEF Check, CheckedExists, OneStage, Idle, TypeOK, db
  <2>4. CallFresh' /\ StaleHasCause'
    BY <2>1, <2>2 DEF Check, CallFresh, StaleHasCause, Fresh, Owes
  <2> QED BY <2>2, <2>3, <2>4
<1>6. ASSUME NEW a \in Admins, NEW ch \in Change, WriteRole(a, ch) PROVE Rest'
  <2>1. \A r \in Roles : roles[r].status # "none" => roles'[r].status # "none"
    BY <1>6, StatusKept DEF WriteRole
  <2>2. HeldExists'
    BY <1>6, <2>1 DEF WriteRole, HeldExists
  <2>3. CheckedExists'
    <3> SUFFICES ASSUME NEW b \in Admins, change'[b] # None, change'[b].op = "assign"
                 PROVE  roles'[change'[b].role].status # "none"
      BY DEF CheckedExists
    <3>1. change[b] # None /\ change'[b] = change[b]
      BY <1>6 DEF WriteRole, BeginSweep, TypeOK
    <3>2. change[b].role \in Roles
      BY <3>1 DEF TypeOK, Change
    <3> QED BY <2>1, <3>1, <3>2 DEF CheckedExists
  <2>4. CallFresh'
    BY <1>6, WrittenCallFresh DEF WriteRole
  <2>5. \A k \in Keys : Owes(a, k)'
    <3>1. sweep'[a] = [keys |-> Keys, todo |-> Keys, page |-> {}, started |-> FALSE]
      BY <1>6 DEF WriteRole, BeginSweep, AllKeys, TypeOK
    <3>2. sweep'[a] \in Sweep
      BY <3>1 DEF Sweep
    <3>3. sweep'[a] # None
      BY <3>2
    <3> QED BY <3>1, <3>3 DEF Owes
  <2>6. StaleHasCause'
    BY <2>5 DEF StaleHasCause
  <2>7. OneStage'
    BY <1>6 DEF WriteRole, BeginSweep, OneStage, TypeOK
  <2> QED BY <2>2, <2>3, <2>4, <2>6, <2>7
<1>7. ASSUME NEW a \in Admins, NEW ch \in Change, WriteUserRole(a, ch) PROVE Rest'
  <2>1. ch.user \in Users /\ ch.role \in Roles /\ ch.scope \in Scopes
    BY <1>7 DEF WriteUserRole, Change
  <2>2. \A u \in Users, r \in Roles :
           userRoles'[<<u, r>>] = userRoles[<<u, r>>] \/ (u = ch.user /\ r = ch.role)
    <3> SUFFICES ASSUME NEW u \in Users, NEW r \in Roles, ~(u = ch.user /\ r = ch.role)
                 PROVE  userRoles'[<<u, r>>] = userRoles[<<u, r>>]
      OBVIOUS
    <3>1. <<u, r>> \in Users \X Roles /\ <<u, r>> # <<ch.user, ch.role>>
      OBVIOUS
    <3>2. CASE InsertUserRole(ch)
      BY <3>1, <3>2 DEF InsertUserRole, TypeOK
    <3>3. CASE DeleteUserRole(ch)
      BY <3>1, <3>3 DEF DeleteUserRole, TypeOK
    <3> QED BY <1>7, <3>2, <3>3 DEF WriteUserRole
  <2>3. HeldExists'
    <3> SUFFICES ASSUME NEW r \in Roles, roles'[r].status = "none", NEW u \in Users
                 PROVE  userRoles'[<<u, r>>] = None /\ \A co \in Companies : members'[<<u, co>>] # r
      BY DEF HeldExists
    <3>1. userRoles[<<u, r>>] = None /\ \A co \in Companies : members'[<<u, co>>] # r
      BY <1>7 DEF WriteUserRole, HeldExists
    <3>2. CASE u = ch.user /\ r = ch.role /\ ch.op = "assign"
      BY <1>7, <3>2, NoneAssumption DEF WriteUserRole, CheckedExists
    <3>3. CASE u = ch.user /\ r = ch.role /\ ch.op = "remove"
      BY <1>7, <2>1, <3>1, <3>3 DEF WriteUserRole, DeleteUserRole, TypeOK
    <3> QED BY <1>7, <2>2, <3>1, <3>2, <3>3 DEF WriteUserRole
  <2>4. CheckedExists' /\ OneStage'
    BY <1>7 DEF WriteUserRole, BeginSweep, CheckedExists, OneStage, TypeOK
  <2>5. CallFresh'
    BY <1>7, WrittenCallFresh DEF WriteUserRole
  <2>6. StaleHasCause'
    <3> SUFFICES ASSUME NEW k \in Keys, ~Fresh(k)'
                 PROVE  cache'[k].cause # "none" \/ \E b \in Admins : Owes(b, k)'
      BY DEF StaleHasCause
    <3>1. CASE k \in UserKeys(ch.user)
      <4>1. sweep'[a] = [keys |-> UserKeys(ch.user), todo |-> UserKeys(ch.user),
                         page |-> {}, started |-> FALSE]
        BY <1>7 DEF WriteUserRole, BeginSweep, TypeOK
      <4>2. UserKeys(ch.user) \in SUBSET Keys
        BY <2>1 DEF UserKeys, Keys
      <4>3. sweep'[a] \in Sweep
        BY <4>1, <4>2 DEF Sweep
      <4>4. sweep'[a] # None
        BY <4>3
      <4> QED BY <3>1, <4>1, <4>4 DEF Owes
    <3>2. CASE k \notin UserKeys(ch.user)
      <4>1. k[1] \in Users /\ k[1] # ch.user
        BY <3>2 DEF UserKeys, Keys
      <4>2. \A r \in Roles : Holds(k, r)' <=> Holds(k, r)
        BY <1>7, <2>2, <4>1 DEF WriteUserRole, Holds
      <4>3. Answer(k)' = Answer(k)
        BY <1>7, <4>2, AnswerUnaffected DEF WriteUserRole
      <4>4. ~Fresh(k) /\ cache'[k] = cache[k]
        BY <1>7, <4>3 DEF Fresh, WriteUserRole
      <4>5. ASSUME NEW b \in Admins, Owes(b, k) PROVE Owes(b, k)'
        <5>1. change[a] # None
          BY <1>7, NoneAssumption DEF WriteUserRole
        <5>2. b # a
          BY <4>5, <5>1 DEF OneStage, Owes
        <5> QED BY <1>7, <4>5, <5>2 DEF WriteUserRole, BeginSweep, Owes, TypeOK
      <4> QED BY <4>4, <4>5 DEF StaleHasCause
    <3> QED BY <3>1, <3>2
  <2> QED BY <2>3, <2>4, <2>5, <2>6
<1>8. ASSUME NEW a \in Admins, Scan(a) PROVE Rest'
  <2>1. UNCHANGED db /\ HeldExists' /\ \A l : Answer(l)' = Answer(l)
    BY <1>8, DbSame DEF Scan
  <2>2. CheckedExists' /\ CallFresh' /\ OneStage'
    BY <1>8, <2>1 DEF Scan, CheckedExists, CallFresh, OneStage, TypeOK, db
  <2>3. sweep[a] \in Sweep /\ sweep[a] # None
    BY <1>8 DEF TypeOK, Scan
  <2>4. PICK page \in SUBSET (sweep[a].keys \cap Cached) :
          sweep' = [sweep EXCEPT ![a].page = page,
                                 ![a].todo = (@ \cap Cached) \ page,
                                 ![a].started = TRUE]
    BY <1>8 DEF Scan
  <2>5. /\ sweep'[a].page = page
        /\ sweep'[a].todo = (sweep[a].todo \cap Cached) \ page
        /\ sweep'[a] \in Sweep
    BY <2>3, <2>4 DEF Sweep, TypeOK
  <2>6. ASSUME NEW b \in Admins, NEW k \in Cached, Owes(b, k) PROVE Owes(b, k)'
    <3>1. CASE b = a
      <4>1. sweep[a].page = {} /\ k \in sweep[a].todo
        BY <1>8, <2>6, <3>1 DEF Scan, Owes
      <4>2. sweep'[a] # None
        BY <2>5
      <4> QED BY <2>5, <3>1, <4>1, <4>2 DEF Owes
    <3>2. CASE b # a
      BY <2>4, <2>6, <3>2 DEF Owes, TypeOK
    <3> QED BY <3>1, <3>2
  <2>7. StaleHasCause'
    BY <1>8, <2>1, <2>6 DEF Scan, StaleHasCause, Fresh, Cached
  <2> QED BY <2>1, <2>2, <2>7
<1>9. ASSUME NEW a \in Admins, DelPage(a) PROVE Rest'
  <2>1. UNCHANGED db /\ HeldExists' /\ \A l : Answer(l)' = Answer(l)
    BY <1>9, DbSame DEF DelPage
  <2>2. sweep[a] \in Sweep /\ sweep[a] # None
    BY <1>9 DEF TypeOK, DelPage
  <2>3. CheckedExists' /\ CallFresh'
    BY <1>9, <2>1 DEF DelPage, CheckedExists, CallFresh, TypeOK, db
  <2>4. OneStage'
    BY <1>9, <2>2 DEF DelPage, OneStage, Uncached, TypeOK
  <2>5. ASSUME NEW b \in Admins, NEW k, Owes(b, k), k \notin sweep[a].page PROVE Owes(b, k)'
    <3>1. CASE b = a
      <4>1. sweep'[a] = [sweep[a] EXCEPT !.page = {}]
        BY <1>9 DEF DelPage
      <4>2. sweep'[a] \in Sweep
        BY <2>2, <4>1 DEF Sweep
      <4>3. sweep'[a] # None
        BY <4>2
      <4> QED BY <2>2, <2>5, <3>1, <4>1, <4>3 DEF Owes, Sweep
    <3>2. CASE b # a
      <4>1. sweep'[b] = Uncached(sweep[b], sweep[a].page)
        BY <1>9, <3>2 DEF DelPage
      <4> QED BY <2>5, <4>1, UncachedOwes
    <3> QED BY <3>1, <3>2
  <2>6. StaleHasCause'
    BY <1>9, <2>1, <2>5 DEF DelPage, StaleHasCause, Fresh
  <2> QED BY <2>1, <2>3, <2>4, <2>6
<1>10. ASSUME NEW a \in Admins, SweepEnds(a) PROVE Rest'
  <2>1. UNCHANGED db /\ HeldExists' /\ \A l : Answer(l)' = Answer(l)
    BY <1>10, DbSame DEF SweepEnds
  <2>2. CheckedExists' /\ CallFresh' /\ OneStage'
    BY <1>10, <2>1 DEF SweepEnds, CheckedExists, CallFresh, OneStage, TypeOK, db
  <2>3. ASSUME NEW b \in Admins, NEW k, Owes(b, k) PROVE Owes(b, k)'
    BY <1>10, <2>3 DEF SweepEnds, Owes, TypeOK
  <2>4. StaleHasCause'
    BY <1>10, <2>1, <2>3 DEF SweepEnds, StaleHasCause, Fresh
  <2> QED BY <2>1, <2>2, <2>4
<1>11. ASSUME NEW a \in Admins, SweepFails(a) PROVE Rest'
  <2>1. UNCHANGED db /\ HeldExists' /\ \A l : Answer(l)' = Answer(l)
    BY <1>11, DbSame DEF SweepFails
  <2>2. CheckedExists' /\ CallFresh' /\ OneStage'
    BY <1>11, <2>1 DEF SweepFails, CheckedExists, CallFresh, OneStage, TypeOK, db
  <2>3. StaleHasCause'
    <3> SUFFICES ASSUME NEW k \in Keys, ~Fresh(k)'
                 PROVE  cache'[k].cause # "none" \/ \E b \in Admins : Owes(b, k)'
      BY DEF StaleHasCause
    <3>1. ~Fresh(k) /\ cache[k] # None
      BY <1>11, <2>1, MarkedVal DEF SweepFails, Fresh
    <3>2. CASE k \in sweep[a].todo \cup sweep[a].page
      BY <1>11, <3>1, <3>2, MarkedVal DEF SweepFails
    <3>3. CASE k \notin sweep[a].todo \cup sweep[a].page
      <4>1. cache'[k] = cache[k]
        BY <1>11, <3>3, MarkedVal DEF SweepFails
      <4>2. ASSUME NEW b \in Admins, Owes(b, k) PROVE Owes(b, k)'
        BY <1>11, <3>3, <4>2 DEF SweepFails, Owes, TypeOK
      <4> QED BY <3>1, <4>1, <4>2 DEF StaleHasCause
    <3> QED BY <3>2, <3>3
  <2> QED BY <2>1, <2>2, <2>3
<1>12. ASSUME NEW a \in Admins, WriteFails(a) PROVE Rest'
  <2>1. UNCHANGED db /\ HeldExists' /\ \A l : Answer(l)' = Answer(l)
    BY <1>12, DbSame DEF WriteFails
  <2>2. CheckedExists' /\ CallFresh' /\ OneStage'
    BY <1>12, <2>1 DEF WriteFails, CheckedExists, CallFresh, OneStage, TypeOK, db
  <2>3. StaleHasCause'
    BY <1>12, <2>1 DEF WriteFails, StaleHasCause, Fresh, Owes
  <2> QED BY <2>1, <2>2, <2>3
<1>13. ASSUME NEW u \in Users, NEW co \in Companies, NEW r \in Roles \cup {NoRole},
              SetMembership(u, co, r)
       PROVE  Rest'
  <2>1. \A v \in Users, c \in Companies :
           members'[<<v, c>>] = IF v = u /\ c = co THEN r ELSE members[<<v, c>>]
    <3> SUFFICES ASSUME NEW v \in Users, NEW c \in Companies
                 PROVE  members'[<<v, c>>] = IF v = u /\ c = co THEN r ELSE members[<<v, c>>]
      OBVIOUS
    <3>1. <<v, c>> \in Users \X Companies
      OBVIOUS
    <3> QED BY <1>13, <3>1 DEF SetMembership, TypeOK
  <2>2. HeldExists'
    BY <1>13, <2>1 DEF SetMembership, HeldExists
  <2>3. CheckedExists' /\ OneStage'
    BY <1>13 DEF SetMembership, CheckedExists, OneStage
  <2>4. CallFresh'
    BY <1>13, WrittenCallFresh DEF SetMembership
  <2>5. StaleHasCause'
    <3> SUFFICES ASSUME NEW k \in Keys, ~Fresh(k)'
                 PROVE  cache'[k].cause # "none" \/ \E b \in Admins : Owes(b, k)'
      BY DEF StaleHasCause
    <3>1. cache[k] # None /\ cache'[k].val = cache[k].val
      BY <1>13, MarkedVal DEF SetMembership, Fresh
    <3>2. CASE k = <<u, co>>
      BY <1>13, <3>1, <3>2, MarkedVal DEF SetMembership
    <3>3. CASE k # <<u, co>>
      <4>1. k[1] \in Users /\ k[2] \in Scopes /\ ~(k[1] = u /\ k[2] = co)
        BY <3>3 DEF Keys
      <4>2. \A s \in Roles : Holds(k, s)' <=> Holds(k, s)
        BY <1>13, <2>1, <4>1 DEF SetMembership, Holds
      <4>3. Answer(k)' = Answer(k)
        BY <1>13, <4>2, AnswerUnaffected DEF SetMembership
      <4>4. ~Fresh(k) /\ cache'[k] = cache[k]
        BY <1>13, <3>1, <3>3, <4>3, MarkedVal DEF Fresh, SetMembership
      <4> QED BY <1>13, <4>4 DEF StaleHasCause, SetMembership, Owes
    <3> QED BY <3>2, <3>3
  <2> QED BY <2>2, <2>3, <2>4, <2>5
<1>14. ASSUME NEW k \in Keys, Expire(k) PROVE Rest'
  <2>1. UNCHANGED db /\ HeldExists' /\ \A l : Answer(l)' = Answer(l)
    BY <1>14, DbSame DEF Expire
  <2>2. CheckedExists' /\ CallFresh'
    BY <1>14, <2>1 DEF Expire, CheckedExists, CallFresh, TypeOK, db
  <2>3. OneStage'
    BY <1>14 DEF Expire, OneStage, Uncached
  <2>4. ASSUME NEW b \in Admins, NEW l, Owes(b, l), l # k PROVE Owes(b, l)'
    <3>1. sweep'[b] = Uncached(sweep[b], {k}) /\ l \notin {k}
      BY <1>14, <2>4 DEF Expire
    <3> QED BY <2>4, <3>1, UncachedOwes
  <2>5. StaleHasCause'
    BY <1>14, <2>1, <2>4 DEF Expire, StaleHasCause, Fresh, TypeOK
  <2> QED BY <2>1, <2>2, <2>3, <2>5
<1>15. ASSUME UNCHANGED vars PROVE Rest'
  <2>1. UNCHANGED db /\ HeldExists' /\ \A l : Answer(l)' = Answer(l)
    BY <1>15, DbSame DEF vars, db
  <2> QED BY <1>15, <2>1 DEF vars, CheckedExists, CallFresh, OneStage, StaleHasCause, Fresh, Owes, db
<1> HIDE DEF Rest
<1>16. Rest'
  BY <1>1, <1>2, <1>3, <1>4, <1>5, <1>6, <1>7, <1>8, <1>9, <1>10, <1>11, <1>12, <1>13,
     <1>14, <1>15 DEF Next, Lookup, Operate
<1> QED BY <1>16 DEF Rest

\* Every set that a write of the role service changes is invalidated, unless a
\* lookup was overtaken, an invalidation failed, or another service wrote.
THEOREM PermissionStaleHasCause == Spec => []StaleHasCause
<1>1. IInv => StaleHasCause
  BY DEF IInv
<1> QED BY <1>1, InitInv, NextInv, PTL DEF Spec

LEMMA DeletedStep ==
    ASSUME TypeOK, [Next]_vars, NEW r \in Roles, roles[r].status = "deleted"
    PROVE  roles'[r] = roles[r]
<1>1. ASSUME NEW s \in Roles, NEW active \in BOOLEAN, NEW codes \in Grants, Create(s, active, codes)
      PROVE  roles'[r] = roles[r]
  BY <1>1 DEF Create, TypeOK
<1>2. ASSUME NEW a \in Admins, NEW ch \in Change, WriteRole(a, ch) PROVE roles'[r] = roles[r]
  BY <1>2 DEF WriteRole, WriteRow, WritePermissions, SoftDelete, TypeOK
<1>3. ASSUME NEW a \in Admins, NEW ch \in Change, WriteUserRole(a, ch) PROVE roles' = roles
  BY <1>3 DEF WriteUserRole
<1>4. ASSUME NEW c \in Calls, Lookup(c) PROVE roles' = roles
  BY <1>4 DEF Lookup, Fetch, Store, StoreFails, db
<1>5. ASSUME NEW a \in Admins,
             \/ \E s \in Roles : CheckUpdate(a, s) \/ CheckUpdatePermissions(a, s) \/ CheckDelete(a, s)
             \/ \E s \in Roles, u \in Users, sc \in Scopes : CheckAssign(a, s, u, sc) \/ CheckRemove(a, s, u, sc)
      PROVE  roles' = roles
  BY <1>5, CheckedInChange DEF Check, db
<1>6. ASSUME NEW a \in Admins, WriteFails(a) \/ Scan(a) \/ DelPage(a) \/ SweepEnds(a) \/ SweepFails(a)
      PROVE  roles' = roles
  BY <1>6 DEF WriteFails, Scan, DelPage, SweepEnds, SweepFails, db
<1>7. ASSUME NEW u \in Users, NEW co \in Companies, NEW s \in Roles \cup {NoRole},
             SetMembership(u, co, s)
      PROVE  roles' = roles
  BY <1>7 DEF SetMembership
<1>8. ASSUME NEW k \in Keys, Expire(k) PROVE roles' = roles
  BY <1>8 DEF Expire, db
<1>9. ASSUME UNCHANGED vars PROVE roles' = roles
  BY <1>9 DEF vars
<1> QED BY <1>1, <1>2, <1>3, <1>4, <1>5, <1>6, <1>7, <1>8, <1>9 DEF Next, Operate

\* A soft-deleted role stays as it is, whatever had read it before.
THEOREM PermissionDeletedRoleStays == Spec => DeletedRoleStays
<1>1. TypeOK /\ [Next]_vars
         => [\A r \in Roles : roles[r].status = "deleted" => roles'[r] = roles[r]]_vars
  BY DeletedStep
<1> QED BY <1>1, PermissionTypeOK, PTL DEF Spec, DeletedRoleStays

=============================================================================
