----------------------- MODULE ApprovalEngine_proofs -----------------------
(***************************************************************************)
(* Proofs about ApprovalEngine for every set of users, documents, requests *)
(* and approver lists, and for either form of the CHECK constraint.        *)
(*                                                                         *)
(* TypeOK and TrailMatchesStatus are inductive together: the trail tells   *)
(* that the current level of a waiting request is its first pending one,   *)
(* which is what makes each decision leave a trail of the right shape.     *)
(***************************************************************************)
EXTENDS ApprovalEngine, TLAPS

Inv == TypeOK /\ TrailMatchesStatus /\ OneActivePerDoc /\ DecidedByEligible

(* The conjuncts of TypeOK and of the invariant for one request. *)
RowOK(row, rows) ==
    /\ row = NoRow => rows = <<>>
    /\ row # NoRow =>
          /\ row \in RequestRow
          /\ rows \in [1 .. row.total -> LevelRow]

Decided(rows) ==
    \A l \in DOMAIN rows :
        IF rows[l].status \in {"approved", "rejected"}
        THEN rows[l].actionBy \in rows[l].eligible
        ELSE rows[l].actionBy = NoUser

RowInv(row, rows) ==
    RowOK(row, rows) /\ (row # NoRow => TrailOf(row, rows)) /\ Decided(rows)

LEMMA InvByRow ==
    Inv <=> /\ req \in [Requests -> RequestRow \cup {NoRow}]
            /\ \A r \in Requests : RowInv(req[r], lvl[r])
            /\ DOMAIN lvl = Requests
            /\ OneActivePerDoc
BY DEF Inv, TypeOK, TrailMatchesStatus, DecidedByEligible, RowInv, RowOK, Decided

-----------------------------------------------------------------------------
(* The rows each handler writes. *)

LEMMA LevelListType ==
    ASSUME NEW list \in LevelLists
    PROVE  /\ list \in Seq((SUBSET Users) \ {{}})
           /\ Len(list) \in Nat
           /\ DOMAIN list = 1 .. Len(list)
           /\ \A l \in 1 .. Len(list) : list[l] \in SUBSET Users
BY LevelListsAssumption

LEMMA SubmitRows ==
    ASSUME NEW doc \in Docs, NEW user \in Users,
           NEW config \in ConfigIds \cup {NoConfig}, NEW list \in LevelLists
    PROVE  /\ NewRequest(doc, user, config, list) \in RequestRow
           /\ RowInv(NewRequest(doc, user, config, list), Snapshot(list))
<1> DEFINE row == NewRequest(doc, user, config, list)
           rows == Snapshot(list)
<1>1. row \in RequestRow /\ row.total = Len(list)
  BY LevelListType DEF NewRequest, RequestRow, RequestStatuses, NilLevel
<1>2. rows \in [1 .. row.total -> LevelRow]
  BY <1>1, LevelListType DEF Snapshot, LevelRow, LevelStatuses
<1>3. TrailOf(row, rows)
  BY <1>1, LevelListType DEF NewRequest, Snapshot, TrailOf, SplitAt, NilLevel
<1>4. Decided(rows)
  BY DEF Decided, Snapshot
<1> QED
  BY <1>1, <1>2, <1>3, <1>4, NoRowAssumption DEF RowInv, RowOK

LEMMA CanActRow ==
    ASSUME NEW r \in Requests, NEW user \in Users, CanAct(r, user),
           RowInv(req[r], lvl[r])
    PROVE  /\ req[r] \in RequestRow
           /\ lvl[r] \in [1 .. req[r].total -> LevelRow]
           /\ req[r].total \in Nat
           /\ req[r].current \in 1 .. req[r].total
           /\ SplitAt(lvl[r], req[r].current, "pending", "approved", "pending")
           /\ user \in lvl[r][req[r].current].eligible
           /\ Decided(lvl[r])
BY DEF CanAct, RowInv, RowOK, TrailOf, RequestRow

LEMMA MarkedRows ==
    ASSUME NEW r \in Requests, NEW user \in Users, CanAct(r, user),
           RowInv(req[r], lvl[r]), NEW status \in {"approved", "rejected"}
    PROVE  /\ Marked(r, status, user) \in [1 .. req[r].total -> LevelRow]
           /\ SplitAt(Marked(r, status, user), req[r].current,
                      status, "approved", "pending")
           /\ Decided(Marked(r, status, user))
<1> DEFINE k == req[r].current
           rows == Marked(r, status, user)
<1>1. lvl[r][k] \in LevelRow /\ k \in 1 .. req[r].total
  BY CanActRow
<1>2. MarkLevelAction(lvl[r][k], status, user) \in LevelRow
  BY <1>1 DEF MarkLevelAction, LevelRow, LevelStatuses
<1>3. /\ rows \in [1 .. req[r].total -> LevelRow]
      /\ rows[k] = MarkLevelAction(lvl[r][k], status, user)
      /\ \A l \in 1 .. req[r].total : l # k => rows[l] = lvl[r][l]
  BY <1>1, <1>2, CanActRow DEF Marked
<1>4. rows[k].status = status /\ rows[k].actionBy = user /\ user \in rows[k].eligible
  BY <1>1, <1>3, CanActRow DEF MarkLevelAction, LevelRow
<1>5. SplitAt(rows, k, status, "approved", "pending")
  BY <1>3, <1>4, CanActRow DEF SplitAt
<1>6. Decided(rows)
  BY <1>3, <1>4, CanActRow DEF Decided
<1> QED
  BY <1>3, <1>5, <1>6

LEMMA ApproveRows ==
    ASSUME NEW r \in Requests, NEW user \in Users, CanAct(r, user),
           RowInv(req[r], lvl[r])
    PROVE  /\ Approved(req[r], req[r], user) \in RequestRow
           /\ Approved(req[r], req[r], user).doc = req[r].doc
           /\ RowInv(Approved(req[r], req[r], user), Marked(r, "approved", user))
<1> DEFINE row == Approved(req[r], req[r], user)
           rows == Marked(r, "approved", user)
<1>0. req[r] \in RequestRow /\ req[r].current + 1 \in Nat
  BY CanActRow
<1> DEFINE done == UpdateRequestStatus(req[r], "approved", NilLevel, user)
           onward == UpdateRequestStatus(req[r], "waiting", req[r].current + 1, NoUser)
<1>a. /\ done \in RequestRow
      /\ done.doc = req[r].doc /\ done.total = req[r].total
      /\ done.status = "approved"
  BY <1>0, NoUserAssumption
  DEF UpdateRequestStatus, RequestRow, RequestStatuses, NilLevel
<1>b. /\ onward \in RequestRow
      /\ onward.doc = req[r].doc /\ onward.total = req[r].total
      /\ onward.status = "waiting" /\ onward.current = req[r].current + 1
  BY <1>0, NoUserAssumption
  DEF UpdateRequestStatus, RequestRow, RequestStatuses, NilLevel
<1>c. row = IF req[r].current >= req[r].total THEN done ELSE onward
  BY DEF Approved
<1> HIDE DEF done, onward, row
<1>1. row \in RequestRow /\ row.doc = req[r].doc /\ row.total = req[r].total
  BY <1>a, <1>b, <1>c
<1>2. TrailOf(row, rows)
  <2>1. CASE req[r].current >= req[r].total
    <3>1. row.status = "approved"
      BY <1>a, <1>c, <2>1
    <3>2. req[r].current = req[r].total
      BY <2>1, CanActRow
    <3>3. \A l \in DOMAIN rows : rows[l].status = "approved"
      BY <3>2, CanActRow, MarkedRows DEF SplitAt
    <3> QED
      BY <3>1, <3>3 DEF TrailOf
  <2>2. CASE ~(req[r].current >= req[r].total)
    <3>1. row.status = "waiting" /\ row.current = req[r].current + 1
      BY <1>b, <1>c, <2>2
    <3>2. row.current \in 1 .. req[r].total
      BY <2>2, <3>1, CanActRow
    <3>3. SplitAt(rows, row.current, "pending", "approved", "pending")
      BY <3>1, <3>2, CanActRow, MarkedRows DEF SplitAt
    <3> QED
      BY <3>1, <3>2, <3>3, MarkedRows DEF TrailOf
  <2> QED
    BY <2>1, <2>2
<1> QED
  BY <1>1, <1>2, MarkedRows, NoRowAssumption DEF RowInv, RowOK, row

(* Skipping what is pending, from level k on, in rows approved below k. *)
LEMMA SkippedRows ==
    ASSUME NEW n \in Nat, NEW rows \in [1 .. n -> LevelRow], Decided(rows)
    PROVE  LET after == Install(SkipRemainingPending(rows), rows) IN
           /\ after \in [1 .. n -> LevelRow]
           /\ \A l \in 1 .. n :
                 after[l].status = IF rows[l].status = "pending" THEN "skipped"
                                                               ELSE rows[l].status
           /\ Decided(after)
<1> DEFINE after == Install(SkipRemainingPending(rows), rows)
<1>1. DOMAIN after = 1 .. n
  BY DEF Install, SkipRemainingPending
<1>2. \A l \in 1 .. n :
        after[l] = IF rows[l].status = "pending"
                   THEN [rows[l] EXCEPT !.status = "skipped"] ELSE rows[l]
  BY DEF Install, SkipRemainingPending
<1>3. \A l \in 1 .. n : rows[l] \in LevelRow
  OBVIOUS
<1>4. \A l \in 1 .. n :
        /\ after[l] \in LevelRow
        /\ after[l].actionBy = rows[l].actionBy
        /\ after[l].eligible = rows[l].eligible
        /\ after[l].status = IF rows[l].status = "pending" THEN "skipped"
                                                          ELSE rows[l].status
  BY <1>2, <1>3 DEF LevelRow, LevelStatuses
<1>5. after \in [1 .. n -> LevelRow]
  BY <1>1, <1>4 DEF Install
<1>6. Decided(after)
  BY <1>1, <1>4 DEF Decided
<1> QED
  BY <1>4, <1>5, <1>6

LEMMA RejectRows ==
    ASSUME NEW r \in Requests, NEW user \in Users, CanAct(r, user),
           RowInv(req[r], lvl[r])
    PROVE  LET rows == Marked(r, "rejected", user)
               row == UpdateRequestStatus(req[r], "rejected", NilLevel, user) IN
           /\ row \in RequestRow
           /\ row.status = "rejected"
           /\ RowInv(row, Install(SkipRemainingPending(rows), rows))
<1> DEFINE rows == Marked(r, "rejected", user)
           after == Install(SkipRemainingPending(rows), rows)
           row == UpdateRequestStatus(req[r], "rejected", NilLevel, user)
           k == req[r].current
<1>0. req[r] \in RequestRow
  BY CanActRow
<1>1. row \in RequestRow /\ row.total = req[r].total /\ row.status = "rejected"
  BY <1>0, NoUserAssumption
  DEF UpdateRequestStatus, RequestRow, RequestStatuses, NilLevel
<1>2. /\ rows \in [1 .. req[r].total -> LevelRow]
      /\ SplitAt(rows, k, "rejected", "approved", "pending")
      /\ Decided(rows)
  BY MarkedRows
<1>3. /\ after \in [1 .. req[r].total -> LevelRow]
      /\ \A l \in 1 .. req[r].total :
            after[l].status = IF rows[l].status = "pending" THEN "skipped"
                                                          ELSE rows[l].status
      /\ Decided(after)
  BY <1>2, SkippedRows, CanActRow
<1>4. SplitAt(after, k, "rejected", "approved", "skipped")
  BY <1>2, <1>3 DEF SplitAt
<1>5. TrailOf(row, after)
  BY <1>1, <1>3, <1>4, CanActRow DEF TrailOf
<1> QED
  BY <1>1, <1>3, <1>5, NoRowAssumption DEF RowInv, RowOK

LEMMA CancelRows ==
    ASSUME NEW r \in Requests, NEW user \in Users, req[r] # NoRow,
           req[r].status = "waiting", RowInv(req[r], lvl[r])
    PROVE  LET row == UpdateRequestStatus(req[r], "cancelled", NilLevel, user) IN
           /\ row \in RequestRow
           /\ row.status = "cancelled"
           /\ RowInv(row, Install(SkipRemainingPending(lvl[r]), lvl[r]))
<1> DEFINE after == Install(SkipRemainingPending(lvl[r]), lvl[r])
           row == UpdateRequestStatus(req[r], "cancelled", NilLevel, user)
           k == req[r].current
<1>1. /\ req[r] \in RequestRow
      /\ req[r].total \in Nat
      /\ lvl[r] \in [1 .. req[r].total -> LevelRow]
      /\ k \in 1 .. req[r].total
      /\ SplitAt(lvl[r], k, "pending", "approved", "pending")
      /\ Decided(lvl[r])
  BY DEF RowInv, RowOK, TrailOf, RequestRow
<1>2. row \in RequestRow /\ row.total = req[r].total /\ row.status = "cancelled"
  BY <1>1, NoUserAssumption
  DEF UpdateRequestStatus, RequestRow, RequestStatuses, NilLevel
<1>3. /\ after \in [1 .. req[r].total -> LevelRow]
      /\ \A l \in 1 .. req[r].total :
            after[l].status = IF lvl[r][l].status = "pending" THEN "skipped"
                                                            ELSE lvl[r][l].status
      /\ Decided(after)
  BY <1>1, SkippedRows
<1>4. SplitAt(after, k, "skipped", "approved", "skipped")
  BY <1>1, <1>3 DEF SplitAt
<1>5. TrailOf(row, after)
  BY <1>1, <1>2, <1>3, <1>4 DEF TrailOf
<1> QED
  BY <1>2, <1>3, <1>5, NoRowAssumption DEF RowInv, RowOK

-----------------------------------------------------------------------------
(* One step of one handler rewrites one request. *)

LEMMA OneRowStep ==
    ASSUME Inv, NEW r \in Requests, NEW row \in RequestRow, NEW rows,
           RowInv(row, rows),
           req' = [req EXCEPT ![r] = row], lvl' = [lvl EXCEPT ![r] = rows],
           OneActivePerDoc'
    PROVE  Inv'
<1>1. /\ req \in [Requests -> RequestRow \cup {NoRow}]
      /\ DOMAIN lvl = Requests
      /\ \A s \in Requests : RowInv(req[s], lvl[s])
  BY InvByRow
<1>2. /\ req' \in [Requests -> RequestRow \cup {NoRow}]
      /\ DOMAIN lvl' = Requests
      /\ \A s \in Requests : RowInv(req'[s], lvl'[s])
  <2>1. \A s \in Requests : /\ req'[s] = IF s = r THEN row ELSE req[s]
                            /\ lvl'[s] = IF s = r THEN rows ELSE lvl[s]
    BY <1>1
  <2> QED
    BY <1>1, <2>1
<1> QED
  BY <1>2 DEF Inv, TypeOK, TrailMatchesStatus, DecidedByEligible, RowInv, RowOK, Decided

LEMMA SubmitKeeps ==
    ASSUME Inv, NEW r \in Requests, NEW doc \in Docs, NEW user \in Users,
           NEW config \in ConfigIds \cup {NoConfig}, NEW list \in LevelLists,
           Submit(r, doc, user, config, list)
    PROVE  Inv'
<1> DEFINE row == NewRequest(doc, user, config, list)
<1>1. row \in RequestRow /\ RowInv(row, Snapshot(list)) /\ row.doc = doc
  BY SubmitRows DEF NewRequest
<1>2. \A s \in Requests : req'[s] = IF s = r THEN row ELSE req[s]
  BY DEF Submit, Inv, TypeOK
<1>3. OneActivePerDoc'
  BY <1>1, <1>2 DEF Submit, Inv, OneActivePerDoc, IsActive
<1> QED
  BY <1>1, <1>3, OneRowStep DEF Submit

LEMMA ApproveKeeps ==
    ASSUME Inv, NEW r \in Requests, NEW user \in Users, Approve(r, user)
    PROVE  Inv'
<1> DEFINE row == Approved(req[r], req[r], user)
<1>0. RowInv(req[r], lvl[r])
  BY InvByRow
<1>1. /\ row \in RequestRow
      /\ RowInv(row, Marked(r, "approved", user))
      /\ row.doc = req[r].doc
  BY <1>0, ApproveRows DEF Approve
<1>2. \A s \in Requests : req'[s] = IF s = r THEN row ELSE req[s]
  BY DEF Approve, Inv, TypeOK
<1>3. OneActivePerDoc'
  BY <1>1, <1>2 DEF Approve, CanAct, Inv, OneActivePerDoc, IsActive
<1> QED
  BY <1>1, <1>3, OneRowStep DEF Approve

LEMMA RejectKeeps ==
    ASSUME Inv, NEW r \in Requests, NEW user \in Users, Reject(r, user)
    PROVE  Inv'
<1> DEFINE rows == Marked(r, "rejected", user)
           row == UpdateRequestStatus(req[r], "rejected", NilLevel, user)
<1>0. RowInv(req[r], lvl[r])
  BY InvByRow
<1>1. /\ row \in RequestRow
      /\ RowInv(row, Install(SkipRemainingPending(rows), rows))
      /\ row.status = "rejected"
  BY <1>0, RejectRows DEF Reject
<1>2. \A s \in Requests : req'[s] = IF s = r THEN row ELSE req[s]
  BY DEF Reject, Inv, TypeOK
<1>3. OneActivePerDoc'
  BY <1>1, <1>2 DEF Inv, OneActivePerDoc, IsActive
<1> QED
  BY <1>1, <1>3, OneRowStep DEF Reject

LEMMA CancelKeeps ==
    ASSUME Inv, NEW r \in Requests, NEW user \in Users, Cancel(r, user)
    PROVE  Inv'
<1> DEFINE row == UpdateRequestStatus(req[r], "cancelled", NilLevel, user)
<1>0. RowInv(req[r], lvl[r])
  BY InvByRow
<1>1. /\ row \in RequestRow
      /\ RowInv(row, Install(SkipRemainingPending(lvl[r]), lvl[r]))
      /\ row.status = "cancelled"
  BY <1>0, CancelRows DEF Cancel
<1>2. \A s \in Requests : req'[s] = IF s = r THEN row ELSE req[s]
  BY DEF Cancel, Inv, TypeOK
<1>3. OneActivePerDoc'
  BY <1>1, <1>2 DEF Inv, OneActivePerDoc, IsActive
<1> QED
  BY <1>1, <1>3, OneRowStep DEF Cancel

-----------------------------------------------------------------------------
LEMMA InitInv == Init => Inv
BY DEF Init, Inv, TypeOK, TrailMatchesStatus, OneActivePerDoc, DecidedByEligible,
       IsActive

LEMMA StepInv == Inv /\ [Next]_vars => Inv'
<1> SUFFICES ASSUME Inv, [Next]_vars PROVE Inv'
  OBVIOUS
<1>1. CASE Next
  BY <1>1, SubmitKeeps, ApproveKeeps, RejectKeeps, CancelKeeps DEF Next
<1>2. CASE UNCHANGED vars
  BY <1>2 DEF vars, Inv, TypeOK, TrailMatchesStatus, OneActivePerDoc,
              DecidedByEligible
<1> QED
  BY <1>1, <1>2

(***************************************************************************)
(* Types, the trail, one waiting request per document and eligibility of   *)
(* every decision, in every reachable state.                               *)
(***************************************************************************)
THEOREM EngineInvariant == Spec => []Inv
BY InitInv, StepInv, PTL DEF Spec

(* The rows always have their types and their level rows. *)
THEOREM EngineTypeOK == Spec => []TypeOK
BY EngineInvariant, PTL DEF Inv

(* The audit trail of every request agrees with its status. *)
THEOREM EngineTrail == Spec => []TrailMatchesStatus
BY EngineInvariant, PTL DEF Inv

(* No document ever has two waiting requests. *)
THEOREM EngineOneActive == Spec => []OneActivePerDoc
BY EngineInvariant, PTL DEF Inv

(* Only users of the snapshot decide. *)
THEOREM EngineEligible == Spec => []DecidedByEligible
BY EngineInvariant, PTL DEF Inv

(***************************************************************************)
(* Handlers that do not overlap never touch a finalized request.           *)
(***************************************************************************)
THEOREM EngineFinality == Spec => FinalizedIsHistory
<1> DEFINE Kept == \A r \in Requests :
              req[r] # NoRow /\ req[r].status # "waiting"
                 => req'[r] = req[r] /\ lvl'[r] = lvl[r]
<1>1. ASSUME Inv, [Next]_vars PROVE [Kept]_vars
  <2>1. CASE UNCHANGED vars
    BY <2>1
  <2>2. CASE Next
    BY <1>1, <2>2 DEF Next, Submit, Approve, CanAct, Reject, Cancel, Inv, TypeOK
  <2> QED
    BY <1>1, <2>1, <2>2
<1> QED
  BY <1>1, EngineInvariant, PTL DEF Spec, FinalizedIsHistory

-----------------------------------------------------------------------------
(* Every atomic handler is a decision of ApprovalCommits, on the current   *)
(* level, which has been reached: TrailOf says that those below it are     *)
(* approved.                                                               *)

Commits == INSTANCE ApprovalCommits WITH Requests <- Requests, req <- req, lvl <- lvl

LEMMA SameOperators ==
    /\ \A row, status, at, who :
          Commits!UpdateRequestStatus(row, status, at, who) = UpdateRequestStatus(row, status, at, who)
    /\ \A row, seen, who : Commits!Approved(row, seen, who) = Approved(row, seen, who)
    /\ \A row, status, who : Commits!MarkLevelAction(row, status, who) = MarkLevelAction(row, status, who)
    /\ \A rows : Commits!SkipRemainingPending(rows) = SkipRemainingPending(rows)
    /\ \A rows : Commits!SkipsCleanly(rows) <=> SkipsCleanly(rows)
    /\ \A new, old : Commits!Install(new, old) = Install(new, old)
    /\ \A row, doc : Commits!IsActive(row, doc) <=> IsActive(row, doc)
    /\ \A doc, user, config, list :
          Commits!NewRequest(doc, user, config, list) = NewRequest(doc, user, config, list)
    /\ \A list : Commits!Snapshot(list) = Snapshot(list)
    /\ Commits!NilLevel = NilLevel
<1>1. \A rows : Commits!SkipRemainingPending(rows) = SkipRemainingPending(rows)
  BY DEF Commits!SkipRemainingPending, SkipRemainingPending
<1>2. \A rows : Commits!SkipsCleanly(rows) <=> SkipsCleanly(rows)
  BY <1>1 DEF Commits!SkipsCleanly, SkipsCleanly, Commits!ActionCheck, ActionCheck
<1> QED
  BY <1>1, <1>2 DEF Commits!UpdateRequestStatus, UpdateRequestStatus, Commits!Approved, Approved,
     Commits!MarkLevelAction, MarkLevelAction, Commits!Install, Install, Commits!IsActive, IsActive,
     Commits!NewRequest, NewRequest, Commits!Snapshot, Snapshot, Commits!NilLevel, NilLevel

\* The index guard holds of a document that no other request waits for.
LEMMA UniqueRow ==
    ASSUME Inv, NEW r \in Requests, NEW row, row.status = "waiting" => IsActive(req[r], row.doc),
           req[r] # NoRow
    PROVE  Commits!Unique(r, row)
<1>1. req[r] \in RequestRow
  BY DEF Inv, TypeOK
<1>2. IsActive(req[r], row.doc) => row.doc \in Docs
  BY <1>1 DEF IsActive, RequestRow
<1> QED BY <1>2, SameOperators DEF Commits!Unique, Inv, OneActivePerDoc

LEMMA CurrentReached ==
    ASSUME Inv, NEW r \in Requests, NEW user \in Users, CanAct(r, user)
    PROVE  /\ Commits!MayAct(r, req[r].current, user) /\ req[r].current \in DOMAIN lvl[r]
           /\ req[r] \in RequestRow /\ req[r].status = "waiting"
<1>1. RowInv(req[r], lvl[r]) /\ req[r] # NoRow /\ req[r].status = "waiting"
  BY InvByRow DEF CanAct
<1>2. /\ req[r] \in RequestRow /\ DOMAIN lvl[r] = 1 .. req[r].total
      /\ req[r].current \in DOMAIN lvl[r]
      /\ SplitAt(lvl[r], req[r].current, "pending", "approved", "pending")
  BY <1>1 DEF RowInv, RowOK, TrailOf
<1>3. req[r].current \in Nat /\ req[r].total \in Nat
  BY <1>2 DEF RequestRow
<1>4. \A k \in 1 .. req[r].current - 1 : lvl[r][k].status # "pending"
  BY <1>2, <1>3 DEF SplitAt
<1> QED BY <1>1, <1>2, <1>4 DEF CanAct, Commits!MayAct

LEMMA EngineCommits ==
    ASSUME Inv, Next
    PROVE  Commits!Next
<1>1. PICK r \in Requests, user \in Users :
        \/ \E doc \in Docs, config \in ConfigIds \cup {NoConfig}, list \in LevelLists :
               Submit(r, doc, user, config, list)
        \/ Approve(r, user)
        \/ Reject(r, user)
        \/ Cancel(r, user)
  BY DEF Next
<1>2. ASSUME NEW doc \in Docs, NEW config \in ConfigIds \cup {NoConfig}, NEW list \in LevelLists,
             Submit(r, doc, user, config, list)
      PROVE  Commits!Next
  <2>1. NewRequest(doc, user, config, list).doc = doc
    BY DEF NewRequest
  <2>2. Commits!Unique(r, NewRequest(doc, user, config, list))
    BY <1>2, <2>1, SameOperators DEF Submit, Commits!Unique
  <2>3. Commits!Submit(r, doc, user, config, list)
    BY <1>2, <2>2, SameOperators DEF Submit, Commits!Submit
  <2> QED BY <2>3 DEF Commits!Next
<1>3. CASE Approve(r, user)
  <2> DEFINE at == req[r].current
             row == Approved(req[r], req[r], user)
  <2>1. /\ Commits!MayAct(r, at, user) /\ at \in DOMAIN lvl[r]
        /\ req[r] \in RequestRow /\ req[r].status = "waiting" /\ req[r] # NoRow
    BY <1>3, CurrentReached DEF Approve, CanAct
  <2>2. [req[r] EXCEPT !.current = at] = req[r]
    BY <2>1 DEF RequestRow
  <2>3. row.doc = req[r].doc
    BY <1>3, ApproveRows, InvByRow DEF Approve
  <2>4. Commits!Unique(r, row)
    <3> HIDE DEF row
    <3> QED BY <2>1, <2>3, UniqueRow DEF IsActive
  <2>5. Commits!Marked(r, at, "approved", user) = Marked(r, "approved", user)
    BY SameOperators DEF Commits!Marked, Marked
  <2>6. /\ lvl' = [lvl EXCEPT ![r] = Commits!Marked(r, at, "approved", user)]
        /\ req' = [req EXCEPT ![r] = row]
    BY <1>3, <2>5 DEF Approve
  <2>7. Commits!Approved(req[r], [req[r] EXCEPT !.current = at], user) = row
    BY <2>2, SameOperators
  <2> HIDE DEF row
  <2>8. Commits!Approve(r, at, user)
    BY <2>1, <2>4, <2>6, <2>7 DEF Commits!Approve
  <2> QED BY <2>1, <2>8 DEF Commits!Next
<1>4. CASE Reject(r, user)
  <2> DEFINE at == req[r].current
  <2>1. Commits!MayAct(r, at, user) /\ at \in DOMAIN lvl[r]
    BY <1>4, CurrentReached DEF Reject
  <2>2. Commits!Marked(r, at, "rejected", user) = Marked(r, "rejected", user)
    BY SameOperators DEF Commits!Marked, Marked
  <2>3. Commits!Reject(r, at, user)
    BY <1>4, <2>1, <2>2, SameOperators DEF Reject, Commits!Reject
  <2> QED BY <2>1, <2>3 DEF Commits!Next
<1>5. CASE Cancel(r, user)
  <2>1. req[r].total > 0
    <3>1. RowInv(req[r], lvl[r]) /\ req[r] # NoRow /\ req[r].status = "waiting"
      BY <1>5, InvByRow DEF Cancel
    <3>2. req[r] \in RequestRow /\ req[r].current \in 1 .. req[r].total
      BY <3>1 DEF RowInv, RowOK, TrailOf
    <3> QED BY <3>2 DEF RequestRow
  <2>2. Commits!Cancel(r, user)
    BY <1>5, <2>1, SameOperators DEF Cancel, Commits!Cancel
  <2> QED BY <2>2 DEF Commits!Next
<1> QED BY <1>1, <1>2, <1>3, <1>4, <1>5

(***************************************************************************)
(* ApprovalEngine implements ApprovalCommits: what handlers that overlap   *)
(* keep is kept by those that do not.                                      *)
(***************************************************************************)
THEOREM EngineImplementsCommits == Spec => Commits!Spec
<1>1. Init => Commits!Init
  BY DEF Init, Commits!Init
<1>2. Inv /\ [Next]_vars => [Commits!Next]_Commits!vars
  BY EngineCommits DEF vars, Commits!vars
<1> QED BY <1>1, <1>2, EngineInvariant, PTL DEF Spec, Commits!Spec

-----------------------------------------------------------------------------
(* ApprovalCommits by itself: its guards, which ask nothing of the status,  *)
(* are enough for the tables to stay in order.                              *)

CommitRow(row, rows) == RowOK(row, rows) /\ Decided(rows)

CommitInv ==
    /\ req \in [Requests -> RequestRow \cup {NoRow}]
    /\ DOMAIN lvl = Requests
    /\ \A r \in Requests : CommitRow(req[r], lvl[r])
    /\ OneActivePerDoc

LEMMA CommitInvImplies == CommitInv => TypeOK /\ OneActivePerDoc /\ DecidedByEligible
BY DEF CommitInv, CommitRow, RowOK, Decided, TypeOK, DecidedByEligible

\* A commit writes one request, and the index has been asked.
LEMMA CommitStep ==
    ASSUME CommitInv, NEW r \in Requests, NEW row \in RequestRow, NEW rows,
           CommitRow(row, rows), Commits!Unique(r, row),
           req' = [req EXCEPT ![r] = row], lvl' = [lvl EXCEPT ![r] = rows]
    PROVE  CommitInv'
<1>1. \A s \in Requests : /\ req'[s] = IF s = r THEN row ELSE req[s]
                          /\ lvl'[s] = IF s = r THEN rows ELSE lvl[s]
  BY DEF CommitInv
<1>2. \A s \in Requests : CommitRow(req'[s], lvl'[s])
  BY <1>1 DEF CommitInv
<1>3. OneActivePerDoc'
  <2> SUFFICES ASSUME NEW s \in Requests, NEW t \in Requests, NEW doc \in Docs,
                      IsActive(req'[s], doc), IsActive(req'[t], doc), s # t
               PROVE  FALSE
    BY DEF OneActivePerDoc
  <2>1. CASE s # r /\ t # r
    BY <1>1, <2>1 DEF CommitInv, OneActivePerDoc
  <2>2. CASE s = r \/ t = r
    BY <1>1, <2>2, SameOperators DEF Commits!Unique, IsActive
  <2> QED BY <2>1, <2>2
<1> QED BY <1>2, <1>3 DEF CommitInv

LEMMA CommitActs ==
    ASSUME CommitInv, NEW r \in Requests, NEW l, NEW user \in Users, Commits!MayAct(r, l, user),
           NEW status \in {"approved", "rejected"}
    PROVE  /\ req[r] \in RequestRow /\ l \in 1 .. req[r].total
           /\ Commits!Marked(r, l, status, user) \in [1 .. req[r].total -> LevelRow]
           /\ Decided(Commits!Marked(r, l, status, user))
<1> DEFINE rows == Commits!Marked(r, l, status, user)
<1>1. /\ req[r] \in RequestRow /\ lvl[r] \in [1 .. req[r].total -> LevelRow] /\ Decided(lvl[r])
      /\ l \in 1 .. req[r].total /\ user \in lvl[r][l].eligible
  BY DEF Commits!MayAct, CommitInv, CommitRow, RowOK
<1>2. rows = [lvl[r] EXCEPT ![l] = MarkLevelAction(@, status, user)]
  BY SameOperators DEF Commits!Marked
<1>3. /\ MarkLevelAction(lvl[r][l], status, user) \in LevelRow
      /\ MarkLevelAction(lvl[r][l], status, user).eligible = lvl[r][l].eligible
      /\ MarkLevelAction(lvl[r][l], status, user).actionBy = user
      /\ MarkLevelAction(lvl[r][l], status, user).status = status
  BY <1>1 DEF MarkLevelAction, LevelRow, LevelStatuses
<1>4. rows \in [1 .. req[r].total -> LevelRow]
  BY <1>1, <1>2, <1>3
<1>5. Decided(rows)
  BY <1>1, <1>2, <1>3 DEF Decided
<1> QED BY <1>1, <1>4, <1>5

\* What UpdateRequestStatusTx makes of a row.
LEMMA Updated ==
    ASSUME NEW row \in RequestRow, NEW status \in RequestStatuses, NEW at \in Nat,
           NEW who \in Users \cup {NoUser}
    PROVE  LET new == UpdateRequestStatus(row, status, at, who) IN
           new \in RequestRow /\ new.total = row.total /\ new.status = status
BY DEF UpdateRequestStatus, RequestRow

LEMMA CommitsStepKeeps ==
    ASSUME CommitInv, NEW r \in Requests, NEW user \in Users,
           \/ \E doc \in Docs, config \in ConfigIds \cup {NoConfig}, list \in LevelLists :
                  Commits!Submit(r, doc, user, config, list)
           \/ \E l \in DOMAIN lvl[r] : Commits!Approve(r, l, user) \/ Commits!Reject(r, l, user)
           \/ Commits!Cancel(r, user)
    PROVE  CommitInv'
<1>1. ASSUME NEW doc \in Docs, NEW config \in ConfigIds \cup {NoConfig}, NEW list \in LevelLists,
             Commits!Submit(r, doc, user, config, list)
      PROVE  CommitInv'
  <2> DEFINE row == NewRequest(doc, user, config, list)
  <2>1. row \in RequestRow /\ CommitRow(row, Snapshot(list))
    BY SubmitRows DEF RowInv, CommitRow
  <2>2. /\ Commits!Unique(r, row)
        /\ req' = [req EXCEPT ![r] = row] /\ lvl' = [lvl EXCEPT ![r] = Snapshot(list)]
    BY <1>1, SameOperators DEF Commits!Submit
  <2> HIDE DEF row
  <2> QED BY <2>1, <2>2, CommitStep
<1>2. ASSUME NEW l \in DOMAIN lvl[r], Commits!Approve(r, l, user)
      PROVE  CommitInv'
  <2> DEFINE row == Approved(req[r], [req[r] EXCEPT !.current = l], user)
             rows == Commits!Marked(r, l, "approved", user)
  <2>1. /\ Commits!Unique(r, row)
        /\ req' = [req EXCEPT ![r] = row] /\ lvl' = [lvl EXCEPT ![r] = rows]
        /\ Commits!MayAct(r, l, user)
    BY <1>2, SameOperators DEF Commits!Approve
  <2>2. /\ req[r] \in RequestRow /\ l \in 1 .. req[r].total
        /\ rows \in [1 .. req[r].total -> LevelRow] /\ Decided(rows)
    BY <2>1, CommitActs
  <2>3. row \in RequestRow /\ row.total = req[r].total
    <3>1. [req[r] EXCEPT !.current = l].current = l
      BY <2>2 DEF RequestRow
    <3>2. l + 1 \in Nat /\ NilLevel \in Nat /\ {"approved", "waiting"} \subseteq RequestStatuses
      BY <2>2 DEF RequestRow, NilLevel, RequestStatuses
    <3> QED BY <2>2, <3>1, <3>2, Updated DEF Approved
  <2> HIDE DEF row, rows
  <2>4. CommitRow(row, rows)
    BY <2>2, <2>3, NoRowAssumption DEF CommitRow, RowOK
  <2> QED BY <2>1, <2>3, <2>4, CommitStep
<1>3. ASSUME NEW l \in DOMAIN lvl[r], Commits!Reject(r, l, user)
      PROVE  CommitInv'
  <2> DEFINE row == UpdateRequestStatus(req[r], "rejected", NilLevel, user)
             marked == Commits!Marked(r, l, "rejected", user)
             rows == Install(SkipRemainingPending(marked), marked)
  <2>1. /\ req' = [req EXCEPT ![r] = row] /\ lvl' = [lvl EXCEPT ![r] = rows]
        /\ Commits!MayAct(r, l, user)
    BY <1>3, SameOperators DEF Commits!Reject, CommitInv
  <2>2. /\ req[r] \in RequestRow
        /\ marked \in [1 .. req[r].total -> LevelRow] /\ Decided(marked)
    BY <2>1, CommitActs
  <2>3. row \in RequestRow /\ row.total = req[r].total /\ row.status = "rejected"
    BY <2>2, Updated DEF RequestStatuses, NilLevel
  <2>4. rows \in [1 .. req[r].total -> LevelRow] /\ Decided(rows)
    BY <2>2, SkippedRows DEF RequestRow
  <2> HIDE DEF row, rows
  <2>5. CommitRow(row, rows) /\ Commits!Unique(r, row)
    BY <2>3, <2>4, NoRowAssumption DEF CommitRow, RowOK, Commits!Unique
  <2> QED BY <2>1, <2>3, <2>5, CommitStep
<1>4. CASE Commits!Cancel(r, user)
  <2> DEFINE row == UpdateRequestStatus(req[r], "cancelled", NilLevel, user)
             rows == Install(SkipRemainingPending(lvl[r]), lvl[r])
  <2>1. /\ req' = [req EXCEPT ![r] = row] /\ lvl' = [lvl EXCEPT ![r] = rows] /\ req[r] # NoRow
    BY <1>4, SameOperators DEF Commits!Cancel, CommitInv
  <2>2. /\ req[r] \in RequestRow
        /\ lvl[r] \in [1 .. req[r].total -> LevelRow] /\ Decided(lvl[r])
    BY <2>1 DEF CommitInv, CommitRow, RowOK
  <2>3. row \in RequestRow /\ row.total = req[r].total /\ row.status = "cancelled"
    <3>1. "cancelled" \in RequestStatuses /\ NilLevel \in Nat
      BY DEF RequestStatuses, NilLevel
    <3> QED BY <2>2, <3>1, Updated
  <2>4. rows \in [1 .. req[r].total -> LevelRow] /\ Decided(rows)
    BY <2>2, SkippedRows DEF RequestRow
  <2> HIDE DEF row, rows
  <2>5. CommitRow(row, rows) /\ Commits!Unique(r, row)
    BY <2>3, <2>4, NoRowAssumption DEF CommitRow, RowOK, Commits!Unique
  <2> QED BY <2>1, <2>3, <2>5, CommitStep
<1> QED BY <1>1, <1>2, <1>3, <1>4

(***************************************************************************)
(* Whatever behaves as ApprovalCommits keeps types, one waiting request    *)
(* per document and the eligibility of every decision.  TxImplementsCommits *)
(* says that of any number of overlapping transactions.                    *)
(***************************************************************************)
THEOREM CommitsKeepOrder == Commits!Spec => [](TypeOK /\ OneActivePerDoc /\ DecidedByEligible)
<1>1. Commits!Init => CommitInv
  BY DEF Commits!Init, CommitInv, CommitRow, RowOK, Decided, OneActivePerDoc, IsActive
<1>2. CommitInv /\ [Commits!Next]_Commits!vars => CommitInv'
  <2>1. CommitInv /\ Commits!Next => CommitInv'
    BY CommitsStepKeeps DEF Commits!Next
  <2>2. CommitInv /\ UNCHANGED Commits!vars => CommitInv'
    BY DEF Commits!vars, CommitInv, OneActivePerDoc
  <2> QED BY <2>1, <2>2
<1> QED BY <1>1, <1>2, CommitInvImplies, PTL DEF Commits!Spec
=============================================================================
