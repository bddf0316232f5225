--------------------------- MODULE ApprovalEngine ---------------------------
(***************************************************************************)
(* What the approval engine would do if its calls never overlapped: every  *)
(* handler of ApprovalRequestService as one atomic step on the committed   *)
(* rows.  It abstracts from statements and locks, not from what the code   *)
(* decides; where the documentation asks for another decision, the code is *)
(* followed and ApprovalTx states the difference.                          *)
(* A handler that returns an error rolls back and is a stuttering step.    *)
(* ApprovalTx has the same handlers statement by statement; it implements  *)
(* this module as long as no two transactions overlap.                     *)
(***************************************************************************)
EXTENDS ApprovalRows

CONSTANT Requests   \* request ids (uuids); bounds the requests ever submitted

VARIABLES
    req,            \* core.approval_requests:       id -> row or NoRow
    lvl             \* core.approval_request_levels: id -> rows by level

vars == <<req, lvl>>

Init ==
    /\ req = [r \in Requests |-> NoRow]
    /\ lvl = [r \in Requests |-> <<>>]

(***************************************************************************)
(* SubmitTx with the level list it found: no second waiting request on a   *)
(* document.  Without an active configuration the list is empty, and the   *)
(* request approved at once.  The function's own comment (step 2) and      *)
(* approval.md ask for an error there; SubmitNeedsConfig of ApprovalTx is  *)
(* that demand, which the code does not meet.                              *)
(***************************************************************************)
Submit(r, doc, user, config, list) ==
    /\ req[r] = NoRow
    /\ config = NoConfig => list = <<>>
    /\ ~ \E s \in Requests : IsActive(req[s], doc)
    /\ req' = [req EXCEPT ![r] = NewRequest(doc, user, config, list)]
    /\ lvl' = [lvl EXCEPT ![r] = Snapshot(list)]

\* The guards ApproveTx and RejectTx share.
CanAct(r, user) ==
    /\ req[r] # NoRow
    /\ req[r].status = "waiting"
    /\ req[r].current \in DOMAIN lvl[r]
    /\ user \in lvl[r][req[r].current].eligible

\* MarkLevelActionTx on the current level of r.
Marked(r, status, user) ==
    [lvl[r] EXCEPT ![req[r].current] = MarkLevelAction(@, status, user)]

Approve(r, user) ==
    /\ CanAct(r, user)
    /\ lvl' = [lvl EXCEPT ![r] = Marked(r, "approved", user)]
    /\ req' = [req EXCEPT ![r] = Approved(@, @, user)]

Reject(r, user) ==
    LET rows == Marked(r, "rejected", user) IN
    /\ CanAct(r, user)
    /\ SkipsCleanly(rows)
    /\ lvl' = [lvl EXCEPT ![r] = Install(SkipRemainingPending(rows), rows)]
    /\ req' = [req EXCEPT ![r] = UpdateRequestStatus(@, "rejected", NilLevel, user)]

Cancel(r, user) ==
    /\ req[r] # NoRow
    /\ req[r].status = "waiting"
    /\ req[r].submittedBy = user
    /\ SkipsCleanly(lvl[r])
    /\ lvl' = [lvl EXCEPT ![r] = Install(SkipRemainingPending(@), @)]
    /\ req' = [req EXCEPT ![r] = UpdateRequestStatus(@, "cancelled", NilLevel, user)]

Next ==
    \E r \in Requests, user \in Users :
        \/ \E doc \in Docs, config \in ConfigIds \cup {NoConfig}, list \in LevelLists :
               Submit(r, doc, user, config, list)
        \/ Approve(r, user)
        \/ Reject(r, user)
        \/ Cancel(r, user)

Spec == Init /\ [][Next]_vars

-----------------------------------------------------------------------------
TypeOK ==
    /\ req \in [Requests -> RequestRow \cup {NoRow}]
    /\ DOMAIN lvl = Requests
    /\ \A r \in Requests :
          IF req[r] = NoRow THEN lvl[r] = <<>>
                            ELSE lvl[r] \in [1 .. req[r].total -> LevelRow]

(***************************************************************************)
(* The audit trail agrees with the request: a waiting request has exactly  *)
(* the levels below the current one approved and the others pending; an    *)
(* approved one was approved at every level; a rejected one was approved   *)
(* below the level that rejected it and skipped above; a cancelled one was *)
(* approved up to some level and skipped from there.                       *)
(***************************************************************************)
SplitAt(rows, k, at, below, above) ==
    \A l \in DOMAIN rows :
        rows[l].status = IF l < k THEN below ELSE IF l = k THEN at ELSE above

TrailOf(row, rows) ==
    /\ row.status = "waiting" =>
          /\ row.current \in DOMAIN rows
          /\ SplitAt(rows, row.current, "pending", "approved", "pending")
    /\ row.status = "approved" =>
          \A l \in DOMAIN rows : rows[l].status = "approved"
    /\ row.status = "rejected" =>
          \E k \in DOMAIN rows : SplitAt(rows, k, "rejected", "approved", "skipped")
    /\ row.status = "cancelled" =>
          \E k \in DOMAIN rows : SplitAt(rows, k, "skipped", "approved", "skipped")

TrailMatchesStatus ==
    \A r \in Requests : req[r] # NoRow => TrailOf(req[r], lvl[r])

(***************************************************************************)
(* "Satu dokumen hanya boleh punya 1 request dengan status waiting":       *)
(* at most one waiting request per document (docs/api-contract/core/       *)
(* approval.md, Business Rules), although Approve writes 'waiting' again.  *)
(***************************************************************************)
OneActivePerDoc ==
    \A r, s \in Requests, doc \in Docs :
        IsActive(req[r], doc) /\ IsActive(req[s], doc) => r = s

(***************************************************************************)
(* Every decision in the trail was taken by a user of the approver         *)
(* snapshot of that level, and nobody else is named in it.                 *)
(***************************************************************************)
DecidedByEligible ==
    \A r \in Requests : \A l \in DOMAIN lvl[r] :
        IF lvl[r][l].status \in {"approved", "rejected"}
        THEN lvl[r][l].actionBy \in lvl[r][l].eligible
        ELSE lvl[r][l].actionBy = NoUser

(***************************************************************************)
(* A finalized request is history: neither its row nor its levels change   *)
(* again ("request lama tetap tersimpan sebagai history").                 *)
(***************************************************************************)
FinalizedIsHistory ==
    [][\A r \in Requests :
          req[r] # NoRow /\ req[r].status # "waiting"
             => req'[r] = req[r] /\ lvl'[r] = lvl[r]]_vars
=============================================================================
