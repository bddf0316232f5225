-------------------------- MODULE ApprovalCommits --------------------------
(***************************************************************************)
(* What the approval engine keeps of ApprovalEngine however many           *)
(* transactions overlap: every commit is one atomic decision on the        *)
(* committed rows, but on a level that was once the current one, of a      *)
(* request that was once waiting.  No guard reads the status, which may    *)
(* have changed since the handler looked.                                  *)
(*                                                                         *)
(* A level was once current if none below it is pending: they are acted on *)
(* in their order, and none is ever pending again.                         *)
(***************************************************************************)
EXTENDS ApprovalRows

CONSTANT Requests   \* request ids

VARIABLES
    req,            \* core.approval_requests:       id -> row or NoRow
    lvl             \* core.approval_request_levels: id -> rows by level

vars == <<req, lvl>>

Init ==
    /\ req = [r \in Requests |-> NoRow]
    /\ lvl = [r \in Requests |-> <<>>]

\* uniq_approval_requests_active_doc, for a row of request r.
Unique(r, row) ==
    row.status = "waiting" => \A s \in Requests \ {r} : ~IsActive(req[s], row.doc)

\* A submission without levels is approved at once, beside a waiting request
\* that came after it looked.
Submit(r, doc, user, config, list) ==
    LET row == NewRequest(doc, user, config, list) IN
    /\ req[r] = NoRow
    /\ config = NoConfig => list = <<>>
    /\ Unique(r, row)
    /\ req' = [req EXCEPT ![r] = row]
    /\ lvl' = [lvl EXCEPT ![r] = Snapshot(list)]

\* The user is an approver of level l, which has been reached.
MayAct(r, l, user) ==
    /\ req[r] # NoRow
    /\ l \in DOMAIN lvl[r]
    /\ user \in lvl[r][l].eligible
    /\ \A k \in 1 .. l - 1 : lvl[r][k].status # "pending"

Marked(r, l, status, user) ==
    [lvl[r] EXCEPT ![l] = MarkLevelAction(@, status, user)]

\* The next level is the one after l, wherever the request is by now.
Approve(r, l, user) ==
    LET row == Approved(req[r], [req[r] EXCEPT !.current = l], user) IN
    /\ MayAct(r, l, user)
    /\ Unique(r, row)
    /\ lvl' = [lvl EXCEPT ![r] = Marked(r, l, "approved", user)]
    /\ req' = [req EXCEPT ![r] = row]

Reject(r, l, user) ==
    LET rows == Marked(r, l, "rejected", user) IN
    /\ MayAct(r, l, user)
    /\ SkipsCleanly(rows)
    /\ lvl' = [lvl EXCEPT ![r] = Install(SkipRemainingPending(rows), rows)]
    /\ req' = [req EXCEPT ![r] = UpdateRequestStatus(@, "rejected", NilLevel, user)]

\* A request without levels was never waiting.
Cancel(r, user) ==
    /\ req[r] # NoRow
    /\ req[r].total > 0
    /\ req[r].submittedBy = user
    /\ SkipsCleanly(lvl[r])
    /\ lvl' = [lvl EXCEPT ![r] = Install(SkipRemainingPending(@), @)]
    /\ req' = [req EXCEPT ![r] = UpdateRequestStatus(@, "cancelled", NilLevel, user)]

Next ==
    \E r \in Requests, user \in Users :
        \/ \E doc \in Docs, config \in ConfigIds \cup {NoConfig}, list \in LevelLists :
               Submit(r, doc, user, config, list)
        \/ \E l \in DOMAIN lvl[r] : Approve(r, l, user) \/ Reject(r, l, user)
        \/ Cancel(r, user)

Spec == Init /\ [][Next]_vars
=============================================================================
