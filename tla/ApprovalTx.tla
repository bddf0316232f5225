----------------------------- MODULE ApprovalTx -----------------------------
(***************************************************************************)
(* ApprovalRequestService as it runs: concurrent API calls, each a         *)
(* PostgreSQL transaction at READ COMMITTED, one action per SQL statement. *)
(* A statement reads the latest committed rows plus the transaction's own  *)
(* writes; a written row stays locked until the transaction ends; a row    *)
(* that would make a second waiting request on a document waits for, or    *)
(* fails on, the partial unique index.  Administrators edit approval       *)
(* configurations at any time.                                             *)
(*                                                                         *)
(* No SELECT here is FOR UPDATE: a handler decides on the row it read and  *)
(* writes to whatever that row has become.                                 *)
(***************************************************************************)
EXTENDS ApprovalRows

CONSTANTS
    Requests,   \* request ids; bounds the requests ever submitted
    Workers,    \* goroutines serving API calls, one call at a time each
    NoCall,     \* a worker without a call
    NoDoc       \* the document of a call that names a request only

VARIABLES
    config,     \* core.approval_configs with their levels: id -> row
    req, lvl,   \* committed request and level rows, as in ApprovalEngine
    pc,         \* worker -> the statement it executes next
    call,       \* worker -> the API call it serves, or NoCall
    cfg,        \* worker -> config.ID found by SubmitTx, or NoConfig
    seen,       \* worker -> the request row its handler decided on, or NoRow
    wreq, wlvl, \* worker -> row versions written but not committed
    err         \* worker -> the error its handler returns, "nil" for none

txvars == <<pc, call, cfg, seen, wreq, wlvl, err>>
vars == <<config, req, lvl, txvars>>

Call == [op : {"Submit", "Approve", "Reject", "Cancel"}, req : Requests,
         user : Users, doc : Docs \cup {NoDoc}]

ASSUME NoCallAssumption == NoCall \notin Call

Errors == {"nil", "ErrRequestAlreadyExists", "ErrRequestNotFound",
           "ErrRequestNotWaiting", "ErrNotEligibleApprover", "ErrCannotCancel",
           "UniqueViolation", "CheckViolation", "DBError"}

\* A config row: absent, live or soft-deleted; is_active; its level rows.
ConfigRow == [status : {"absent", "live", "deleted"}, active : BOOLEAN,
              levels : LevelLists]

Init ==
    /\ config = [c \in ConfigIds |-> [status |-> "absent", active |-> FALSE, levels |-> <<>>]]
    /\ req = [r \in Requests |-> NoRow]
    /\ lvl = [r \in Requests |-> <<>>]
    /\ pc = [w \in Workers |-> "idle"]
    /\ call = [w \in Workers |-> NoCall]
    /\ cfg = [w \in Workers |-> NoConfig]
    /\ seen = [w \in Workers |-> NoRow]
    /\ wreq = [w \in Workers |-> NoRow]
    /\ wlvl = [w \in Workers |-> <<>>]
    /\ err = [w \in Workers |-> "nil"]

-----------------------------------------------------------------------------
(* ApprovalConfigService.  One scope (company, branch, feature) is         *)
(* modelled, so uniq_approval_configs_scope allows one live row.           *)

CreateConfig(c, active, list) ==
    /\ config[c].status = "absent"
    /\ \A d \in ConfigIds : config[d].status # "live"
    /\ config' = [config EXCEPT ![c] =
                    [status |-> "live", active |-> active, levels |-> list]]
    /\ UNCHANGED <<req, lvl, txvars>>

\* Mutant: the requests under way follow the configuration.
UpdateConfigCarriedOver(c, active, list) ==
    /\ config[c].status # "absent"
    /\ config' = [config EXCEPT
          ![c].active = IF config[c].status = "live" THEN active ELSE @,
          ![c].levels = list]
    /\ lvl' = [r \in Requests |->
                 IF req[r] # NoRow /\ req[r].config = c /\ req[r].status = "waiting"
                 THEN Snapshot(list) ELSE lvl[r]]
    /\ UNCHANGED <<req, txvars>>

\* Update found the row live, but it may have been deleted since: the UPDATE
\* of is_active then matches nothing, while the levels are replaced all the
\* same.  The value written may be the stale one read before.
UpdateConfig(c, active, list) ==
    /\ config[c].status # "absent"
    /\ config' = [config EXCEPT
          ![c].active = IF config[c].status = "live" THEN active ELSE @,
          ![c].levels = list]
    /\ UNCHANGED <<req, lvl, txvars>>

\* SoftDelete leaves the level rows intact.
DeleteConfig(c) ==
    /\ config[c].status = "live"
    /\ config' = [config EXCEPT ![c].status = "deleted"]
    /\ UNCHANGED <<req, lvl, txvars>>

-----------------------------------------------------------------------------
(* Transactions. *)

Goto(w, label) == pc' = [pc EXCEPT ![w] = label]

\* The row versions transaction w sees of the levels of its request.
Visible(w) == Install(wlvl[w], lvl[call[w].req])

\* Mutant: the UPDATE writes back the whole row the handler read.
OutcomeStale(w) ==
    LET row == seen[w] IN
    IF call[w].op = "Approve"
    THEN Approved(row, seen[w], call[w].user)
    ELSE UpdateRequestStatus(row, IF call[w].op = "Reject" THEN "rejected" ELSE "cancelled",
                             NilLevel, call[w].user)

\* The values UpdateRequestStatusTx is called with.
Outcome(w) ==
    LET row == req[call[w].req] IN
    IF call[w].op = "Approve"
    THEN Approved(row, seen[w], call[w].user)
    ELSE UpdateRequestStatus(row, IF call[w].op = "Reject" THEN "rejected" ELSE "cancelled",
                             NilLevel, call[w].user)

-----------------------------------------------------------------------------
(* Locks: what a transaction v has written stays locked until it ends. *)

HoldsLevel(v, r, l) == call[v].req = r /\ l \in DOMAIN wlvl[v]

\* Mutant: FindByID takes a share lock, which the UPDATE must upgrade.
SharesRequest(v, r) == call[v].req = r /\ (wreq[v] # NoRow \/ seen[v] # NoRow)

HoldsRequest(v, r) == call[v].req = r /\ wreq[v] # NoRow

\* uniq_approval_requests_active_doc, for a version of request r about to be
\* written: v has an uncommitted entry of the same key, or is rewriting a row
\* that has it.
HoldsEntry(v, r, row) ==
    /\ row.status = "waiting"
    /\ wreq[v] # NoRow /\ call[v].req # r
    /\ IsActive(wreq[v], row.doc) \/ IsActive(req[call[v].req], row.doc)

\* The next statement of w waits for the end of transaction v.  SkipRemaining
\* evaluates the CHECK constraint on a new row before it locks the old one, so
\* a violation does not wait.
WaitsFor(w, v) ==
    LET r == call[w].req IN
    /\ v # w /\ pc[v] \notin {"idle", "done"}
    /\ \/ pc[w] = "markLevel" /\ HoldsLevel(v, r, seen[w].current)
       \/ /\ pc[w] = "skipRemaining" /\ SkipsCleanly(Visible(w))
          /\ \E l \in DOMAIN SkipRemainingPending(Visible(w)) : HoldsLevel(v, r, l)
       \/ pc[w] = "insertRequest" /\ HoldsEntry(v, r, seen[w])
       \/ /\ pc[w] = "updateStatus"
          /\ HoldsRequest(v, r) \/ HoldsEntry(v, r, Outcome(w))

Unblocked(w) == \A v \in Workers : ~WaitsFor(w, v)

\* Mutant: there is no unique index.
IndexNeverTaken(w, doc) == FALSE

\* A committed entry of the key is a violation.
IndexTaken(w, doc) ==
    \E s \in Requests \ {call[w].req} : IsActive(req[s], doc)

\* tx.Rollback: writes are dropped, the handler returns e.
Rollback(w, e) ==
    /\ Goto(w, "done")
    /\ err' = [err EXCEPT ![w] = e]
    /\ cfg' = [cfg EXCEPT ![w] = NoConfig]
    /\ seen' = [seen EXCEPT ![w] = NoRow]
    /\ wreq' = [wreq EXCEPT ![w] = NoRow]
    /\ wlvl' = [wlvl EXCEPT ![w] = <<>>]
    /\ UNCHANGED <<req, lvl, call>>

\* Mutant: the levels are not part of the transaction.
CommitRequestOnly(w) ==
    /\ pc[w] = "commit"
    /\ req' = [req EXCEPT ![call[w].req] = wreq[w]]
    /\ Goto(w, "done")
    /\ cfg' = [cfg EXCEPT ![w] = NoConfig]
    /\ seen' = [seen EXCEPT ![w] = NoRow]
    /\ wreq' = [wreq EXCEPT ![w] = NoRow]
    /\ wlvl' = [wlvl EXCEPT ![w] = <<>>]
    /\ \E e \in {"nil", "DBError"} : err' = [err EXCEPT ![w] = e]
    /\ UNCHANGED <<config, lvl, call>>

\* tx.Commit; the acknowledgement may be lost, and then the handler reports
\* the failure of a call that took effect.
Commit(w) ==
    LET r == call[w].req IN
    /\ pc[w] = "commit"
    /\ req' = [req EXCEPT ![r] = wreq[w]]
    /\ lvl' = [lvl EXCEPT ![r] = Visible(w)]
    /\ Goto(w, "done")
    /\ cfg' = [cfg EXCEPT ![w] = NoConfig]
    /\ seen' = [seen EXCEPT ![w] = NoRow]
    /\ wreq' = [wreq EXCEPT ![w] = NoRow]
    /\ wlvl' = [wlvl EXCEPT ![w] = <<>>]
    /\ \E e \in {"nil", "DBError"} : err' = [err EXCEPT ![w] = e]
    /\ UNCHANGED <<config, call>>

\* Any statement may fail (connection lost, context cancelled, process crash).
Fail(w) ==
    /\ pc[w] \notin {"idle", "done"}
    /\ Rollback(w, "DBError")
    /\ UNCHANGED config

\* The response is written; the worker is free for the next call.
Return(w) ==
    /\ pc[w] = "done"
    /\ Goto(w, "idle")
    /\ call' = [call EXCEPT ![w] = NoCall]
    /\ err' = [err EXCEPT ![w] = "nil"]
    /\ UNCHANGED <<config, req, lvl, cfg, seen, wreq, wlvl>>

-----------------------------------------------------------------------------
(* Submit *)

\* BeginTx; the request id is a fresh uuid.
BeginSubmit(w, r, doc, user) ==
    /\ pc[w] = "idle"
    /\ req[r] = NoRow
    /\ \A v \in Workers : call[v] # NoCall => call[v].req # r
    /\ Goto(w, "findActiveByDoc")
    /\ call' = [call EXCEPT ![w] = [op |-> "Submit", req |-> r, user |-> user, doc |-> doc]]
    /\ UNCHANGED <<config, req, lvl, cfg, seen, wreq, wlvl, err>>

FindActiveByDoc(w) ==
    /\ pc[w] = "findActiveByDoc"
    /\ IF \E s \in Requests : IsActive(req[s], call[w].doc)
       THEN Rollback(w, "ErrRequestAlreadyExists")
       ELSE /\ Goto(w, "findActive")
            /\ UNCHANGED <<req, lvl, call, cfg, seen, wreq, wlvl, err>>
    /\ UNCHANGED config

\* FindActive: the active, undeleted configuration of the scope, if any.
FindActive(w) ==
    LET active == {c \in ConfigIds : config[c].status = "live" /\ config[c].active} IN
    /\ pc[w] = "findActive"
    /\ IF active = {}
       THEN UNCHANGED cfg
       ELSE \E c \in active : cfg' = [cfg EXCEPT ![w] = c]
    /\ Goto(w, "findLevels")
    /\ UNCHANGED <<config, req, lvl, call, seen, wreq, wlvl, err>>

\* FindLevels by config id, a statement of its own, and the rows built from
\* it; no configuration counts as zero levels.
FindConfigLevels(w) ==
    LET list == IF cfg[w] = NoConfig THEN <<>> ELSE config[cfg[w]].levels IN
    /\ pc[w] = "findLevels"
    /\ seen' = [seen EXCEPT ![w] =
                  NewRequest(call[w].doc, call[w].user, cfg[w], list)]
    /\ wlvl' = [wlvl EXCEPT ![w] = Snapshot(list)]
    /\ Goto(w, "insertRequest")
    /\ UNCHANGED <<config, req, lvl, call, cfg, wreq, err>>

\* InsertRequestTx.  The level rows (InsertLevelTx) follow in the same
\* transaction and are visible to nobody before it commits.
InsertRequest(w) ==
    LET waiting == seen[w].status = "waiting" IN
    /\ pc[w] = "insertRequest"
    /\ Unblocked(w)
    /\ IF waiting /\ IndexTaken(w, call[w].doc)
       THEN Rollback(w, "UniqueViolation")
       ELSE /\ wreq' = [wreq EXCEPT ![w] = seen[w]]
            /\ Goto(w, "commit")
            /\ UNCHANGED <<req, lvl, call, cfg, seen, wlvl, err>>
    /\ UNCHANGED config

-----------------------------------------------------------------------------
(* Approve, Reject, Cancel *)

BeginDecision(w, op, r, user) ==
    /\ pc[w] = "idle"
    /\ Goto(w, "findByID")
    /\ call' = [call EXCEPT ![w] = [op |-> op, req |-> r, user |-> user, doc |-> NoDoc]]
    /\ UNCHANGED <<config, req, lvl, cfg, seen, wreq, wlvl, err>>

\* Mutant: eligibility is not checked.
DecisionErrorAnyone(c) ==
    LET row == req[c.req] IN
    IF row = NoRow THEN "ErrRequestNotFound"
    ELSE IF row.status # "waiting" THEN "ErrRequestNotWaiting"
    ELSE IF c.op = "Cancel" /\ row.submittedBy # c.user THEN "ErrCannotCancel"
    ELSE "nil"

\* Mutant: the status is not checked.
DecisionErrorAnyStatus(c) ==
    LET row == req[c.req] IN
    IF row = NoRow THEN "ErrRequestNotFound"
    ELSE IF c.op = "Cancel"
         THEN IF row.submittedBy = c.user THEN "nil" ELSE "ErrCannotCancel"
    ELSE IF row.current \notin DOMAIN lvl[c.req] THEN "ErrRequestNotWaiting"
    ELSE IF c.user \in lvl[c.req][row.current].eligible
         THEN "nil" ELSE "ErrNotEligibleApprover"

\* The early returns of ApproveTx, RejectTx and CancelTx, in their order.
DecisionError(c) ==
    LET row == req[c.req] IN
    IF row = NoRow THEN "ErrRequestNotFound"
    ELSE IF row.status # "waiting" THEN "ErrRequestNotWaiting"
    ELSE IF c.op = "Cancel"
         THEN IF row.submittedBy = c.user THEN "nil" ELSE "ErrCannotCancel"
    ELSE IF row.current \notin DOMAIN lvl[c.req] THEN "ErrRequestNotWaiting"
    ELSE IF c.user \in lvl[c.req][row.current].eligible
         THEN "nil" ELSE "ErrNotEligibleApprover"

\* Mutant: Cancel leaves its pending levels alone.
FindByIDNoSkip(w) ==
    LET e == DecisionError(call[w]) IN
    /\ pc[w] = "findByID"
    /\ IF e # "nil"
       THEN Rollback(w, e)
       ELSE /\ seen' = [seen EXCEPT ![w] = req[call[w].req]]
            /\ Goto(w, IF call[w].op = "Cancel" THEN "updateStatus" ELSE "markLevel")
            /\ UNCHANGED <<req, lvl, call, cfg, wreq, wlvl, err>>
    /\ UNCHANGED config

\* FindByID, then FindLevels: of the level rows only the approver snapshot is
\* used, which never changes, so reading them in the same step loses nothing.
FindByID(w) ==
    LET e == DecisionError(call[w]) IN
    /\ pc[w] = "findByID"
    /\ IF e # "nil"
       THEN Rollback(w, e)
       ELSE /\ seen' = [seen EXCEPT ![w] = req[call[w].req]]
            /\ Goto(w, IF call[w].op = "Cancel" THEN "skipRemaining" ELSE "markLevel")
            /\ UNCHANGED <<req, lvl, call, cfg, wreq, wlvl, err>>
    /\ UNCHANGED config

MarkLevel(w) ==
    LET l == seen[w].current
        status == IF call[w].op = "Approve" THEN "approved" ELSE "rejected"
    IN  /\ pc[w] = "markLevel"
        /\ Unblocked(w)
        /\ wlvl' = [wlvl EXCEPT ![w] =
              [k \in {l} |-> MarkLevelAction(lvl[call[w].req][k], status, call[w].user)]]
        /\ Goto(w, IF call[w].op = "Approve" THEN "updateStatus" ELSE "skipRemaining")
        /\ UNCHANGED <<config, req, lvl, call, cfg, seen, wreq, err>>

SkipRemaining(w) ==
    /\ pc[w] = "skipRemaining"
    /\ Unblocked(w)
    /\ IF ~SkipsCleanly(Visible(w))
       THEN Rollback(w, "CheckViolation")
       ELSE /\ wlvl' = [wlvl EXCEPT ![w] = Install(SkipRemainingPending(Visible(w)), @)]
            /\ Goto(w, "updateStatus")
            /\ UNCHANGED <<req, lvl, call, cfg, seen, wreq, err>>
    /\ UNCHANGED config

UpdateStatus(w) ==
    LET row == Outcome(w)
        waiting == row.status = "waiting"
    IN  /\ pc[w] = "updateStatus"
        /\ Unblocked(w)
        /\ IF waiting /\ IndexTaken(w, row.doc)
           THEN Rollback(w, "UniqueViolation")
           ELSE /\ wreq' = [wreq EXCEPT ![w] = row]
                /\ Goto(w, "commit")
                /\ UNCHANGED <<req, lvl, call, cfg, seen, wlvl, err>>
        /\ UNCHANGED config

-----------------------------------------------------------------------------
\* What a worker does once it has been given a call.
Step(w) ==
    \/ FindActiveByDoc(w) \/ FindActive(w) \/ FindConfigLevels(w) \/ InsertRequest(w)
    \/ FindByID(w) \/ MarkLevel(w) \/ SkipRemaining(w) \/ UpdateStatus(w)
    \/ Commit(w) \/ Return(w)

Next ==
    \/ \E c \in ConfigIds, active \in BOOLEAN, list \in LevelLists :
          CreateConfig(c, active, list) \/ UpdateConfig(c, active, list)
    \/ \E c \in ConfigIds : DeleteConfig(c)
    \/ \E w \in Workers, r \in Requests, user \in Users :
          \/ \E doc \in Docs : BeginSubmit(w, r, doc, user)
          \/ \E op \in {"Approve", "Reject", "Cancel"} : BeginDecision(w, op, r, user)
    \/ \E w \in Workers : Step(w) \/ Fail(w)

Spec == Init /\ [][Next]_vars

(***************************************************************************)
(* Goroutines are scheduled and statements return (weak fairness); a lock  *)
(* is granted to its waiters in turn, so a worker that can infinitely      *)
(* often proceed does (strong fairness on the two locking statements).     *)
(***************************************************************************)
Fairness ==
    \A w \in Workers : WF_vars(Step(w)) /\ SF_vars(MarkLevel(w) \/ SkipRemaining(w))
                      /\ SF_vars(UpdateStatus(w) \/ InsertRequest(w))

FairSpec == Spec /\ Fairness

-----------------------------------------------------------------------------
Labels == {"idle", "done", "commit", "findActiveByDoc", "findActive", "findLevels",
           "insertRequest", "findByID", "markLevel", "skipRemaining", "updateStatus"}

TypeOK ==
    /\ config \in [ConfigIds -> ConfigRow]
    /\ req \in [Requests -> RequestRow \cup {NoRow}]
    /\ DOMAIN lvl = Requests
    /\ \A r \in Requests :
          IF req[r] = NoRow THEN lvl[r] = <<>>
                            ELSE lvl[r] \in [1 .. req[r].total -> LevelRow]
    /\ pc \in [Workers -> Labels]
    /\ call \in [Workers -> Call \cup {NoCall}]
    /\ cfg \in [Workers -> ConfigIds \cup {NoConfig}]
    /\ seen \in [Workers -> RequestRow \cup {NoRow}]
    /\ wreq \in [Workers -> RequestRow \cup {NoRow}]
    /\ DOMAIN wlvl = Workers
    /\ \A w \in Workers : wlvl[w] \in [DOMAIN wlvl[w] -> LevelRow]
    /\ err \in [Workers -> Errors]

\* The refinement mapping is the identity on the committed rows; what the
\* transactions have read and written privately is hidden.
Engine == INSTANCE ApprovalEngine WITH Requests <- Requests, req <- req, lvl <- lvl
Commits == INSTANCE ApprovalCommits WITH Requests <- Requests, req <- req, lvl <- lvl

(***************************************************************************)
(* At most one waiting request per document, although Submit checks and    *)
(* inserts in two statements and a stale Approve writes 'waiting' to a row *)
(* that has been finalized meanwhile: the unique index decides.            *)
(***************************************************************************)
OneActivePerDoc == Engine!OneActivePerDoc

(***************************************************************************)
(* However the transactions overlap, every decision in the trail is that   *)
(* of a user in the approver snapshot of the level.                        *)
(***************************************************************************)
DecidedByEligible == Engine!DecidedByEligible

(***************************************************************************)
(* The audit trail agrees with the request level by level, below, at and   *)
(* above the one that decided (ApproveTx, RejectTx, CancelTx), though      *)
(* every handler writes it in several statements that may fail one by one. *)
(* It holds of calls that do not overlap, and of those only.               *)
(***************************************************************************)
TrailMatchesStatus == Engine!TrailMatchesStatus

(***************************************************************************)
(* The status of a request is the outcome of a decision the trail still    *)
(* records, whatever stale transactions did in between: an approved        *)
(* request with levels was approved at the last one; a rejected one has a  *)
(* rejecting level; a waiting one waits at level 1 or after an approved    *)
(* level; a rejected or cancelled one has no pending level; and one that   *)
(* is not waiting names who finalized it.                                  *)
(***************************************************************************)
DecisionRecorded(row, rows) ==
    /\ row.status = "approved" => (row.total > 0 => rows[row.total].status = "approved")
    /\ row.status = "waiting" =>
          /\ row.current \in 1 .. row.total
          /\ row.current > 1 => rows[row.current - 1].status = "approved"
    /\ row.status = "rejected" => \E l \in DOMAIN rows : rows[l].status = "rejected"
    /\ row.status # "waiting" => row.finalizedBy # NoUser

NoneLeftPending(row, rows) ==
    row.status \in {"rejected", "cancelled"} =>
        \A l \in DOMAIN rows : rows[l].status # "pending"

LastDecisionRecorded ==
    \A r \in Requests : req[r] # NoRow =>
        DecisionRecorded(req[r], lvl[r]) /\ NoneLeftPending(req[r], lvl[r])

(***************************************************************************)
(* "Role & approver IDs are snapshotted at submission time so config       *)
(* changes don't rewrite history": a committed request keeps its document, *)
(* submitter, configuration and approver lists, a level that was acted on  *)
(* is never pending again, and finalized_by is never erased.               *)
(***************************************************************************)
KeepsSnapshot(r) ==
    /\ req'[r] # NoRow
    /\ \A f \in {"doc", "submittedBy", "config", "total"} : req'[r][f] = req[r][f]
    /\ req[r].finalizedBy # NoUser => req'[r].finalizedBy # NoUser
    /\ DOMAIN lvl'[r] = DOMAIN lvl[r]
    /\ \A l \in DOMAIN lvl[r] :
          /\ lvl'[r][l].eligible = lvl[r][l].eligible
          /\ lvl'[r][l].status = "pending" => lvl[r][l].status = "pending"

HistoryKept == [][\A r \in Requests : req[r] # NoRow => KeepsSnapshot(r)]_vars

(***************************************************************************)
(* Transactions never wait for each other in a circle: of any group of     *)
(* them, one waits for nobody in the group.                                *)
(***************************************************************************)
NoLockCycle ==
    \A group \in (SUBSET Workers) \ {{}} :
        \E w \in group : \A v \in group : ~WaitsFor(w, v)

(***************************************************************************)
(* No call hangs: lock waits on level rows, on the request row and on the  *)
(* unique index end, in whatever order transactions queue for them.        *)
(***************************************************************************)
EveryCallReturns == \A w \in Workers : pc[w] # "idle" ~> pc[w] = "idle"

(***************************************************************************)
(* Handlers that do not overlap are the atomic ones of ApprovalEngine.     *)
(***************************************************************************)
ImplementsEngine == Engine!Spec

(***************************************************************************)
(* Handlers that overlap: the tables change at a commit only, by one whole *)
(* decision of an approver, or of the submitter, on the rows as they are   *)
(* by then, with nothing lost and nothing mixed of the other transactions. *)
(***************************************************************************)
ImplementsCommits == Commits!Spec

-----------------------------------------------------------------------------
(* What the documentation says; the code does otherwise.                   *)

(***************************************************************************)
(* approval.md 2.7, Cancel: "Level pending akan ditandai `skipped`,        *)
(* request jadi `cancelled`".                                              *)
(***************************************************************************)
CancelSkipsPendingLevels ==
    \A w \in Workers : call[w] # NoCall /\ call[w].op = "Cancel" => err[w] # "CheckViolation"

(***************************************************************************)
(* approval.md, Business Rules: "Submit akan gagal kalau belum ada         *)
(* (`Approval config not configured for this branch & feature`)"; the      *)
(* comment of SubmitTx says the same: a request in the table was submitted *)
(* under a configuration.                                                  *)
(***************************************************************************)
SubmitNeedsConfig == \A r \in Requests : req[r] # NoRow => req[r].config # NoConfig

(***************************************************************************)
(* approval.md 2.5: approving a request that is not waiting is an error;   *)
(* Business Rules: an old request "tetap tersimpan sebagai history".  It   *)
(* is true of calls that do not overlap.                                   *)
(***************************************************************************)
FinalizedIsHistory == Engine!FinalizedIsHistory
=============================================================================
