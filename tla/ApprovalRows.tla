---------------------------- MODULE ApprovalRows ----------------------------
(***************************************************************************)
(* The rows of core.approval_requests and core.approval_request_levels,    *)
(* the constraints the schema puts on them, and the effect of each UPDATE  *)
(* of the approval request repository on the rows it matches.  Stateless:  *)
(* ApprovalEngine (handlers as atomic steps) and ApprovalTx (handlers as   *)
(* database transactions) share these definitions.                         *)
(*                                                                         *)
(* Timestamps, comments and role names are left out: no decision reads     *)
(* them.  finalizedBy stands for the pair finalized_at/finalized_by and    *)
(* actionBy for action_by/action_at, which are always written together.    *)
(***************************************************************************)
EXTENDS Integers, Sequences

CONSTANTS
    Users,              \* user ids: submitters and approvers
    Docs,               \* documents, i.e. pairs (reff_type, reff_id)
    ConfigIds,          \* ids of rows of core.approval_configs
    NoUser,             \* SQL NULL in a user column
    NoConfig,           \* SQL NULL in approval_config_id
    NoRow,              \* "no such request row"
    LevelLists,         \* the approver lists an administrator may configure
    EnforceActionCheck  \* TRUE: the schema as shipped, with the constraint
                        \* chk_approval_request_levels_action

RequestStatuses == {"waiting", "approved", "rejected", "cancelled"}
LevelStatuses == {"pending", "approved", "rejected", "skipped"}

RequestRow == [status : RequestStatuses, doc : Docs, submittedBy : Users,
               config : ConfigIds \cup {NoConfig}, current : Nat, total : Nat,
               finalizedBy : Users \cup {NoUser}]

LevelRow == [eligible : SUBSET Users, status : LevelStatuses,
             actionBy : Users \cup {NoUser}]

\* current_level is a nullable column; levels start at 1, so 0 is its NULL.
NilLevel == 0

(***************************************************************************)
(* Level lists are validated on input: contiguous from 1 (so a sequence    *)
(* stands for one) and every level names at least one approver.            *)
(***************************************************************************)
ASSUME LevelListsAssumption ==
    LevelLists \subseteq Seq((SUBSET Users) \ {{}}) /\ <<>> \in LevelLists

ASSUME NoUserAssumption == NoUser \notin Users
ASSUME NoConfigAssumption == NoConfig \notin ConfigIds
ASSUME NoRowAssumption == NoRow \notin RequestRow
ASSUME EnforceAssumption == EnforceActionCheck \in BOOLEAN

(* chk_approval_request_levels_action *)
ActionCheck(row) ==
    EnforceActionCheck => (row.status = "pending" \/ row.actionBy # NoUser)

(* The rows SubmitTx builds from a level list. *)
Snapshot(list) ==
    [l \in 1 .. Len(list) |->
        [eligible |-> list[l], status |-> "pending", actionBy |-> NoUser]]

NewRequest(doc, user, config, list) ==
    LET auto == Len(list) = 0 IN
    [status      |-> IF auto THEN "approved" ELSE "waiting",
     doc         |-> doc,
     submittedBy |-> user,
     config      |-> config,
     current     |-> IF auto THEN NilLevel ELSE 1,
     total       |-> Len(list),
     finalizedBy |-> IF auto THEN user ELSE NoUser]

(* MarkLevelActionTx, on the row it matches. *)
MarkLevelAction(row, status, user) ==
    [row EXCEPT !.status = status, !.actionBy = user]

(* SkipRemainingPendingTx: the new versions of the rows it matches. *)
SkipRemainingPending(rows) ==
    [l \in {k \in DOMAIN rows : rows[k].status = "pending"} |->
        [rows[l] EXCEPT !.status = "skipped"]]

(* It fails when a row it would write breaks the CHECK constraint. *)
SkipsCleanly(rows) ==
    \A l \in DOMAIN SkipRemainingPending(rows) :
        ActionCheck(SkipRemainingPending(rows)[l])

(* UpdateRequestStatusTx: COALESCE keeps finalized_* when given NULL. *)
UpdateRequestStatus(row, status, current, finalizedBy) ==
    [row EXCEPT !.status = status, !.current = current,
                !.finalizedBy = IF finalizedBy = NoUser THEN @ ELSE finalizedBy]

\* Mutant: finalizes one level early.
ApprovedEarly(row, seen, user) ==
    IF seen.current + 1 >= seen.total
    THEN UpdateRequestStatus(row, "approved", NilLevel, user)
    ELSE UpdateRequestStatus(row, "waiting", seen.current + 1, NoUser)

(* ApproveTx: the outcome computed from the request row the handler read. *)
Approved(row, seen, user) ==
    IF seen.current >= seen.total
    THEN UpdateRequestStatus(row, "approved", NilLevel, user)
    ELSE UpdateRequestStatus(row, "waiting", seen.current + 1, NoUser)

(* Row versions in new shadow those in old. *)
Install(new, old) ==
    [l \in DOMAIN old \cup DOMAIN new |->
        IF l \in DOMAIN new THEN new[l] ELSE old[l]]

(* FindActiveByDoc, and the predicate of uniq_approval_requests_active_doc. *)
IsActive(row, doc) == row # NoRow /\ row.status = "waiting" /\ row.doc = doc
=============================================================================
