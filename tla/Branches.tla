------------------------------ MODULE Branches ------------------------------
(***************************************************************************)
(* BranchService: the branches of a company, of which at most one is the   *)
(* default, and their codes.  No call opens a transaction around its       *)
(* statements: a call is a sequence of statements that commit one by one,  *)
(* one action each.  The advisory lock of GenerateNextCode is released     *)
(* when the code is read, before the row that uses it is inserted, so two  *)
(* partial unique indexes decide between concurrent calls.                 *)
(*                                                                         *)
(* A code is a form and the number it ends in; a code that is not of the   *)
(* form CB-<digits> has number 0, which takes no part in a maximum.        *)
(* Names, logos, the sort order and the active flag are left out.          *)
(***************************************************************************)
EXTENDS Integers, FiniteSets

CONSTANTS
    Companies,
    Ids,         \* ids of branch rows; bounds the rows ever inserted
    Admins,      \* goroutines serving calls on branches, one at a time each
    Forms,       \* spellings of a code, among them the generated one
    Generated,   \* CB-%0*d
    Empty,       \* the form of the code SignUp stores, ""
    OwnCodes,    \* codes a request may carry
    MaxInt,      \* the largest INT of the database
    MaxTries,    \* maxCodeGenRetries
    MaxCalls,    \* bounds the calls ever begun
    Faults,      \* whether statements may fail
    NoCode, NoId, NoRow, NoCall

Code == [form : Forms, num : Nat]

ASSUME NumbersAssumption == MaxInt \in Nat /\ MaxTries \in Nat \ {0} /\ MaxCalls \in Nat
ASSUME CodesAssumption ==
    /\ {Generated, Empty} \subseteq Forms
    /\ OwnCodes \subseteq Code
    /\ NoCode \notin Code

VARIABLES
    branches,   \* core.branches: id -> row
    pc,         \* admin -> the statement its call executes next
    call,       \* admin -> the call's request and what it has read
    alone,      \* admin -> no other call ran since its own began (history)
    begun       \* calls begun so far

branchVars == <<branches, pc, call, alone, begun>>

Row == [company : Companies, code : Code, default : BOOLEAN, deleted : BOOLEAN]

ASSUME NoRowAssumption == NoRow \notin Row

\* own: the code of the request; had, raced: whether the company had a
\* default when the call began, and the writes of other calls since (history).
Call == [op : {"Create", "Update", "Delete"}, company : Companies,
         own : Code \cup {NoCode}, default : BOOLEAN, id : Ids \cup {NoId},
         row : Row \cup {NoRow}, tries : 0 .. MaxTries,
         had : BOOLEAN, raced : Nat]

Labels == {"idle", "clear", "generate", "insert", "write", "softDelete", "done", "refused"}

ASSUME NoCallAssumption == NoCall \notin Call /\ NoId \notin Ids

-----------------------------------------------------------------------------
(* Rows and indexes. *)

\* WHERE deleted_at IS NULL
Held(table, i) == table[i] # NoRow /\ ~table[i].deleted

Of(table, c) == {i \in Ids : Held(table, i) /\ table[i].company = c}

Defaults(table, c) == {i \in Of(table, c) : table[i].default}

\* branches_company_code_key and branches_company_default_key.
Unique(table) ==
    \A i, j \in Ids :
        i # j /\ Held(table, i) /\ Held(table, j) /\ table[i].company = table[j].company
        => table[i].code # table[j].code /\ ~(table[i].default /\ table[j].default)

NewRow(c, code, default) ==
    [company |-> c, code |-> code, default |-> default, deleted |-> FALSE]

\* SignUp seeds a branch without a code, company creation one coded CB-01; a
\* company whose seed failed has none.
Seed(c) == {NewRow(c, [form |-> Empty, num |-> 0], TRUE),
            NewRow(c, [form |-> Generated, num |-> 1], TRUE)}

Init ==
    /\ \E seeded \in SUBSET Companies : \E id \in [seeded -> Ids] :
          /\ \A c, d \in seeded : id[c] = id[d] => c = d
          /\ branches \in [Ids -> {NoRow} \cup UNION {Seed(c) : c \in seeded}]
          /\ \A i \in Ids : branches[i] # NoRow <=> \E c \in seeded : id[c] = i
          /\ \A c \in seeded : branches[id[c]].company = c
    /\ pc = [a \in Admins |-> "idle"]
    /\ call = [a \in Admins |-> NoCall]
    /\ alone = [a \in Admins |-> FALSE]
    /\ begun = 0

-----------------------------------------------------------------------------
(* Calls. *)

Begin(a, label, k) ==
    /\ pc[a] = "idle"
    /\ begun < MaxCalls
    /\ begun' = begun + 1
    /\ pc' = [pc EXCEPT ![a] = label]
    /\ call' = [call EXCEPT ![a] = k]
    /\ alone' = [b \in Admins |-> b = a /\ \A d \in Admins \ {a} : pc[d] \in {"idle", "done", "refused"}]
    /\ UNCHANGED branches

Request(op, c, own, default, i, row) ==
    [op |-> op, company |-> c, own |-> own, default |-> default, id |-> i, row |-> row,
     tries |-> 0, had |-> Defaults(branches, c) # {}, raced |-> 0]

BeginCreate(a, c, own, default) ==
    Begin(a, IF default THEN "clear" ELSE IF own = NoCode THEN "generate" ELSE "insert",
          Request("Create", c, own, default, NoId,
                  NewRow(c, IF own = NoCode THEN [form |-> Empty, num |-> 0] ELSE own, default)))

\* FindByID, then the fields of the request over the row it returns.  The
\* default flag can be asked for, never taken back.
BeginUpdate(a, i, own, default) ==
    /\ Held(branches, i)
    /\ LET old == branches[i]
           row == NewRow(old.company, IF own = NoCode THEN old.code ELSE own, old.default \/ default)
       IN  Begin(a, IF default /\ ~old.default THEN "clear" ELSE "write",
                 Request("Update", old.company, own, default, i, row))

\* Mutant: the default branch is deleted like any other.
BeginDeleteAnyway(a, i) ==
    /\ Held(branches, i)
    /\ Begin(a, "softDelete", Request("Delete", branches[i].company, NoCode, FALSE, i, branches[i]))

BeginDelete(a, i) ==
    /\ Held(branches, i)
    /\ ~branches[i].default
    /\ Begin(a, "softDelete", Request("Delete", branches[i].company, NoCode, FALSE, i, branches[i]))

Goto(a, label) ==
    /\ pc' = [pc EXCEPT ![a] = label]
    /\ UNCHANGED <<alone, begun>>

\* ClearDefault.
Clear(a) ==
    /\ pc[a] = "clear"
    /\ branches' = [i \in Ids |-> IF i \in Defaults(branches, call[a].company)
                                 THEN [branches[i] EXCEPT !.default = FALSE]
                                 ELSE branches[i]]
    /\ Goto(a, CASE call[a].op = "Update" -> "write"
                 [] call[a].op = "Create" /\ call[a].own = NoCode -> "generate"
                 [] OTHER -> "insert")
    /\ UNCHANGED call

Numbers(c) == {branches[i].code.num : i \in Of(branches, c)}

\* Some code of the company is too large for an INT, or leaves none above it.
Exhausted(c) == \E n \in Numbers(c) : n >= MaxInt

\* GenerateNextCode: the largest number of a live code, plus 1.
Generate(a) ==
    /\ pc[a] = "generate"
    /\ ~Exhausted(call[a].company)
    /\ \E n \in 1 .. MaxInt :
          /\ \A m \in Numbers(call[a].company) : m < n
          /\ n - 1 \in Numbers(call[a].company) \cup {0}
          /\ call' = [call EXCEPT ![a].row =
                       NewRow(call[a].company, [form |-> Generated, num |-> n], call[a].default)]
    /\ Goto(a, "insert")
    /\ UNCHANGED branches

\* Row i was written: the other calls on its company have been raced.
Written(a, i) ==
    call' = [b \in Admins |->
                IF b = a THEN [call[a] EXCEPT !.id = i]
                ELSE IF call[b] = NoCall \/ call[b].company # call[a].company THEN call[b]
                ELSE [call[b] EXCEPT !.raced = @ + 1]]

\* A statement that leaves the table so; the indexes refuse it otherwise.
Commit(table) == Unique(table) /\ branches' = table

Insert(a) ==
    /\ pc[a] = "insert"
    /\ \E i \in Ids :
          /\ branches[i] = NoRow
          /\ Commit([branches EXCEPT ![i] = call[a].row])
          /\ Written(a, i)
    /\ Goto(a, "done")

\* Another branch of the company has the row's code, or is the default too.
Conflict(row, self) ==
    \E i \in Of(branches, row.company) \ {self} :
        branches[i].code = row.code \/ (branches[i].default /\ row.default)

\* Mutant: a generated code is tried once.
TryAgainNever(a) ==
    /\ UNCHANGED call
    /\ Goto(a, "refused")

TryAgain(a) ==
    /\ call' = [call EXCEPT ![a].tries = @ + 1]
    /\ Goto(a, IF call[a].tries + 1 < MaxTries THEN "generate" ELSE "refused")

\* Every unique violation is taken for the code's: a code of the request is
\* refused as taken, a generated one replaced.
InsertRefused(a) ==
    /\ pc[a] = "insert"
    /\ Conflict(call[a].row, NoId)
    /\ IF call[a].own = NoCode THEN TryAgain(a) ELSE UNCHANGED call /\ Goto(a, "refused")
    /\ UNCHANGED branches

\* Mutant: the row is written though it was deleted meanwhile.
WriteAnyway(a) ==
    /\ pc[a] = "write"
    /\ Commit([branches EXCEPT ![call[a].id] = call[a].row])
    /\ Written(a, call[a].id)
    /\ Goto(a, "done")

\* UPDATE of the whole row, unless it was deleted meanwhile; a WHERE that
\* finds no row is no error.
Write(a) ==
    /\ pc[a] = "write"
    /\ IF Held(branches, call[a].id)
       THEN /\ Commit([branches EXCEPT ![call[a].id] = call[a].row])
            /\ Written(a, call[a].id)
       ELSE UNCHANGED <<branches, call>>
    /\ Goto(a, "done")

WriteRefused(a) ==
    /\ pc[a] = "write"
    /\ Held(branches, call[a].id)
    /\ Conflict(call[a].row, call[a].id)
    /\ Goto(a, "refused")
    /\ UNCHANGED <<branches, call>>

SoftDelete(a) ==
    /\ pc[a] = "softDelete"
    /\ IF Held(branches, call[a].id)
       THEN /\ branches' = [branches EXCEPT ![call[a].id].deleted = TRUE]
            /\ Written(a, call[a].id)
       ELSE UNCHANGED <<branches, call>>
    /\ Goto(a, "done")

\* The call returns: an error, or its answer has been sent.
Return(a) ==
    /\ pc' = [pc EXCEPT ![a] = "idle"]
    /\ call' = [call EXCEPT ![a] = NoCall]
    /\ alone' = [alone EXCEPT ![a] = FALSE]
    /\ UNCHANGED <<branches, begun>>

\* CAST(... AS INT) or the addition overflows: the call returns the error.
GenerateFails(a) == pc[a] = "generate" /\ Exhausted(call[a].company) /\ Return(a)

Answer(a) == pc[a] \in {"done", "refused"} /\ Return(a)

\* A statement fails or the request's context ends.
Fail(a) == Faults /\ pc[a] \notin {"idle", "done", "refused"} /\ Return(a)

Ask(a) ==
    \/ \E c \in Companies, own \in OwnCodes \cup {NoCode}, default \in BOOLEAN :
          BeginCreate(a, c, own, default)
    \/ \E i \in Ids, own \in OwnCodes \cup {NoCode}, default \in BOOLEAN :
          BeginUpdate(a, i, own, default)
    \/ \E i \in Ids : BeginDelete(a, i)

Statement(a) ==
    \/ Clear(a) \/ Generate(a) \/ GenerateFails(a) \/ Insert(a) \/ InsertRefused(a)
    \/ Write(a) \/ WriteRefused(a) \/ SoftDelete(a)

BranchNext == \E a \in Admins : Ask(a) \/ Statement(a) \/ Answer(a) \/ Fail(a)

BranchSpec == Init /\ [][BranchNext]_branchVars

-----------------------------------------------------------------------------
(* Properties *)

\* Shape, and both indexes of core.branches: no two live branches of a company
\* share a code, no two are its default (migrations 000006 and 000008).
BranchesOK ==
    /\ branches \in [Ids -> Row \cup {NoRow}]
    /\ Unique(branches)
    /\ pc \in [Admins -> Labels]
    /\ call \in [Admins -> Call \cup {NoCall}]
    /\ alone \in [Admins -> BOOLEAN]
    /\ begun \in 0 .. MaxCalls

\* A call that ran by itself has done what it answers: the branch is as asked,
\* it is the only default if that was asked, and a company that had a default
\* branch still has one (BranchService.Create, Update, Delete).
LoneCallsDeliver ==
    \A a \in Admins : pc[a] = "done" /\ alone[a] =>
        LET k == call[a]
            row == branches[k.id]
        IN  /\ row.company = k.company
            /\ k.op = "Delete" <=> row.deleted
            /\ k.op # "Delete" => row = k.row /\ (k.own # NoCode => row.code = k.own)
            /\ k.default => Defaults(branches, k.company) = {k.id}
            /\ k.had => Defaults(branches, k.company) # {}

\* Creation without a code gives up only if writes of other calls took the
\* code, or the default, under it; and a call by itself is told that its code
\* is taken only if it is
\* (maxCodeGenRetries, isUniqueViolation, ErrBranchCodeTaken).
RefusedHasReason ==
    \A a \in Admins : pc[a] = "refused" =>
        LET k == call[a] IN
        IF k.op = "Create" /\ k.own = NoCode
        THEN k.raced >= (IF k.default THEN 1 ELSE MaxTries)
        ELSE alone[a] => \E i \in Of(branches, k.company) \ {k.id} : branches[i].code = k.own

\* No statement changes a deleted branch: an update or a deletion that read it
\* while it was live finds no row (WHERE deleted_at IS NULL).
DeletedBranchStays ==
    [][\A i \in Ids : branches[i] # NoRow /\ branches[i].deleted => branches'[i] = branches[i]]_branchVars
=============================================================================
