---------------------------- MODULE Branches_proofs ----------------------------
(***************************************************************************)
(* The invariants of Branches and UserBranches, as they run together, for  *)
(* any companies, branches, users, calls and bounds.                       *)
(***************************************************************************)
EXTENDS UserBranches, TLAPS

USE NumbersAssumption, CodesAssumption, NoRowAssumption, NoCallAssumption

Quiet == {"idle", "done", "refused"}

---------------------------------------------------------------------------
(* What a call has at hand for its next statement. *)

Target(a) ==
    /\ call[a].id \in Ids /\ branches[call[a].id] # NoRow
    /\ branches[call[a].id].company = call[a].company

Content(a) ==
    /\ call[a].row \in Row /\ call[a].row.company = call[a].company
    /\ ~call[a].row.deleted
    /\ call[a].own # NoCode => call[a].row.code = call[a].own
    /\ call[a].default => call[a].row.default

CreateShape(a) ==
    /\ pc[a] \in {"clear", "generate", "insert", "done", "refused"}
    /\ Content(a)
    /\ pc[a] # "done" => call[a].id = NoId
    /\ pc[a] = "done" => Target(a)
    /\ call[a].row.default = call[a].default
    /\ pc[a] = "clear" => call[a].tries = 0
    /\ pc[a] = "generate" => call[a].own = NoCode
    /\ pc[a] \in {"clear", "generate", "insert"} => call[a].tries < MaxTries

UpdateShape(a) ==
    /\ pc[a] \in {"clear", "write", "done", "refused"}
    /\ Content(a) /\ Target(a)

DeleteShape(a) ==
    /\ pc[a] \in {"softDelete", "done"}
    /\ Target(a) /\ ~call[a].default

CallShape(a) ==
    /\ pc[a] = "idle" <=> call[a] = NoCall
    /\ pc[a] # "idle" =>
          /\ call[a].op = "Create" => CreateShape(a)
          /\ call[a].op = "Update" => UpdateShape(a)
          /\ call[a].op = "Delete" => DeleteShape(a)
          /\ pc[a] = "clear" => call[a].default

\* A code or a default nobody has wrested from the call is free.
CodeFree(a) == \A i \in Of(branches, call[a].company) : branches[i].code # call[a].row.code

Generates(a) == pc[a] # "idle" /\ call[a].op = "Create" /\ call[a].own = NoCode

RaceInv(a) ==
    Generates(a) =>
        IF call[a].default
        THEN /\ pc[a] \in {"generate", "insert"} /\ call[a].raced = 0
                => Defaults(branches, call[a].company) = {}
             /\ pc[a] = "insert" /\ call[a].raced = 0 => CodeFree(a)
             /\ pc[a] = "refused" => call[a].raced >= 1
        ELSE /\ pc[a] \in {"generate", "insert"} => call[a].raced >= call[a].tries
             /\ pc[a] = "insert" /\ call[a].raced = call[a].tries => CodeFree(a)
             /\ pc[a] = "refused" => call[a].raced >= MaxTries

\* What a call by itself has read is what there is.
HadKept(a) == call[a].had => Defaults(branches, call[a].company) # {}

OwnDefault(a) == Defaults(branches, call[a].company) \subseteq {call[a].id}

AloneCreate(a) ==
    /\ pc[a] \in {"generate", "insert"} /\ call[a].default
       => Defaults(branches, call[a].company) = {}
    /\ pc[a] \in {"generate", "insert"} /\ ~call[a].default => HadKept(a)

AloneUpdate(a) ==
    pc[a] \in {"clear", "write"} =>
        /\ Held(branches, call[a].id)
        /\ call[a].own = NoCode => call[a].row.code = branches[call[a].id].code
        /\ pc[a] = "write" /\ call[a].row.default => OwnDefault(a)
        /\ ~call[a].row.default => HadKept(a) /\ ~branches[call[a].id].default

AloneDelete(a) ==
    pc[a] = "softDelete" =>
        Held(branches, call[a].id) /\ ~branches[call[a].id].default /\ HadKept(a)

Delivered(a) ==
    LET k == call[a]
        row == branches[k.id]
    IN  /\ row.company = k.company
        /\ k.op = "Delete" <=> row.deleted
        /\ k.op # "Delete" => row = k.row /\ (k.own # NoCode => row.code = k.own)
        /\ k.default => Defaults(branches, k.company) = {k.id}
        /\ k.had => Defaults(branches, k.company) # {}

Taken(a) ==
    \E i \in Of(branches, call[a].company) \ {call[a].id} : branches[i].code = call[a].own

AloneInv(a) ==
    alone[a] =>
        /\ \A b \in Admins \ {a} : pc[b] \in Quiet
        /\ pc[a] # "idle" =>
              /\ call[a].op = "Create" => AloneCreate(a)
              /\ call[a].op = "Update" => AloneUpdate(a)
              /\ call[a].op = "Delete" => AloneDelete(a)
              /\ pc[a] = "done" => Delivered(a)
              /\ pc[a] = "refused" /\ ~Generates(a) => Taken(a)

CallInv(a) == CallShape(a) /\ RaceInv(a) /\ AloneInv(a)

BInv == BranchesOK /\ \A a \in Admins : CallInv(a)

---------------------------------------------------------------------------
(* Rows and fields. *)

LEMMA Parts ==
    ASSUME BInv
    PROVE  /\ branches \in [Ids -> Row \cup {NoRow}] /\ Unique(branches)
           /\ pc \in [Admins -> Labels] /\ call \in [Admins -> Call \cup {NoCall}]
           /\ alone \in [Admins -> BOOLEAN] /\ begun \in 0 .. MaxCalls
BY DEF BInv, BranchesOK

LEMMA CallFields ==
    ASSUME BInv, NEW a \in Admins, pc[a] # "idle"
    PROVE  /\ call[a] \in Call /\ call[a] # NoCall
           /\ call[a].op \in {"Create", "Update", "Delete"} /\ call[a].company \in Companies
           /\ call[a].own \in Code \cup {NoCode} /\ call[a].default \in BOOLEAN
           /\ call[a].id \in Ids \cup {NoId} /\ call[a].row \in Row \cup {NoRow}
           /\ call[a].tries \in 0 .. MaxTries /\ call[a].had \in BOOLEAN
           /\ call[a].raced \in Nat
<1>1. call[a] \in Call
  BY Parts DEF BInv, CallInv, CallShape
<1> QED BY <1>1 DEF Call

LEMMA RowFields ==
    ASSUME BInv, NEW i \in Ids, branches[i] # NoRow
    PROVE  /\ branches[i] \in Row /\ branches[i].company \in Companies
           /\ branches[i].code \in Code /\ branches[i].default \in BOOLEAN
           /\ branches[i].deleted \in BOOLEAN
BY Parts DEF Row

LEMMA SeedRows ==
    ASSUME NEW c \in Companies
    PROVE  Seed(c) \subseteq Row /\ \A r \in Seed(c) : r.company = c
BY DEF Seed, NewRow, Row, Code

LEMMA BInit == Init => BInv
<1> SUFFICES ASSUME Init PROVE BInv
  OBVIOUS
<1>1. PICK seeded \in SUBSET Companies : \E id \in [seeded -> Ids] :
          /\ \A c, d \in seeded : id[c] = id[d] => c = d
          /\ branches \in [Ids -> {NoRow} \cup UNION {Seed(c) : c \in seeded}]
          /\ \A i \in Ids : branches[i] # NoRow <=> \E c \in seeded : id[c] = i
          /\ \A c \in seeded : branches[id[c]].company = c
  BY DEF Init
<1>2. PICK id \in [seeded -> Ids] :
          /\ \A c, d \in seeded : id[c] = id[d] => c = d
          /\ branches \in [Ids -> {NoRow} \cup UNION {Seed(c) : c \in seeded}]
          /\ \A i \in Ids : branches[i] # NoRow <=> \E c \in seeded : id[c] = i
          /\ \A c \in seeded : branches[id[c]].company = c
  BY <1>1
<1>3. UNION {Seed(c) : c \in seeded} \subseteq Row
  BY SeedRows
<1>4. branches \in [Ids -> Row \cup {NoRow}]
  BY <1>2, <1>3
<1>5. Unique(branches)
  <2>1. ASSUME NEW i \in Ids, NEW j \in Ids, Held(branches, i), Held(branches, j),
               branches[i].company = branches[j].company
        PROVE  i = j
    BY <1>2, <2>1 DEF Held
  <2> QED BY <2>1 DEF Unique
<1>6. BranchesOK
  BY <1>4, <1>5 DEF Init, BranchesOK, Labels
<1>7. \A a \in Admins : CallInv(a)
  BY DEF Init, CallInv, CallShape, RaceInv, Generates, AloneInv
<1> QED BY <1>6, <1>7 DEF BInv

---------------------------------------------------------------------------
(* What the step of a call means to the others. *)

Grows == \A i \in Ids : branches[i] # NoRow =>
            branches'[i] # NoRow /\ branches'[i].company = branches[i].company

\* No branch of the company got a code or a default.
Calmed(c) ==
    \A i \in Ids : Held(branches', i) /\ branches'[i].company = c =>
        /\ Held(branches, i) /\ branches[i].company = c
        /\ branches'[i].code = branches[i].code
        /\ branches'[i].default => branches[i].default

Raced(b) == call[b] # NoCall /\ call'[b] = [call[b] EXCEPT !.raced = @ + 1]

Aside(a, b) ==
    /\ pc'[b] = pc[b]
    /\ \/ call'[b] = call[b] /\ (call[b] # NoCall => Calmed(call[b].company))
       \/ Raced(b)
    /\ alone'[b] => alone[b]
    /\ alone'[b] /\ pc[a] \in Quiet =>
          pc'[a] \in Quiet /\ branches' = branches /\ call'[b] = call[b]

LEMMA RacedFields ==
    ASSUME BInv, NEW b \in Admins, Raced(b)
    PROVE  /\ call'[b] \in Call /\ call'[b] # NoCall
           /\ call'[b].op = call[b].op /\ call'[b].company = call[b].company
           /\ call'[b].own = call[b].own /\ call'[b].default = call[b].default
           /\ call'[b].id = call[b].id /\ call'[b].row = call[b].row
           /\ call'[b].tries = call[b].tries /\ call'[b].had = call[b].had
           /\ call'[b].raced = call[b].raced + 1 /\ call[b].raced \in Nat
<1>1. call[b] \in Call
  BY Parts DEF Raced
<1>2. call[b].raced \in Nat
  BY <1>1 DEF Call
<1> DEFINE r == call[b].raced + 1
<1>3. r \in Nat
  BY <1>2
<1>4. call'[b] = [call[b] EXCEPT !.raced = r]
  BY DEF Raced
<1> HIDE DEF r
<1>5. call'[b] \in Call
  BY <1>1, <1>3, <1>4 DEF Call
<1>6. call'[b].raced = r
  BY <1>1, <1>4 DEF Call
<1>7. /\ call'[b].op = call[b].op /\ call'[b].company = call[b].company
      /\ call'[b].own = call[b].own /\ call'[b].default = call[b].default
      /\ call'[b].id = call[b].id /\ call'[b].row = call[b].row
      /\ call'[b].tries = call[b].tries /\ call'[b].had = call[b].had
  BY <1>1, <1>4 DEF Call
<1> QED BY <1>2, <1>5, <1>6, <1>7 DEF r

LEMMA OtherShape ==
    ASSUME BInv, NEW a \in Admins, NEW b \in Admins \ {a}, Grows, Aside(a, b)
    PROVE  CallShape(b)'
<1>1. CallShape(b) /\ pc'[b] = pc[b]
  BY DEF BInv, CallInv, Aside
<1>2. CASE call'[b] = call[b]
  BY <1>1, <1>2 DEF CallShape, CreateShape, UpdateShape, DeleteShape, Target, Content, Grows
<1>3. CASE Raced(b)
  <2>1. Target(b) => Target(b)'
    BY <1>3, RacedFields DEF Target, Grows
  <2>2. Content(b) => Content(b)'
    BY <1>3, RacedFields DEF Content
  <2> QED BY <1>1, <1>3, <2>1, <2>2, RacedFields
          DEF CallShape, CreateShape, UpdateShape, DeleteShape, Raced
<1> QED BY <1>2, <1>3 DEF Aside

LEMMA OtherRace ==
    ASSUME BInv, NEW a \in Admins, NEW b \in Admins \ {a}, Aside(a, b)
    PROVE  RaceInv(b)'
<1>1. RaceInv(b) /\ pc'[b] = pc[b] /\ CallShape(b)
  BY DEF BInv, CallInv, Aside
<1>2. CASE call'[b] = call[b] /\ pc[b] # "idle" /\ Calmed(call[b].company)
  <2>1. Defaults(branches, call[b].company) = {} => Defaults(branches', call[b].company) = {}
    BY <1>2 DEF Calmed, Defaults, Of
  <2>2. CodeFree(b) => CodeFree(b)'
    BY <1>2 DEF CodeFree, Calmed, Of
  <2> QED BY <1>1, <1>2, <2>1, <2>2 DEF RaceInv, Generates
<1>3. CASE Raced(b) /\ pc[b] # "idle"
  <2>1. call[b].tries \in Nat /\ call[b].raced \in Nat /\ call'[b].raced = call[b].raced + 1
        /\ call'[b].tries = call[b].tries
    BY <1>3, CallFields, RacedFields
  <2> QED BY <1>1, <1>3, <2>1, RacedFields DEF RaceInv, Generates
<1>4. CASE pc[b] = "idle"
  BY <1>1, <1>4 DEF RaceInv, Generates
<1> QED BY <1>1, <1>2, <1>3, <1>4 DEF Aside, CallShape

LEMMA OtherAlone ==
    ASSUME BInv, NEW a \in Admins, NEW b \in Admins \ {a}, Aside(a, b),
           \A d \in Admins \ {a} : pc'[d] = pc[d]
    PROVE  AloneInv(b)'
<1> SUFFICES ASSUME alone'[b] PROVE AloneInv(b)'
  BY DEF AloneInv
<1>1. AloneInv(b) /\ alone[b] /\ pc'[b] = pc[b]
  BY DEF BInv, CallInv, Aside
<1>2. pc[a] \in Quiet
  BY <1>1 DEF AloneInv
<1>3. pc'[a] \in Quiet /\ branches' = branches /\ call'[b] = call[b]
  BY <1>2 DEF Aside
<1>4. \A d \in Admins \ {b} : pc'[d] \in Quiet
  BY <1>1, <1>3 DEF AloneInv
<1> QED BY <1>1, <1>3, <1>4
        DEF AloneInv, AloneCreate, AloneUpdate, AloneDelete, Delivered, Taken, Generates,
            HadKept, OwnDefault

\* With the shape of everything, only the acting call is left to look at.
LEMMA StepInv ==
    ASSUME BInv, NEW a \in Admins, BranchesOK', Grows, \A b \in Admins \ {a} : Aside(a, b),
           CallInv(a)'
    PROVE  BInv'
<1>1. ASSUME NEW b \in Admins \ {a} PROVE CallInv(b)'
  BY OtherShape, OtherRace, OtherAlone DEF CallInv, Aside
<1> QED BY <1>1 DEF BInv

---------------------------------------------------------------------------
(* Calls begin and end. *)

LEMMA SameGrows ==
    ASSUME branches' = branches
    PROVE  Grows /\ \A c : Calmed(c)
BY DEF Grows, Calmed

LEMMA BeginStep ==
    ASSUME BInv, NEW a \in Admins, NEW l \in Labels, NEW k \in Call, Begin(a, l, k)
    PROVE  /\ BranchesOK' /\ Grows /\ \A b \in Admins \ {a} : Aside(a, b)
           /\ branches' = branches /\ pc'[a] = l /\ call'[a] = k /\ k # NoCall
           /\ alone'[a] => \A b \in Admins \ {a} : pc'[b] \in Quiet
<1>1. /\ branches' = branches /\ pc' = [pc EXCEPT ![a] = l] /\ call' = [call EXCEPT ![a] = k]
      /\ begun' = begun + 1 /\ begun < MaxCalls
  BY DEF Begin
<1>2. alone' = [b \in Admins |-> b = a /\ \A d \in Admins \ {a} : pc[d] \in Quiet]
  BY DEF Begin, Quiet
<1>3. \A b \in Admins \ {a} : ~alone'[b]
  BY <1>2
<1>4. alone' \in [Admins -> BOOLEAN]
  BY <1>2
<1>5. Unique(branches')
  BY <1>1, Parts
<1>6. BranchesOK'
  BY <1>1, <1>4, <1>5, Parts DEF BranchesOK
<1>7. \A b \in Admins \ {a} : Aside(a, b)
  BY <1>1, <1>3, SameGrows, Parts DEF Aside
<1>8. alone'[a] => \A b \in Admins \ {a} : pc'[b] \in Quiet
  BY <1>1, <1>2, Parts
<1> QED BY <1>1, <1>6, <1>7, <1>8, SameGrows, Parts

LEMMA RequestCall ==
    ASSUME BInv, NEW op \in {"Create", "Update", "Delete"}, NEW c \in Companies,
           NEW own \in OwnCodes \cup {NoCode}, NEW default \in BOOLEAN, NEW i \in Ids \cup {NoId},
           NEW row \in Row
    PROVE  Request(op, c, own, default, i, row) \in Call
BY DEF Request, Call

LEMMA CreateStep ==
    ASSUME BInv, NEW a \in Admins, NEW c \in Companies, NEW own \in OwnCodes \cup {NoCode},
           NEW default \in BOOLEAN, BeginCreate(a, c, own, default)
    PROVE  BInv'
<1> DEFINE code == IF own = NoCode THEN [form |-> Empty, num |-> 0] ELSE own
           row == NewRow(c, code, default)
           k == Request("Create", c, own, default, NoId, row)
           l == IF default THEN "clear" ELSE IF own = NoCode THEN "generate" ELSE "insert"
<1>1. code \in Code
  BY DEF Code
<1>2. row \in Row /\ row.company = c /\ row.code = code /\ row.default = default /\ ~row.deleted
  BY <1>1 DEF NewRow, Row
<1>3. k \in Call
  BY <1>2, RequestCall
<1>4. l \in Labels
  BY DEF Labels
<1>5. Begin(a, l, k)
  BY DEF BeginCreate
<1>6. /\ k.op = "Create" /\ k.company = c /\ k.own = own /\ k.default = default /\ k.id = NoId
      /\ k.row = row /\ k.tries = 0 /\ k.raced = 0 /\ k.had = (Defaults(branches, c) # {})
  BY DEF Request
<1> HIDE DEF row, k, l
<1>7. /\ BranchesOK' /\ Grows /\ \A b \in Admins \ {a} : Aside(a, b)
      /\ branches' = branches /\ pc'[a] = l /\ call'[a] = k /\ k # NoCall
      /\ alone'[a] => \A b \in Admins \ {a} : pc'[b] \in Quiet
  BY <1>3, <1>4, <1>5, BeginStep
<1>8. CallShape(a)'
  BY <1>2, <1>6, <1>7 DEF l, code, CallShape, CreateShape, Content
<1>9. RaceInv(a)'
  BY <1>6, <1>7 DEF l, RaceInv, Generates
<1>10. AloneInv(a)'
  BY <1>6, <1>7 DEF l, AloneInv, AloneCreate, HadKept
<1> QED BY <1>7, <1>8, <1>9, <1>10, StepInv DEF CallInv

LEMMA UpdateStep ==
    ASSUME BInv, NEW a \in Admins, NEW i \in Ids, NEW own \in OwnCodes \cup {NoCode},
           NEW default \in BOOLEAN, BeginUpdate(a, i, own, default)
    PROVE  BInv'
<1> DEFINE old == branches[i]
           row == NewRow(old.company, IF own = NoCode THEN old.code ELSE own, old.default \/ default)
           k == Request("Update", old.company, own, default, i, row)
           l == IF default /\ ~old.default THEN "clear" ELSE "write"
<1>1. /\ Held(branches, i) /\ old \in Row /\ old.company \in Companies /\ old.code \in Code
      /\ old.default \in BOOLEAN /\ ~old.deleted
  BY RowFields DEF BeginUpdate, Held
<1>3. /\ row \in Row /\ row.company = old.company /\ ~row.deleted
      /\ row.code = (IF own = NoCode THEN old.code ELSE own)
      /\ row.default = (old.default \/ default)
  BY <1>1 DEF NewRow, Row
<1>4. Begin(a, l, k)
  BY DEF BeginUpdate
<1>5. /\ k.op = "Update" /\ k.company = old.company /\ k.own = own /\ k.default = default
      /\ k.id = i /\ k.row = row /\ k.tries = 0 /\ k.raced = 0
      /\ k.had = (Defaults(branches, old.company) # {})
  BY DEF Request
<1>6. k \in Call
  <2> HIDE DEF row
  <2> QED BY <1>1, <1>3, RequestCall
<1>7. l \in Labels
  BY DEF Labels
<1> HIDE DEF row, k
<1>8. /\ BranchesOK' /\ Grows /\ \A b \in Admins \ {a} : Aside(a, b)
      /\ branches' = branches /\ pc'[a] = l /\ call'[a] = k /\ k # NoCall
      /\ alone'[a] => \A b \in Admins \ {a} : pc'[b] \in Quiet
  <2> HIDE DEF l
  <2> QED BY <1>4, <1>6, <1>7, BeginStep
<1>9. branches[i] # NoRow
  BY <1>1
<1>10. CallShape(a)'
  BY <1>1, <1>3, <1>5, <1>8, <1>9 DEF CallShape, UpdateShape, Content, Target
<1>11. RaceInv(a)'
  BY <1>5, <1>8 DEF RaceInv, Generates
<1>12. old.default => Defaults(branches, old.company) \subseteq {i}
  BY <1>1, Parts DEF Defaults, Of, Unique
<1>13. AloneInv(a)'
  BY <1>1, <1>3, <1>5, <1>8, <1>12 DEF AloneInv, AloneUpdate, HadKept, OwnDefault
<1> QED BY <1>8, <1>10, <1>11, <1>13, StepInv DEF CallInv

LEMMA DeleteStep ==
    ASSUME BInv, NEW a \in Admins, NEW i \in Ids, BeginDelete(a, i)
    PROVE  BInv'
<1> DEFINE old == branches[i]
           k == Request("Delete", old.company, NoCode, FALSE, i, old)
<1>1. /\ Held(branches, i) /\ old \in Row /\ old # NoRow /\ old.company \in Companies
      /\ ~old.default
  BY RowFields DEF BeginDelete, Held
<1>2. Begin(a, "softDelete", k)
  BY DEF BeginDelete
<1>3. /\ k.op = "Delete" /\ k.company = old.company /\ k.own = NoCode /\ ~k.default
      /\ k.id = i /\ k.row = old /\ k.tries = 0 /\ k.raced = 0
      /\ k.had = (Defaults(branches, old.company) # {})
  BY DEF Request
<1>4. k \in Call
  BY <1>1, RequestCall
<1> HIDE DEF k
<1>5. /\ BranchesOK' /\ Grows /\ \A b \in Admins \ {a} : Aside(a, b)
      /\ branches' = branches /\ pc'[a] = "softDelete" /\ call'[a] = k /\ k # NoCall
      /\ alone'[a] => \A b \in Admins \ {a} : pc'[b] \in Quiet
  BY <1>2, <1>4, BeginStep DEF Labels
<1>6. CallInv(a)'
  BY <1>1, <1>3, <1>5 DEF CallInv, CallShape, DeleteShape, Target, RaceInv, Generates,
                          AloneInv, AloneDelete, HadKept
<1> QED BY <1>5, <1>6, StepInv

LEMMA ReturnStep ==
    ASSUME BInv, NEW a \in Admins, Return(a)
    PROVE  BInv'
<1>1. /\ branches' = branches /\ begun' = begun /\ pc' = [pc EXCEPT ![a] = "idle"]
      /\ call' = [call EXCEPT ![a] = NoCall] /\ alone' = [alone EXCEPT ![a] = FALSE]
  BY DEF Return
<1>2. Unique(branches')
  BY <1>1, Parts
<1>3. BranchesOK'
  BY <1>1, <1>2, Parts DEF BranchesOK, Labels
<1>4. \A b \in Admins \ {a} : Aside(a, b)
  BY <1>1, SameGrows, Parts DEF Aside, Quiet
<1>5. CallInv(a)'
  BY <1>1, Parts DEF CallInv, CallShape, RaceInv, Generates, AloneInv
<1> QED BY <1>1, <1>3, <1>4, <1>5, SameGrows, StepInv

---------------------------------------------------------------------------
(* Statements. *)

\* The step of a statement is aside for the others.
LEMMA StatementAside ==
    ASSUME BInv, NEW a \in Admins, pc[a] \notin Quiet, NEW l, Goto(a, l),
           NEW b \in Admins \ {a},
           \/ call'[b] = call[b] /\ (call[b] # NoCall => Calmed(call[b].company))
           \/ Raced(b)
    PROVE  Aside(a, b)
BY Parts DEF Goto, Aside

LEMMA ClearStep ==
    ASSUME BInv, NEW a \in Admins, Clear(a)
    PROVE  BInv'
<1> DEFINE c == call[a].company
           l == CASE call[a].op = "Update" -> "write"
                  [] call[a].op = "Create" /\ call[a].own = NoCode -> "generate"
                  [] OTHER -> "insert"
<1>1. /\ pc[a] = "clear" /\ call' = call /\ Goto(a, l) /\ CallInv(a)
      /\ call[a].default /\ call[a].op \in {"Create", "Update"}
  BY CallFields DEF Clear, BInv, CallInv, CallShape, DeleteShape
<1>2. /\ pc' = [pc EXCEPT ![a] = l] /\ alone' = alone /\ begun' = begun /\ l \in Labels
  BY <1>1 DEF Goto, Labels
<1>3. /\ branches' = [i \in Ids |-> branches'[i]]
      /\ \A i \in Ids : \/ branches'[i] = branches[i] /\ i \notin Defaults(branches, c)
                        \/ /\ i \in Defaults(branches, c)
                           /\ branches'[i] = [branches[i] EXCEPT !.default = FALSE]
  BY DEF Clear
<1>4. ASSUME NEW i \in Ids
      PROVE  /\ branches'[i] \in Row \cup {NoRow}
             /\ branches'[i] = NoRow <=> branches[i] = NoRow
             /\ branches[i] # NoRow => /\ branches'[i].company = branches[i].company
                                       /\ branches'[i].code = branches[i].code
                                       /\ branches'[i].deleted = branches[i].deleted
                                       /\ branches'[i].default => branches[i].default
             /\ i \in Defaults(branches, c) => ~branches'[i].default
  <2>1. CASE branches'[i] = branches[i] /\ i \notin Defaults(branches, c)
    BY <2>1, Parts
  <2>2. CASE i \in Defaults(branches, c) /\ branches'[i] = [branches[i] EXCEPT !.default = FALSE]
    <3>1. branches[i] \in Row /\ branches[i] # NoRow
      BY <2>2, RowFields DEF Defaults, Of, Held
    <3> QED BY <2>2, <3>1 DEF Row
  <2> QED BY <1>3, <2>1, <2>2
<1>5. branches' \in [Ids -> Row \cup {NoRow}]
  BY <1>3, <1>4
<1>6. Unique(branches')
  BY <1>4, Parts DEF Unique, Held
<1>7. BranchesOK'
  BY <1>1, <1>2, <1>5, <1>6, Parts DEF BranchesOK
<1>8. Grows /\ \A x : Calmed(x)
  BY <1>4 DEF Grows, Calmed, Held
<1>9. Defaults(branches', c) = {}
  BY <1>4 DEF Defaults, Of, Held
<1>10. \A b \in Admins \ {a} : Aside(a, b)
  BY <1>1, <1>8, StatementAside DEF Quiet
<1>11. pc'[a] = l /\ call'[a] = call[a] /\ alone'[a] = alone[a]
       /\ \A b \in Admins \ {a} : pc'[b] = pc[b]
  BY <1>1, <1>2, Parts
<1>12. CallShape(a)'
  <2>1. Target(a) => Target(a)'
    BY <1>8, <1>11 DEF Target, Grows
  <2>2. Content(a) => Content(a)'
    BY <1>11 DEF Content
  <2> QED BY <1>1, <1>11, <2>1, <2>2 DEF CallInv, CallShape, CreateShape, UpdateShape
<1>13. RaceInv(a)'
  <2>1. l = "generate" \/ ~(call[a].op = "Create" /\ call[a].own = NoCode)
    OBVIOUS
  <2> QED BY <1>1, <1>9, <1>11, <2>1 DEF RaceInv, Generates
<1>14. AloneInv(a)'
  <2>1. CASE call[a].op = "Create"
    BY <1>1, <1>9, <1>11, <2>1 DEF CallInv, AloneInv, AloneCreate
  <2>2. CASE call[a].op = "Update"
    <3>1. Content(a) /\ Target(a)
      BY <1>1, <2>2 DEF CallInv, CallShape, UpdateShape
    <3>2. alone[a] => AloneUpdate(a)'
      BY <1>1, <1>4, <1>9, <1>11, <2>2, <3>1
         DEF CallInv, AloneInv, AloneUpdate, Content, Target, OwnDefault, Held
    <3> QED BY <1>1, <1>11, <2>2, <3>2 DEF CallInv, AloneInv
  <2> QED BY <1>1, <2>1, <2>2
<1> QED BY <1>7, <1>8, <1>10, <1>12, <1>13, <1>14, StepInv DEF CallInv

LEMMA GenerateStep ==
    ASSUME BInv, NEW a \in Admins, Generate(a)
    PROVE  BInv'
<1> DEFINE c == call[a].company
<1>1. PICK n \in 1 .. MaxInt :
         /\ \A m \in Numbers(c) : m < n
         /\ call' = [call EXCEPT ![a].row =
                       NewRow(c, [form |-> Generated, num |-> n], call[a].default)]
  BY DEF Generate
<1>2. /\ pc[a] = "generate" /\ Goto(a, "insert") /\ branches' = branches /\ CallInv(a)
      /\ pc' = [pc EXCEPT ![a] = "insert"] /\ alone' = alone /\ begun' = begun
  BY DEF Generate, Goto, BInv
<1>3. /\ call[a] \in Call /\ call[a].op = "Create" /\ c \in Companies
      /\ call[a].default \in BOOLEAN /\ call[a].own = NoCode
  BY <1>2, CallFields DEF CallInv, CallShape, CreateShape, UpdateShape, DeleteShape
<1> DEFINE code == [form |-> Generated, num |-> n]
           row == NewRow(c, code, call[a].default)
<1>4. code \in Code /\ code.num = n
  BY DEF Code
<1>5. /\ row \in Row /\ row.company = c /\ row.code = code /\ row.default = call[a].default
      /\ ~row.deleted
  BY <1>3, <1>4 DEF NewRow, Row
<1>6. call' = [call EXCEPT ![a].row = row]
  BY <1>1
<1> HIDE DEF row
<1>7. /\ call'[a] \in Call /\ call'[a].row = row /\ call'[a].op = "Create"
      /\ call'[a].company = c /\ call'[a].own = NoCode /\ call'[a].default = call[a].default
      /\ call'[a].id = call[a].id /\ call'[a].tries = call[a].tries
      /\ call'[a].had = call[a].had /\ call'[a].raced = call[a].raced
  BY <1>3, <1>5, <1>6, Parts DEF Call
<1>8. /\ \A b \in Admins \ {a} : call'[b] = call[b] /\ pc'[b] = pc[b]
      /\ pc'[a] = "insert" /\ alone'[a] = alone[a]
  BY <1>2, <1>6, Parts
<1>9. call' \in [Admins -> Call \cup {NoCall}]
  BY <1>6, <1>7, <1>8, Parts
<1>10. BranchesOK'
  <2>1. Unique(branches')
    BY <1>2, Parts
  <2> QED BY <1>2, <1>9, <2>1, Parts DEF BranchesOK, Labels
<1>11. \A b \in Admins \ {a} : Aside(a, b)
  BY <1>2, <1>8, SameGrows, StatementAside DEF Quiet
<1>12. CallShape(a)'
  BY <1>2, <1>3, <1>5, <1>7, <1>8 DEF CallInv, CallShape, CreateShape, Content
<1>13. CodeFree(a)'
  <2>1. ASSUME NEW i \in Of(branches, c) PROVE branches[i].code # code
    <3>1. branches[i].code.num < n
      BY <1>1, <2>1 DEF Numbers
    <3> QED BY <1>4, <3>1
  <2> QED BY <1>2, <1>5, <1>7, <2>1 DEF CodeFree
<1>14. RaceInv(a)'
  BY <1>2, <1>3, <1>7, <1>8, <1>13 DEF CallInv, RaceInv, Generates
<1>15. AloneInv(a)'
  BY <1>2, <1>3, <1>7, <1>8 DEF CallInv, AloneInv, AloneCreate, HadKept
<1> QED BY <1>2, <1>10, <1>11, <1>12, <1>14, <1>15, SameGrows, StepInv DEF CallInv

\* A row of the company of a call is written, and every other call there told.
LEMMA WrittenAside ==
    ASSUME BInv, NEW a \in Admins, pc[a] \notin Quiet, NEW l, Goto(a, l), NEW i \in Ids, Written(a, i),
           NEW row \in Row, branches' = [branches EXCEPT ![i] = row],
           row.company = call[a].company, branches[i] # NoRow => branches[i].company = row.company
    PROVE  /\ Grows /\ \A b \in Admins \ {a} : Aside(a, b) /\ pc'[b] = pc[b]
           /\ call' \in [Admins -> Call \cup {NoCall}] /\ call'[a] = [call[a] EXCEPT !.id = i]
           /\ pc'[a] = l /\ alone'[a] = alone[a]
<1>1. call[a] \in Call /\ call[a] # NoCall
  BY CallFields DEF Quiet
<1>2. call'[a] = [call[a] EXCEPT !.id = i]
  BY DEF Written
<1>3. call'[a] \in Call
  BY <1>1, <1>2 DEF Call
<1>4. Grows
  BY Parts DEF Grows
<1>5. ASSUME NEW c, c # row.company PROVE Calmed(c)
  BY <1>5, Parts DEF Calmed, Held
<1>6. ASSUME NEW b \in Admins \ {a}
      PROVE  /\ \/ call'[b] = call[b] /\ (call[b] # NoCall => Calmed(call[b].company))
                \/ Raced(b)
             /\ call'[b] \in Call \cup {NoCall}
  <2>1. CASE call[b] = NoCall \/ call[b].company # call[a].company
    BY <1>5, <2>1, Parts DEF Written
  <2>2. CASE call[b] # NoCall /\ call[b].company = call[a].company
    <3>1. Raced(b)
      BY <2>2 DEF Written, Raced
    <3> QED BY <3>1, RacedFields
  <2> QED BY <2>1, <2>2
<1>7. call' \in [Admins -> Call \cup {NoCall}]
  BY <1>3, <1>6 DEF Written
<1>8. \A b \in Admins \ {a} : Aside(a, b) /\ pc'[b] = pc[b]
  BY <1>6, StatementAside DEF Aside
<1> QED BY <1>2, <1>4, <1>7, <1>8, Parts DEF Goto

LEMMA WrittenFields ==
    ASSUME BInv, NEW a \in Admins, pc[a] # "idle", NEW i \in Ids,
           call'[a] = [call[a] EXCEPT !.id = i]
    PROVE  /\ call'[a] # NoCall /\ call'[a].op = call[a].op /\ call'[a].company = call[a].company
           /\ call'[a].own = call[a].own /\ call'[a].default = call[a].default
           /\ call'[a].id = i /\ call'[a].row = call[a].row
           /\ call'[a].tries = call[a].tries /\ call'[a].had = call[a].had
           /\ call'[a].raced = call[a].raced
<1>1. call[a] \in Call
  BY CallFields
<1>2. call'[a] \in Call
  BY <1>1 DEF Call
<1> QED BY <1>1, <1>2 DEF Call

LEMMA InsertStep ==
    ASSUME BInv, NEW a \in Admins, Insert(a)
    PROVE  BInv'
<1> DEFINE k == call[a]
<1>1. pc[a] = "insert" /\ Goto(a, "done") /\ CallInv(a)
  BY DEF Insert, BInv
<1>2. PICK i \in Ids : /\ branches[i] = NoRow /\ Written(a, i)
                      /\ Commit([branches EXCEPT ![i] = k.row])
  BY DEF Insert
<1>3. k.op = "Create" /\ CreateShape(a) /\ Content(a) /\ k.row \in Row
  BY <1>1, CallFields DEF CallInv, CallShape, CreateShape, UpdateShape, DeleteShape, Content
<1>4. branches' = [branches EXCEPT ![i] = k.row] /\ Unique(branches')
  BY <1>2 DEF Commit
<1>5. /\ Grows /\ \A b \in Admins \ {a} : Aside(a, b) /\ pc'[b] = pc[b]
      /\ call' \in [Admins -> Call \cup {NoCall}] /\ call'[a] = [call[a] EXCEPT !.id = i]
      /\ pc'[a] = "done" /\ alone'[a] = alone[a]
  BY <1>1, <1>2, <1>3, <1>4, WrittenAside DEF Content, Quiet
<1>6. BranchesOK'
  BY <1>1, <1>3, <1>4, <1>5, Parts DEF BranchesOK, Goto, Labels
<1>7. /\ branches'[i] = k.row /\ \A j \in Ids \ {i} : branches'[j] = branches[j]
      /\ k.row # NoRow
  BY <1>3, <1>4, Parts
<1>8. CallShape(a)'
  BY <1>1, <1>3, <1>5, <1>7, WrittenFields
     DEF CallInv, CallShape, CreateShape, Target, Content
<1>9. RaceInv(a)'
  BY <1>5 DEF RaceInv
<1>10. AloneInv(a)'
  <2> SUFFICES ASSUME alone[a] PROVE AloneInv(a)'
    BY <1>5 DEF AloneInv
  <2>1. AloneCreate(a) /\ \A b \in Admins \ {a} : pc[b] \in Quiet
    BY <1>1, <1>3 DEF CallInv, AloneInv
  <2>2. Held(branches', i) /\ ~Held(branches, i) /\ branches'[i].company = k.company
    BY <1>2, <1>3, <1>7 DEF Held, Content
  <2>3. Defaults(branches', k.company)
          = Defaults(branches, k.company) \cup (IF k.row.default THEN {i} ELSE {})
    BY <1>7, <2>2 DEF Defaults, Of, Held
  <2>4. k.row.default = k.default
    BY <1>3 DEF CreateShape
  <2>5. Delivered(a)'
    <3>1. k.default => Defaults(branches', k.company) = {i}
      BY <1>1, <2>1, <2>3, <2>4 DEF AloneCreate
    <3>2. k.had => Defaults(branches', k.company) # {}
      BY <1>1, <1>3, <2>1, <2>3, <3>1, CallFields DEF AloneCreate, HadKept
    <3>3. k.row.company = k.company /\ ~k.row.deleted /\ (k.own # NoCode => k.row.code = k.own)
      BY <1>3 DEF Content
    <3> QED BY <1>1, <1>3, <1>5, <1>7, <3>1, <3>2, <3>3, WrittenFields DEF Delivered
  <2> QED BY <1>1, <1>3, <1>5, <2>1, <2>5, WrittenFields DEF AloneInv, AloneCreate
<1> QED BY <1>5, <1>6, <1>8, <1>9, <1>10, StepInv DEF CallInv

LEMMA WriteStep ==
    ASSUME BInv, NEW a \in Admins, Write(a)
    PROVE  BInv'
<1> DEFINE k == call[a]
           i == call[a].id
<1>1. /\ pc[a] = "write" /\ Goto(a, "done") /\ CallInv(a)
      /\ k.op = "Update" /\ UpdateShape(a) /\ Content(a) /\ Target(a)
  BY CallFields DEF Write, BInv, CallInv, CallShape, CreateShape, UpdateShape, DeleteShape
<1>2. /\ i \in Ids /\ k.row \in Row /\ k.row.company = k.company /\ ~k.row.deleted
      /\ branches[i] # NoRow /\ branches[i].company = k.company
  BY <1>1 DEF Content, Target
<1>3. CASE ~Held(branches, i)
  <2>1. branches' = branches /\ call' = call
    BY <1>3 DEF Write
  <2>2. pc' = [pc EXCEPT ![a] = "done"] /\ alone' = alone /\ begun' = begun
    BY <1>1 DEF Goto
  <2>3. BranchesOK'
    <3>1. Unique(branches')
      BY <2>1, Parts
    <3> QED BY <2>1, <2>2, <3>1, Parts DEF BranchesOK, Labels
  <2>4. \A b \in Admins \ {a} : Aside(a, b)
    BY <1>1, <2>1, SameGrows, StatementAside DEF Quiet
  <2>5. ~alone[a]
    BY <1>1, <1>3 DEF CallInv, AloneInv, AloneUpdate
  <2>6. pc'[a] = "done" /\ call'[a] = k /\ ~alone'[a]
    BY <2>1, <2>2, <2>5, Parts
  <2>7. CallShape(a)'
    BY <1>1, <2>1, <2>6 DEF CallInv, CallShape, UpdateShape, Content, Target
  <2> QED BY <2>1, <2>3, <2>4, <2>6, <2>7, SameGrows, StepInv DEF CallInv, RaceInv, AloneInv
<1>4. CASE Held(branches, i)
  <2>1. branches' = [branches EXCEPT ![i] = k.row] /\ Unique(branches') /\ Written(a, i)
    BY <1>4 DEF Write, Commit
  <2>2. /\ Grows /\ \A b \in Admins \ {a} : Aside(a, b) /\ pc'[b] = pc[b]
        /\ call' \in [Admins -> Call \cup {NoCall}] /\ call'[a] = [call[a] EXCEPT !.id = i]
        /\ pc'[a] = "done" /\ alone'[a] = alone[a]
    <3>1. pc[a] \notin Quiet
      BY <1>1 DEF Quiet
    <3>2. Goto(a, "done") /\ (branches[i] # NoRow => branches[i].company = k.row.company)
      BY <1>1, <1>2
    <3> DEFINE row == k.row
    <3>3. /\ i \in Ids /\ row \in Row /\ row.company = call[a].company
          /\ branches' = [branches EXCEPT ![i] = row]
          /\ branches[i] # NoRow => branches[i].company = row.company
      BY <1>2, <2>1
    <3>4. Written(a, i)
      BY <2>1
    <3> HIDE DEF row, i
    <3> QED BY <3>1, <3>2, <3>3, <3>4, WrittenAside
  <2>3. BranchesOK'
    BY <1>1, <1>2, <2>1, <2>2, Parts DEF BranchesOK, Goto, Labels
  <2>4. /\ branches'[i] = k.row /\ \A j \in Ids \ {i} : branches'[j] = branches[j]
        /\ k.row # NoRow
    BY <1>2, <2>1, Parts
  <2>5. CallShape(a)'
    BY <1>1, <1>2, <2>2, <2>4, WrittenFields DEF CallInv, CallShape, UpdateShape, Target, Content
  <2>6. AloneInv(a)'
    <3> SUFFICES ASSUME alone[a] PROVE AloneInv(a)'
      BY <2>2 DEF AloneInv
    <3>1. AloneUpdate(a) /\ \A b \in Admins \ {a} : pc[b] \in Quiet
      BY <1>1 DEF CallInv, AloneInv
    <3>2. Held(branches', i) /\ branches'[i].company = k.company
      BY <1>2, <2>4 DEF Held
    <3>3. Defaults(branches', k.company)
            = (Defaults(branches, k.company) \ {i}) \cup (IF k.row.default THEN {i} ELSE {})
      BY <1>2, <2>4, <3>2 DEF Defaults, Of, Held
    <3>4. k.row.default => Defaults(branches', k.company) = {i}
      BY <1>1, <3>1, <3>3 DEF AloneUpdate, OwnDefault
    <3>5. ~k.row.default => Defaults(branches', k.company) = Defaults(branches, k.company)
      BY <1>1, <3>1, <3>3 DEF AloneUpdate, Defaults
    <3>6. k.had => Defaults(branches', k.company) # {}
      BY <1>1, <3>1, <3>4, <3>5 DEF AloneUpdate, HadKept
    <3>7. /\ k.default => k.row.default
          /\ k.own # NoCode => k.row.code = k.own
      BY <1>1 DEF Content
    <3>8. Delivered(a)'
      BY <1>1, <1>2, <2>2, <2>4, <3>4, <3>6, <3>7, WrittenFields DEF Delivered
    <3> QED BY <1>1, <1>2, <2>2, <3>1, <3>8, WrittenFields DEF AloneInv, AloneUpdate
  <2> QED BY <2>2, <2>3, <2>5, <2>6, StepInv DEF CallInv, RaceInv
<1> QED BY <1>3, <1>4

\* A statement that moves the call on and changes nothing of the table.
LEMMA MoveOn ==
    ASSUME BInv, NEW a \in Admins, pc[a] \notin Quiet, NEW l \in Labels, Goto(a, l),
           branches' = branches, call' \in [Admins -> Call \cup {NoCall}],
           \A b \in Admins \ {a} : call'[b] = call[b]
    PROVE  /\ BranchesOK' /\ Grows /\ \A b \in Admins \ {a} : Aside(a, b) /\ pc'[b] = pc[b]
           /\ pc'[a] = l /\ alone'[a] = alone[a]
<1>1. pc' = [pc EXCEPT ![a] = l] /\ alone' = alone /\ begun' = begun
  BY DEF Goto
<1>2. Unique(branches')
  BY Parts
<1>3. BranchesOK'
  BY <1>1, <1>2, Parts DEF BranchesOK
<1>4. \A b \in Admins \ {a} : Aside(a, b)
  BY SameGrows, StatementAside
<1> QED BY <1>1, <1>3, <1>4, SameGrows, Parts

LEMMA InsertRefusedStep ==
    ASSUME BInv, NEW a \in Admins, InsertRefused(a)
    PROVE  BInv'
<1> DEFINE k == call[a]
<1>1. /\ pc[a] = "insert" /\ branches' = branches /\ CallInv(a) /\ Conflict(k.row, NoId)
      /\ pc[a] \notin Quiet
  BY DEF InsertRefused, BInv, Quiet
<1>2. /\ k.op = "Create" /\ CreateShape(a) /\ Content(a) /\ k.id = NoId
      /\ k.tries < MaxTries /\ k.tries \in Nat /\ k.raced \in Nat /\ k \in Call
      /\ k.row.company = k.company /\ k.row.default = k.default /\ k.default \in BOOLEAN
  BY <1>1, CallFields DEF CallInv, CallShape, CreateShape, UpdateShape, DeleteShape, Content
<1>3. PICK j \in Of(branches, k.company) :
         branches[j].code = k.row.code \/ (branches[j].default /\ k.default)
  BY <1>1, <1>2 DEF Conflict
<1>4. CASE k.own # NoCode
  <2>1. call' = call /\ Goto(a, "refused")
    BY <1>4 DEF InsertRefused
  <2>2. /\ BranchesOK' /\ Grows /\ \A b \in Admins \ {a} : Aside(a, b) /\ pc'[b] = pc[b]
        /\ pc'[a] = "refused" /\ alone'[a] = alone[a]
    BY <1>1, <2>1, MoveOn, Parts DEF Labels
  <2>3. CallShape(a)'
    BY <1>1, <1>2, <2>1, <2>2 DEF CallInv, CallShape, CreateShape, Content
  <2>4. RaceInv(a)'
    BY <1>4, <2>1 DEF RaceInv, Generates
  <2>5. alone[a] => Taken(a)
    <3>1. alone[a] /\ k.default => Defaults(branches, k.company) = {}
      BY <1>1, <1>2 DEF CallInv, AloneInv, AloneCreate
    <3>2. alone[a] => branches[j].code = k.row.code
      BY <1>3, <3>1 DEF Defaults
    <3>3. j # NoId /\ k.row.code = k.own
      BY <1>2, <1>3, <1>4 DEF Of, Content
    <3> QED BY <1>2, <1>3, <3>2, <3>3 DEF Taken
  <2>6. AloneInv(a)'
    BY <1>1, <1>2, <2>1, <2>2, <2>5 DEF CallInv, AloneInv, AloneCreate, Taken
  <2> QED BY <1>1, <2>1, <2>2, <2>3, <2>4, <2>6, StepInv DEF CallInv
<1>5. CASE k.own = NoCode
  <2> DEFINE l == IF k.tries + 1 < MaxTries THEN "generate" ELSE "refused"
             t == k.tries + 1
  <2>1. call' = [call EXCEPT ![a] = [k EXCEPT !.tries = t]] /\ Goto(a, l)
    BY <1>5 DEF InsertRefused, TryAgain
  <2>2. t \in 0 .. MaxTries /\ l \in Labels
    BY <1>2 DEF Labels
  <2> DEFINE m == [k EXCEPT !.tries = t]
  <2>3. /\ m \in Call /\ m.op = k.op /\ m.company = k.company /\ m.own = k.own
        /\ m.default = k.default /\ m.id = k.id /\ m.row = k.row /\ m.had = k.had
        /\ m.raced = k.raced /\ m.tries = t
    <3> HIDE DEF t, k
    <3> QED BY <1>2, <2>2 DEF Call
  <2>4. call' = [call EXCEPT ![a] = m]
    BY <2>1
  <2> HIDE DEF m
  <2>5. /\ call'[a] = m /\ \A b \in Admins \ {a} : call'[b] = call[b]
        /\ call' \in [Admins -> Call \cup {NoCall}]
    BY <2>3, <2>4, Parts
  <2>6. /\ BranchesOK' /\ Grows /\ \A b \in Admins \ {a} : Aside(a, b) /\ pc'[b] = pc[b]
        /\ pc'[a] = l /\ alone'[a] = alone[a]
    <3> HIDE DEF l
    <3> QED BY <1>1, <2>1, <2>2, <2>5, MoveOn
  <2>7. m # NoCall
    BY <2>3
  <2>8. CallShape(a)'
    BY <1>1, <1>2, <1>5, <2>3, <2>5, <2>6, <2>7 DEF CallShape, CreateShape, Content
  <2>9. Generates(a)
    BY <1>1, <1>2, <1>5 DEF Generates
  <2>10. RaceInv(a)'
    <3>1. CASE k.default
      <4>1. k.raced # 0
        BY <1>1, <1>3, <2>9, <3>1 DEF CallInv, RaceInv, CodeFree, Defaults
      <4>2. call'[a].raced # 0 /\ call'[a].raced >= 1
        BY <1>2, <2>3, <2>5, <4>1
      <4>3. call'[a].default /\ pc'[a] # "insert"
        BY <2>3, <2>5, <2>6, <3>1
      <4> QED BY <4>2, <4>3 DEF RaceInv
    <3>2. CASE ~k.default
      <4>1. k.raced >= k.tries /\ k.raced # k.tries
        BY <1>1, <1>3, <2>9, <3>2 DEF CallInv, RaceInv, CodeFree
      <4>2. k.raced >= t
        BY <1>2, <4>1
      <4>3. l # "generate" => t = MaxTries
        BY <1>2
      <4> QED BY <1>2, <2>3, <2>5, <2>6, <3>2, <4>2, <4>3 DEF RaceInv, Generates
    <3> QED BY <3>1, <3>2
  <2>11. AloneInv(a)'
    BY <1>1, <1>2, <1>5, <2>3, <2>5, <2>6, <2>7
       DEF CallInv, AloneInv, AloneCreate, HadKept, Generates
  <2> QED BY <1>1, <2>5, <2>6, <2>8, <2>10, <2>11, StepInv DEF CallInv
<1> QED BY <1>4, <1>5

LEMMA WriteRefusedStep ==
    ASSUME BInv, NEW a \in Admins, WriteRefused(a)
    PROVE  BInv'
<1> DEFINE k == call[a]
<1>1. /\ pc[a] = "write" /\ branches' = branches /\ call' = call /\ Goto(a, "refused")
      /\ CallInv(a) /\ Held(branches, k.id) /\ Conflict(k.row, k.id) /\ pc[a] \notin Quiet
  BY DEF WriteRefused, BInv, Quiet
<1>2. k.op = "Update" /\ UpdateShape(a) /\ Content(a) /\ Target(a)
  BY <1>1, CallFields DEF CallInv, CallShape, CreateShape, UpdateShape, DeleteShape
<1>3. /\ BranchesOK' /\ Grows /\ \A b \in Admins \ {a} : Aside(a, b) /\ pc'[b] = pc[b]
      /\ pc'[a] = "refused" /\ alone'[a] = alone[a]
  BY <1>1, MoveOn, Parts DEF Labels
<1>4. CallShape(a)'
  BY <1>1, <1>2, <1>3 DEF CallInv, CallShape, UpdateShape, Content, Target
<1>5. RaceInv(a)'
  BY <1>1, <1>2 DEF RaceInv, Generates
<1>6. alone[a] => Taken(a)
  <2> SUFFICES ASSUME alone[a] PROVE Taken(a)
    OBVIOUS
  <2>1. AloneUpdate(a) /\ k.row.company = k.company
    BY <1>1, <1>2 DEF CallInv, AloneInv, Content
  <2>2. PICK j \in Of(branches, k.company) \ {k.id} :
           branches[j].code = k.row.code \/ (branches[j].default /\ k.row.default)
    BY <1>1, <2>1 DEF Conflict
  <2>3. branches[j].code = k.row.code
    BY <1>1, <2>1, <2>2 DEF AloneUpdate, OwnDefault, Defaults
  <2>4. k.own # NoCode
    <3>1. /\ k.id \in Ids /\ branches[k.id].company = k.company /\ j \in Ids
          /\ Held(branches, j) /\ branches[j].company = k.company
      BY <1>2, <2>2 DEF Target, Of
    <3>2. branches[j].code # branches[k.id].code
      BY <1>1, <2>2, <3>1, Parts DEF Unique
    <3> QED BY <1>1, <2>1, <2>3, <3>2 DEF AloneUpdate
  <2> QED BY <1>2, <2>2, <2>3, <2>4 DEF Taken, Content
<1>7. AloneInv(a)'
  BY <1>1, <1>2, <1>3, <1>6 DEF CallInv, AloneInv, AloneUpdate, Taken
<1> QED BY <1>1, <1>3, <1>4, <1>5, <1>7, StepInv DEF CallInv

LEMMA SoftDeleteStep ==
    ASSUME BInv, NEW a \in Admins, SoftDelete(a)
    PROVE  BInv'
<1> DEFINE k == call[a]
           i == call[a].id
<1>1. /\ pc[a] = "softDelete" /\ Goto(a, "done") /\ CallInv(a) /\ pc[a] \notin Quiet
      /\ k.op = "Delete" /\ DeleteShape(a) /\ Target(a) /\ ~k.default
  BY CallFields
     DEF SoftDelete, BInv, CallInv, CallShape, CreateShape, UpdateShape, DeleteShape, Quiet
<1>2. i \in Ids /\ branches[i] # NoRow /\ branches[i].company = k.company /\ branches[i] \in Row
  BY <1>1, RowFields DEF Target
<1>3. CASE ~Held(branches, i)
  <2>1. branches' = branches /\ call' = call
    BY <1>3 DEF SoftDelete
  <2>2. /\ BranchesOK' /\ Grows /\ \A b \in Admins \ {a} : Aside(a, b) /\ pc'[b] = pc[b]
        /\ pc'[a] = "done" /\ alone'[a] = alone[a]
    BY <1>1, <2>1, MoveOn, Parts DEF Labels
  <2>3. ~alone[a]
    BY <1>1, <1>3 DEF CallInv, AloneInv, AloneDelete
  <2>4. CallShape(a)'
    BY <1>1, <2>1, <2>2 DEF CallInv, CallShape, DeleteShape, Target
  <2> QED BY <1>1, <2>1, <2>2, <2>3, <2>4, StepInv DEF CallInv, RaceInv, Generates, AloneInv
<1>4. CASE Held(branches, i)
  <2> DEFINE row == [branches[i] EXCEPT !.deleted = TRUE]
  <2>1. /\ row \in Row /\ row.company = k.company /\ row.deleted
        /\ row.default = branches[i].default
    <3>1. branches[i] \in Row
      BY <1>2
    <3> QED BY <1>2, <3>1 DEF Row
  <2>2. branches' = [branches EXCEPT ![i] = row] /\ Written(a, i)
    BY <1>4 DEF SoftDelete
  <2> HIDE DEF row
  <2>3. /\ Grows /\ \A b \in Admins \ {a} : Aside(a, b) /\ pc'[b] = pc[b]
        /\ call' \in [Admins -> Call \cup {NoCall}] /\ call'[a] = [call[a] EXCEPT !.id = i]
        /\ pc'[a] = "done" /\ alone'[a] = alone[a]
    <3> HIDE DEF i
    <3> QED BY <1>1, <1>2, <2>1, <2>2, WrittenAside
  <2>4. /\ branches'[i] = row /\ \A j \in Ids \ {i} : branches'[j] = branches[j]
        /\ row # NoRow
    BY <1>2, <2>1, <2>2, Parts
  <2>5. Unique(branches')
    BY <2>1, <2>4, Parts DEF Unique, Held
  <2>6. BranchesOK'
    BY <1>1, <1>2, <2>1, <2>2, <2>3, <2>5, Parts DEF BranchesOK, Goto, Labels
  <2>7. CallShape(a)'
    BY <1>1, <1>2, <2>1, <2>3, <2>4, WrittenFields DEF CallInv, CallShape, DeleteShape, Target
  <2>8. RaceInv(a)'
    BY <1>1, <2>3, WrittenFields, <1>2 DEF RaceInv, Generates
  <2>9. AloneInv(a)'
    <3> SUFFICES ASSUME alone[a] PROVE AloneInv(a)'
      BY <2>3 DEF AloneInv
    <3>1. AloneDelete(a) /\ \A b \in Admins \ {a} : pc[b] \in Quiet
      BY <1>1 DEF CallInv, AloneInv
    <3>2. Defaults(branches', k.company) = Defaults(branches, k.company)
      BY <1>1, <2>1, <2>4, <3>1 DEF AloneDelete, Defaults, Of, Held
    <3>3. Delivered(a)'
      BY <1>1, <1>2, <2>1, <2>3, <2>4, <3>1, <3>2, WrittenFields
         DEF Delivered, AloneDelete, HadKept
    <3> QED BY <1>1, <1>2, <2>3, <3>1, <3>3, WrittenFields DEF AloneInv, AloneDelete
  <2> QED BY <2>3, <2>6, <2>7, <2>8, <2>9, StepInv DEF CallInv
<1> QED BY <1>3, <1>4

---------------------------------------------------------------------------
(* The composed system. *)

LEMMA BStep ==
    ASSUME BInv, BranchNext
    PROVE  BInv'
<1> SUFFICES ASSUME NEW a \in Admins, Ask(a) \/ Statement(a) \/ Answer(a) \/ Fail(a)
             PROVE  BInv'
  BY DEF BranchNext
<1>1. CASE Ask(a)
  <2>1. ASSUME NEW c \in Companies, NEW own \in OwnCodes \cup {NoCode}, NEW default \in BOOLEAN,
               BeginCreate(a, c, own, default)
        PROVE  BInv'
    BY <2>1, CreateStep
  <2>2. ASSUME NEW i \in Ids, NEW own \in OwnCodes \cup {NoCode}, NEW default \in BOOLEAN,
               BeginUpdate(a, i, own, default)
        PROVE  BInv'
    BY <2>2, UpdateStep
  <2>3. ASSUME NEW i \in Ids, BeginDelete(a, i) PROVE BInv'
    BY <2>3, DeleteStep
  <2> QED BY <1>1, <2>1, <2>2, <2>3 DEF Ask
<1>2. CASE Statement(a)
  <2>1. CASE Clear(a)
    BY <2>1, ClearStep
  <2>2. CASE Generate(a)
    BY <2>2, GenerateStep
  <2>3. CASE GenerateFails(a)
    BY <2>3, ReturnStep DEF GenerateFails
  <2>4. CASE Insert(a)
    BY <2>4, InsertStep
  <2>5. CASE InsertRefused(a)
    BY <2>5, InsertRefusedStep
  <2>6. CASE Write(a)
    BY <2>6, WriteStep
  <2>7. CASE WriteRefused(a)
    BY <2>7, WriteRefusedStep
  <2>8. CASE SoftDelete(a)
    BY <2>8, SoftDeleteStep
  <2> QED BY <1>2, <2>1, <2>2, <2>3, <2>4, <2>5, <2>6, <2>7, <2>8 DEF Statement
<1>3. CASE Answer(a) \/ Fail(a)
  BY <1>3, ReturnStep DEF Answer, Fail
<1> QED BY <1>1, <1>2, <1>3

\* The calls on user_branches share the count of calls with those on branches,
\* and nothing else.
LEMMA SyncBegun ==
    ASSUME BInv, SyncNext
    PROVE  begun' \in 0 .. MaxCalls
BY Parts DEF SyncNext, BeginSyncUserBranches, BeginAssign, BeginSync, ReadCurrent, Resolve, Add,
             Remove, FinishSync, CommitAssign, EndSync, To

LEMMA BKept ==
    ASSUME BInv, UNCHANGED <<branches, pc, call, alone>>, begun' \in 0 .. MaxCalls
    PROVE  BInv'
<1>1. Unique(branches')
  BY Parts
<1>2. BranchesOK'
  BY <1>1, Parts DEF BranchesOK
<1>3. \A a \in Admins : CallInv(a)'
  BY DEF BInv, CallInv, CallShape, CreateShape, UpdateShape, DeleteShape, Target, Content,
         RaceInv, Generates, CodeFree, AloneInv, AloneCreate, AloneUpdate, AloneDelete, HadKept,
         OwnDefault, Delivered, Taken
<1> QED BY <1>2, <1>3 DEF BInv

LEMMA BNext ==
    ASSUME BInv, [Next]_vars
    PROVE  BInv'
<1>1. CASE BranchNext
  BY <1>1, BStep
<1>2. CASE SyncNext /\ UNCHANGED <<branches, pc, call, alone>>
  BY <1>2, SyncBegun, BKept
<1>3. CASE UNCHANGED vars
  BY <1>3, BKept, Parts DEF vars, branchVars
<1> QED BY <1>1, <1>2, <1>3 DEF Next, BranchStep

\* Among them the two unique indexes: no two live branches of a company share a
\* code or are both its default.
THEOREM BranchesInvariant == Spec => []BInv
<1>1. Spec => BInv /\ [][Next]_vars
  BY BInit DEF Spec, SyncInit
<1>2. BInv /\ [Next]_vars => BInv'
  BY BNext
<1> QED BY <1>1, <1>2, PTL

\* A call by itself has done what it answers (BranchService.Create, Update, Delete).
THEOREM BranchesDeliver == Spec => []LoneCallsDeliver
<1>1. BInv => LoneCallsDeliver
  BY DEF BInv, CallInv, AloneInv, Delivered, LoneCallsDeliver
<1> QED BY <1>1, BranchesInvariant, PTL

\* Create without a code gives up only for writes that raced it, and a call by
\* itself is told that its code is taken only if it is (maxCodeGenRetries).
THEOREM BranchesRefuse == Spec => []RefusedHasReason
<1>1. ASSUME BInv PROVE RefusedHasReason
  <2> SUFFICES ASSUME NEW a \in Admins, pc[a] = "refused"
               PROVE  IF call[a].op = "Create" /\ call[a].own = NoCode
                      THEN call[a].raced >= (IF call[a].default THEN 1 ELSE MaxTries)
                      ELSE alone[a] => Taken(a)
    BY DEF RefusedHasReason, Taken
  <2>1. RaceInv(a) /\ AloneInv(a)
    BY <1>1 DEF BInv, CallInv
  <2> QED BY <2>1 DEF RaceInv, AloneInv, Generates
<1> QED BY <1>1, BranchesInvariant, PTL

\* No statement changes a deleted branch (WHERE deleted_at IS NULL).
THEOREM BranchesStayDeleted == Spec => DeletedBranchStays
<1>1. ASSUME BInv, [Next]_vars
      PROVE  [\A i \in Ids : branches[i] # NoRow /\ branches[i].deleted
                             => branches'[i] = branches[i]]_branchVars
  <2> SUFFICES ASSUME NEW i \in Ids, branches[i] # NoRow, branches[i].deleted,
                      NEW a \in Admins, Statement(a)
               PROVE  branches'[i] = branches[i]
    BY <1>1 DEF Next, BranchStep, BranchNext, vars, branchVars, Ask, BeginCreate, BeginUpdate,
                BeginDelete, Begin, Answer, Fail, Return
  <2>1. branches \in [Ids -> Row \cup {NoRow}]
    BY <1>1, Parts
  <2>2. i \notin Defaults(branches, call[a].company) /\ ~Held(branches, i)
    BY DEF Defaults, Of, Held
  <2> QED BY <2>1, <2>2
          DEF Statement, Clear, Generate, GenerateFails, Insert, InsertRefused, Write, WriteRefused,
              SoftDelete, Commit, Return
<1>2. Spec => [][Next]_vars
  BY DEF Spec
<1> QED BY <1>1, <1>2, BranchesInvariant, PTL DEF DeletedBranchStays

---------------------------------------------------------------------------
(* The calls on user_branches. *)

\* Nobody has given the user a branch, nor is about to.
Untouched(w) ==
    /\ sync[w].user \notin Users
    /\ \A i \in RowIds : ub[i] # NoRow => ub[i].user # sync[w].user
    /\ \A x \in Clerks \ {w} : sync[x] # NoCall => sync[x].user # sync[w].user

SyncShape(w) ==
    /\ step[w] = "idle" <=> sync[w] = NoCall
    /\ step[w] # "idle" =>
          /\ sync[w].adds \subseteq sync[w].desired
          /\ \A b \in sync[w].desired : branches[b] # NoRow /\ InScope(b, sync[w].scope)
          /\ \A i \in sync[w].current : ub[i] # NoRow /\ ub[i].user = sync[w].user
          /\ step[w] = "commit" => sync[w].desired # {} /\ Untouched(w)

\* Branches the caller may not take away.
Kept(w) == {b \in sync[w].had : sync[w].scope # NoScope
                                /\ (b \notin LiveBranches \/ ~InScope(b, sync[w].scope))}

SoloAdd(w) ==
    LET k == sync[w] IN
    /\ k.current \subseteq RowsOf(k.user)
    /\ \A i \in k.current : i \in k.gone <=> ub[i].branch \notin LiveBranches
    /\ k.desired \subseteq k.adds \cup BranchesOf(k.user)
    /\ k.adds \cap BranchesOf(k.user) = {}
    /\ \A i \in RowsOf(k.user) : i \in k.current \/ ub[i].branch \in k.desired
    /\ Kept(w) \subseteq BranchesOf(k.user)
    /\ BranchesOf(k.user) \subseteq k.had \cup k.desired
    /\ k.adds # {} => k.had \subseteq BranchesOf(k.user)

SoloInv(w) ==
    solo[w] =>
        LET k == sync[w] IN
        /\ \A x \in Clerks \ {w} : step[x] \in {"idle", "done"}
        /\ step[w] \in {"read", "resolve", "commit"} => k.had = BranchesOf(k.user)
        /\ step[w] = "read" => k.adds = k.desired
        /\ step[w] = "resolve" => k.current = RowsOf(k.user) /\ k.adds = k.desired \ k.had
        /\ step[w] = "add" => SoloAdd(w)
        /\ step[w] = "done" => BranchesOf(k.user) = k.desired \cup Kept(w)

UOK ==
    /\ ub \in [RowIds -> UserRow \cup {NoRow}]
    /\ UniqueRows
    /\ sync \in [Clerks -> Sync \cup {NoCall}]
    /\ step \in [Clerks -> Steps]
    /\ solo \in [Clerks -> BOOLEAN]

UInv == UOK /\ \A w \in Clerks : SyncShape(w) /\ SoloInv(w)

LEMMA UInit == SyncInit => UInv
<1> SUFFICES ASSUME SyncInit PROVE UInv
  OBVIOUS
<1>1. LiveBranches \subseteq Ids
  BY DEF LiveBranches
<1>2. UOK
  BY <1>1 DEF SyncInit, UOK, UserRow, Steps
<1> QED BY <1>2 DEF SyncInit, UInv, SyncShape, SoloInv

LEMMA SyncFields ==
    ASSUME UInv, NEW w \in Clerks, step[w] # "idle"
    PROVE  /\ sync[w] \in Sync /\ sync[w] # NoCall
           /\ sync[w].user \in Users \cup NewUsers /\ sync[w].desired \subseteq Ids
           /\ sync[w].scope \in Scopes \cup {NoScope} /\ sync[w].adds \subseteq Ids
           /\ sync[w].current \subseteq RowIds /\ sync[w].gone \subseteq RowIds
           /\ sync[w].had \subseteq Ids
<1>1. sync[w] \in Sync
  BY NoSyncAssumption DEF UInv, UOK, SyncShape
<1> QED BY <1>1, NoSyncAssumption DEF Sync

LEMMA UserRows ==
    ASSUME UInv
    PROVE  /\ \A i \in RowIds : ub[i] # NoRow =>
                  ub[i] \in UserRow /\ ub[i].branch \in Ids /\ ub[i].deleted \in BOOLEAN
                  /\ ub[i].user \in Users \cup NewUsers
           /\ \A u : BranchesOf(u) \subseteq Ids /\ RowsOf(u) \subseteq RowIds
BY DEF UInv, UOK, UserRow, BranchesOf, RowsOf, HeldRow

\* The branches only gain rows, and no branch changes its company.
LEMMA BGrows ==
    ASSUME BInv, BranchNext
    PROVE  Grows
<1> SUFFICES ASSUME NEW i \in Ids, branches[i] # NoRow
             PROVE  branches'[i] # NoRow /\ branches'[i].company = branches[i].company
  BY DEF Grows
<1>1. branches \in [Ids -> Row \cup {NoRow}] /\ branches[i] \in Row
  BY Parts
<1>2. PICK a \in Admins : Ask(a) \/ Statement(a) \/ Answer(a) \/ Fail(a)
  BY DEF BranchNext
<1>3. CASE branches' = branches
  BY <1>3
<1>4. CASE Clear(a)
  <2>1. branches'[i] = branches[i] \/ branches'[i] = [branches[i] EXCEPT !.default = FALSE]
    BY <1>4 DEF Clear
  <2>2. [branches[i] EXCEPT !.default = FALSE] \in Row
    BY <1>1 DEF Row
  <2> QED BY <1>1, <2>1, <2>2 DEF Row
<1>5. CASE Insert(a)
  BY <1>1, <1>5 DEF Insert, Commit
<1>6. CASE Write(a)
  <2>1. Content(a) /\ Target(a)
    BY <1>6, CallFields
       DEF Write, BInv, CallInv, CallShape, CreateShape, UpdateShape, DeleteShape
  <2> QED BY <1>1, <1>6, <2>1 DEF Write, Commit, Content, Target
<1>7. CASE SoftDelete(a)
  <2>1. branches'[i] = branches[i] \/ branches'[i] = [branches[i] EXCEPT !.deleted = TRUE]
    BY <1>1, <1>7 DEF SoftDelete
  <2>2. [branches[i] EXCEPT !.deleted = TRUE] \in Row
    BY <1>1 DEF Row
  <2> QED BY <1>1, <2>1, <2>2 DEF Row
<1> QED BY <1>2, <1>3, <1>4, <1>5, <1>6, <1>7
        DEF Ask, BeginCreate, BeginUpdate, BeginDelete, Begin, Statement, Generate, GenerateFails,
            InsertRefused, WriteRefused, Answer, Fail, Return

LEMMA UBranchStep ==
    ASSUME BInv, UInv, BranchStep
    PROVE  UInv'
<1>1. /\ ub' = ub /\ sync' = sync /\ step' = step /\ Grows
      /\ solo' = [w \in Clerks |-> solo[w] /\ branches' = branches]
  BY BGrows DEF BranchStep
<1>2. UOK'
  <2>1. UniqueRows'
    BY <1>1 DEF UInv, UOK, UniqueRows, HeldRow
  <2>2. solo' \in [Clerks -> BOOLEAN]
    BY <1>1 DEF UInv, UOK
  <2> QED BY <1>1, <2>1, <2>2 DEF UInv, UOK
<1>3. ASSUME NEW w \in Clerks PROVE SyncShape(w)'
  BY <1>1, SyncFields DEF UInv, SyncShape, Untouched, InScope, Grows
<1>4. ASSUME NEW w \in Clerks PROVE SoloInv(w)'
  <2>1. CASE branches' = branches
    <3>1. solo'[w] = solo[w] /\ SoloInv(w)
      BY <1>1, <2>1 DEF UInv, UOK
    <3>2. \A u : BranchesOf(u)' = BranchesOf(u) /\ RowsOf(u)' = RowsOf(u)
      BY <1>1 DEF BranchesOf, RowsOf, HeldRow
    <3>3. LiveBranches' = LiveBranches /\ Kept(w)' = Kept(w)
      BY <1>1, <2>1 DEF LiveBranches, Kept, InScope
    <3>4. SoloAdd(w)' <=> SoloAdd(w)
      BY <1>1, <3>2, <3>3 DEF SoloAdd
    <3> QED BY <1>1, <3>1, <3>2, <3>3, <3>4 DEF SoloInv
  <2>2. CASE branches' # branches
    BY <1>1, <2>2 DEF SoloInv
  <2> QED BY <2>1, <2>2
<1> QED BY <1>2, <1>3, <1>4 DEF UInv

---------------------------------------------------------------------------
(* The step of a call on user_branches, and what it means to the others. *)

\* Only rows of the user of the call change.
OwnRows(w) ==
    \A i \in RowIds : ub'[i] # ub[i] =>
        /\ ub'[i] # NoRow /\ ub'[i].user = sync[w].user
        /\ ub[i] # NoRow => ub[i].user = sync[w].user

LEMMA USync ==
    ASSUME UInv, NEW w \in Clerks, UOK', branches' = branches,
           OwnRows(w) \/ ub' = ub, ub' # ub => step[w] # "idle",
           \A v \in Clerks \ {w} : sync'[v] = sync[v] /\ step'[v] = step[v] /\ (solo'[v] => solo[v]),
           \A v \in Clerks \ {w} : solo'[v] => step[w] \in {"idle", "done"} /\ ub' = ub
                                            /\ step'[w] \in {"idle", "done"},
           \A v \in Clerks \ {w} : sync'[w] # NoCall /\ step[v] = "commit"
                                   => sync'[w].user # sync[v].user,
           SyncShape(w)', SoloInv(w)'
    PROVE  UInv'
<1> SUFFICES ASSUME NEW v \in Clerks \ {w} PROVE SyncShape(v)' /\ SoloInv(v)'
  BY DEF UInv
<1>1. SyncShape(v) /\ SoloInv(v)
  BY DEF UInv
<1>2. SyncShape(v)'
  <2>1. ASSUME step[v] = "commit" PROVE Untouched(v)'
    <3>1. Untouched(v)
      BY <1>1, <2>1 DEF SyncShape
    <3>2. ASSUME NEW i \in RowIds, ub'[i] # NoRow PROVE ub'[i].user # sync[v].user
      <4>1. CASE ub'[i] = ub[i]
        BY <3>1, <3>2, <4>1 DEF Untouched
      <4>2. CASE ub'[i] # ub[i]
        <5>1. ub' # ub /\ ub'[i].user = sync[w].user /\ step[w] # "idle"
          BY <4>2 DEF OwnRows
        <5>2. sync[w] # NoCall
          BY <5>1, SyncFields
        <5> QED BY <3>1, <5>1, <5>2 DEF Untouched
      <4> QED BY <4>1, <4>2
    <3> QED BY <2>1, <3>1, <3>2 DEF Untouched
  <2>2. \A b, s : InScope(b, s)' <=> InScope(b, s)
    BY DEF InScope
  <2>3. \A i \in RowIds : ub[i] # NoRow => ub'[i] # NoRow /\ ub'[i].user = ub[i].user
    BY DEF OwnRows
  <2>4. step[v] # "idle" => sync[v].current \subseteq RowIds
    BY SyncFields
  <2> QED BY <1>1, <2>1, <2>2, <2>3, <2>4 DEF SyncShape
<1>3. SoloInv(v)'
  <2> SUFFICES ASSUME solo'[v] PROVE SoloInv(v)'
    BY DEF SoloInv
  <2>1. ub' = ub /\ sync'[v] = sync[v] /\ step'[v] = step[v] /\ solo[v]
    OBVIOUS
  <2>2. \A u : BranchesOf(u)' = BranchesOf(u) /\ RowsOf(u)' = RowsOf(u)
    BY <2>1 DEF BranchesOf, RowsOf, HeldRow
  <2>3. LiveBranches' = LiveBranches /\ Kept(v)' = Kept(v)
    BY <2>1 DEF LiveBranches, Kept, InScope
  <2>4. SoloAdd(v)' <=> SoloAdd(v)
    BY <2>1, <2>2, <2>3 DEF SoloAdd
  <2>5. \A x \in Clerks \ {v} : step'[x] \in {"idle", "done"}
    BY <1>1, <2>1 DEF SoloInv
  <2> QED BY <1>1, <2>1, <2>2, <2>3, <2>4, <2>5 DEF SoloInv
<1> QED BY <1>2, <1>3

LEMMA UBegin ==
    ASSUME UInv, NEW w \in Clerks, NEW l \in {"read", "commit"}, NEW u \in Users \cup NewUsers,
           NEW desired \in SUBSET Ids, NEW scope \in Scopes \cup {NoScope},
           BeginSync(w, l, u, desired, scope), branches' = branches,
           l = "read" => u \in Users \cup Existing,
           l = "commit" => /\ desired # {} /\ u \in NewUsers \ Existing
                           /\ \A x \in Clerks : sync[x] # NoCall => sync[x].user # u
    PROVE  UInv'
<1> DEFINE k == [user |-> u, desired |-> desired, scope |-> scope, adds |-> desired,
                 current |-> {}, gone |-> {}, had |-> BranchesOf(u)]
<1>1. /\ step[w] = "idle" /\ ub' = ub /\ Valid(desired, scope)
      /\ step' = [step EXCEPT ![w] = l] /\ sync' = [sync EXCEPT ![w] = k]
      /\ solo' = [v \in Clerks |-> v = w /\ \A x \in Clerks \ {w} : step[x] \in {"idle", "done"}]
  BY DEF BeginSync
<1>2. k \in Sync /\ k # NoCall
  BY UserRows, NoSyncAssumption DEF Sync
<1>3. /\ k.user = u /\ k.desired = desired /\ k.scope = scope /\ k.adds = desired
      /\ k.had = BranchesOf(u) /\ k.current = {}
  OBVIOUS
<1> HIDE DEF k
<1>4. sync'[w] = k /\ step'[w] = l /\ \A v \in Clerks \ {w} :
         sync'[v] = sync[v] /\ step'[v] = step[v] /\ ~solo'[v]
  BY <1>1 DEF UInv, UOK
<1>5. UOK'
  <2>1. UniqueRows'
    BY <1>1 DEF UInv, UOK, UniqueRows, HeldRow
  <2>2. solo' \in [Clerks -> BOOLEAN]
    BY <1>1
  <2> QED BY <1>1, <1>2, <2>1, <2>2 DEF UInv, UOK, Steps
<1>6. \A v \in Clerks \ {w} : step[v] = "commit" => u # sync[v].user
  <2> SUFFICES ASSUME NEW v \in Clerks \ {w}, step[v] = "commit" PROVE u # sync[v].user
    OBVIOUS
  <2>1. Untouched(v) /\ sync[v] # NoCall
    BY DEF UInv, SyncShape
  <2> QED BY <2>1 DEF Untouched, Existing
<1>7. SyncShape(w)'
  <2>1. \A b \in desired : branches[b] # NoRow /\ InScope(b, scope)
    BY <1>1 DEF Valid, LiveBranches, Held
  <2>2. l = "commit" => Untouched(w)'
    BY <1>1, <1>3, <1>4, UsersAssumption DEF Untouched, Existing
  <2> QED BY <1>2, <1>3, <1>4, <2>1, <2>2 DEF SyncShape, InScope
<1>8. SoloInv(w)'
  BY <1>1, <1>3, <1>4 DEF SoloInv, BranchesOf, RowsOf, HeldRow
<1> QED BY <1>1, <1>3, <1>4, <1>5, <1>6, <1>7, <1>8, USync

\* A step of a call that is neither its beginning nor its end.
LEMMA UMove ==
    ASSUME UInv, NEW w \in Clerks, step[w] \notin {"idle", "done"}, NEW l \in Steps \ {"commit", "idle"},
           NEW k \in Sync, k.user = sync[w].user, k.desired = sync[w].desired,
           k.scope = sync[w].scope, k.adds \subseteq sync[w].adds,
           \A i \in k.current : ub[i] # NoRow /\ ub[i].user = sync[w].user,
           step' = [step EXCEPT ![w] = l], sync' = [sync EXCEPT ![w] = k], solo' = solo,
           branches' = branches, OwnRows(w) \/ ub' = ub,
           ub' \in [RowIds -> UserRow \cup {NoRow}], UniqueRows', SoloInv(w)'
    PROVE  UInv'
<1>1. sync'[w] = k /\ step'[w] = l /\ \A v \in Clerks \ {w} :
         sync'[v] = sync[v] /\ step'[v] = step[v]
  BY DEF UInv, UOK
<1>2. UOK'
  BY DEF UInv, UOK
<1>3. SyncShape(w) /\ sync[w] # NoCall /\ k # NoCall
  BY NoSyncAssumption, SyncFields DEF UInv
<1>4. SyncShape(w)'
  <2>1. \A i \in RowIds : ub[i] # NoRow /\ ub[i].user = sync[w].user
                         => ub'[i] # NoRow /\ ub'[i].user = sync[w].user
    BY DEF OwnRows
  <2>2. k.current \subseteq RowIds
    BY DEF Sync
  <2> QED BY <1>1, <1>3, <2>1, <2>2 DEF SyncShape, InScope
<1>5. \A v \in Clerks \ {w} : ~solo'[v]
  BY DEF UInv, SoloInv
<1>6. \A v \in Clerks \ {w} : step[v] = "commit" => k.user # sync[v].user
  BY <1>3 DEF UInv, SyncShape, Untouched
<1> QED BY <1>1, <1>2, <1>4, <1>5, <1>6, USync

LEMMA SoloParts ==
    ASSUME UInv, NEW w \in Clerks, solo[w]
    PROVE  /\ \A x \in Clerks \ {w} : step[x] \in {"idle", "done"}
           /\ step[w] \in {"read", "resolve", "commit"} => sync[w].had = BranchesOf(sync[w].user)
           /\ step[w] = "read" => sync[w].adds = sync[w].desired
           /\ step[w] = "resolve" => /\ sync[w].current = RowsOf(sync[w].user)
                                     /\ sync[w].adds = sync[w].desired \ sync[w].had
           /\ step[w] = "add" => SoloAdd(w)
           /\ step[w] = "done" => BranchesOf(sync[w].user) = sync[w].desired \cup Kept(w)
BY DEF UInv, SoloInv

LEMMA UReadCurrent ==
    ASSUME UInv, NEW w \in Clerks, ReadCurrent(w), branches' = branches
    PROVE  UInv'
<1> DEFINE k == sync[w]
           rows == RowsOf(k.user)
           adds == k.adds \ BranchesOf(k.user)
           m == [k EXCEPT !.current = rows, !.adds = adds]
<1>1. /\ step[w] = "read" /\ ub' = ub /\ sync' = [sync EXCEPT ![w] = m]
      /\ step' = [step EXCEPT ![w] = "resolve"] /\ solo' = solo
  BY DEF ReadCurrent, To
<1>2. k \in Sync /\ rows \subseteq RowIds /\ adds \subseteq k.adds /\ adds \subseteq Ids
  BY <1>1, SyncFields, UserRows
<1>3. /\ m \in Sync /\ m.user = k.user /\ m.desired = k.desired /\ m.scope = k.scope
      /\ m.adds = adds /\ m.current = rows /\ m.had = k.had
  <2> HIDE DEF k, rows, adds
  <2> QED BY <1>2 DEF Sync
<1> HIDE DEF m
<1>4. UniqueRows' /\ ub' \in [RowIds -> UserRow \cup {NoRow}]
  BY <1>1 DEF UInv, UOK, UniqueRows, HeldRow
<1>5. sync'[w] = m /\ step'[w] = "resolve" /\ \A v \in Clerks \ {w} : step'[v] = step[v]
  BY <1>1 DEF UInv, UOK
<1>6. SoloInv(w)'
  BY <1>1, <1>3, <1>5, SoloParts DEF SoloInv, BranchesOf, RowsOf, HeldRow
<1>7. \A i \in m.current : ub[i] # NoRow /\ ub[i].user = k.user
  BY <1>3 DEF RowsOf, HeldRow
<1> QED BY <1>1, <1>2, <1>3, <1>4, <1>6, <1>7, UMove DEF Steps

LEMMA UResolve ==
    ASSUME UInv, NEW w \in Clerks, Resolve(w), branches' = branches
    PROVE  UInv'
<1> DEFINE k == sync[w]
           gone == {i \in k.current : ub[i].branch \notin LiveBranches}
           m == [k EXCEPT !.gone = gone]
<1>1. /\ step[w] = "resolve" /\ ub' = ub /\ sync' = [sync EXCEPT ![w] = m]
      /\ step' = [step EXCEPT ![w] = "add"] /\ solo' = solo
  BY DEF Resolve, To
<1>2. k \in Sync /\ gone \subseteq RowIds
  BY <1>1, SyncFields
<1>3. /\ m \in Sync /\ m.user = k.user /\ m.desired = k.desired /\ m.scope = k.scope
      /\ m.adds = k.adds /\ m.current = k.current /\ m.had = k.had /\ m.gone = gone
  <2> HIDE DEF k, gone
  <2> QED BY <1>2 DEF Sync
<1> HIDE DEF m
<1>4. UniqueRows' /\ ub' \in [RowIds -> UserRow \cup {NoRow}]
  BY <1>1 DEF UInv, UOK, UniqueRows, HeldRow
<1>5. sync'[w] = m /\ step'[w] = "add" /\ \A v \in Clerks \ {w} : step'[v] = step[v]
  BY <1>1 DEF UInv, UOK
<1>6. SoloInv(w)'
  <2> SUFFICES ASSUME solo[w] PROVE SoloInv(w)'
    BY <1>1 DEF SoloInv
  <2>1. /\ k.had = BranchesOf(k.user) /\ k.current = RowsOf(k.user) /\ k.adds = k.desired \ k.had
        /\ \A x \in Clerks \ {w} : step[x] \in {"idle", "done"}
    BY <1>1, SoloParts
  <2>2. \A u : BranchesOf(u)' = BranchesOf(u) /\ RowsOf(u)' = RowsOf(u)
    BY <1>1 DEF BranchesOf, RowsOf, HeldRow
  <2>3. LiveBranches' = LiveBranches /\ Kept(w)' = Kept(w)
    BY <1>3, <1>5 DEF LiveBranches, Kept, InScope
  <2>4. SoloAdd(w)'
    BY <1>1, <1>3, <1>5, <2>1, <2>2, <2>3 DEF SoloAdd, Kept
  <2> QED BY <1>5, <2>1, <2>4 DEF SoloInv
<1>7. \A i \in m.current : ub[i] # NoRow /\ ub[i].user = k.user
  BY <1>1, <1>3 DEF UInv, SyncShape
<1> QED BY <1>1, <1>2, <1>3, <1>4, <1>6, <1>7, UMove DEF Steps

LEMMA UAdd ==
    ASSUME UInv, NEW w \in Clerks, Add(w), branches' = branches
    PROVE  UInv'
<1> DEFINE k == sync[w]
<1>1. /\ step[w] = "add" /\ step' = step /\ solo' = solo
      /\ \E b \in k.adds : /\ \E i \in RowIds : InsertRow(w, b, i)
                           /\ sync' = [sync EXCEPT ![w].adds = @ \ {b}]
  BY DEF Add
<1>2. PICK b \in k.adds : /\ \E i \in RowIds : InsertRow(w, b, i)
                          /\ sync' = [sync EXCEPT ![w].adds = @ \ {b}]
  BY <1>1
<1>3. PICK i \in RowIds : InsertRow(w, b, i)
  BY <1>2
<1> DEFINE adds == k.adds \ {b}
           m == [k EXCEPT !.adds = adds]
           row == [user |-> k.user, branch |-> b, deleted |-> FALSE]
<1>4. /\ k \in Sync /\ adds \subseteq k.adds /\ adds \subseteq Ids /\ b \in Ids
      /\ k.user \in Users \cup NewUsers
  BY <1>1, SyncFields
<1>5. /\ m \in Sync /\ m.user = k.user /\ m.desired = k.desired /\ m.scope = k.scope
      /\ m.adds = adds /\ m.current = k.current /\ m.had = k.had /\ m.gone = k.gone
  <2> HIDE DEF k, adds
  <2> QED BY <1>4 DEF Sync
<1>6. sync' = [sync EXCEPT ![w] = m]
  BY <1>2
<1>7. /\ ub[i] = NoRow /\ b \notin BranchesOf(k.user) /\ ub' = [ub EXCEPT ![i] = row]
  BY <1>3 DEF InsertRow
<1>8. row \in UserRow /\ row # NoRow /\ row.user = k.user /\ row.branch = b /\ ~row.deleted
  <2>1. row \in UserRow
    BY <1>4 DEF UserRow
  <2>2. row # NoRow
    BY <2>1, NoUserRowAssumption
  <2> QED BY <2>1, <2>2
<1> HIDE DEF m, row
<1>9. /\ ub' \in [RowIds -> UserRow \cup {NoRow}] /\ ub'[i] = row
      /\ \A j \in RowIds \ {i} : ub'[j] = ub[j]
  BY <1>7, <1>8 DEF UInv, UOK
<1>10. OwnRows(w)
  BY <1>7, <1>8, <1>9 DEF OwnRows
<1>11. ASSUME NEW u PROVE /\ RowsOf(u)' = RowsOf(u) \cup (IF u = k.user THEN {i} ELSE {})
                          /\ i \notin RowsOf(u)
  BY <1>7, <1>8, <1>9 DEF RowsOf, HeldRow
<1>12. UniqueRows'
  <2> SUFFICES ASSUME NEW p \in RowIds, NEW q \in RowIds, p # q, HeldRow(p)', HeldRow(q)',
                      ub'[p].user = ub'[q].user, ub'[p].branch = ub'[q].branch
               PROVE  FALSE
    BY DEF UniqueRows
  <2>1. CASE p # i /\ q # i
    BY <1>9, <2>1 DEF UInv, UOK, UniqueRows, HeldRow
  <2>2. ASSUME NEW j \in RowIds \ {i}, HeldRow(j)', ub'[j].user = k.user PROVE ub'[j].branch # b
    BY <1>7, <1>9, <2>2 DEF BranchesOf, RowsOf, HeldRow
  <2> QED BY <1>8, <1>9, <2>1, <2>2
<1>13. ASSUME NEW u, u = k.user PROVE BranchesOf(u)' = BranchesOf(u) \cup {b}
  <2>1. \A j \in RowsOf(u) : ub'[j] = ub[j]
    BY <1>9, <1>11 DEF RowsOf
  <2> QED BY <1>8, <1>9, <1>11, <1>13, <2>1 DEF BranchesOf
<1>14. sync'[w] = m /\ step'[w] = "add" /\ \A v \in Clerks \ {w} : step'[v] = step[v]
  BY <1>1, <1>6 DEF UInv, UOK
<1>15. SoloInv(w)'
  <2> SUFFICES ASSUME solo[w] PROVE SoloInv(w)'
    BY <1>1 DEF SoloInv
  <2>1. SoloAdd(w) /\ \A x \in Clerks \ {w} : step[x] \in {"idle", "done"}
    BY <1>1, SoloParts
  <2>2. LiveBranches' = LiveBranches /\ Kept(w)' = Kept(w)
    BY <1>5, <1>14 DEF LiveBranches, Kept, InScope
  <2>3. b \in k.desired /\ \A j \in RowsOf(k.user) : ub'[j] = ub[j] /\ j # i
    BY <1>1, <1>9, <1>11 DEF UInv, SyncShape, RowsOf
  <2>4. PICK u : u = k.user
    OBVIOUS
  <2>5. /\ m.current \subseteq RowsOf(u)'
        /\ \A j \in m.current : j \in m.gone <=> ub'[j].branch \notin LiveBranches'
        /\ \A j \in RowsOf(u)' : j \in m.current \/ ub'[j].branch \in m.desired
    BY <1>5, <1>8, <1>9, <1>11, <2>1, <2>2, <2>3, <2>4 DEF SoloAdd
  <2>6. /\ m.desired \subseteq m.adds \cup BranchesOf(u)'
        /\ m.adds \cap BranchesOf(u)' = {}
        /\ Kept(w)' \subseteq BranchesOf(u)'
        /\ BranchesOf(u)' \subseteq m.had \cup m.desired
        /\ m.adds # {} => m.had \subseteq BranchesOf(u)'
    BY <1>5, <1>13, <2>1, <2>2, <2>3, <2>4 DEF SoloAdd
  <2>7. SoloAdd(w)'
    BY <1>5, <1>14, <2>4, <2>5, <2>6 DEF SoloAdd
  <2> QED BY <1>14, <2>1, <2>7 DEF SoloInv
<1>16. step' = [step EXCEPT ![w] = "add"]
  BY <1>1 DEF UInv, UOK
<1>17. \A j \in m.current : ub[j] # NoRow /\ ub[j].user = k.user
  BY <1>1, <1>5 DEF UInv, SyncShape
<1> QED BY <1>1, <1>4, <1>5, <1>6, <1>9, <1>10, <1>12, <1>15, <1>16, <1>17, UMove DEF Steps

LEMMA URemove ==
    ASSUME UInv, NEW w \in Clerks, Remove(w), branches' = branches
    PROVE  UInv'
<1> DEFINE k == sync[w]
<1>1. step[w] = "add" /\ step' = step /\ solo' = solo /\ k.adds = {}
  BY DEF Remove, Added
<1>2. PICK i \in Extras(w) : /\ ub' = [ub EXCEPT ![i].deleted = TRUE]
                             /\ sync' = [sync EXCEPT ![w].current = @ \ {i}]
  BY DEF Remove
<1> DEFINE current == k.current \ {i}
           m == [k EXCEPT !.current = current]
           row == [ub[i] EXCEPT !.deleted = TRUE]
<1>3. k \in Sync /\ current \subseteq RowIds /\ i \in k.current /\ i \in RowIds
  BY <1>1, SyncFields DEF Extras
<1>4. /\ m \in Sync /\ m.user = k.user /\ m.desired = k.desired /\ m.scope = k.scope
      /\ m.adds = k.adds /\ m.current = current /\ m.had = k.had /\ m.gone = k.gone
  <2> HIDE DEF k, current
  <2> QED BY <1>3 DEF Sync
<1>5. sync' = [sync EXCEPT ![w] = m]
  BY <1>2
<1> HIDE DEF m
<1>6. sync'[w] = m /\ step'[w] = "add" /\ \A v \in Clerks \ {w} : step'[v] = step[v]
  BY <1>1, <1>5 DEF UInv, UOK
<1>7. step' = [step EXCEPT ![w] = "add"]
  BY <1>1 DEF UInv, UOK
<1>8. \A j \in k.current : ub[j] # NoRow /\ ub[j].user = k.user
  BY <1>1 DEF UInv, SyncShape
<1>9. /\ row \in UserRow /\ row.user = k.user /\ row.branch = ub[i].branch /\ row.deleted
      /\ row # NoRow
  <2>1. ub[i] \in UserRow
    BY <1>3, <1>8, UserRows
  <2>2. row \in UserRow /\ row.user = ub[i].user /\ row.branch = ub[i].branch /\ row.deleted
    BY <2>1 DEF UserRow
  <2> HIDE DEF row
  <2> QED BY <1>3, <1>8, <2>2, NoUserRowAssumption
<1>10. ub' = [ub EXCEPT ![i] = row]
  BY <1>2
<1> HIDE DEF row
<1>11. /\ ub' \in [RowIds -> UserRow \cup {NoRow}] /\ ub'[i] = row
       /\ \A j \in RowIds \ {i} : ub'[j] = ub[j]
  BY <1>3, <1>9, <1>10 DEF UInv, UOK
<1>12. OwnRows(w)
  BY <1>3, <1>8, <1>9, <1>11 DEF OwnRows
<1>13. UniqueRows'
  BY <1>9, <1>11 DEF UInv, UOK, UniqueRows, HeldRow
<1>14. SoloInv(w)'
  <2> SUFFICES ASSUME solo[w] PROVE SoloInv(w)'
    BY <1>1 DEF SoloInv
  <2>1. SoloAdd(w) /\ \A x \in Clerks \ {w} : step[x] \in {"idle", "done"}
    BY <1>1, SoloParts
  <2>2. LiveBranches' = LiveBranches /\ Kept(w)' = Kept(w)
    BY <1>4, <1>6 DEF LiveBranches, Kept, InScope
  <2>3. PICK u : u = k.user
    OBVIOUS
  <2>4. i \in RowsOf(u) /\ RowsOf(u)' = RowsOf(u) \ {i}
    BY <1>3, <1>9, <1>11, <2>1, <2>3 DEF SoloAdd, RowsOf, HeldRow
  <2>5. \A j \in RowsOf(u) \ {i} : ub'[j] = ub[j] /\ ub[j].branch # ub[i].branch
    BY <1>11, <2>4 DEF UInv, UOK, UniqueRows, RowsOf
  <2>6. BranchesOf(u)' = BranchesOf(u) \ {ub[i].branch}
    BY <2>4, <2>5 DEF BranchesOf
  <2>7. ub[i].branch \notin k.desired /\ ub[i].branch \notin Kept(w)
    BY <1>2, <1>3, <2>1 DEF SoloAdd, Extras, Kept
  <2>8. /\ m.current \subseteq RowsOf(u)'
        /\ \A j \in m.current : j \in m.gone <=> ub'[j].branch \notin LiveBranches'
        /\ \A j \in RowsOf(u)' : j \in m.current \/ ub'[j].branch \in m.desired
    BY <1>3, <1>4, <2>1, <2>2, <2>3, <2>4, <2>5 DEF SoloAdd
  <2>9. /\ m.desired \subseteq BranchesOf(u)' /\ m.adds = {}
        /\ Kept(w)' \subseteq BranchesOf(u)'
        /\ BranchesOf(u)' \subseteq m.had \cup m.desired
    BY <1>1, <1>4, <2>1, <2>2, <2>3, <2>6, <2>7 DEF SoloAdd
  <2>10. SoloAdd(w)'
    BY <1>4, <1>6, <2>3, <2>8, <2>9 DEF SoloAdd
  <2> QED BY <1>6, <2>1, <2>10 DEF SoloInv
<1>15. \A j \in m.current : ub[j] # NoRow /\ ub[j].user = k.user
  BY <1>4, <1>8
<1> QED BY <1>1, <1>4, <1>5, <1>7, <1>11, <1>12, <1>13, <1>14, <1>15, UMove DEF Steps

LEMMA UFinishSync ==
    ASSUME UInv, NEW w \in Clerks, FinishSync(w), branches' = branches
    PROVE  UInv'
<1> DEFINE k == sync[w]
<1>1. /\ step[w] = "add" /\ k.adds = {} /\ Extras(w) = {} /\ ub' = ub /\ sync' = sync
      /\ step' = [step EXCEPT ![w] = "done"] /\ solo' = solo
  BY DEF FinishSync, To
<1>2. k \in Sync /\ sync' = [sync EXCEPT ![w] = k]
  BY <1>1, SyncFields DEF UInv, UOK
<1>3. UniqueRows' /\ ub' \in [RowIds -> UserRow \cup {NoRow}]
  BY <1>1 DEF UInv, UOK, UniqueRows, HeldRow
<1>4. SoloInv(w)'
  <2> SUFFICES ASSUME solo[w] PROVE SoloInv(w)'
    BY <1>1 DEF SoloInv
  <2>1. SoloAdd(w) /\ \A x \in Clerks \ {w} : step[x] \in {"idle", "done"}
    BY <1>1, SoloParts
  <2>2. BranchesOf(k.user) \subseteq k.desired \cup Kept(w)
    <3> SUFFICES ASSUME NEW i \in RowsOf(k.user), ub[i].branch \notin k.desired
                 PROVE  ub[i].branch \in Kept(w)
      BY DEF BranchesOf
    <3>1. i \in k.current /\ ub[i].branch \in k.had
      BY <2>1 DEF SoloAdd, BranchesOf
    <3>2. i \notin Extras(w)
      BY <1>1
    <3> QED BY <2>1, <3>1, <3>2 DEF SoloAdd, Extras, Kept
  <2>3. BranchesOf(k.user) = k.desired \cup Kept(w)
    BY <1>1, <2>1, <2>2 DEF SoloAdd
  <2>4. \A u : BranchesOf(u)' = BranchesOf(u)
    BY <1>1 DEF BranchesOf, RowsOf, HeldRow
  <2>5. Kept(w)' = Kept(w)
    BY <1>1 DEF Kept, LiveBranches, InScope
  <2>6. step'[w] = "done" /\ \A x \in Clerks \ {w} : step'[x] = step[x]
    BY <1>1 DEF UInv, UOK
  <2> QED BY <1>1, <2>1, <2>3, <2>4, <2>5, <2>6 DEF SoloInv
<1>5. \A i \in k.current : ub[i] # NoRow /\ ub[i].user = k.user
  BY <1>1 DEF UInv, SyncShape
<1> QED BY <1>1, <1>2, <1>3, <1>4, <1>5, UMove DEF Steps

LEMMA UCommitAssign ==
    ASSUME UInv, NEW w \in Clerks, CommitAssign(w), branches' = branches
    PROVE  UInv'
<1> DEFINE k == sync[w]
<1>1. /\ step[w] = "commit" /\ sync' = sync /\ step' = [step EXCEPT ![w] = "done"]
      /\ solo' = solo
  BY DEF CommitAssign, To
<1>2. PICK id \in [k.desired -> RowIds] :
         /\ \A b, d \in k.desired : id[b] = id[d] => b = d
         /\ \A b \in k.desired : ub[id[b]] = NoRow
         /\ ub' = [i \in RowIds |->
                     IF \E b \in k.desired : id[b] = i
                     THEN [user |-> k.user, deleted |-> FALSE,
                           branch |-> CHOOSE b \in k.desired : id[b] = i]
                     ELSE ub[i]]
  BY DEF CommitAssign
<1>3. /\ k \in Sync /\ k.desired \subseteq Ids /\ k.user \in Users \cup NewUsers
      /\ Untouched(w) /\ k.desired # {} /\ sync' = [sync EXCEPT ![w] = k]
  BY <1>1, SyncFields DEF UInv, UOK, SyncShape
<1> DEFINE row(b) == [user |-> k.user, deleted |-> FALSE, branch |-> b]
<1>4. ASSUME NEW b \in k.desired
      PROVE  /\ row(b) \in UserRow /\ row(b) # NoRow /\ row(b).user = k.user
             /\ row(b).branch = b /\ ~row(b).deleted
  <2>1. row(b) \in UserRow
    BY <1>3 DEF UserRow
  <2>2. row(b) # NoRow
    BY <2>1, NoUserRowAssumption
  <2> QED BY <2>1, <2>2
<1>5. ASSUME NEW b \in k.desired PROVE ub'[id[b]] = row(b) /\ id[b] \in RowIds
  <2>1. (CHOOSE d \in k.desired : id[d] = id[b]) = b
    BY <1>2
  <2> QED BY <1>2, <2>1
<1>6. ASSUME NEW i \in RowIds, \A b \in k.desired : id[b] # i PROVE ub'[i] = ub[i]
  BY <1>2, <1>6
<1> HIDE DEF row
<1>7. ub' \in [RowIds -> UserRow \cup {NoRow}]
  <2>1. ub' = [i \in RowIds |-> ub'[i]]
    BY <1>2
  <2>2. \A i \in RowIds : ub'[i] \in UserRow \cup {NoRow}
    BY <1>4, <1>5, <1>6 DEF UInv, UOK
  <2> QED BY <2>1, <2>2
<1>8. OwnRows(w)
  <2> SUFFICES ASSUME NEW i \in RowIds, ub'[i] # ub[i]
               PROVE  ub'[i] # NoRow /\ ub'[i].user = k.user /\ ub[i] = NoRow
    BY DEF OwnRows
  <2>1. PICK b \in k.desired : id[b] = i
    BY <1>6
  <2> QED BY <1>2, <1>4, <1>5, <2>1
<1>9. \A i \in RowIds : ub[i] # NoRow => ub[i].user # k.user
  BY <1>3 DEF Untouched
<1>10. UniqueRows'
  <2> SUFFICES ASSUME NEW p \in RowIds, NEW q \in RowIds, p # q, HeldRow(p)', HeldRow(q)',
                      ub'[p].user = ub'[q].user, ub'[p].branch = ub'[q].branch
               PROVE  FALSE
    BY DEF UniqueRows
  <2>1. CASE ub'[p] = ub[p] /\ ub'[q] = ub[q]
    BY <2>1 DEF UInv, UOK, UniqueRows, HeldRow
  <2>2. ub'[p].user = k.user
    BY <1>8, <2>1 DEF OwnRows
  <2>3. (\E b \in k.desired : p = id[b]) /\ (\E b \in k.desired : q = id[b])
    BY <1>6, <1>9, <2>2 DEF HeldRow
  <2> QED BY <1>4, <1>5, <2>3
<1>11. \A i \in k.current : ub[i] # NoRow /\ ub[i].user = k.user
  BY <1>1 DEF UInv, SyncShape
<1>12. SoloInv(w)'
  <2> SUFFICES ASSUME solo[w] PROVE SoloInv(w)'
    BY <1>1 DEF SoloInv
  <2>1. k.had = BranchesOf(k.user) /\ \A x \in Clerks \ {w} : step[x] \in {"idle", "done"}
    BY <1>1, SoloParts
  <2>2. k.had = {}
    BY <1>9, <2>1 DEF BranchesOf, RowsOf, HeldRow
  <2>3. PICK u : u = k.user
    OBVIOUS
  <2>4. ASSUME NEW i \in RowIds
        PROVE  i \in RowsOf(u)' <=> \E b \in k.desired : i = id[b]
    BY <1>4, <1>5, <1>6, <1>9, <2>3 DEF RowsOf, HeldRow
  <2>5. BranchesOf(u)' = k.desired
    <3>1. ASSUME NEW b \in k.desired PROVE b \in BranchesOf(u)'
      BY <1>4, <1>5, <2>4 DEF BranchesOf
    <3>2. ASSUME NEW i \in RowsOf(u)' PROVE ub'[i].branch \in k.desired
      BY <1>4, <1>5, <2>4 DEF RowsOf
    <3> QED BY <3>1, <3>2 DEF BranchesOf
  <2>6. Kept(w)' = {}
    BY <1>1, <2>2 DEF Kept
  <2>7. step'[w] = "done" /\ \A x \in Clerks \ {w} : step'[x] = step[x]
    BY <1>1 DEF UInv, UOK
  <2> QED BY <1>1, <2>1, <2>3, <2>5, <2>6, <2>7 DEF SoloInv
<1> QED BY <1>1, <1>3, <1>7, <1>8, <1>10, <1>11, <1>12, UMove DEF Steps

LEMMA UEndSync ==
    ASSUME UInv, NEW w \in Clerks, EndSync(w), branches' = branches
    PROVE  UInv'
<1>1. /\ ub' = ub /\ step' = [step EXCEPT ![w] = "idle"] /\ sync' = [sync EXCEPT ![w] = NoCall]
      /\ solo' = [solo EXCEPT ![w] = FALSE] /\ step[w] # "idle"
  BY DEF EndSync
<1>2. UOK'
  BY <1>1 DEF UInv, UOK, UniqueRows, HeldRow, Steps
<1>3. /\ sync'[w] = NoCall /\ step'[w] = "idle" /\ ~solo'[w]
      /\ \A v \in Clerks \ {w} : sync'[v] = sync[v] /\ step'[v] = step[v] /\ solo'[v] = solo[v]
  BY <1>1 DEF UInv, UOK
<1>4. \A v \in Clerks \ {w} : solo'[v] => step[w] \in {"idle", "done"}
  BY <1>3 DEF UInv, SoloInv
<1>5. SyncShape(w)' /\ SoloInv(w)'
  BY <1>3 DEF SyncShape, SoloInv
<1> QED BY <1>1, <1>2, <1>3, <1>4, <1>5, USync

Inv == BInv /\ UInv

LEMMA UNext ==
    ASSUME Inv, [Next]_vars
    PROVE  Inv'
<1>1. BInv'
  BY BNext DEF Inv
<1>2. CASE BranchStep
  BY <1>1, <1>2, UBranchStep DEF Inv
<1>3. CASE SyncNext /\ UNCHANGED <<branches, pc, call, alone>>
  <2>0. UInv /\ branches' = branches
    BY <1>3 DEF Inv
  <2>1. PICK w \in Clerks :
           \/ \E u \in Users \cup NewUsers, desired \in SUBSET Ids, scope \in Scopes \cup {NoScope} :
                 BeginSyncUserBranches(w, u, desired, scope) \/ BeginAssign(w, u, desired, scope)
           \/ ReadCurrent(w) \/ Resolve(w) \/ Add(w) \/ Remove(w) \/ FinishSync(w)
           \/ CommitAssign(w) \/ EndSync(w)
    BY <1>3 DEF SyncNext
  <2>2. ASSUME NEW u \in Users \cup NewUsers, NEW desired \in SUBSET Ids,
               NEW scope \in Scopes \cup {NoScope},
               BeginSyncUserBranches(w, u, desired, scope) \/ BeginAssign(w, u, desired, scope)
        PROVE  UInv'
    <3>1. CASE BeginSyncUserBranches(w, u, desired, scope)
      BY <2>0, <3>1, UBegin DEF BeginSyncUserBranches
    <3>2. CASE BeginAssign(w, u, desired, scope)
      BY <2>0, <3>2, UBegin DEF BeginAssign
    <3> QED BY <2>2, <3>1, <3>2
  <2>3. CASE ReadCurrent(w)
    BY <1>1, <2>0, <2>3, UReadCurrent DEF Inv
  <2>4. CASE Resolve(w)
    BY <1>1, <2>0, <2>4, UResolve DEF Inv
  <2>5. CASE Add(w)
    BY <1>1, <2>0, <2>5, UAdd DEF Inv
  <2>6. CASE Remove(w)
    BY <1>1, <2>0, <2>6, URemove DEF Inv
  <2>7. CASE FinishSync(w)
    BY <1>1, <2>0, <2>7, UFinishSync DEF Inv
  <2>8. CASE CommitAssign(w)
    BY <1>1, <2>0, <2>8, UCommitAssign DEF Inv
  <2>9. CASE EndSync(w)
    BY <1>1, <2>0, <2>9, UEndSync DEF Inv
  <2>10. UInv'
    BY <2>1, <2>2, <2>3, <2>4, <2>5, <2>6, <2>7, <2>8, <2>9 DEF Inv
  <2> QED BY <1>1, <2>10 DEF Inv
<1>4. CASE UNCHANGED vars
  <2>1. branches' = branches /\ ub' = ub /\ sync' = sync /\ step' = step /\ solo' = solo
    BY <1>4 DEF vars, branchVars, syncVars
  <2>2. UOK'
    BY <2>1 DEF Inv, UInv, UOK, UniqueRows, HeldRow
  <2>3. ASSUME NEW w \in Clerks PROVE SyncShape(w)' /\ SoloInv(w)'
    BY <2>1 DEF Inv, UInv, SyncShape, Untouched, InScope, SoloInv, SoloAdd, Kept, LiveBranches,
                BranchesOf, RowsOf, HeldRow
  <2> QED BY <1>1, <2>2, <2>3 DEF Inv, UInv
<1> QED BY <1>2, <1>3, <1>4 DEF Next

LEMMA UInvariant == Spec => []Inv
<1>1. Spec => Inv /\ [][Next]_vars
  BY BInit, UInit DEF Spec, SyncInit, Inv
<1>2. Inv /\ [Next]_vars => Inv'
  BY UNext
<1> QED BY <1>1, <1>2, PTL

\* Shape and the unique indexes of both tables.
THEOREM BranchesTypeOK == Spec => []TypeOK
<1>1. Inv => TypeOK
  BY DEF Inv, BInv, UInv, UOK, TypeOK
<1> QED BY <1>1, UInvariant, PTL

\* A call that nothing disturbed leaves the branches asked for, and those it may
\* not take away (SyncUserBranches, AssignUserToBranchesTx).
THEOREM SyncDelivers == Spec => []SoloSyncDelivers
<1>1. ASSUME Inv PROVE SoloSyncDelivers
  BY <1>1, SoloParts DEF Inv, SoloSyncDelivers, Kept
<1> QED BY <1>1, UInvariant, PTL

\* No call lets its user into a branch he neither had nor is given, not even
\* between two statements (additions come before removals).
THEOREM SyncNarrow == Spec => []NeverWidened
<1>1. ASSUME Inv PROVE NeverWidened
  <2> SUFFICES ASSUME NEW w \in Clerks, step[w] # "idle", solo[w], sync[w].had # {},
                      sync[w].desired # {}
               PROVE  /\ BranchesOf(sync[w].user) # {}
                      /\ BranchesOf(sync[w].user) \subseteq sync[w].had \cup sync[w].desired
    BY DEF NeverWidened, MayUse
  <2>1. step[w] \in {"read", "resolve", "commit", "add", "done"}
    BY <1>1 DEF Inv, UInv, UOK, Steps
  <2>2. CASE step[w] \in {"read", "resolve", "commit"}
    BY <1>1, <2>2, SoloParts DEF Inv
  <2>3. CASE step[w] = "add"
    BY <1>1, <2>3, SoloParts DEF Inv, SoloAdd
  <2>4. CASE step[w] = "done"
    BY <1>1, <2>4, SoloParts DEF Inv, Kept
  <2> QED BY <2>1, <2>2, <2>3, <2>4
<1> QED BY <1>1, UInvariant, PTL

\* A call bound to a scope neither gives nor takes a branch outside it
\* (validateBranches, the removal loop).
THEOREM SyncScoped == Spec => ScopeRespected
<1> DEFINE Scoped ==
    \A w \in Clerks, i \in RowIds :
        /\ sync[w] # NoCall /\ <<sync[w], step[w]>>' # <<sync[w], step[w]>>
        /\ ub'[i] # ub[i]
        /\ sync[w].scope # NoScope
        => InScope(ub'[i].branch, sync[w].scope)
<1>1. ASSUME Inv, [Next]_vars PROVE [Scoped]_vars
  <2> SUFFICES ASSUME NEW w \in Clerks, NEW i \in RowIds, sync[w] # NoCall,
                      <<sync[w], step[w]>>' # <<sync[w], step[w]>>, ub'[i] # ub[i],
                      sync[w].scope # NoScope
               PROVE  InScope(ub'[i].branch, sync[w].scope)
    OBVIOUS
  <2>1. /\ UInv /\ SyncShape(w) /\ step[w] # "idle" /\ ub \in [RowIds -> UserRow \cup {NoRow}]
        /\ \A b \in sync[w].desired : InScope(b, sync[w].scope)
        /\ sync[w].adds \subseteq sync[w].desired
    BY <1>1 DEF Inv, UInv, UOK, SyncShape
  <2>2. SyncNext
    BY <1>1 DEF Next, BranchStep, vars, syncVars
  <2>3. \A v \in Clerks \ {w} : ~(Add(v) \/ Remove(v) \/ CommitAssign(v))
    BY <2>1 DEF Add, Remove, CommitAssign, To, UInv, UOK
  <2>4. Add(w) \/ Remove(w) \/ CommitAssign(w)
    BY <2>2, <2>3 DEF SyncNext, BeginSyncUserBranches, BeginAssign, BeginSync, ReadCurrent,
                      Resolve, FinishSync, EndSync
  <2>5. CASE Add(w)
    <3>1. PICK b \in sync[w].adds : \E j \in RowIds : InsertRow(w, b, j)
      BY <2>5 DEF Add
    <3>2. PICK j \in RowIds : InsertRow(w, b, j)
      BY <3>1
    <3>3. ub' = [ub EXCEPT ![j] = [user |-> sync[w].user, branch |-> b, deleted |-> FALSE]]
      BY <3>2 DEF InsertRow
    <3>4. i = j
      BY <2>1, <3>3
    <3>5. ub'[i].branch = b
      BY <2>1, <3>3, <3>4
    <3>6. InScope(b, sync[w].scope)
      BY <2>1, <3>1
    <3> QED BY <3>5, <3>6
  <2>6. CASE Remove(w)
    <3>1. PICK j \in Extras(w) : ub' = [ub EXCEPT ![j].deleted = TRUE]
      BY <2>6 DEF Remove
    <3>2. i = j /\ ub[i] \in UserRow
      BY <2>1, <3>1, UserRows DEF SyncShape, Extras
    <3>3. ub'[i] = [ub[i] EXCEPT !.deleted = TRUE]
      BY <2>1, <3>1, <3>2
    <3>4. ub'[i].branch = ub[i].branch
      BY <3>2, <3>3 DEF UserRow
    <3> QED BY <3>1, <3>2, <3>4 DEF Extras
  <2>7. CASE CommitAssign(w)
    <3>1. PICK id \in [sync[w].desired -> RowIds] :
             ub' = [j \in RowIds |->
                      IF \E b \in sync[w].desired : id[b] = j
                      THEN [user |-> sync[w].user, deleted |-> FALSE,
                            branch |-> CHOOSE b \in sync[w].desired : id[b] = j]
                      ELSE ub[j]]
      BY <2>7 DEF CommitAssign
    <3>2. ub'[i].branch \in sync[w].desired
      BY <3>1
    <3> QED BY <2>1, <3>2
  <2> QED BY <2>4, <2>5, <2>6, <2>7
<1>2. Spec => [][Next]_vars
  BY DEF Spec
<1> QED BY <1>1, <1>2, UInvariant, PTL DEF ScopeRespected
=============================================================================
