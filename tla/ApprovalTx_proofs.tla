-------------------------- MODULE ApprovalTx_proofs --------------------------
(***************************************************************************)
(* The invariants of ApprovalTx for any number of overlapping transactions,*)
(* requests, documents and levels.                                         *)
(*                                                                         *)
(* A decision rests on a row read earlier, so nothing may be said of that  *)
(* row any more.  What carries the proof is what does not change (the      *)
(* snapshot, and that a level acted on is never pending again) and what    *)
(* the locks keep: one uncommitted version of a request row, and one       *)
(* waiting row, committed or not, on a document (Locks).                   *)
(***************************************************************************)
EXTENDS ApprovalTx, TLAPS

LevelOK(row) ==
    /\ row \in LevelRow
    /\ IF row.status \in {"approved", "rejected"}
       THEN row.actionBy \in row.eligible
       ELSE row.actionBy = NoUser

RowsOK(row, rows) ==
    /\ row \in RequestRow
    /\ rows \in [1 .. row.total -> LevelRow]
    /\ \A l \in 1 .. row.total : LevelOK(rows[l])
    /\ DecisionRecorded(row, rows) /\ NoneLeftPending(row, rows)

Committed(r) ==
    /\ req[r] = NoRow => lvl[r] = <<>>
    /\ req[r] # NoRow => RowsOK(req[r], lvl[r])

-----------------------------------------------------------------------------
(* One worker. *)

Deciding == {"markLevel", "skipRemaining", "updateStatus"}

\* Before its row is built, a transaction has written nothing; a request row
\* is written last.
Clean(w) ==
    /\ pc[w] = "idle" <=> call[w] = NoCall
    /\ wreq[w] # NoRow <=> pc[w] = "commit"
    /\ pc[w] \notin {"insertRequest", "commit", "skipRemaining", "updateStatus"}
       => wlvl[w] = <<>>

SubmitInv(w) ==
    LET r == call[w].req IN
    call[w].op = "Submit" =>
        /\ pc[w] \in {"findActiveByDoc", "findActive", "findLevels", "insertRequest",
                      "commit", "done"}
        /\ call[w].doc \in Docs
        /\ pc[w] # "done" => req[r] = NoRow
        /\ \A v \in Workers \ {w} : call[v] # NoCall /\ call[v].op = "Submit" => call[v].req # r
        /\ pc[w] \in {"insertRequest", "commit"} =>
              RowsOK(seen[w], wlvl[w]) /\ seen[w].doc = call[w].doc
        /\ pc[w] = "commit" => wreq[w] = seen[w]

\* The request and the snapshot the decision works on are still the ones read.
Read(w) ==
    LET r == call[w].req IN
    /\ req[r] # NoRow
    /\ seen[w] \in RequestRow /\ seen[w].total = req[r].total
    /\ seen[w].current \in 1 .. req[r].total
    /\ call[w].op # "Cancel" => call[w].user \in lvl[r][seen[w].current].eligible

\* The levels written were acted on, and keep their approvers.
Wrote(w) ==
    LET r == call[w].req IN
    /\ DOMAIN wlvl[w] \subseteq 1 .. req[r].total
    /\ \A l \in DOMAIN wlvl[w] :
          /\ LevelOK(wlvl[w][l])
          /\ wlvl[w][l].eligible = lvl[r][l].eligible
          /\ wlvl[w][l].status # "pending"

Acted(w, status) ==
    seen[w].current \in DOMAIN wlvl[w] /\ wlvl[w][seen[w].current].status = status

NothingPending(w) ==
    \A l \in 1 .. req[call[w].req].total :
        l \notin DOMAIN wlvl[w] => lvl[call[w].req][l].status # "pending"

SameRequest(row, old) ==
    /\ row.doc = old.doc /\ row.submittedBy = old.submittedBy
    /\ row.config = old.config /\ row.total = old.total
    /\ old.finalizedBy # NoUser => row.finalizedBy # NoUser

DecideInv(w) ==
    LET r == call[w].req
        op == call[w].op
    IN
    op # "Submit" =>
        /\ pc[w] \in Deciding \cup {"findByID", "commit", "done"}
        /\ pc[w] \in Deciding \cup {"commit"} => Read(w) /\ Wrote(w)
        /\ pc[w] = "markLevel" => op # "Cancel"
        /\ pc[w] = "skipRemaining" => op # "Approve" /\ (op = "Reject" => Acted(w, "rejected"))
        /\ pc[w] = "updateStatus" =>
              /\ op = "Approve" => Acted(w, "approved")
              /\ op = "Reject" => Acted(w, "rejected")
              /\ op # "Approve" => NothingPending(w)
        /\ pc[w] = "commit" =>
              /\ wreq[w] \in RequestRow /\ SameRequest(wreq[w], req[r])
              /\ DecisionRecorded(wreq[w], Visible(w)) /\ NoneLeftPending(wreq[w], Visible(w))

WorkerInv(w) ==
    Clean(w) /\ (call[w] # NoCall => SubmitInv(w) /\ DecideInv(w))

-----------------------------------------------------------------------------
(* Several workers: what the row locks and the partial unique index keep. *)

Locks ==
    /\ \A v, w \in Workers : v # w /\ wreq[v] # NoRow /\ wreq[w] # NoRow =>
          /\ call[v].req # call[w].req
          /\ \A d \in Docs : ~(IsActive(wreq[v], d) /\ IsActive(wreq[w], d))
    /\ \A w \in Workers, d \in Docs, s \in Requests :
          wreq[w] # NoRow /\ s # call[w].req => ~(IsActive(wreq[w], d) /\ IsActive(req[s], d))
    /\ \A r, s \in Requests, d \in Docs :
          IsActive(req[r], d) /\ IsActive(req[s], d) => r = s

Shape ==
    /\ config \in [ConfigIds -> ConfigRow]
    /\ req \in [Requests -> RequestRow \cup {NoRow}]
    /\ DOMAIN lvl = Requests
    /\ pc \in [Workers -> Labels]
    /\ call \in [Workers -> Call \cup {NoCall}]
    /\ cfg \in [Workers -> ConfigIds \cup {NoConfig}]
    /\ seen \in [Workers -> RequestRow \cup {NoRow}]
    /\ wreq \in [Workers -> RequestRow \cup {NoRow}]
    /\ DOMAIN wlvl = Workers
    /\ \A w \in Workers : wlvl[w] \in [DOMAIN wlvl[w] -> LevelRow]
    /\ err \in [Workers -> Errors]

Inv ==
    /\ Shape /\ Locks
    /\ \A r \in Requests : Committed(r)
    /\ \A w \in Workers : WorkerInv(w)

LEMMA InitInv == Init => Inv
<1> SUFFICES ASSUME Init PROVE Inv
  OBVIOUS
<1>1. Shape
  BY LevelListsAssumption DEF Init, Shape, ConfigRow, Labels, Errors
<1>2. Locks /\ \A r \in Requests : Committed(r)
  BY DEF Init, Locks, Committed, IsActive
<1>3. \A w \in Workers : WorkerInv(w)
  BY DEF Init, WorkerInv, Clean
<1> QED BY <1>1, <1>2, <1>3 DEF Inv

LEMMA CallFields ==
    ASSUME Inv, NEW w \in Workers, call[w] # NoCall
    PROVE  /\ call[w] \in Call /\ call[w].op \in {"Submit", "Approve", "Reject", "Cancel"}
           /\ call[w].req \in Requests /\ call[w].user \in Users
           /\ pc[w] # "idle" /\ Clean(w) /\ SubmitInv(w) /\ DecideInv(w)
BY DEF Inv, Shape, Call, WorkerInv, Clean

\* Statements of w that leave the tables alone leave the other workers alone.
LEMMA LocalOthers ==
    ASSUME Inv, NEW w \in Workers, req' = req, lvl' = lvl,
           \A v \in Workers \ {w} :
               /\ pc'[v] = pc[v] /\ call'[v] = call[v] /\ seen'[v] = seen[v]
               /\ wreq'[v] = wreq[v] /\ wlvl'[v] = wlvl[v],
           \/ call'[w] = call[w]
           \/ call'[w] = NoCall
           \/ call'[w].op # "Submit"
           \/ \A v \in Workers : call[v] # NoCall => call[v].req # call'[w].req
    PROVE  \A v \in Workers \ {w} : WorkerInv(v)'
<1> SUFFICES ASSUME NEW v \in Workers \ {w} PROVE WorkerInv(v)'
  OBVIOUS
<1>1. WorkerInv(v)
  BY DEF Inv
<1>2. Clean(v)'
  BY <1>1 DEF WorkerInv, Clean
<1>3. call[v] # NoCall => SubmitInv(v)'
  BY <1>1 DEF WorkerInv, SubmitInv
<1>4. Visible(v)' = Visible(v)
  BY DEF Visible
<1>5. DecideInv(v) => DecideInv(v)'
  BY <1>4 DEF DecideInv, Read, Wrote, Acted, NothingPending
<1> QED BY <1>1, <1>2, <1>3, <1>5 DEF WorkerInv

LEMMA LocalStep ==
    ASSUME Inv, NEW w \in Workers, req' = req, lvl' = lvl, Shape',
           \A v \in Workers \ {w} :
               /\ pc'[v] = pc[v] /\ call'[v] = call[v] /\ seen'[v] = seen[v]
               /\ wreq'[v] = wreq[v] /\ wlvl'[v] = wlvl[v],
           \/ call'[w] = call[w]
           \/ call'[w] = NoCall
           \/ call'[w].op # "Submit"
           \/ \A v \in Workers : call[v] # NoCall => call[v].req # call'[w].req,
           wreq'[w] = NoRow \/ (wreq'[w] = wreq[w] /\ call'[w] = call[w]),
           WorkerInv(w)'
    PROVE  Inv'
<1>1. \A v \in Workers : WorkerInv(v)'
  BY LocalOthers
<1>2. \A r \in Requests : Committed(r)'
  BY DEF Inv, Committed
<1>3. Locks'
  BY DEF Inv, Locks
<1> QED BY <1>1, <1>2, <1>3 DEF Inv

LEMMA ShapeFacts ==
    ASSUME Inv
    PROVE  /\ config \in [ConfigIds -> ConfigRow] /\ req \in [Requests -> RequestRow \cup {NoRow}]
           /\ DOMAIN lvl = Requests /\ pc \in [Workers -> Labels]
           /\ call \in [Workers -> Call \cup {NoCall}]
           /\ cfg \in [Workers -> ConfigIds \cup {NoConfig}]
           /\ seen \in [Workers -> RequestRow \cup {NoRow}]
           /\ wreq \in [Workers -> RequestRow \cup {NoRow}] /\ DOMAIN wlvl = Workers
           /\ \A w \in Workers : wlvl[w] \in [DOMAIN wlvl[w] -> LevelRow]
           /\ err \in [Workers -> Errors]
BY DEF Inv, Shape

LEMMA ConfigStep ==
    ASSUME Inv, config' \in [ConfigIds -> ConfigRow], UNCHANGED <<req, lvl, txvars>>
    PROVE  Inv'
<1>1. /\ req' = req /\ lvl' = lvl /\ pc' = pc /\ call' = call /\ cfg' = cfg /\ seen' = seen
      /\ wreq' = wreq /\ wlvl' = wlvl /\ err' = err
  BY DEF txvars
<1>2. Shape' /\ Locks' /\ \A r \in Requests : Committed(r)'
  BY <1>1 DEF Inv, Shape, Locks, Committed
<1>3. ASSUME NEW w \in Workers PROVE WorkerInv(w)'
  <2>1. WorkerInv(w)
    BY DEF Inv
  <2> QED BY <1>1, <2>1 DEF WorkerInv, Clean, SubmitInv, DecideInv, Read, Wrote, Acted,
                            NothingPending, Visible
<1> QED BY <1>2, <1>3 DEF Inv

LEMMA ConfigEdits ==
    ASSUME Inv, NEW c \in ConfigIds, NEW active \in BOOLEAN, NEW list \in LevelLists,
           CreateConfig(c, active, list) \/ UpdateConfig(c, active, list) \/ DeleteConfig(c)
    PROVE  Inv'
<1>1. config[c] \in ConfigRow /\ config \in [ConfigIds -> ConfigRow]
  BY ShapeFacts
<1>2. UNCHANGED <<req, lvl, txvars>>
  BY DEF CreateConfig, UpdateConfig, DeleteConfig
<1>3. CASE CreateConfig(c, active, list)
  <2>1. config' \in [ConfigIds -> ConfigRow]
    BY <1>1, <1>3 DEF CreateConfig, ConfigRow
  <2> QED BY <1>2, <2>1, ConfigStep
<1>4. CASE UpdateConfig(c, active, list)
  <2> DEFINE on == IF config[c].status = "live" THEN active ELSE config[c].active
             row == [config[c] EXCEPT !.active = on, !.levels = list]
  <2>1. on \in BOOLEAN
    BY <1>1 DEF ConfigRow
  <2>2. row \in ConfigRow
    <3> HIDE DEF on
    <3> QED BY <1>1, <2>1 DEF ConfigRow
  <2>3. config' = [config EXCEPT ![c] = row]
    BY <1>1, <1>4 DEF UpdateConfig
  <2> HIDE DEF row
  <2>4. config' \in [ConfigIds -> ConfigRow]
    BY <1>1, <2>2, <2>3
  <2> QED BY <1>2, <2>4, ConfigStep
<1>5. CASE DeleteConfig(c)
  <2>1. [config[c] EXCEPT !.status = "deleted"] \in ConfigRow
    BY <1>1 DEF ConfigRow
  <2>2. config' \in [ConfigIds -> ConfigRow]
    BY <1>1, <1>5, <2>1 DEF DeleteConfig
  <2> QED BY <1>2, <2>2, ConfigStep
<1> QED BY <1>3, <1>4, <1>5

-----------------------------------------------------------------------------
(* Statements that write no table. *)

LEMMA RollbackStep ==
    ASSUME Inv, NEW w \in Workers, pc[w] # "idle", NEW e \in Errors, Rollback(w, e),
           UNCHANGED config
    PROVE  Inv'
<1>1. /\ pc' = [pc EXCEPT ![w] = "done"] /\ req' = req /\ lvl' = lvl /\ call' = call
      /\ seen' = [seen EXCEPT ![w] = NoRow] /\ wreq' = [wreq EXCEPT ![w] = NoRow]
      /\ wlvl' = [wlvl EXCEPT ![w] = <<>>] /\ cfg' = [cfg EXCEPT ![w] = NoConfig]
      /\ err' = [err EXCEPT ![w] = e]
  BY DEF Rollback, Goto
<1>2. <<>> \in [DOMAIN <<>> -> LevelRow]
  OBVIOUS
<1>3. Shape'
  BY <1>1, <1>2, ShapeFacts DEF Shape, Labels
<1>4. \A v \in Workers \ {w} :
         /\ pc'[v] = pc[v] /\ call'[v] = call[v] /\ seen'[v] = seen[v]
         /\ wreq'[v] = wreq[v] /\ wlvl'[v] = wlvl[v]
  BY <1>1, ShapeFacts
<1>5. pc'[w] = "done" /\ call'[w] = call[w] /\ wreq'[w] = NoRow /\ wlvl'[w] = <<>>
  BY <1>1, ShapeFacts
<1>6. WorkerInv(w) /\ call[w] # NoCall
  BY DEF Inv, WorkerInv, Clean
<1>7. WorkerInv(w)'
  BY <1>1, <1>5, <1>6 DEF WorkerInv, Clean, SubmitInv, DecideInv, Deciding
<1> QED BY <1>1, <1>3, <1>4, <1>5, <1>7, LocalStep

LEMMA ReturnStep ==
    ASSUME Inv, NEW w \in Workers, Return(w)
    PROVE  Inv'
<1>1. /\ pc[w] = "done" /\ pc' = [pc EXCEPT ![w] = "idle"] /\ call' = [call EXCEPT ![w] = NoCall]
      /\ err' = [err EXCEPT ![w] = "nil"]
      /\ UNCHANGED <<config, req, lvl, cfg, seen, wreq, wlvl>>
  BY DEF Return, Goto
<1>2. Shape'
  BY <1>1, ShapeFacts DEF Shape, Labels, Errors
<1>3. \A v \in Workers \ {w} : pc'[v] = pc[v] /\ call'[v] = call[v]
  BY <1>1, ShapeFacts
<1>4. pc'[w] = "idle" /\ call'[w] = NoCall /\ wreq[w] = NoRow /\ wlvl[w] = <<>>
  BY <1>1, ShapeFacts DEF Inv, WorkerInv, Clean
<1>5. WorkerInv(w)'
  BY <1>1, <1>4 DEF WorkerInv, Clean
<1> QED BY <1>1, <1>2, <1>3, <1>4, <1>5, LocalStep

LEMMA BeginStep ==
    ASSUME Inv, NEW w \in Workers, NEW r \in Requests, NEW user \in Users,
           \/ \E doc \in Docs : BeginSubmit(w, r, doc, user)
           \/ \E op \in {"Approve", "Reject", "Cancel"} : BeginDecision(w, op, r, user)
    PROVE  Inv'
<1>1. /\ pc[w] = "idle" /\ UNCHANGED <<config, req, lvl, cfg, seen, wreq, wlvl, err>>
      /\ \E l \in Labels, k \in Call :
            /\ pc' = [pc EXCEPT ![w] = l] /\ call' = [call EXCEPT ![w] = k]
            /\ k.req = r
            /\ \/ /\ l = "findActiveByDoc" /\ k.op = "Submit" /\ k.doc \in Docs /\ req[r] = NoRow
                  /\ \A v \in Workers : call[v] # NoCall => call[v].req # r
               \/ l = "findByID" /\ k.op \in {"Approve", "Reject", "Cancel"}
  <2>1. CASE \E doc \in Docs : BeginSubmit(w, r, doc, user)
    <3>1. PICK doc \in Docs : BeginSubmit(w, r, doc, user)
      BY <2>1
    <3> DEFINE k == [op |-> "Submit", req |-> r, user |-> user, doc |-> doc]
    <3>2. k \in Call /\ k.req = r /\ k.op = "Submit" /\ k.doc = doc
      BY DEF Call
    <3> HIDE DEF k
    <3> QED BY <3>1, <3>2 DEF BeginSubmit, Goto, Labels, k
  <2>2. CASE \E op \in {"Approve", "Reject", "Cancel"} : BeginDecision(w, op, r, user)
    <3>1. PICK op \in {"Approve", "Reject", "Cancel"} : BeginDecision(w, op, r, user)
      BY <2>2
    <3> DEFINE k == [op |-> op, req |-> r, user |-> user, doc |-> NoDoc]
    <3>2. k \in Call /\ k.req = r /\ k.op = op
      BY DEF Call
    <3> HIDE DEF k
    <3> QED BY <3>1, <3>2 DEF BeginDecision, Goto, Labels, k
  <2> QED BY <2>1, <2>2
<1>2. PICK l \in Labels, k \in Call :
            /\ pc' = [pc EXCEPT ![w] = l] /\ call' = [call EXCEPT ![w] = k]
            /\ k.req = r
            /\ \/ /\ l = "findActiveByDoc" /\ k.op = "Submit" /\ k.doc \in Docs /\ req[r] = NoRow
                  /\ \A v \in Workers : call[v] # NoCall => call[v].req # r
               \/ l = "findByID" /\ k.op \in {"Approve", "Reject", "Cancel"}
  BY <1>1
<1>3. Shape'
  BY <1>1, <1>2, ShapeFacts DEF Shape
<1>4. /\ pc'[w] = l /\ call'[w] = k
      /\ \A v \in Workers \ {w} : pc'[v] = pc[v] /\ call'[v] = call[v]
  BY <1>2, ShapeFacts
<1>5. wreq[w] = NoRow /\ wlvl[w] = <<>>
  BY <1>1 DEF Inv, WorkerInv, Clean
<1>6. l \notin {"idle", "commit", "done", "insertRequest"} /\ l \notin Deciding
  BY <1>2 DEF Deciding
<1>7. k # NoCall => WorkerInv(w)'
  BY <1>1, <1>2, <1>4, <1>5, <1>6 DEF WorkerInv, Clean, SubmitInv, DecideInv, Deciding
<1>8. k # NoCall
  BY <1>2, NoCallAssumption
<1> QED BY <1>1, <1>2, <1>3, <1>4, <1>5, <1>7, <1>8, LocalStep

LEMMA SubmitRows ==
    ASSUME NEW doc \in Docs, NEW user \in Users, NEW c \in ConfigIds \cup {NoConfig},
           NEW list \in LevelLists
    PROVE  /\ NewRequest(doc, user, c, list).doc = doc
           /\ RowsOK(NewRequest(doc, user, c, list), Snapshot(list))
<1> DEFINE row == NewRequest(doc, user, c, list)
           rows == Snapshot(list)
<1>1. /\ list \in Seq((SUBSET Users) \ {{}}) /\ Len(list) \in Nat
      /\ \A l \in 1 .. Len(list) : list[l] \in SUBSET Users
  BY LevelListsAssumption
<1>2. row \in RequestRow /\ row.total = Len(list) /\ row.doc = doc
  BY <1>1 DEF NewRequest, RequestRow, RequestStatuses, NilLevel
<1>3. \A l \in 1 .. Len(list) :
         /\ rows[l] = [eligible |-> list[l], status |-> "pending", actionBy |-> NoUser]
         /\ rows[l].status = "pending" /\ rows[l].actionBy = NoUser /\ rows[l] \in LevelRow
  BY <1>1 DEF Snapshot, LevelRow, LevelStatuses
<1>4. rows \in [1 .. row.total -> LevelRow] /\ \A l \in 1 .. row.total : LevelOK(rows[l])
  <2> HIDE DEF row
  <2> QED BY <1>2, <1>3 DEF Snapshot, LevelOK
<1>5. DecisionRecorded(row, rows) /\ NoneLeftPending(row, rows)
  <2>1. /\ row.status = IF Len(list) = 0 THEN "approved" ELSE "waiting"
        /\ row.current = IF Len(list) = 0 THEN NilLevel ELSE 1
        /\ row.finalizedBy = IF Len(list) = 0 THEN user ELSE NoUser
    BY DEF NewRequest
  <2> HIDE DEF row, rows
  <2> QED BY <1>1, <1>2, <2>1, NoUserAssumption DEF DecisionRecorded, NoneLeftPending
<1> QED BY <1>2, <1>4, <1>5 DEF RowsOK

LEMMA FindActiveByDocStep ==
    ASSUME Inv, NEW w \in Workers, FindActiveByDoc(w)
    PROVE  Inv'
<1>1. CASE Rollback(w, "ErrRequestAlreadyExists") /\ UNCHANGED config /\ pc[w] # "idle"
  BY <1>1, RollbackStep DEF Errors
<1>2. CASE /\ pc[w] = "findActiveByDoc" /\ Goto(w, "findActive")
           /\ UNCHANGED <<config, req, lvl, call, cfg, seen, wreq, wlvl, err>>
  <2>1. Shape'
    BY <1>2, ShapeFacts DEF Shape, Goto, Labels
  <2>2. pc'[w] = "findActive" /\ \A v \in Workers \ {w} : pc'[v] = pc[v]
    BY <1>2, ShapeFacts DEF Goto
  <2>3. call[w] # NoCall /\ WorkerInv(w)
    BY <1>2 DEF Inv, WorkerInv, Clean
  <2>4. WorkerInv(w)'
    BY <1>2, <2>2, <2>3 DEF WorkerInv, Clean, SubmitInv, DecideInv, Deciding
  <2> QED BY <1>2, <2>1, <2>2, <2>4, LocalStep
<1> QED BY <1>1, <1>2 DEF FindActiveByDoc

LEMMA FindActiveStep ==
    ASSUME Inv, NEW w \in Workers, FindActive(w)
    PROVE  Inv'
<1>1. /\ pc[w] = "findActive" /\ Goto(w, "findLevels")
      /\ UNCHANGED <<config, req, lvl, call, seen, wreq, wlvl, err>>
      /\ cfg' = cfg \/ \E c \in ConfigIds : cfg' = [cfg EXCEPT ![w] = c]
  BY DEF FindActive
<1>2. Shape'
  BY <1>1, ShapeFacts DEF Shape, Goto, Labels
<1>3. pc'[w] = "findLevels" /\ \A v \in Workers \ {w} : pc'[v] = pc[v]
  BY <1>1, ShapeFacts DEF Goto
<1>4. call[w] # NoCall /\ WorkerInv(w)
  BY <1>1 DEF Inv, WorkerInv, Clean
<1>5. WorkerInv(w)'
  BY <1>1, <1>3, <1>4 DEF WorkerInv, Clean, SubmitInv, DecideInv, Deciding
<1> QED BY <1>1, <1>2, <1>3, <1>5, LocalStep

LEMMA FindConfigLevelsStep ==
    ASSUME Inv, NEW w \in Workers, FindConfigLevels(w)
    PROVE  Inv'
<1> DEFINE list == IF cfg[w] = NoConfig THEN <<>> ELSE config[cfg[w]].levels
           row == NewRequest(call[w].doc, call[w].user, cfg[w], list)
           rows == Snapshot(list)
<1>1. /\ pc[w] = "findLevels" /\ pc' = [pc EXCEPT ![w] = "insertRequest"]
      /\ seen' = [seen EXCEPT ![w] = row] /\ wlvl' = [wlvl EXCEPT ![w] = rows]
      /\ UNCHANGED <<config, req, lvl, call, cfg, wreq, err>>
  BY DEF FindConfigLevels, Goto
<1>2. WorkerInv(w) /\ call[w] # NoCall
  BY <1>1 DEF Inv, WorkerInv, Clean
<1>3. call[w].op = "Submit" /\ call[w].doc \in Docs /\ call[w].user \in Users
  BY <1>1, <1>2, CallFields DEF DecideInv, SubmitInv, Deciding
<1>4. list \in LevelLists /\ cfg[w] \in ConfigIds \cup {NoConfig}
  BY ShapeFacts, LevelListsAssumption DEF ConfigRow
<1>5. RowsOK(row, rows) /\ row.doc = call[w].doc
  <2> HIDE DEF list
  <2> QED BY <1>3, <1>4, SubmitRows
<1> HIDE DEF row, rows
<1>6. /\ seen'[w] = row /\ wlvl'[w] = rows /\ pc'[w] = "insertRequest"
      /\ \A v \in Workers \ {w} : pc'[v] = pc[v] /\ seen'[v] = seen[v] /\ wlvl'[v] = wlvl[v]
  BY <1>1, ShapeFacts
<1>7. Shape'
  <2>1. rows \in [DOMAIN rows -> LevelRow] /\ row \in RequestRow
    BY <1>5 DEF RowsOK
  <2> QED BY <1>1, <2>1, ShapeFacts DEF Shape, Labels
<1>8. WorkerInv(w)'
  BY <1>1, <1>2, <1>3, <1>5, <1>6 DEF WorkerInv, Clean, SubmitInv, DecideInv
<1> QED BY <1>1, <1>6, <1>7, <1>8, LocalStep

-----------------------------------------------------------------------------
(* A request row is written: its lock is free, and the index admits it. *)

LEMMA WriteStep ==
    ASSUME Inv, NEW w \in Workers, call[w] # NoCall, NEW row \in RequestRow,
           pc[w] \notin {"idle", "done", "commit"},
           pc' = [pc EXCEPT ![w] = "commit"], wreq' = [wreq EXCEPT ![w] = row],
           UNCHANGED <<config, req, lvl, call, cfg, seen, wlvl, err>>,
           \A v \in Workers \ {w} : wreq[v] # NoRow => call[v].req # call[w].req,
           \A v \in Workers \ {w} : ~HoldsEntry(v, call[w].req, row),
           row.status = "waiting" => ~IndexTaken(w, row.doc),
           SubmitInv(w)', DecideInv(w)'
    PROVE  Inv'
<1>1. /\ pc'[w] = "commit" /\ wreq'[w] = row /\ row # NoRow
      /\ \A v \in Workers \ {w} : pc'[v] = pc[v] /\ wreq'[v] = wreq[v]
  BY ShapeFacts, NoRowAssumption
<1>2. Shape'
  BY ShapeFacts DEF Shape, Labels
<1>3. WorkerInv(w)'
  <2>1. Clean(w)
    BY DEF Inv, WorkerInv
  <2> QED BY <1>1, <2>1 DEF WorkerInv, Clean
<1>4. \A v \in Workers : WorkerInv(v)'
  BY <1>1, <1>3, LocalOthers
<1>5. ASSUME NEW v \in Workers \ {w}, wreq[v] # NoRow
      PROVE  /\ call[v].req # call[w].req
             /\ \A d \in Docs : ~(IsActive(wreq[v], d) /\ IsActive(row, d))
             /\ \A d \in Docs : ~(IsActive(req[call[v].req], d) /\ IsActive(row, d))
  <2>1. call[v].req # call[w].req /\ ~HoldsEntry(v, call[w].req, row)
    BY <1>5
  <2> QED BY <1>5, <2>1 DEF HoldsEntry, IsActive
<1>6. \A d \in Docs, s \in Requests \ {call[w].req} : ~(IsActive(row, d) /\ IsActive(req[s], d))
  BY DEF IndexTaken, IsActive
<1>7. Locks'
  <2>1. ASSUME NEW u \in Workers, NEW v \in Workers, u # v, wreq'[u] # NoRow, wreq'[v] # NoRow
        PROVE  /\ call[u].req # call[v].req
               /\ \A d \in Docs : ~(IsActive(wreq'[u], d) /\ IsActive(wreq'[v], d))
    BY <1>1, <1>5, <2>1 DEF Inv, Locks
  <2>2. ASSUME NEW v \in Workers, NEW d \in Docs, NEW s \in Requests, wreq'[v] # NoRow,
               s # call[v].req
        PROVE  ~(IsActive(wreq'[v], d) /\ IsActive(req[s], d))
    BY <1>1, <1>6, <2>2 DEF Inv, Locks
  <2> QED BY <2>1, <2>2 DEF Inv, Locks
<1>8. \A r \in Requests : Committed(r)'
  BY DEF Inv, Committed
<1> QED BY <1>2, <1>4, <1>7, <1>8 DEF Inv

\* What a transaction that waits for nobody knows of the others' locks.
LEMMA Unheld ==
    ASSUME Inv, NEW w \in Workers, Unblocked(w), NEW v \in Workers \ {w}
    PROVE  /\ pc[w] = "insertRequest" => ~HoldsEntry(v, call[w].req, seen[w])
           /\ pc[w] = "updateStatus" => /\ ~HoldsRequest(v, call[w].req)
                                        /\ ~HoldsEntry(v, call[w].req, Outcome(w))
<1>1. ~WaitsFor(w, v)
  BY DEF Unblocked
<1>2. wreq[v] # NoRow => pc[v] \notin {"idle", "done"}
  BY DEF Inv, WorkerInv, Clean
<1> QED BY <1>1, <1>2 DEF WaitsFor, HoldsEntry, HoldsRequest

LEMMA InsertRequestStep ==
    ASSUME Inv, NEW w \in Workers, InsertRequest(w)
    PROVE  Inv'
<1>1. pc[w] = "insertRequest" /\ WorkerInv(w) /\ call[w] # NoCall
  BY DEF Inv, InsertRequest, WorkerInv, Clean
<1>2. /\ call[w].op = "Submit" /\ SubmitInv(w) /\ RowsOK(seen[w], wlvl[w])
      /\ seen[w].doc = call[w].doc /\ req[call[w].req] = NoRow
  BY <1>1 DEF WorkerInv, DecideInv, SubmitInv, Deciding
<1>3. CASE Rollback(w, "UniqueViolation") /\ UNCHANGED config
  BY <1>1, <1>3, RollbackStep DEF Errors
<1>4. CASE /\ wreq' = [wreq EXCEPT ![w] = seen[w]] /\ pc' = [pc EXCEPT ![w] = "commit"]
           /\ UNCHANGED <<config, req, lvl, call, cfg, seen, wlvl, err>>
           /\ seen[w].status = "waiting" => ~IndexTaken(w, seen[w].doc)
  <2>1. seen[w] \in RequestRow
    BY <1>2 DEF RowsOK
  <2>2. ASSUME NEW v \in Workers \ {w}, wreq[v] # NoRow PROVE call[v].req # call[w].req
    <3>1. WorkerInv(v) /\ call[v] # NoCall /\ pc[v] = "commit"
      BY <2>2 DEF Inv, WorkerInv, Clean
    <3>2. CASE call[v].op = "Submit"
      BY <1>1, <1>2, <3>1, <3>2 DEF SubmitInv
    <3>3. CASE call[v].op # "Submit"
      BY <1>2, <3>1, <3>3 DEF WorkerInv, DecideInv, Read
    <3> QED BY <3>2, <3>3
  <2>3. pc'[w] = "commit" /\ wreq'[w] = seen[w]
    BY <1>4, ShapeFacts
  <2>4. SubmitInv(w)'
    BY <1>2, <1>4, <2>3 DEF SubmitInv
  <2>5. DecideInv(w)'
    BY <1>2, <1>4 DEF DecideInv
  <2>6. \A v \in Workers \ {w} : ~HoldsEntry(v, call[w].req, seen[w])
    BY <1>1, Unheld DEF InsertRequest
  <2> QED BY <1>1, <1>4, <2>1, <2>2, <2>4, <2>5, <2>6, WriteStep
<1>5. \/ Rollback(w, "UniqueViolation") /\ UNCHANGED config
      \/ /\ wreq' = [wreq EXCEPT ![w] = seen[w]] /\ pc' = [pc EXCEPT ![w] = "commit"]
         /\ UNCHANGED <<config, req, lvl, call, cfg, seen, wlvl, err>>
         /\ seen[w].status = "waiting" => ~IndexTaken(w, call[w].doc)
  BY DEF InsertRequest, Goto
<1> QED BY <1>2, <1>3, <1>4, <1>5

-----------------------------------------------------------------------------
(* Decisions. *)

LEMMA CommittedRow ==
    ASSUME Inv, NEW r \in Requests, req[r] # NoRow
    PROVE  /\ req[r] \in RequestRow /\ req[r].total \in Nat /\ req[r].current \in Nat
           /\ lvl[r] \in [1 .. req[r].total -> LevelRow] /\ DOMAIN lvl[r] = 1 .. req[r].total
           /\ \A l \in 1 .. req[r].total : LevelOK(lvl[r][l])
           /\ DecisionRecorded(req[r], lvl[r]) /\ NoneLeftPending(req[r], lvl[r])
BY DEF Inv, Committed, RowsOK, RequestRow

LEMMA FindByIDStep ==
    ASSUME Inv, NEW w \in Workers, FindByID(w)
    PROVE  Inv'
<1> DEFINE c == call[w]
           r == call[w].req
           row == req[r]
<1>1. pc[w] = "findByID" /\ WorkerInv(w) /\ c # NoCall
  BY DEF Inv, FindByID, WorkerInv, Clean
<1>2. c.op \in {"Approve", "Reject", "Cancel"} /\ r \in Requests /\ wlvl[w] = <<>> /\ wreq[w] = NoRow
  BY <1>1, CallFields DEF SubmitInv, Clean
<1>3. CASE DecisionError(c) # "nil"
  <2>1. DecisionError(c) \in Errors
    BY DEF DecisionError, Errors
  <2>2. Rollback(w, DecisionError(c)) /\ UNCHANGED config
    BY <1>3 DEF FindByID
  <2> QED BY <1>1, <2>1, <2>2, RollbackStep
<1>4. CASE DecisionError(c) = "nil"
  <2> DEFINE l == IF c.op = "Cancel" THEN "skipRemaining" ELSE "markLevel"
  <2>1. /\ seen' = [seen EXCEPT ![w] = row] /\ pc' = [pc EXCEPT ![w] = l]
        /\ UNCHANGED <<config, req, lvl, call, cfg, wreq, wlvl, err>>
    BY <1>4 DEF FindByID, Goto
  <2>2. /\ row # NoRow /\ row.status = "waiting"
        /\ c.op # "Cancel" => c.user \in lvl[r][row.current].eligible
    BY <1>4 DEF DecisionError
  <2>3. row \in RequestRow /\ row.current \in 1 .. row.total
    BY <1>2, <2>2, CommittedRow DEF DecisionRecorded
  <2>4. Shape'
    BY <2>1, <2>3, ShapeFacts DEF Shape, Labels
  <2>5. /\ seen'[w] = row /\ pc'[w] = l
        /\ \A v \in Workers \ {w} : pc'[v] = pc[v] /\ seen'[v] = seen[v]
    BY <2>1, ShapeFacts
  <2>6. Read(w)' /\ Wrote(w)'
    BY <1>2, <2>1, <2>2, <2>3, <2>5 DEF Read, Wrote
  <2>7. WorkerInv(w)'
    BY <1>1, <1>2, <2>1, <2>5, <2>6 DEF WorkerInv, Clean, SubmitInv, DecideInv, Deciding
  <2> QED BY <2>1, <2>4, <2>5, <2>7, LocalStep
<1> QED BY <1>3, <1>4

\* A decision under way.
LEMMA DecisionFacts ==
    ASSUME Inv, NEW w \in Workers, pc[w] \in Deciding
    PROVE  /\ call[w] # NoCall /\ call[w].op \in {"Approve", "Reject", "Cancel"}
           /\ call[w].req \in Requests /\ call[w].user \in Users
           /\ Read(w) /\ Wrote(w) /\ DecideInv(w) /\ Clean(w) /\ wreq[w] = NoRow
           /\ pc[w] \notin {"idle", "done", "commit"}
<1>1. WorkerInv(w) /\ call[w] # NoCall
  BY DEF Inv, WorkerInv, Clean, Deciding
<1> QED BY <1>1, CallFields DEF SubmitInv, DecideInv, Clean, Deciding

LEMMA MarkLevelStep ==
    ASSUME Inv, NEW w \in Workers, MarkLevel(w)
    PROVE  Inv'
<1> DEFINE r == call[w].req
           at == seen[w].current
           status == IF call[w].op = "Approve" THEN "approved" ELSE "rejected"
           l == IF call[w].op = "Approve" THEN "updateStatus" ELSE "skipRemaining"
           row == MarkLevelAction(lvl[r][at], status, call[w].user)
           rows == [k \in {at} |-> MarkLevelAction(lvl[r][k], status, call[w].user)]
<1>1. /\ pc[w] = "markLevel" /\ pc' = [pc EXCEPT ![w] = l] /\ wlvl' = [wlvl EXCEPT ![w] = rows]
      /\ UNCHANGED <<config, req, lvl, call, cfg, seen, wreq, err>>
  BY DEF MarkLevel, Goto
<1>2. /\ call[w] # NoCall /\ call[w].op \in {"Approve", "Reject"} /\ r \in Requests
      /\ call[w].user \in Users /\ Read(w) /\ DecideInv(w) /\ Clean(w) /\ wreq[w] = NoRow
  BY <1>1, DecisionFacts DEF Deciding, DecideInv
<1>3. /\ at \in 1 .. req[r].total /\ lvl[r][at] \in LevelRow
      /\ call[w].user \in lvl[r][at].eligible /\ LevelOK(lvl[r][at])
  BY <1>2, CommittedRow DEF Read
<1>4. /\ row \in LevelRow /\ row.status = status /\ row.actionBy = call[w].user
      /\ row.eligible = lvl[r][at].eligible
  <2> DEFINE old == lvl[r][at]
             user == call[w].user
  <2>1. old \in LevelRow /\ user \in Users /\ status \in {"approved", "rejected"}
    BY <1>2, <1>3
  <2>2. row = [old EXCEPT !.status = status, !.actionBy = user]
    BY DEF MarkLevelAction
  <2> HIDE DEF old, user, status, row
  <2>3. /\ row \in LevelRow /\ row.status = status /\ row.actionBy = user
        /\ row.eligible = old.eligible
    BY <2>1, <2>2 DEF LevelRow, LevelStatuses
  <2> QED BY <2>3 DEF old, user
<1>5. DOMAIN rows = {at} /\ rows[at] = row /\ rows \in [{at} -> LevelRow]
  <2>1. \A k \in {at} : rows[k] = row
    OBVIOUS
  <2> QED BY <1>4, <2>1
<1> HIDE DEF row, rows
<1>6. /\ pc'[w] = l /\ wlvl'[w] = rows
      /\ \A v \in Workers \ {w} : pc'[v] = pc[v] /\ wlvl'[v] = wlvl[v]
  BY <1>1, ShapeFacts
<1>7. Shape'
  BY <1>1, <1>5, <1>6, ShapeFacts DEF Shape, Labels
<1>8. Read(w)'
  BY <1>1, <1>2 DEF Read
<1>9. Wrote(w)' /\ Acted(w, status)'
  BY <1>1, <1>2, <1>3, <1>4, <1>5, <1>6 DEF Wrote, Acted, LevelOK
<1>10. WorkerInv(w)'
  BY <1>1, <1>2, <1>6, <1>8, <1>9 DEF WorkerInv, Clean, SubmitInv, DecideInv, Deciding
<1> QED BY <1>1, <1>6, <1>7, <1>10, LocalStep

\* What the transaction sees of the levels of its request.
LEMMA VisibleRows ==
    ASSUME Inv, NEW w \in Workers, call[w].req \in Requests, Read(w), Wrote(w)
    PROVE  /\ DOMAIN Visible(w) = 1 .. req[call[w].req].total
           /\ \A l \in 1 .. req[call[w].req].total :
                 /\ Visible(w)[l] = IF l \in DOMAIN wlvl[w] THEN wlvl[w][l]
                                    ELSE lvl[call[w].req][l]
                 /\ LevelOK(Visible(w)[l])
                 /\ Visible(w)[l].eligible = lvl[call[w].req][l].eligible
                 /\ Visible(w)[l].status = "pending" => /\ l \notin DOMAIN wlvl[w]
                                                        /\ lvl[call[w].req][l].status = "pending"
           /\ Visible(w) \in [1 .. req[call[w].req].total -> LevelRow]
<1> DEFINE r == call[w].req
<1>1. /\ DOMAIN lvl[r] = 1 .. req[r].total /\ \A l \in 1 .. req[r].total : LevelOK(lvl[r][l])
      /\ DOMAIN wlvl[w] \subseteq 1 .. req[r].total
  BY CommittedRow DEF Read, Wrote
<1>2. Visible(w) = [l \in 1 .. req[r].total |->
                      IF l \in DOMAIN wlvl[w] THEN wlvl[w][l] ELSE lvl[r][l]]
  BY <1>1 DEF Visible, Install
<1> QED BY <1>1, <1>2 DEF Wrote, LevelOK

LEMMA SkipRemainingStep ==
    ASSUME Inv, NEW w \in Workers, SkipRemaining(w)
    PROVE  Inv'
<1> DEFINE r == call[w].req
           skipped == SkipRemainingPending(Visible(w))
           rows == Install(skipped, wlvl[w])
<1>1. /\ pc[w] = "skipRemaining" /\ call[w] # NoCall /\ call[w].op \in {"Reject", "Cancel"}
      /\ r \in Requests /\ Read(w) /\ Wrote(w) /\ DecideInv(w) /\ Clean(w) /\ wreq[w] = NoRow
  BY DecisionFacts DEF SkipRemaining, Deciding, DecideInv
<1>2. CASE Rollback(w, "CheckViolation") /\ UNCHANGED config
  BY <1>1, <1>2, RollbackStep DEF Errors
<1>3. CASE /\ wlvl' = [wlvl EXCEPT ![w] = rows] /\ pc' = [pc EXCEPT ![w] = "updateStatus"]
           /\ UNCHANGED <<config, req, lvl, call, cfg, seen, wreq, err>>
  <2>1. DOMAIN skipped = {l \in 1 .. req[r].total : Visible(w)[l].status = "pending"}
    BY <1>1, VisibleRows DEF SkipRemainingPending
  <2>2. ASSUME NEW l \in DOMAIN skipped
        PROVE  /\ skipped[l] \in LevelRow /\ LevelOK(skipped[l]) /\ skipped[l].status = "skipped"
               /\ skipped[l].eligible = lvl[r][l].eligible
    <3>1. /\ l \in 1 .. req[r].total /\ LevelOK(Visible(w)[l])
          /\ Visible(w)[l].status = "pending" /\ Visible(w)[l].eligible = lvl[r][l].eligible
      BY <1>1, <2>1, VisibleRows
    <3> DEFINE old == Visible(w)[l]
    <3>2. skipped[l] = [old EXCEPT !.status = "skipped"]
      BY <2>1 DEF SkipRemainingPending
    <3> HIDE DEF old, skipped
    <3>3. old \in LevelRow /\ old.status = "pending" /\ old.actionBy = NoUser
      BY <3>1 DEF old, LevelOK
    <3>4. /\ skipped[l] \in LevelRow /\ skipped[l].status = "skipped"
          /\ skipped[l].actionBy = NoUser /\ skipped[l].eligible = old.eligible
      BY <3>2, <3>3 DEF LevelRow, LevelStatuses
    <3> QED BY <3>1, <3>4 DEF LevelOK, old
  <2> HIDE DEF skipped
  <2>3. DOMAIN rows = DOMAIN wlvl[w] \cup DOMAIN skipped
    BY DEF Install
  <2>4. ASSUME NEW l \in DOMAIN rows
        PROVE  rows[l] = IF l \in DOMAIN skipped THEN skipped[l] ELSE wlvl[w][l]
    BY <2>3 DEF Install
  <2>5. /\ DOMAIN rows \subseteq 1 .. req[r].total
        /\ \A l \in DOMAIN rows : /\ LevelOK(rows[l]) /\ rows[l].status # "pending"
                                  /\ rows[l].eligible = lvl[r][l].eligible
    BY <1>1, <2>1, <2>2, <2>3, <2>4 DEF Wrote
  <2>6. call[w].op = "Reject" => /\ seen[w].current \in DOMAIN rows
                                 /\ rows[seen[w].current].status = "rejected"
    <3>1. call[w].op = "Reject" => Acted(w, "rejected")
      BY <1>1 DEF DecideInv
    <3>2. ASSUME NEW l \in DOMAIN wlvl[w] PROVE l \in DOMAIN rows /\ rows[l] = wlvl[w][l]
      <4>1. l \notin DOMAIN skipped
        BY <1>1, <2>1, VisibleRows
      <4> QED BY <2>3, <2>4, <4>1
    <3> QED BY <3>1, <3>2 DEF Acted
  <2>7. \A l \in 1 .. req[r].total : l \notin DOMAIN rows => lvl[r][l].status # "pending"
    BY <1>1, <2>1, <2>3, VisibleRows
  <2>8. rows \in [DOMAIN rows -> LevelRow]
    <3>1. rows = [l \in DOMAIN rows |-> rows[l]]
      BY DEF Install
    <3> HIDE DEF rows
    <3> QED BY <2>5, <3>1 DEF LevelOK
  <2> HIDE DEF rows
  <2>9. /\ pc'[w] = "updateStatus" /\ wlvl'[w] = rows
        /\ \A v \in Workers \ {w} : pc'[v] = pc[v] /\ wlvl'[v] = wlvl[v]
    BY <1>3, ShapeFacts
  <2>10. Shape'
    BY <1>3, <2>8, <2>9, ShapeFacts DEF Shape, Labels
  <2>11. Read(w)' /\ Wrote(w)' /\ NothingPending(w)' /\ (call[w].op = "Reject" => Acted(w, "rejected")')
    BY <1>1, <1>3, <2>5, <2>6, <2>7, <2>9 DEF Read, Wrote, NothingPending, Acted
  <2>12. WorkerInv(w)'
    BY <1>1, <1>3, <2>9, <2>11 DEF WorkerInv, Clean, SubmitInv, DecideInv, Deciding
  <2> QED BY <1>3, <2>9, <2>10, <2>12, LocalStep
<1> QED BY <1>2, <1>3 DEF SkipRemaining, Goto

\* The new version of the request row, for a decision about to write it.
LEMMA OutcomeRow ==
    ASSUME Inv, NEW w \in Workers, pc[w] = "updateStatus"
    PROVE  /\ Outcome(w) \in RequestRow /\ SameRequest(Outcome(w), req[call[w].req])
           /\ DecisionRecorded(Outcome(w), Visible(w))
           /\ NoneLeftPending(Outcome(w), Visible(w))
<1> DEFINE r == call[w].req
           old == req[r]
           rows == Visible(w)
           user == call[w].user
           row == Outcome(w)
<1>1. /\ call[w].op \in {"Approve", "Reject", "Cancel"} /\ r \in Requests /\ user \in Users
      /\ Read(w) /\ Wrote(w) /\ DecideInv(w) /\ pc[w] \in Deciding
  BY DecisionFacts DEF Deciding
<1>2. old \in RequestRow /\ old.total \in Nat /\ user # NoUser
  BY <1>1, CommittedRow, NoUserAssumption DEF Read
<1>3. /\ DOMAIN rows = 1 .. old.total
      /\ \A l \in 1 .. old.total : rows[l] = IF l \in DOMAIN wlvl[w] THEN wlvl[w][l] ELSE lvl[r][l]
  BY <1>1, VisibleRows
<1>4. CASE call[w].op = "Approve"
  <2> DEFINE at == seen[w].current
             total == seen[w].total
  <2>1. at \in 1 .. old.total /\ total = old.total /\ Acted(w, "approved")
    BY <1>1, <1>4 DEF Read, DecideInv
  <2>2. rows[at].status = "approved"
    BY <1>3, <2>1 DEF Acted
  <2> HIDE DEF rows
  <2>3. row = Approved(old, seen[w], user)
    BY <1>4 DEF Outcome
  <2>4. CASE at >= total
    <3>1. row = UpdateRequestStatus(old, "approved", NilLevel, user)
      BY <2>3, <2>4 DEF Approved
    <3> HIDE DEF row, old, user
    <3>2. /\ row \in RequestRow /\ SameRequest(row, old) /\ row.status = "approved"
          /\ row.finalizedBy # NoUser
      BY <1>1, <1>2, <3>1 DEF UpdateRequestStatus, NilLevel, RequestRow, RequestStatuses, SameRequest
    <3>3. row.total = at
      BY <1>2, <2>1, <2>4, <3>2 DEF SameRequest
    <3>4. DecisionRecorded(row, rows) /\ NoneLeftPending(row, rows)
      BY <2>2, <3>2, <3>3 DEF DecisionRecorded, NoneLeftPending
    <3> QED BY <3>2, <3>4 DEF row, old, rows
  <2>5. CASE ~(at >= total)
    <3>1. row = UpdateRequestStatus(old, "waiting", at + 1, NoUser)
      BY <2>3, <2>5 DEF Approved
    <3>2. at + 1 \in Nat /\ at + 1 \in 1 .. old.total /\ (at + 1) - 1 = at
      BY <1>2, <2>1, <2>5
    <3> DEFINE next == at + 1
    <3> HIDE DEF row, old, next
    <3>3. /\ row \in RequestRow /\ SameRequest(row, old) /\ row.status = "waiting"
          /\ row.current = next
      BY <1>2, <3>1, <3>2 DEF UpdateRequestStatus, RequestRow, RequestStatuses, SameRequest, next
    <3>4. row.current - 1 = at /\ row.current \in 1 .. row.total
      BY <3>2, <3>3 DEF SameRequest, next
    <3>5. DecisionRecorded(row, rows) /\ NoneLeftPending(row, rows)
      BY <2>2, <3>3, <3>4 DEF DecisionRecorded, NoneLeftPending
    <3> QED BY <3>3, <3>5 DEF row, old, rows
  <2> QED BY <2>4, <2>5
<1>5. CASE call[w].op # "Approve"
  <2> DEFINE status == IF call[w].op = "Reject" THEN "rejected" ELSE "cancelled"
  <2>1. row = UpdateRequestStatus(old, status, NilLevel, user)
    BY <1>5 DEF Outcome
  <2>2. status \in {"rejected", "cancelled"} /\ (status = "rejected" => call[w].op = "Reject")
    OBVIOUS
  <2>3. NothingPending(w) /\ (status = "rejected" => Acted(w, "rejected"))
    BY <1>1, <1>5, <2>2 DEF DecideInv
  <2>4. \A l \in DOMAIN rows : rows[l].status # "pending"
    BY <1>1, <1>3, <2>3 DEF NothingPending, Wrote
  <2>5. status = "rejected" => \E l \in DOMAIN rows : rows[l].status = "rejected"
    BY <1>1, <1>3, <2>3 DEF Acted, Wrote
  <2> HIDE DEF row, old, status, user, rows
  <2>6. /\ row \in RequestRow /\ SameRequest(row, old) /\ row.status = status
        /\ row.finalizedBy # NoUser
    BY <1>1, <1>2, <2>1, <2>2 DEF UpdateRequestStatus, NilLevel, RequestRow, RequestStatuses, SameRequest
  <2>7. DecisionRecorded(row, rows) /\ NoneLeftPending(row, rows)
    BY <2>2, <2>4, <2>5, <2>6 DEF DecisionRecorded, NoneLeftPending
  <2> QED BY <2>6, <2>7 DEF row, old, rows
<1> QED BY <1>4, <1>5

LEMMA UpdateStatusStep ==
    ASSUME Inv, NEW w \in Workers, UpdateStatus(w)
    PROVE  Inv'
<1> DEFINE row == Outcome(w)
<1>1. pc[w] = "updateStatus" /\ Unblocked(w)
  BY DEF UpdateStatus
<1>2. /\ call[w] # NoCall /\ call[w].op \in {"Approve", "Reject", "Cancel"} /\ Read(w) /\ Wrote(w)
      /\ pc[w] \notin {"idle", "done", "commit"}
  BY <1>1, DecisionFacts DEF Deciding
<1>3. PICK new \in RequestRow : new = row
  BY <1>1, OutcomeRow
<1>4. \/ Rollback(w, "UniqueViolation") /\ UNCHANGED config
      \/ /\ wreq' = [wreq EXCEPT ![w] = new] /\ pc' = [pc EXCEPT ![w] = "commit"]
         /\ UNCHANGED <<config, req, lvl, call, cfg, seen, wlvl, err>>
         /\ new.status = "waiting" => ~IndexTaken(w, new.doc)
  BY <1>3 DEF UpdateStatus, Goto
<1>5. CASE Rollback(w, "UniqueViolation") /\ UNCHANGED config
  BY <1>2, <1>5, RollbackStep DEF Errors
<1>6. CASE /\ wreq' = [wreq EXCEPT ![w] = new] /\ pc' = [pc EXCEPT ![w] = "commit"]
           /\ UNCHANGED <<config, req, lvl, call, cfg, seen, wlvl, err>>
           /\ new.status = "waiting" => ~IndexTaken(w, new.doc)
  <2>1. \A v \in Workers \ {w} : wreq[v] # NoRow => call[v].req # call[w].req
    BY <1>1, Unheld DEF HoldsRequest
  <2>8. \A v \in Workers \ {w} : ~HoldsEntry(v, call[w].req, new)
    BY <1>1, <1>3, Unheld
  <2>2. pc'[w] = "commit" /\ wreq'[w] = new
    BY <1>6, ShapeFacts
  <2>3. SubmitInv(w)'
    BY <1>2, <1>6 DEF SubmitInv
  <2>4. /\ SameRequest(new, req[call[w].req])
        /\ DecisionRecorded(new, Visible(w)) /\ NoneLeftPending(new, Visible(w))
    BY <1>1, <1>3, OutcomeRow
  <2>5. Visible(w)' = Visible(w)
    BY <1>6 DEF Visible
  <2>6. Read(w)' /\ Wrote(w)'
    BY <1>2, <1>6 DEF Read, Wrote
  <2>7. DecideInv(w)'
    BY <1>2, <1>6, <2>2, <2>4, <2>5, <2>6 DEF DecideInv, Deciding
  <2> QED BY <1>2, <1>6, <2>1, <2>3, <2>7, <2>8, WriteStep
<1> QED BY <1>4, <1>5, <1>6

-----------------------------------------------------------------------------
(* The transaction commits. *)

\* Rows that may take the place of the committed ones of request r.
Succeeds(r, row, rows) ==
    /\ RowsOK(row, rows)
    /\ req[r] # NoRow =>
          /\ SameRequest(row, req[r])
          /\ \A l \in 1 .. req[r].total :
                /\ rows[l].eligible = lvl[r][l].eligible
                /\ rows[l].status = "pending" => lvl[r][l].status = "pending"

LEMMA CommitFacts ==
    ASSUME Inv, NEW w \in Workers, pc[w] = "commit"
    PROVE  /\ call[w] # NoCall /\ call[w].req \in Requests
           /\ wreq[w] # NoRow /\ wreq[w] \in RequestRow
           /\ Succeeds(call[w].req, wreq[w], Visible(w))
           /\ call[w].op = "Submit" <=> req[call[w].req] = NoRow
           /\ call[w].op = "Submit" => wreq[w] = seen[w] /\ Visible(w) = wlvl[w]
           /\ SubmitInv(w)
<1> DEFINE r == call[w].req
<1>1. call[w] # NoCall /\ wreq[w] # NoRow /\ wreq[w] \in RequestRow
  BY ShapeFacts DEF Inv, WorkerInv, Clean
<1>2. r \in Requests /\ SubmitInv(w) /\ DecideInv(w)
  BY <1>1, CallFields
<1>3. CASE call[w].op = "Submit"
  <2>1. RowsOK(seen[w], wlvl[w]) /\ wreq[w] = seen[w] /\ req[r] = NoRow
    BY <1>2, <1>3 DEF SubmitInv
  <2>2. lvl[r] = <<>>
    BY <1>2, <2>1 DEF Inv, Committed
  <2>3. Visible(w) = wlvl[w]
    <3>1. DOMAIN wlvl[w] = 1 .. seen[w].total /\ wlvl[w] \in [DOMAIN wlvl[w] -> LevelRow]
      BY <2>1 DEF RowsOK
    <3>2. DOMAIN lvl[r] = {}
      BY <2>2
    <3>3. Visible(w) = [l \in DOMAIN wlvl[w] |-> wlvl[w][l]]
      BY <3>2 DEF Visible, Install
    <3> QED BY <3>1, <3>3
  <2> QED BY <1>1, <1>2, <1>3, <2>1, <2>3 DEF Succeeds
<1>4. CASE call[w].op # "Submit"
  <2>1. /\ Read(w) /\ Wrote(w) /\ SameRequest(wreq[w], req[r])
        /\ DecisionRecorded(wreq[w], Visible(w)) /\ NoneLeftPending(wreq[w], Visible(w))
    BY <1>2, <1>4 DEF DecideInv
  <2>2. wreq[w].total = req[r].total /\ req[r] # NoRow
    BY <2>1 DEF SameRequest, Read
  <2>3. RowsOK(wreq[w], Visible(w))
    BY <1>1, <1>2, <2>1, <2>2, VisibleRows DEF RowsOK
  <2> QED BY <1>1, <1>2, <1>4, <2>1, <2>2, <2>3, VisibleRows DEF Succeeds
<1> QED BY <1>3, <1>4

LEMMA CommitOthers ==
    ASSUME Inv, NEW w \in Workers, Commit(w), NEW v \in Workers \ {w}
    PROVE  WorkerInv(v)'
<1> DEFINE r == call[w].req
<1>1. /\ pc[w] = "commit" /\ call' = call /\ req' = [req EXCEPT ![r] = wreq[w]]
      /\ lvl' = [lvl EXCEPT ![r] = Visible(w)]
      /\ pc'[v] = pc[v] /\ seen'[v] = seen[v] /\ wreq'[v] = wreq[v] /\ wlvl'[v] = wlvl[v]
  BY ShapeFacts DEF Commit, Goto
<1>2. /\ r \in Requests /\ wreq[w] # NoRow /\ Succeeds(r, wreq[w], Visible(w))
      /\ call[w].op = "Submit" <=> req[r] = NoRow
      /\ SubmitInv(w) /\ call[w] # NoCall
  BY <1>1, CommitFacts
<1>3. Clean(v)'
  BY <1>1 DEF Inv, WorkerInv, Clean
<1>4. SUFFICES ASSUME call[v] # NoCall PROVE SubmitInv(v)' /\ DecideInv(v)'
  BY <1>1, <1>3 DEF WorkerInv
<1>5. call[v].req \in Requests /\ SubmitInv(v) /\ DecideInv(v) /\ Clean(v)
  BY <1>4, CallFields
<1>6. CASE call[v].req # r
  <2>1. req'[call[v].req] = req[call[v].req] /\ lvl'[call[v].req] = lvl[call[v].req]
    BY <1>1, <1>2, <1>5, <1>6, ShapeFacts
  <2>2. SubmitInv(v)'
    BY <1>1, <1>5, <2>1 DEF SubmitInv
  <2>3. Visible(v)' = Visible(v)
    BY <1>1, <2>1 DEF Visible
  <2>4. DecideInv(v)'
    BY <1>1, <1>5, <2>1, <2>3 DEF DecideInv, Read, Wrote, Acted, NothingPending
  <2> QED BY <2>2, <2>4
<1>7. CASE call[v].req = r
  <2>1. req'[r] = wreq[w] /\ lvl'[r] = Visible(w)
    BY <1>1, <1>2, ShapeFacts
  <2>2. CASE call[v].op = "Submit"
    <3>1. req[r] # NoRow
      BY <1>2, <1>4, <1>7, <2>2 DEF SubmitInv
    <3>2. pc[v] = "done"
      BY <1>5, <1>7, <2>2, <3>1 DEF SubmitInv
    <3> QED BY <1>1, <1>5, <1>7, <2>2, <3>2 DEF SubmitInv, DecideInv
  <2>3. CASE call[v].op # "Submit"
    <3>1. pc[v] # "commit"
      BY <1>2, <1>5, <1>7 DEF Inv, Locks, Clean
    <3>2. SubmitInv(v)'
      BY <1>1, <2>3 DEF SubmitInv
    <3>3. CASE pc[v] \in Deciding
      <4>1. Read(v) /\ Wrote(v)
        BY <1>5, <2>3, <3>3 DEF DecideInv
      <4>2. req[r] # NoRow
        BY <1>7, <4>1 DEF Read
      <4>3. /\ wreq[w].total = req[r].total
            /\ \A l \in 1 .. req[r].total :
                  /\ Visible(w)[l].eligible = lvl[r][l].eligible
                  /\ Visible(w)[l].status = "pending" => lvl[r][l].status = "pending"
        BY <1>2, <4>2 DEF Succeeds, SameRequest
      <4>4. Read(v)'
        BY <1>1, <1>2, <1>7, <2>1, <4>1, <4>3 DEF Read
      <4>5. Wrote(v)'
        BY <1>1, <1>7, <2>1, <4>1, <4>3 DEF Wrote
      <4>6. NothingPending(v) => NothingPending(v)'
        BY <1>1, <1>7, <2>1, <4>3 DEF NothingPending
      <4>7. \A status \in LevelStatuses : Acted(v, status) => Acted(v, status)'
        BY <1>1 DEF Acted
      <4> QED BY <1>1, <1>5, <2>3, <3>1, <3>2, <4>4, <4>5, <4>6, <4>7
              DEF DecideInv, LevelStatuses
    <3>4. CASE pc[v] \notin Deciding
      BY <1>1, <1>5, <2>3, <3>1, <3>2, <3>4 DEF DecideInv, Deciding
    <3> QED BY <3>3, <3>4
  <2> QED BY <2>2, <2>3
<1> QED BY <1>6, <1>7

LEMMA CommitStep ==
    ASSUME Inv, NEW w \in Workers, Commit(w)
    PROVE  Inv'
<1> DEFINE r == call[w].req
<1>1. /\ pc[w] = "commit" /\ call' = call /\ req' = [req EXCEPT ![r] = wreq[w]]
      /\ lvl' = [lvl EXCEPT ![r] = Visible(w)] /\ pc' = [pc EXCEPT ![w] = "done"]
      /\ cfg' = [cfg EXCEPT ![w] = NoConfig] /\ seen' = [seen EXCEPT ![w] = NoRow]
      /\ wreq' = [wreq EXCEPT ![w] = NoRow] /\ wlvl' = [wlvl EXCEPT ![w] = <<>>]
      /\ \E e \in {"nil", "DBError"} : err' = [err EXCEPT ![w] = e]
      /\ config' = config
  BY DEF Commit, Goto
<1>2. /\ r \in Requests /\ wreq[w] # NoRow /\ wreq[w] \in RequestRow /\ call[w] # NoCall
      /\ Succeeds(r, wreq[w], Visible(w))
  BY <1>1, CommitFacts
<1>3. /\ req'[r] = wreq[w] /\ lvl'[r] = Visible(w)
      /\ \A s \in Requests \ {r} : req'[s] = req[s] /\ lvl'[s] = lvl[s]
      /\ wreq'[w] = NoRow /\ \A v \in Workers \ {w} : wreq'[v] = wreq[v]
      /\ pc'[w] = "done" /\ wlvl'[w] = <<>>
  BY <1>1, <1>2, ShapeFacts
<1>4. Shape'
  <2>1. <<>> \in [DOMAIN <<>> -> LevelRow]
    OBVIOUS
  <2>2. \E e \in Errors : err' = [err EXCEPT ![w] = e]
    BY <1>1 DEF Errors
  <2> QED BY <1>1, <1>2, <2>1, <2>2, ShapeFacts DEF Shape, Labels
<1>5. \A s \in Requests : Committed(s)'
  BY <1>2, <1>3 DEF Inv, Committed, Succeeds
<1>6. \A v \in Workers : WorkerInv(v)'
  <2>1. SubmitInv(w) /\ DecideInv(w)
    BY <1>2, CallFields
  <2>2. SubmitInv(w)' /\ DecideInv(w)'
    BY <1>1, <1>3, <2>1 DEF SubmitInv, DecideInv, Deciding
  <2>3. WorkerInv(w)'
    BY <1>1, <1>2, <1>3, <2>2 DEF WorkerInv, Clean
  <2> QED BY <2>3, CommitOthers
<1>7. Locks'
  <2>1. ASSUME NEW u \in Workers, NEW v \in Workers, u # v, wreq'[u] # NoRow, wreq'[v] # NoRow
        PROVE  /\ call[u].req # call[v].req
               /\ \A d \in Docs : ~(IsActive(wreq'[u], d) /\ IsActive(wreq'[v], d))
    BY <1>3, <2>1 DEF Inv, Locks
  <2>2. ASSUME NEW v \in Workers, NEW d \in Docs, NEW s \in Requests, wreq'[v] # NoRow,
               s # call[v].req
        PROVE  ~(IsActive(wreq'[v], d) /\ IsActive(req'[s], d))
    BY <1>2, <1>3, <2>2 DEF Inv, Locks
  <2>3. ASSUME NEW s \in Requests, NEW t \in Requests, NEW d \in Docs, s # t
        PROVE  ~(IsActive(req'[s], d) /\ IsActive(req'[t], d))
    BY <1>2, <1>3, <2>3 DEF Inv, Locks
  <2> QED BY <1>1, <2>1, <2>2, <2>3 DEF Locks
<1> QED BY <1>4, <1>5, <1>6, <1>7 DEF Inv

-----------------------------------------------------------------------------
LEMMA NextStep == Inv /\ [Next]_vars => Inv'
<1> SUFFICES ASSUME Inv, [Next]_vars PROVE Inv'
  OBVIOUS
<1>1. ASSUME NEW c \in ConfigIds, NEW active \in BOOLEAN, NEW list \in LevelLists,
             CreateConfig(c, active, list) \/ UpdateConfig(c, active, list)
      PROVE  Inv'
  BY <1>1, ConfigEdits
<1>2. ASSUME NEW c \in ConfigIds, DeleteConfig(c) PROVE Inv'
  BY <1>2, ConfigEdits, LevelListsAssumption
<1>3. ASSUME NEW w \in Workers, NEW r \in Requests, NEW user \in Users,
             \/ \E doc \in Docs : BeginSubmit(w, r, doc, user)
             \/ \E op \in {"Approve", "Reject", "Cancel"} : BeginDecision(w, op, r, user)
      PROVE  Inv'
  BY <1>3, BeginStep
<1>4. ASSUME NEW w \in Workers, Step(w) PROVE Inv'
  BY <1>4, FindActiveByDocStep, FindActiveStep, FindConfigLevelsStep, InsertRequestStep,
     FindByIDStep, MarkLevelStep, SkipRemainingStep, UpdateStatusStep, CommitStep, ReturnStep
     DEF Step
<1>5. ASSUME NEW w \in Workers, Fail(w) PROVE Inv'
  BY <1>5, RollbackStep DEF Fail, Errors
<1>6. CASE UNCHANGED vars
  BY <1>6, ConfigStep, ShapeFacts DEF vars
<1> QED BY <1>1, <1>2, <1>3, <1>4, <1>5, <1>6 DEF Next

LEMMA InvAlways == Spec => []Inv
<1> QED BY InitInv, NextStep, PTL DEF Spec

-----------------------------------------------------------------------------
(* Levels are decided in their order, and each by one transaction. *)

Passed(rows, k) == \A l \in 1 .. k - 1 : rows[l].status # "pending"

MarkStatus(w) == IF call[w].op = "Approve" THEN "approved" ELSE "rejected"

\* The level decided on, or one that was pending and, being locked, still is.
Written(w, l) ==
    LET row == wlvl[w][l] IN
    /\ ActionCheck(row)
    /\ IF call[w].op # "Cancel" /\ l = seen[w].current
       THEN row.status = MarkStatus(w) /\ row.actionBy = call[w].user
       ELSE /\ call[w].op # "Approve" /\ pc[w] # "skipRemaining"
            /\ row.status = "skipped" /\ lvl[call[w].req][l].status = "pending"

Decides(w) ==
    LET r == call[w].req IN
    call[w] # NoCall /\ call[w].op # "Submit" /\ pc[w] \in Deciding \cup {"commit"} =>
        /\ Passed(lvl[r], seen[w].current)
        /\ call[w].op = "Cancel" => req[r].submittedBy = call[w].user
        /\ \A l \in DOMAIN wlvl[w] : Written(w, l)
        /\ pc[w] = "commit" =>
              /\ wreq[w] = Outcome(w)
              /\ call[w].op # "Cancel" => seen[w].current \in DOMAIN wlvl[w]
              /\ call[w].op # "Approve" => NothingPending(w)

Submits(w) ==
    call[w] # NoCall /\ call[w].op = "Submit" /\ pc[w] \in {"insertRequest", "commit"} =>
        \E c \in ConfigIds \cup {NoConfig}, list \in LevelLists :
           /\ c = NoConfig => list = <<>>
           /\ seen[w] = NewRequest(call[w].doc, call[w].user, c, list)
           /\ wlvl[w] = Snapshot(list)

Exclusive(v, w) ==
    call[v] # NoCall /\ call[w] # NoCall /\ call[v].req = call[w].req =>
        DOMAIN wlvl[v] \cap DOMAIN wlvl[w] = {}

OrderInv ==
    /\ \A r \in Requests : req[r] # NoRow /\ req[r].status = "waiting" => Passed(lvl[r], req[r].current)
    /\ \A w \in Workers : Decides(w) /\ Submits(w)
    /\ \A v, w \in Workers : v # w => Exclusive(v, w)

LEMMA OrderFacts ==
    ASSUME OrderInv, NEW w \in Workers
    PROVE  /\ Decides(w) /\ Submits(w)
           /\ \A v \in Workers : v # w => Exclusive(v, w) /\ Exclusive(w, v)
BY DEF OrderInv

\* Statements of w that leave the tables alone.
LEMMA OrderLocal ==
    ASSUME OrderInv, NEW w \in Workers, req' = req, lvl' = lvl,
           \A v \in Workers \ {w} :
               /\ pc'[v] = pc[v] /\ call'[v] = call[v] /\ seen'[v] = seen[v]
               /\ wreq'[v] = wreq[v] /\ wlvl'[v] = wlvl[v],
           Decides(w)', Submits(w)', \A v \in Workers \ {w} : Exclusive(v, w)'
    PROVE  OrderInv'
<1>1. ASSUME NEW v \in Workers \ {w} PROVE Decides(v)' /\ Submits(v)'
  <2>1. Decides(v) /\ Submits(v) /\ Outcome(v)' = Outcome(v)
    BY OrderFacts DEF Outcome
  <2>2. /\ NothingPending(v)' <=> NothingPending(v)
        /\ \A l : Written(v, l)' <=> Written(v, l)
    BY DEF NothingPending, Written, MarkStatus, ActionCheck
  <2> QED BY <2>1, <2>2 DEF Decides, Submits, Passed
<1>2. ASSUME NEW u \in Workers, NEW v \in Workers, u # v PROVE Exclusive(u, v)'
  <2>1. CASE w \notin {u, v}
    BY <1>2, <2>1, OrderFacts DEF Exclusive
  <2>2. CASE w \in {u, v}
    BY <1>2, <2>2 DEF Exclusive
  <2> QED BY <2>1, <2>2
<1>3. \A r \in Requests : req'[r] # NoRow /\ req'[r].status = "waiting" => Passed(lvl'[r], req'[r].current)
  BY DEF OrderInv, Passed
<1> QED BY <1>1, <1>2, <1>3 DEF OrderInv, Passed

\* A transaction that has written nothing, and is not about to.
LEMMA OrderClear ==
    ASSUME OrderInv, NEW w \in Workers, req' = req, lvl' = lvl,
           \A v \in Workers \ {w} :
               /\ pc'[v] = pc[v] /\ call'[v] = call[v] /\ seen'[v] = seen[v]
               /\ wreq'[v] = wreq[v] /\ wlvl'[v] = wlvl[v],
           wlvl'[w] = <<>>, pc'[w] \notin Deciding \cup {"insertRequest", "commit"}
    PROVE  OrderInv'
<1>1. Decides(w)' /\ Submits(w)' /\ \A v \in Workers \ {w} : Exclusive(v, w)'
  BY DEF Decides, Submits, Exclusive
<1> QED BY <1>1, OrderLocal

LEMMA OrderRollback ==
    ASSUME Inv, OrderInv, NEW w \in Workers, NEW e, Rollback(w, e)
    PROVE  OrderInv'
<1>1. /\ pc'[w] = "done" /\ wlvl'[w] = <<>>
      /\ \A v \in Workers \ {w} :
               /\ pc'[v] = pc[v] /\ call'[v] = call[v] /\ seen'[v] = seen[v]
               /\ wreq'[v] = wreq[v] /\ wlvl'[v] = wlvl[v]
  BY ShapeFacts DEF Rollback, Goto
<1> QED BY <1>1, OrderClear DEF Rollback, Deciding

\* What w writes of a request that nobody else can have written.
LEMMA OrderSubmit ==
    ASSUME Inv, OrderInv, NEW w \in Workers, FindConfigLevels(w) \/ InsertRequest(w)
    PROVE  OrderInv'
<1>1. /\ pc[w] \in {"findLevels", "insertRequest"} /\ call[w] # NoCall /\ WorkerInv(w)
      /\ call[w].op = "Submit" /\ call[w].req \in Requests /\ req[call[w].req] = NoRow
  <2>1. pc[w] \in {"findLevels", "insertRequest"} /\ WorkerInv(w)
    BY DEF Inv, FindConfigLevels, InsertRequest
  <2> QED BY <2>1, CallFields DEF WorkerInv, Clean, DecideInv, SubmitInv, Deciding
<1>2. ASSUME NEW v \in Workers \ {w}, call[v] # NoCall, call[v].req = call[w].req
      PROVE  DOMAIN wlvl[v] = {}
  <2>1. WorkerInv(v) /\ call[v].op # "Submit"
    BY <1>1, <1>2 DEF Inv, WorkerInv, SubmitInv
  <2>2. pc[v] \notin Deciding \cup {"commit"} /\ pc[v] # "insertRequest"
    BY <1>1, <1>2, <2>1 DEF WorkerInv, DecideInv, Read, Deciding
  <2> QED BY <2>1, <2>2 DEF WorkerInv, Clean, Deciding
<1>3. CASE FindConfigLevels(w)
  <2> DEFINE list == IF cfg[w] = NoConfig THEN <<>> ELSE config[cfg[w]].levels
             row == NewRequest(call[w].doc, call[w].user, cfg[w], list)
             rows == Snapshot(list)
  <2>1. /\ pc' = [pc EXCEPT ![w] = "insertRequest"]
        /\ seen' = [seen EXCEPT ![w] = row] /\ wlvl' = [wlvl EXCEPT ![w] = rows]
        /\ UNCHANGED <<config, req, lvl, call, cfg, wreq, err>>
    BY <1>3 DEF FindConfigLevels, Goto
  <2>2. cfg[w] \in ConfigIds \cup {NoConfig} /\ list \in LevelLists /\ (cfg[w] = NoConfig => list = <<>>)
    BY ShapeFacts, LevelListsAssumption DEF ConfigRow
  <2>3. /\ pc'[w] = "insertRequest" /\ seen'[w] = row /\ wlvl'[w] = rows
        /\ \A v \in Workers \ {w} : pc'[v] = pc[v] /\ seen'[v] = seen[v] /\ wlvl'[v] = wlvl[v]
    BY <2>1, ShapeFacts
  <2>4. \E c \in ConfigIds \cup {NoConfig}, l \in LevelLists :
             /\ c = NoConfig => l = <<>>
             /\ seen'[w] = NewRequest(call[w].doc, call[w].user, c, l) /\ wlvl'[w] = Snapshot(l)
    <3> HIDE DEF list
    <3> QED BY <2>2, <2>3
  <2> HIDE DEF row, rows
  <2>5. Submits(w)' /\ Decides(w)'
    BY <1>1, <2>1, <2>4 DEF Submits, Decides
  <2>6. \A v \in Workers \ {w} : Exclusive(v, w)'
    BY <1>2, <2>1, <2>3 DEF Exclusive
  <2> QED BY <2>1, <2>3, <2>5, <2>6, OrderLocal
<1>4. CASE InsertRequest(w)
  <2>1. CASE Rollback(w, "UniqueViolation")
    BY <2>1, OrderRollback
  <2>2. CASE /\ pc' = [pc EXCEPT ![w] = "commit"] /\ wreq' = [wreq EXCEPT ![w] = seen[w]]
             /\ UNCHANGED <<config, req, lvl, call, cfg, seen, wlvl, err>>
    <3>1. pc'[w] = "commit" /\ \A v \in Workers \ {w} : pc'[v] = pc[v] /\ wreq'[v] = wreq[v]
      BY <2>2, ShapeFacts
    <3>2. Submits(w)' /\ Decides(w)'
      <4>1. Submits(w) /\ pc[w] = "insertRequest"
        BY <1>4, OrderFacts DEF InsertRequest
      <4> QED BY <1>1, <2>2, <4>1 DEF Submits, Decides
    <3>3. \A v \in Workers \ {w} : Exclusive(v, w)'
      BY <2>2, OrderFacts DEF Exclusive
    <3> QED BY <2>2, <3>1, <3>2, <3>3, OrderLocal
  <2> QED BY <1>4, <2>1, <2>2 DEF InsertRequest, Goto
<1> QED BY <1>3, <1>4

LEMMA OrderFindByID ==
    ASSUME Inv, OrderInv, NEW w \in Workers, FindByID(w)
    PROVE  OrderInv'
<1> DEFINE r == call[w].req
           l == IF call[w].op = "Cancel" THEN "skipRemaining" ELSE "markLevel"
<1>1. CASE Rollback(w, DecisionError(call[w]))
  BY <1>1, OrderRollback
<1>2. CASE /\ DecisionError(call[w]) = "nil"
           /\ seen' = [seen EXCEPT ![w] = req[r]] /\ pc' = [pc EXCEPT ![w] = l]
           /\ UNCHANGED <<config, req, lvl, call, cfg, wreq, wlvl, err>>
  <2>1. call[w] # NoCall /\ WorkerInv(w) /\ pc[w] = "findByID"
    BY DEF Inv, FindByID, WorkerInv, Clean
  <2>2. call[w].op # "Submit" /\ r \in Requests /\ wlvl[w] = <<>>
    BY <2>1, CallFields DEF SubmitInv, Clean, Deciding
  <2>3. /\ req[r] # NoRow /\ req[r].status = "waiting"
        /\ call[w].op = "Cancel" => req[r].submittedBy = call[w].user
    BY <1>2 DEF DecisionError
  <2>4. Passed(lvl[r], req[r].current)
    BY <2>2, <2>3 DEF OrderInv
  <2>5. /\ pc'[w] = l /\ seen'[w] = req[r]
        /\ \A v \in Workers \ {w} : pc'[v] = pc[v] /\ seen'[v] = seen[v]
    BY <1>2, ShapeFacts
  <2>6. Decides(w)' /\ Submits(w)'
    BY <1>2, <2>2, <2>3, <2>4, <2>5 DEF Decides, Submits, Passed
  <2>7. \A v \in Workers \ {w} : Exclusive(v, w)'
    BY <1>2, <2>2 DEF Exclusive
  <2> QED BY <1>2, <2>5, <2>6, <2>7, OrderLocal
<1> QED BY <1>1, <1>2 DEF FindByID, Goto

LEMMA OrderMarkLevel ==
    ASSUME Inv, OrderInv, NEW w \in Workers, MarkLevel(w)
    PROVE  OrderInv'
<1> DEFINE r == call[w].req
           at == seen[w].current
           row == MarkLevelAction(lvl[r][at], MarkStatus(w), call[w].user)
           rows == [k \in {at} |-> MarkLevelAction(lvl[r][k], MarkStatus(w), call[w].user)]
           l == IF call[w].op = "Approve" THEN "updateStatus" ELSE "skipRemaining"
<1>1. /\ pc[w] = "markLevel" /\ Unblocked(w)
      /\ pc' = [pc EXCEPT ![w] = l] /\ wlvl' = [wlvl EXCEPT ![w] = rows]
      /\ UNCHANGED <<config, req, lvl, call, cfg, seen, wreq, err>>
  BY DEF MarkLevel, Goto, MarkStatus
<1>2. /\ call[w] # NoCall /\ call[w].op \in {"Approve", "Reject"} /\ r \in Requests
      /\ call[w].user \in Users /\ Read(w) /\ Decides(w)
  BY <1>1, DecisionFacts, OrderFacts DEF Deciding, DecideInv
<1>3. at \in 1 .. req[r].total /\ lvl[r][at] \in LevelRow
  BY <1>2, CommittedRow DEF Read
<1>4. row.status = MarkStatus(w) /\ row.actionBy = call[w].user
  <2> DEFINE old == lvl[r][at]
             status == MarkStatus(w)
             user == call[w].user
  <2> HIDE DEF old, status, user
  <2>1. old \in LevelRow
    BY <1>3 DEF old
  <2>2. [old EXCEPT !.status = status, !.actionBy = user].status = status
        /\ [old EXCEPT !.status = status, !.actionBy = user].actionBy = user
    BY <2>1 DEF LevelRow
  <2> QED BY <2>2 DEF MarkLevelAction, old, status, user
<1>5. DOMAIN rows = {at} /\ rows[at] = row
  OBVIOUS
<1> HIDE DEF row, rows
<1>6. /\ pc'[w] = l /\ wlvl'[w] = rows
      /\ \A v \in Workers \ {w} : pc'[v] = pc[v] /\ wlvl'[v] = wlvl[v]
  BY <1>1, ShapeFacts
<1>7. \A k \in DOMAIN wlvl'[w] : Written(w, k)'
  BY <1>1, <1>2, <1>4, <1>5, <1>6, NoUserAssumption DEF Written, MarkStatus, ActionCheck
<1>8. Decides(w)' /\ Submits(w)'
  BY <1>1, <1>2, <1>6, <1>7 DEF Decides, Submits, Deciding, Passed
<1>9. ASSUME NEW v \in Workers \ {w} PROVE Exclusive(v, w)'
  <2>1. call[v] # NoCall /\ call[v].req = r => at \notin DOMAIN wlvl[v]
    <3>1. ~WaitsFor(w, v)
      BY <1>1 DEF Unblocked
    <3>2. pc[v] \in {"idle", "done"} => wlvl[v] = <<>>
      BY DEF Inv, WorkerInv, Clean
    <3> QED BY <1>1, <3>1, <3>2 DEF WaitsFor, HoldsLevel
  <2> QED BY <1>1, <1>5, <1>6, <2>1 DEF Exclusive
<1> QED BY <1>1, <1>6, <1>8, <1>9, OrderLocal

LEMMA OrderSkipRemaining ==
    ASSUME Inv, OrderInv, NEW w \in Workers, SkipRemaining(w)
    PROVE  OrderInv'
<1> DEFINE r == call[w].req
           skipped == SkipRemainingPending(Visible(w))
           rows == Install(skipped, wlvl[w])
<1>1. /\ pc[w] = "skipRemaining" /\ call[w] # NoCall /\ call[w].op \in {"Reject", "Cancel"}
      /\ r \in Requests /\ Read(w) /\ Wrote(w) /\ DecideInv(w) /\ Decides(w)
  BY DecisionFacts, OrderFacts DEF SkipRemaining, Deciding, DecideInv
<1>2. CASE Rollback(w, "CheckViolation")
  BY <1>2, OrderRollback
<1>3. CASE /\ wlvl' = [wlvl EXCEPT ![w] = rows] /\ pc' = [pc EXCEPT ![w] = "updateStatus"]
           /\ UNCHANGED <<config, req, lvl, call, cfg, seen, wreq, err>>
           /\ SkipsCleanly(Visible(w)) /\ Unblocked(w)
  <2>1. DOMAIN skipped = {l \in 1 .. req[r].total : Visible(w)[l].status = "pending"}
    BY <1>1, VisibleRows DEF SkipRemainingPending
  <2>2. ASSUME NEW l \in DOMAIN skipped
        PROVE  /\ ActionCheck(skipped[l]) /\ skipped[l].status = "skipped"
               /\ lvl[r][l].status = "pending" /\ l \notin DOMAIN wlvl[w]
    <3>1. /\ l \in 1 .. req[r].total /\ LevelOK(Visible(w)[l]) /\ Visible(w)[l].status = "pending"
          /\ lvl[r][l].status = "pending" /\ l \notin DOMAIN wlvl[w]
      BY <1>1, <2>1, VisibleRows
    <3> DEFINE old == Visible(w)[l]
    <3>2. skipped[l] = [old EXCEPT !.status = "skipped"]
      BY <2>1 DEF SkipRemainingPending
    <3>3. ActionCheck(skipped[l])
      BY <1>3 DEF SkipsCleanly
    <3> HIDE DEF old, skipped
    <3>4. old \in LevelRow
      BY <3>1 DEF old, LevelOK
    <3>5. skipped[l].status = "skipped"
      BY <3>2, <3>4 DEF LevelRow
    <3> QED BY <3>1, <3>3, <3>5
  <2> HIDE DEF skipped
  <2>3. DOMAIN rows = DOMAIN wlvl[w] \cup DOMAIN skipped
    BY DEF Install
  <2>4. ASSUME NEW l \in DOMAIN rows
        PROVE  rows[l] = IF l \in DOMAIN skipped THEN skipped[l] ELSE wlvl[w][l]
    BY <2>3 DEF Install
  <2> HIDE DEF rows
  <2>5. /\ pc'[w] = "updateStatus" /\ wlvl'[w] = rows
        /\ \A v \in Workers \ {w} : pc'[v] = pc[v] /\ wlvl'[v] = wlvl[v]
    BY <1>3, ShapeFacts
  <2>6. ASSUME NEW l \in DOMAIN rows PROVE Written(w, l)'
    <3>1. CASE l \in DOMAIN skipped
      <4>1. /\ ActionCheck(rows[l]) /\ rows[l].status = "skipped" /\ lvl[r][l].status = "pending"
        BY <2>2, <2>4, <3>1
      <4>2. ~(call[w].op # "Cancel" /\ l = seen[w].current)
        BY <1>1, <2>2, <3>1 DEF DecideInv, Acted
      <4> QED BY <1>1, <1>3, <2>5, <4>1, <4>2 DEF Written, ActionCheck
    <3>2. CASE l \notin DOMAIN skipped
      <4>1. l \in DOMAIN wlvl[w] /\ rows[l] = wlvl[w][l]
        BY <2>3, <2>4, <3>2
      <4>2. Written(w, l)
        BY <1>1, <4>1 DEF Decides, Deciding
      <4> QED BY <1>1, <1>3, <2>5, <4>1, <4>2 DEF Written, ActionCheck, MarkStatus
    <3> QED BY <3>1, <3>2
  <2>7. Decides(w)' /\ Submits(w)'
    BY <1>1, <1>3, <2>5, <2>6 DEF Decides, Submits, Deciding, Passed
  <2>8. ASSUME NEW v \in Workers \ {w} PROVE Exclusive(v, w)'
    <3>1. call[v] # NoCall /\ call[v].req = r => DOMAIN wlvl[v] \cap DOMAIN skipped = {}
      <4>1. ~WaitsFor(w, v)
        BY <1>3 DEF Unblocked
      <4>2. pc[v] \in {"idle", "done"} => wlvl[v] = <<>>
        BY DEF Inv, WorkerInv, Clean
      <4>3. \A k \in DOMAIN skipped : k \in DOMAIN SkipRemainingPending(Visible(w))
        BY DEF skipped
      <4> QED BY <1>1, <1>3, <4>1, <4>2, <4>3 DEF WaitsFor, HoldsLevel
    <3>2. Exclusive(v, w)
      BY OrderFacts
    <3> QED BY <1>3, <2>3, <2>5, <3>1, <3>2 DEF Exclusive
  <2> QED BY <1>3, <2>5, <2>7, <2>8, OrderLocal
<1> QED BY <1>2, <1>3 DEF SkipRemaining, Goto

LEMMA OrderUpdateStatus ==
    ASSUME Inv, OrderInv, NEW w \in Workers, UpdateStatus(w)
    PROVE  OrderInv'
<1>1. CASE Rollback(w, "UniqueViolation")
  BY <1>1, OrderRollback
<1>2. CASE /\ pc' = [pc EXCEPT ![w] = "commit"] /\ wreq' = [wreq EXCEPT ![w] = Outcome(w)]
           /\ UNCHANGED <<config, req, lvl, call, cfg, seen, wlvl, err>>
  <2>1. /\ pc'[w] = "commit" /\ wreq'[w] = Outcome(w)
        /\ \A v \in Workers \ {w} : pc'[v] = pc[v] /\ wreq'[v] = wreq[v]
    BY <1>2, ShapeFacts
  <2>2. /\ pc[w] = "updateStatus" /\ call[w].op # "Submit" /\ call[w] # NoCall
        /\ call[w].op # "Cancel" => seen[w].current \in DOMAIN wlvl[w]
        /\ call[w].op # "Approve" => NothingPending(w)
        /\ Decides(w) /\ Outcome(w)' = Outcome(w)
    <3>1. pc[w] = "updateStatus"
      BY DEF UpdateStatus
    <3> QED BY <1>2, <3>1, DecisionFacts, OrderFacts DEF Deciding, Outcome, DecideInv, Acted
  <2>3. Decides(w)' /\ Submits(w)'
    BY <1>2, <2>1, <2>2
       DEF Decides, Submits, Deciding, Passed, Written, MarkStatus, NothingPending
  <2>4. \A v \in Workers \ {w} : Exclusive(v, w)'
    BY <1>2, OrderFacts DEF Exclusive
  <2> QED BY <1>2, <2>1, <2>3, <2>4, OrderLocal
<1> QED BY <1>1, <1>2 DEF UpdateStatus, Goto

\* A commit leaves the request waiting at a level that has been reached.
LEMMA CommitPassed ==
    ASSUME Inv, OrderInv, NEW w \in Workers, pc[w] = "commit", wreq[w].status = "waiting"
    PROVE  Passed(Visible(w), wreq[w].current)
<1> DEFINE r == call[w].req
           row == wreq[w]
           at == seen[w].current
<1>1. /\ call[w] # NoCall /\ r \in Requests /\ Succeeds(r, row, Visible(w)) /\ row \in RequestRow
      /\ call[w].op = "Submit" => row = seen[w]
      /\ call[w].op = "Submit" <=> req[r] = NoRow
  BY CommitFacts
<1>2. Decides(w) /\ Submits(w)
  BY OrderFacts
<1>3. CASE call[w].op = "Submit"
  <2>1. PICK c \in ConfigIds \cup {NoConfig}, list \in LevelLists :
                seen[w] = NewRequest(call[w].doc, call[w].user, c, list)
    BY <1>1, <1>2, <1>3 DEF Submits
  <2>2. row.current = 1
    BY <1>1, <1>3, <2>1 DEF NewRequest
  <2> QED BY <2>2 DEF Passed
<1>4. CASE call[w].op # "Submit"
  <2>1. Passed(lvl[r], at) /\ row = Outcome(w) /\ Read(w) /\ Wrote(w)
    BY <1>1, <1>2, <1>4, CallFields DEF Decides, DecideInv
  <2>2. req[r] \in RequestRow /\ at \in 1 .. req[r].total /\ req[r].total \in Nat
    BY <1>1, <1>4, <2>1, CommittedRow DEF Read
  <2>3. row.current = at + 1
    <3> DEFINE old == req[r]
               user == call[w].user
    <3>1. call[w].op = "Approve"
      <4>1. CASE call[w].op # "Approve"
        <5> DEFINE status == IF call[w].op = "Reject" THEN "rejected" ELSE "cancelled"
        <5>1. row = UpdateRequestStatus(old, status, NilLevel, user) /\ status # "waiting"
          BY <2>1, <4>1 DEF Outcome
        <5> HIDE DEF status, old, user
        <5>2. UpdateRequestStatus(old, status, NilLevel, user).status = status
          BY <2>2 DEF UpdateRequestStatus, RequestRow, old
        <5> QED BY <5>1, <5>2
      <4> QED BY <4>1
    <3>2. row = Approved(old, seen[w], user)
      BY <2>1, <3>1 DEF Outcome
    <3> DEFINE next == at + 1
    <3>3. row \in {UpdateRequestStatus(old, "approved", NilLevel, user),
                   UpdateRequestStatus(old, "waiting", next, NoUser)}
      BY <3>2 DEF Approved
    <3> HIDE DEF old, user, row, next
    <3>4. /\ UpdateRequestStatus(old, "approved", NilLevel, user).status = "approved"
          /\ UpdateRequestStatus(old, "waiting", next, NoUser).current = next
      BY <2>2 DEF UpdateRequestStatus, RequestRow, old
    <3> QED BY <3>3, <3>4 DEF next, row
  <2>4. Visible(w)[at].status = "approved"
    <3>1. row.current > 1 /\ row.current - 1 = at
      BY <2>2, <2>3
    <3> QED BY <1>1, <3>1 DEF Succeeds, RowsOK, DecisionRecorded
  <2>5. ASSUME NEW l \in 1 .. at - 1 PROVE Visible(w)[l].status # "pending"
    <3>1. l \in 1 .. req[r].total /\ lvl[r][l].status # "pending"
      BY <2>1, <2>2 DEF Passed
    <3> QED BY <1>1, <2>1, <3>1, VisibleRows
  <2>6. \A l \in 1 .. row.current - 1 : l = at \/ l \in 1 .. at - 1
    BY <2>2, <2>3
  <2> QED BY <2>4, <2>5, <2>6 DEF Passed
<1> QED BY <1>3, <1>4

LEMMA OrderCommit ==
    ASSUME Inv, OrderInv, NEW w \in Workers, Commit(w)
    PROVE  OrderInv'
<1> DEFINE r == call[w].req
<1>1. /\ pc[w] = "commit" /\ call' = call
      /\ pc'[w] = "done" /\ wlvl'[w] = <<>>
      /\ \A v \in Workers \ {w} :
               pc'[v] = pc[v] /\ seen'[v] = seen[v] /\ wreq'[v] = wreq[v] /\ wlvl'[v] = wlvl[v]
  BY ShapeFacts DEF Commit, Goto
<1>2. /\ r \in Requests /\ call[w] # NoCall /\ wreq[w] # NoRow /\ Succeeds(r, wreq[w], Visible(w))
      /\ call[w].op = "Submit" <=> req[r] = NoRow
  BY <1>1, CommitFacts
<1>3. /\ req'[r] = wreq[w] /\ lvl'[r] = Visible(w)
      /\ \A s \in Requests \ {r} : req'[s] = req[s] /\ lvl'[s] = lvl[s]
  BY <1>2, ShapeFacts DEF Commit
<1>4. ASSUME NEW s \in Requests, req'[s] # NoRow, req'[s].status = "waiting"
      PROVE  Passed(lvl'[s], req'[s].current)
  <2>1. CASE s = r
    BY <1>1, <1>3, <1>4, <2>1, CommitPassed
  <2>2. CASE s # r
    BY <1>3, <1>4, <2>2 DEF OrderInv
  <2> QED BY <2>1, <2>2
<1>5. \A u, v \in Workers : u # v => Exclusive(u, v)'
  BY <1>1, OrderFacts DEF Exclusive
<1>6. Decides(w)' /\ Submits(w)'
  BY <1>1 DEF Decides, Submits, Deciding
<1>7. ASSUME NEW v \in Workers \ {w} PROVE Submits(v)'
  <2>1. Submits(v)
    BY OrderFacts
  <2> QED BY <1>1, <2>1 DEF Submits
<1>8. ASSUME NEW v \in Workers \ {w} PROVE Decides(v)'
  <2>1. SUFFICES ASSUME call[v] # NoCall, call[v].op # "Submit", pc[v] \in Deciding \cup {"commit"}
                 PROVE  Decides(v)'
    BY <1>1 DEF Decides
  <2>2. Decides(v) /\ Exclusive(v, w) /\ DecideInv(v) /\ Clean(v) /\ call[v].req \in Requests
    BY <2>1, CallFields, OrderFacts
  <2>3. Read(v) /\ Wrote(v)
    BY <2>1, <2>2 DEF DecideInv
  <2>4. CASE call[v].req # r
    <3>1. req'[call[v].req] = req[call[v].req] /\ lvl'[call[v].req] = lvl[call[v].req]
      BY <1>3, <2>2, <2>4
    <3>2. Outcome(v)' = Outcome(v)
      BY <1>1, <3>1 DEF Outcome
    <3> QED BY <1>1, <2>1, <2>2, <3>1, <3>2
           DEF Decides, Written, MarkStatus, Passed, NothingPending
  <2>5. CASE call[v].req = r
    <3>1. pc[v] # "commit" /\ req[r] # NoRow
      BY <1>2, <2>2, <2>3, <2>5 DEF Inv, Locks, Clean, Read
    <3>2. /\ wreq[w].submittedBy = req[r].submittedBy
          /\ \A l \in 1 .. req[r].total :
                Visible(w)[l].status = "pending" => lvl[r][l].status = "pending"
      BY <1>2, <3>1 DEF Succeeds, SameRequest
    <3>3. Passed(lvl[r], seen[v].current) /\ seen[v].current \in 1 .. req[r].total
          /\ req[r].total \in Nat
      BY <1>2, <2>1, <2>2, <2>3, <2>5, <3>1, CommittedRow DEF Decides, Read
    <3>4. Passed(lvl'[r], seen[v].current)
      BY <1>3, <3>2, <3>3 DEF Passed
    <3>5. ASSUME NEW l \in DOMAIN wlvl[v] PROVE Written(v, l)'
      <4>1. Written(v, l)
        BY <2>1, <2>2, <3>5 DEF Decides
      <4>2. l \notin DOMAIN wlvl[w] /\ l \in 1 .. req[r].total
        BY <1>2, <2>1, <2>2, <2>3, <2>5, <3>5 DEF Exclusive, Wrote
      <4>3. DOMAIN lvl[r] = 1 .. req[r].total
        BY <1>2, <3>1, CommittedRow
      <4>4. lvl'[r][l] = lvl[r][l]
        BY <1>3, <4>2, <4>3 DEF Visible, Install
      <4> QED BY <1>1, <2>5, <4>1, <4>4 DEF Written, MarkStatus
    <3>6. call[v].op = "Cancel" => req'[r].submittedBy = call[v].user
      BY <1>3, <2>1, <2>2, <2>5, <3>2 DEF Decides
    <3>7. Passed(lvl[call[v].req], seen[v].current)'
      BY <1>1, <2>5, <3>4 DEF Passed
    <3> QED BY <1>1, <2>5, <3>1, <3>5, <3>6, <3>7 DEF Decides
  <2> QED BY <2>4, <2>5
<1> QED BY <1>4, <1>5, <1>6, <1>7, <1>8 DEF OrderInv, Passed

LEMMA OrderNext == Inv /\ OrderInv /\ [Next]_vars => OrderInv'
<1> SUFFICES ASSUME Inv, OrderInv, [Next]_vars PROVE OrderInv'
  OBVIOUS
<1> DEFINE same == UNCHANGED <<req, lvl, pc, call, seen, wreq, wlvl>>
<1>1. ASSUME same PROVE OrderInv'
  <2>1. ASSUME NEW w \in Workers PROVE Decides(w)' /\ Submits(w)'
    <3>1. Decides(w) /\ Submits(w) /\ Outcome(w)' = Outcome(w)
      BY <1>1, OrderFacts DEF Outcome
    <3> QED BY <1>1, <3>1 DEF Decides, Submits, Written, MarkStatus, Passed, NothingPending
  <2> QED BY <1>1, <2>1 DEF OrderInv, Exclusive, Passed
<1>2. ASSUME NEW c \in ConfigIds, NEW active \in BOOLEAN, NEW list \in LevelLists,
             CreateConfig(c, active, list) \/ UpdateConfig(c, active, list)
      PROVE  OrderInv'
  BY <1>1, <1>2 DEF CreateConfig, UpdateConfig, txvars
<1>3. ASSUME NEW c \in ConfigIds, DeleteConfig(c) PROVE OrderInv'
  BY <1>1, <1>3 DEF DeleteConfig, txvars
<1>4. CASE UNCHANGED vars
  BY <1>1, <1>4 DEF vars, txvars
<1>5. ASSUME NEW w \in Workers, NEW r \in Requests, NEW user \in Users,
             \/ \E doc \in Docs : BeginSubmit(w, r, doc, user)
             \/ \E op \in {"Approve", "Reject", "Cancel"} : BeginDecision(w, op, r, user)
      PROVE  OrderInv'
  <2>1. /\ pc[w] = "idle" /\ UNCHANGED <<req, lvl, seen, wreq, wlvl>>
        /\ pc'[w] \in {"findActiveByDoc", "findByID"}
        /\ \A v \in Workers \ {w} : pc'[v] = pc[v] /\ call'[v] = call[v]
    BY <1>5, ShapeFacts DEF BeginSubmit, BeginDecision, Goto
  <2>2. wlvl[w] = <<>>
    BY <2>1 DEF Inv, WorkerInv, Clean
  <2>3. wlvl'[w] = <<>> /\ pc'[w] \notin Deciding \cup {"insertRequest", "commit"}
    BY <2>1, <2>2 DEF Deciding
  <2> QED BY <2>1, <2>3, OrderClear
<1>6. ASSUME NEW w \in Workers, FindActiveByDoc(w) \/ FindActive(w) \/ Return(w) PROVE OrderInv'
  <2>1. CASE Rollback(w, "ErrRequestAlreadyExists")
    BY <2>1, OrderRollback
  <2>2. CASE /\ pc[w] \in {"findActiveByDoc", "findActive", "done"}
             /\ pc'[w] \in {"findActive", "findLevels", "idle"}
             /\ UNCHANGED <<req, lvl, seen, wreq, wlvl>>
             /\ \A v \in Workers \ {w} : pc'[v] = pc[v] /\ call'[v] = call[v]
    <3>1. wlvl[w] = <<>>
      BY <2>2 DEF Inv, WorkerInv, Clean
    <3>2. wlvl'[w] = <<>> /\ pc'[w] \notin Deciding \cup {"insertRequest", "commit"}
      BY <2>2, <3>1 DEF Deciding
    <3> QED BY <2>2, <3>2, OrderClear
  <2> QED BY <1>6, <2>1, <2>2, ShapeFacts DEF FindActiveByDoc, FindActive, Return, Goto
<1>7. ASSUME NEW w \in Workers, Step(w) PROVE OrderInv'
  BY <1>6, <1>7, OrderSubmit, OrderFindByID, OrderMarkLevel, OrderSkipRemaining,
     OrderUpdateStatus, OrderCommit DEF Step
<1>8. ASSUME NEW w \in Workers, Fail(w) PROVE OrderInv'
  BY <1>8, OrderRollback DEF Fail
<1> QED BY <1>2, <1>3, <1>4, <1>5, <1>7, <1>8 DEF Next

LEMMA OrderAlways == Spec => []OrderInv
<1>1. Init => OrderInv
  BY DEF Init, OrderInv, Decides, Submits, Exclusive
<1> QED BY <1>1, InvAlways, OrderNext, PTL DEF Spec

-----------------------------------------------------------------------------
(* The theorems. *)

(***************************************************************************)
(* Type correctness: a committed request has its level rows, one for each  *)
(* level snapshotted, and nothing else has any.                            *)
(***************************************************************************)
THEOREM TxTypeOK == Spec => []TypeOK
<1>1. Inv => TypeOK
  <2> SUFFICES ASSUME Inv PROVE TypeOK
    OBVIOUS
  <2>1. ASSUME NEW r \in Requests
        PROVE  IF req[r] = NoRow THEN lvl[r] = <<>> ELSE lvl[r] \in [1 .. req[r].total -> LevelRow]
    BY DEF Inv, Committed, RowsOK
  <2> QED BY <2>1, ShapeFacts DEF TypeOK
<1> QED BY <1>1, InvAlways, PTL

(***************************************************************************)
(* At most one waiting request on a document, whatever the overlap of      *)
(* Submits with each other and with stale approvals that make a request    *)
(* waiting again.                                                          *)
(***************************************************************************)
THEOREM TxOneActivePerDoc == Spec => []OneActivePerDoc
<1>1. Inv => OneActivePerDoc
  BY DEF Inv, Locks, OneActivePerDoc, Engine!OneActivePerDoc, Engine!IsActive, IsActive
<1> QED BY <1>1, InvAlways, PTL

(***************************************************************************)
(* Every decision in the trail is that of an approver of the level.        *)
(***************************************************************************)
THEOREM TxDecidedByEligible == Spec => []DecidedByEligible
<1>1. Inv => DecidedByEligible
  <2> SUFFICES ASSUME Inv, NEW r \in Requests, NEW l \in DOMAIN lvl[r] PROVE LevelOK(lvl[r][l])
    BY DEF DecidedByEligible, Engine!DecidedByEligible, LevelOK
  <2>1. req[r] # NoRow
    BY DEF Inv, Committed
  <2> QED BY <2>1, CommittedRow
<1> QED BY <1>1, InvAlways, PTL

(***************************************************************************)
(* The status of a request is the outcome of a decision still on record,   *)
(* and a rejected or cancelled request has no pending level.               *)
(***************************************************************************)
THEOREM TxLastDecisionRecorded == Spec => []LastDecisionRecorded
<1>1. Inv => LastDecisionRecorded
  BY CommittedRow DEF LastDecisionRecorded
<1> QED BY <1>1, InvAlways, PTL

\* The tables change at a commit only.
LEMMA TablesChange ==
    ASSUME [Next]_vars
    PROVE  UNCHANGED <<req, lvl>> \/ \E w \in Workers : Commit(w)
BY DEF Next, vars, Step, CreateConfig, UpdateConfig, DeleteConfig, BeginSubmit, BeginDecision,
       Fail, Rollback, FindActiveByDoc, FindActive, FindConfigLevels, InsertRequest, FindByID,
       MarkLevel, SkipRemaining, UpdateStatus, Return

(***************************************************************************)
(* Snapshots, decisions taken and finalizers are never erased.             *)
(***************************************************************************)
THEOREM TxHistoryKept == Spec => HistoryKept
<1>1. ASSUME Inv, [Next]_vars, NEW r \in Requests, req[r] # NoRow PROVE KeepsSnapshot(r)
  <2>1. CASE req'[r] = req[r] /\ lvl'[r] = lvl[r]
    BY <1>1, <2>1 DEF KeepsSnapshot
  <2>2. ASSUME NEW w \in Workers, Commit(w), call[w].req = r PROVE KeepsSnapshot(r)
    <3>1. Succeeds(r, wreq[w], Visible(w)) /\ wreq[w] # NoRow
      BY <1>1, <2>2, CommitFacts DEF Commit
    <3>2. req'[r] = wreq[w] /\ lvl'[r] = Visible(w)
      BY <1>1, <2>2, ShapeFacts DEF Commit
    <3>3. DOMAIN lvl[r] = 1 .. req[r].total /\ DOMAIN lvl'[r] = 1 .. req[r].total
      BY <1>1, <3>1, <3>2, CommittedRow DEF Succeeds, SameRequest, RowsOK
    <3> QED BY <1>1, <3>1, <3>2, <3>3 DEF Succeeds, SameRequest, KeepsSnapshot
  <2>3. ASSUME NEW w \in Workers, Commit(w), call[w].req # r
        PROVE  req'[r] = req[r] /\ lvl'[r] = lvl[r]
    <3>1. call[w].req \in Requests
      BY <1>1, <2>3, CommitFacts DEF Commit
    <3> QED BY <1>1, <2>3, <3>1, ShapeFacts DEF Commit
  <2> QED BY <1>1, <2>1, <2>2, <2>3, TablesChange
<1>2. Inv /\ [Next]_vars => [\A r \in Requests : req[r] # NoRow => KeepsSnapshot(r)]_vars
  BY <1>1
<1> QED BY <1>2, InvAlways, PTL DEF Spec, HistoryKept

\* A transaction that skips levels has written the one it rejects, if any.
LEMMA SkipperHolds ==
    ASSUME Inv, OrderInv, NEW w \in Workers, pc[w] = "skipRemaining", NEW l \in DOMAIN wlvl[w]
    PROVE  l = seen[w].current
<1>1. call[w] # NoCall /\ call[w].op # "Submit"
  BY DecisionFacts DEF Deciding
<1>2. Decides(w)
  BY OrderFacts
<1> QED BY <1>1, <1>2 DEF Decides, Deciding, Written

LEMMA SkipperWants ==
    ASSUME Inv, NEW w \in Workers, pc[w] = "skipRemaining",
           NEW l \in DOMAIN SkipRemainingPending(Visible(w))
    PROVE  /\ l \in 1 .. req[call[w].req].total /\ l \notin DOMAIN wlvl[w]
           /\ lvl[call[w].req][l].status = "pending"
<1>1. call[w].req \in Requests /\ Read(w) /\ Wrote(w)
  BY DecisionFacts DEF Deciding
<1>2. l \in DOMAIN Visible(w) /\ Visible(w)[l].status = "pending"
  BY DEF SkipRemainingPending
<1> QED BY <1>1, <1>2, VisibleRows

\* Nobody waits for a transaction that itself skips levels another one holds:
\* both hold the level they reject only, and below it nothing is pending.
LEMMA NoWaitChain ==
    ASSUME Inv, OrderInv, NEW x \in Workers, NEW y \in Workers, NEW z \in Workers,
           WaitsFor(x, y), WaitsFor(y, z),
           \A v \in {x, y, z} : pc[v] = "skipRemaining"
    PROVE  FALSE
<1> DEFINE r == call[y].req
           j == seen[y].current
           k == seen[z].current
<1>1. \A v \in {x, y, z} : /\ call[v] # NoCall /\ call[v].op # "Submit" /\ call[v].req \in Requests
                           /\ Read(v) /\ Wrote(v) /\ Decides(v)
  BY DecisionFacts, OrderFacts DEF Deciding
<1>2. PICK l \in DOMAIN SkipRemainingPending(Visible(x)) : HoldsLevel(y, call[x].req, l)
  BY DEF WaitsFor
<1>3. PICK m \in DOMAIN SkipRemainingPending(Visible(y)) : HoldsLevel(z, call[y].req, m)
  BY DEF WaitsFor
<1>4. call[x].req = r /\ call[z].req = r /\ l \in DOMAIN wlvl[y] /\ m \in DOMAIN wlvl[z]
  BY <1>2, <1>3 DEF HoldsLevel
<1>5. l = j /\ m = k
  BY <1>4, SkipperHolds
<1>6. l \in 1 .. req[r].total /\ lvl[r][l].status = "pending"
  BY <1>2, <1>4, SkipperWants
<1>7. m \in 1 .. req[r].total /\ lvl[r][m].status = "pending" /\ m \notin DOMAIN wlvl[y]
  BY <1>3, SkipperWants
<1>8. Passed(lvl[r], j) /\ Passed(lvl[r], k) /\ req[r].total \in Nat
  BY <1>1, <1>4, CommittedRow DEF Decides, Deciding, Read
<1>9. j # k
  BY <1>4, <1>5, <1>7
<1>10. j \in Nat /\ k \in Nat /\ j >= 1 /\ k >= 1
  BY <1>5, <1>6, <1>7
<1>11. k \notin 1 .. j - 1 /\ j \notin 1 .. k - 1
  BY <1>5, <1>6, <1>7, <1>8 DEF Passed
<1> QED BY <1>9, <1>10, <1>11

(***************************************************************************)
(* Lock waits form no circle, for any number of transactions.  A request   *)
(* row and an index entry are held by transactions about to commit, which  *)
(* wait for nobody; a level row may be held by one that waits for other    *)
(* level rows, but then nobody waits for it who could be waited for.       *)
(***************************************************************************)
THEOREM TxNoLockCycle == Spec => []NoLockCycle
<1>1. ASSUME Inv, OrderInv PROVE NoLockCycle
  <2> SUFFICES ASSUME NEW group \in SUBSET Workers, group # {},
                      \A w \in group : \E v \in group : WaitsFor(w, v)
               PROVE  FALSE
    BY Zenon DEF NoLockCycle
  <2>1. ASSUME NEW w \in group PROVE pc[w] \in {"markLevel", "skipRemaining"}
    <3>1. PICK v \in group : WaitsFor(w, v)
      OBVIOUS
    <3>2. pc[v] # "commit"
      BY DEF WaitsFor
    <3>3. wreq[v] = NoRow
      BY <1>1, <3>2 DEF Inv, WorkerInv, Clean
    <3> QED BY <3>1, <3>3 DEF WaitsFor, HoldsEntry, HoldsRequest
  <2>2. ASSUME NEW w \in group, NEW v \in group, WaitsFor(w, v) PROVE pc[v] = "skipRemaining"
    <3>1. wlvl[v] # <<>>
      BY <2>1, <2>2 DEF WaitsFor, HoldsLevel
    <3> QED BY <1>1, <2>1, <3>1 DEF Inv, WorkerInv, Clean
  <2>3. PICK t \in group, x \in group, y \in group, z \in group :
            WaitsFor(t, x) /\ WaitsFor(x, y) /\ WaitsFor(y, z)
    OBVIOUS
  <2>4. pc[x] = "skipRemaining" /\ pc[y] = "skipRemaining" /\ pc[z] = "skipRemaining"
    BY <2>2, <2>3
  <2> QED BY <1>1, <2>3, <2>4, NoWaitChain
<1> QED BY <1>1, InvAlways, OrderAlways, PTL

-----------------------------------------------------------------------------
(* Transactions that overlap: every commit is one decision of              *)
(* ApprovalCommits on the rows it finds.                                   *)

LEMMA SameLevelRow ==
    ASSUME NEW a \in LevelRow, NEW b \in LevelRow,
           a.eligible = b.eligible, a.status = b.status, a.actionBy = b.actionBy
    PROVE  a = b
BY DEF LevelRow

\* The levels as the decision of w leaves them, the skipping aside.
Decided(w) ==
    LET r == call[w].req IN
    IF call[w].op = "Cancel" THEN lvl[r]
    ELSE [lvl[r] EXCEPT ![seen[w].current] = MarkLevelAction(@, MarkStatus(w), call[w].user)]

LEMMA DecidedRows ==
    ASSUME Inv, OrderInv, NEW w \in Workers, pc[w] = "commit", call[w].op # "Submit"
    PROVE  LET r == call[w].req
               rows == Decided(w)
           IN  /\ DOMAIN rows = 1 .. req[r].total /\ DOMAIN Visible(w) = 1 .. req[r].total
               /\ \A k \in 1 .. req[r].total :
                     IF call[w].op # "Approve" /\ rows[k].status = "pending"
                     THEN /\ Visible(w)[k] = [rows[k] EXCEPT !.status = "skipped"]
                          /\ ActionCheck(Visible(w)[k])
                     ELSE Visible(w)[k] = rows[k]
<1> DEFINE r == call[w].req
           rows == Decided(w)
           at == seen[w].current
           user == call[w].user
           status == MarkStatus(w)
<1>1. /\ call[w] # NoCall /\ call[w].op \in {"Approve", "Reject", "Cancel"} /\ r \in Requests
      /\ user \in Users /\ Read(w) /\ Wrote(w) /\ Decides(w)
  <2>1. call[w] # NoCall
    BY DEF Inv, WorkerInv, Clean
  <2> QED BY <2>1, CallFields, OrderFacts DEF DecideInv
<1>2. /\ \A k \in DOMAIN wlvl[w] : Written(w, k)
      /\ call[w].op # "Cancel" => at \in DOMAIN wlvl[w]
      /\ call[w].op # "Approve" => NothingPending(w)
  BY <1>1 DEF Decides
<1>3. DOMAIN lvl[r] = 1 .. req[r].total /\ at \in 1 .. req[r].total
      /\ \A k \in 1 .. req[r].total : LevelOK(lvl[r][k])
  BY <1>1, CommittedRow DEF Read
<1>4. DOMAIN rows = 1 .. req[r].total
  BY <1>3 DEF Decided
<1>5. DOMAIN Visible(w) = 1 .. req[r].total
  BY <1>1, VisibleRows
<1>6. ASSUME NEW k \in 1 .. req[r].total
      PROVE  IF call[w].op # "Approve" /\ rows[k].status = "pending"
             THEN /\ Visible(w)[k] = [rows[k] EXCEPT !.status = "skipped"]
                  /\ ActionCheck(Visible(w)[k])
             ELSE Visible(w)[k] = rows[k]
  <2> DEFINE old == lvl[r][k]
             new == Visible(w)[k]
  <2>1. /\ LevelOK(old) /\ LevelOK(new) /\ new.eligible = old.eligible
        /\ new = IF k \in DOMAIN wlvl[w] THEN wlvl[w][k] ELSE old
    BY <1>1, <1>3, VisibleRows
  <2>2. CASE call[w].op # "Cancel" /\ k = at
    <3>1. k \in DOMAIN wlvl[w] /\ new = wlvl[w][k] /\ Written(w, k)
      BY <1>2, <2>1, <2>2
    <3>2. new.status = status /\ new.actionBy = user
      BY <2>2, <3>1 DEF Written
    <3>3. rows[k] = [old EXCEPT !.status = status, !.actionBy = user]
      BY <1>3, <2>2 DEF Decided, MarkLevelAction
    <3>4. status \in {"approved", "rejected"}
      BY DEF MarkStatus
    <3> HIDE DEF old, new, status, user, rows
    <3>5. old \in LevelRow /\ new \in LevelRow
      BY <2>1 DEF LevelOK
    <3>6. /\ rows[k] \in LevelRow /\ rows[k].eligible = old.eligible
          /\ rows[k].status = status /\ rows[k].actionBy = user
      BY <1>1, <3>3, <3>4, <3>5 DEF LevelRow, LevelStatuses, user
    <3>7. rows[k] = new
      BY <2>1, <3>2, <3>5, <3>6, SameLevelRow
    <3> QED BY <3>4, <3>6, <3>7 DEF new
  <2>3. CASE ~(call[w].op # "Cancel" /\ k = at)
    <3>1. rows[k] = old
      BY <1>3, <2>3 DEF Decided
    <3>2. CASE k \in DOMAIN wlvl[w]
      <4>1. /\ new = wlvl[w][k] /\ ActionCheck(new) /\ new.status = "skipped"
            /\ call[w].op # "Approve" /\ old.status = "pending"
        BY <1>2, <2>1, <2>3, <3>2 DEF Written
      <4> HIDE DEF old, new, rows
      <4>2. /\ old \in LevelRow /\ new \in LevelRow /\ old.actionBy = NoUser /\ new.actionBy = NoUser
        BY <2>1, <4>1 DEF LevelOK
      <4> DEFINE skipped == [old EXCEPT !.status = "skipped"]
      <4>3. /\ skipped \in LevelRow /\ skipped.status = "skipped"
            /\ skipped.actionBy = NoUser /\ skipped.eligible = old.eligible
        BY <4>2 DEF LevelRow, LevelStatuses
      <4>4. new = skipped
        <5> HIDE DEF skipped
        <5> QED BY <2>1, <4>1, <4>2, <4>3, SameLevelRow
      <4> QED BY <3>1, <4>1, <4>4 DEF new
    <3>3. CASE k \notin DOMAIN wlvl[w]
      <4>1. new = old
        BY <2>1, <3>3
      <4>2. call[w].op # "Approve" => old.status # "pending"
        BY <1>2, <3>3 DEF NothingPending
      <4> QED BY <3>1, <4>1, <4>2
    <3> QED BY <3>2, <3>3
  <2> QED BY <2>2, <2>3
<1> QED BY <1>4, <1>5, <1>6

\* Hence the rows committed, for a decision that skips what it leaves pending.
LEMMA DecidedSkips ==
    ASSUME Inv, OrderInv, NEW w \in Workers, pc[w] = "commit", call[w].op \in {"Reject", "Cancel"}
    PROVE  /\ Visible(w) = Commits!Install(Commits!SkipRemainingPending(Decided(w)), Decided(w))
           /\ Commits!SkipsCleanly(Decided(w))
<1> DEFINE rows == Decided(w)
           n == req[call[w].req].total
           skipped == Commits!SkipRemainingPending(rows)
<1>1. /\ DOMAIN rows = 1 .. n /\ DOMAIN Visible(w) = 1 .. n
      /\ \A k \in 1 .. n :
            IF rows[k].status = "pending"
            THEN /\ Visible(w)[k] = [rows[k] EXCEPT !.status = "skipped"]
                 /\ ActionCheck(Visible(w)[k])
            ELSE Visible(w)[k] = rows[k]
  BY DecidedRows
<1>2. Visible(w) = [k \in DOMAIN Visible(w) |-> Visible(w)[k]]
  BY DEF Visible, Install
<1> HIDE DEF rows, n
<1>3. /\ DOMAIN skipped = {k \in 1 .. n : rows[k].status = "pending"}
      /\ \A k \in DOMAIN skipped : skipped[k] = [rows[k] EXCEPT !.status = "skipped"]
  BY <1>1 DEF Commits!SkipRemainingPending
<1> HIDE DEF skipped
<1>4. Commits!Install(skipped, rows)
      = [k \in 1 .. n |-> IF k \in DOMAIN skipped THEN skipped[k] ELSE rows[k]]
  <2>1. DOMAIN rows \cup DOMAIN skipped = 1 .. n
    BY <1>1, <1>3
  <2> QED BY <2>1 DEF Commits!Install
<1>5. \A k \in 1 .. n : Visible(w)[k] = IF k \in DOMAIN skipped THEN skipped[k] ELSE rows[k]
  BY <1>1, <1>3
<1>6. Visible(w) = Commits!Install(skipped, rows)
  BY <1>1, <1>2, <1>4, <1>5
<1>7. \A k \in DOMAIN skipped : Commits!ActionCheck(skipped[k])
  BY <1>1, <1>3 DEF Commits!ActionCheck, ActionCheck
<1>8. Commits!SkipsCleanly(rows)
  BY <1>7 DEF Commits!SkipsCleanly, skipped
<1> QED BY <1>6, <1>8 DEF rows, skipped

LEMMA CommitCommits ==
    ASSUME Inv, OrderInv, NEW w \in Workers, Commit(w)
    PROVE  Commits!Next
<1> DEFINE r == call[w].req
           user == call[w].user
           at == seen[w].current
           row == wreq[w]
<1>1. /\ pc[w] = "commit" /\ req' = [req EXCEPT ![r] = row]
      /\ lvl' = [lvl EXCEPT ![r] = Visible(w)]
  BY DEF Commit
<1>2. /\ r \in Requests /\ user \in Users /\ call[w] # NoCall
      /\ call[w].op \in {"Submit", "Approve", "Reject", "Cancel"}
      /\ row # NoRow /\ row \in RequestRow
      /\ call[w].op = "Submit" <=> req[r] = NoRow
      /\ call[w].op = "Submit" => row = seen[w] /\ Visible(w) = wlvl[w] /\ call[w].doc \in Docs
      /\ DecideInv(w) /\ Decides(w) /\ Submits(w)
  BY <1>1, CommitFacts, CallFields, OrderFacts DEF SubmitInv
<1>3. Commits!Unique(r, row)
  <2>1. row.doc \in Docs
    BY <1>2 DEF RequestRow
  <2>2. ASSUME row.status = "waiting", NEW s \in Requests \ {r} PROVE ~IsActive(req[s], row.doc)
    <3>1. IsActive(row, row.doc)
      BY <1>2, <2>2 DEF IsActive
    <3> QED BY <1>2, <2>1, <2>2, <3>1 DEF Inv, Locks
  <2> QED BY <2>2 DEF Commits!Unique, Commits!IsActive, IsActive
<1>4. CASE call[w].op = "Submit"
  <2>1. PICK c \in ConfigIds \cup {NoConfig}, list \in LevelLists :
             /\ c = NoConfig => list = <<>>
             /\ seen[w] = NewRequest(call[w].doc, user, c, list) /\ wlvl[w] = Snapshot(list)
    BY <1>1, <1>2, <1>4 DEF Submits
  <2>2. Commits!NewRequest(call[w].doc, user, c, list) = NewRequest(call[w].doc, user, c, list)
    BY DEF Commits!NewRequest, NewRequest, Commits!NilLevel, NilLevel
  <2>3. Commits!Snapshot(list) = Snapshot(list)
    BY DEF Commits!Snapshot, Snapshot
  <2>4. Commits!Submit(r, call[w].doc, user, c, list)
    BY <1>1, <1>2, <1>3, <1>4, <2>1, <2>2, <2>3 DEF Commits!Submit
  <2> QED BY <1>2, <1>4, <2>4 DEF Commits!Next
<1>5. CASE call[w].op # "Submit"
  <2>1. /\ Read(w) /\ Wrote(w) /\ row = Outcome(w) /\ Passed(lvl[r], at)
        /\ call[w].op = "Cancel" => req[r].submittedBy = user
    BY <1>1, <1>2, <1>5 DEF DecideInv, Decides, Deciding
  <2>2. /\ req[r] \in RequestRow /\ req[r].total \in Nat /\ at \in 1 .. req[r].total
        /\ DOMAIN lvl[r] = 1 .. req[r].total /\ at \in Nat /\ seen[w].total = req[r].total
    BY <1>2, <2>1, CommittedRow DEF Read
  <2>3. call[w].op # "Cancel" => Commits!MayAct(r, at, user)
    BY <2>1, <2>2 DEF Commits!MayAct, Read, Passed
  <2>4. \A a, status, b, who :
          Commits!UpdateRequestStatus(a, status, b, who) = UpdateRequestStatus(a, status, b, who)
    BY DEF Commits!UpdateRequestStatus, UpdateRequestStatus
  <2>5. CASE call[w].op = "Approve"
    <3>1. row = Commits!Approved(req[r], [req[r] EXCEPT !.current = at], user)
      <4> DEFINE old == req[r]
                 read == [old EXCEPT !.current = at]
      <4>1. read.current = at /\ read.total = old.total
        <5> HIDE DEF old
        <5>1. old \in RequestRow
          BY <2>2 DEF old
        <5> QED BY <5>1 DEF RequestRow
      <4>2. row = Approved(old, seen[w], user)
        BY <2>1, <2>5 DEF Outcome
      <4> HIDE DEF read, old
      <4>3. Commits!Approved(old, read, user) = Approved(old, seen[w], user)
        BY <2>2, <2>4, <4>1 DEF Commits!Approved, Approved, Commits!NilLevel, NilLevel, old
      <4> QED BY <4>2, <4>3 DEF read, old
    <3>2. Visible(w) = Commits!Marked(r, at, "approved", user)
      <4>1. Decided(w) = Commits!Marked(r, at, "approved", user)
        BY <2>5 DEF Decided, MarkStatus, Commits!Marked, Commits!MarkLevelAction, MarkLevelAction
      <4>2. /\ DOMAIN Visible(w) = DOMAIN Decided(w)
            /\ \A k \in DOMAIN Decided(w) : Visible(w)[k] = Decided(w)[k]
        BY <1>1, <2>5, DecidedRows
      <4>3. Visible(w) = [k \in DOMAIN Visible(w) |-> Visible(w)[k]]
        BY DEF Visible, Install
      <4>4. Decided(w) = [k \in DOMAIN Decided(w) |-> Decided(w)[k]]
        BY <2>5 DEF Decided
      <4> QED BY <4>1, <4>2, <4>3, <4>4
    <3>3. Commits!Approve(r, at, user)
      BY <1>1, <1>3, <2>3, <2>5, <3>1, <3>2 DEF Commits!Approve
    <3> QED BY <1>2, <2>2, <3>3 DEF Commits!Next
  <2>6. CASE call[w].op = "Reject"
    <3>1. Decided(w) = Commits!Marked(r, at, "rejected", user)
      BY <2>6 DEF Decided, MarkStatus, Commits!Marked, Commits!MarkLevelAction, MarkLevelAction
    <3>2. row = Commits!UpdateRequestStatus(req[r], "rejected", Commits!NilLevel, user)
      BY <2>1, <2>4, <2>6 DEF Outcome, Commits!NilLevel, NilLevel
    <3>3. Commits!Reject(r, at, user)
      BY <1>1, <1>2, <2>3, <2>6, <3>1, <3>2, DecidedSkips, ShapeFacts DEF Commits!Reject
    <3> QED BY <1>2, <2>2, <3>3 DEF Commits!Next
  <2>7. CASE call[w].op = "Cancel"
    <3>1. Decided(w) = lvl[r]
      BY <2>7 DEF Decided
    <3>2. row = Commits!UpdateRequestStatus(req[r], "cancelled", Commits!NilLevel, user)
      BY <2>1, <2>4, <2>7 DEF Outcome, Commits!NilLevel, NilLevel
    <3>3. req[r].total > 0
      BY <2>2
    <3>4. Visible(w) = Commits!Install(Commits!SkipRemainingPending(lvl[r]), lvl[r])
          /\ Commits!SkipsCleanly(lvl[r])
      BY <1>1, <2>7, <3>1, DecidedSkips
    <3>5. Commits!Cancel(r, user)
      BY <1>1, <1>2, <1>5, <2>1, <2>7, <3>2, <3>3, <3>4, ShapeFacts DEF Commits!Cancel
    <3> QED BY <1>2, <3>5 DEF Commits!Next
  <2> QED BY <1>2, <1>5, <2>5, <2>6, <2>7
<1> QED BY <1>4, <1>5

(***************************************************************************)
(* However many transactions overlap, the tables only ever change by one   *)
(* whole decision of ApprovalCommits: by an approver of a level that has   *)
(* been reached, or by the submitter, on the rows committed by then.  No   *)
(* transaction loses or mixes what another one wrote.                      *)
(***************************************************************************)
THEOREM TxImplementsCommits == Spec => ImplementsCommits
<1>1. Init => Commits!Init
  BY DEF Init, Commits!Init
<1>2. Inv /\ OrderInv /\ [Next]_vars => [Commits!Next]_Commits!vars
  BY TablesChange, CommitCommits DEF Commits!vars
<1> QED BY <1>1, <1>2, InvAlways, OrderAlways, PTL DEF Spec, ImplementsCommits, Commits!Spec

-----------------------------------------------------------------------------
(* One transaction at a time: the statements implement ApprovalEngine. *)

\* The levels of its request as the decision of w is to leave them, up to the
\* pending ones that a Reject and a Cancel skip.
Target(w) ==
    LET r == call[w].req
        user == call[w].user
    IN  IF call[w].op = "Cancel" THEN lvl[r]
        ELSE Engine!Marked(r, IF call[w].op = "Approve" THEN "approved" ELSE "rejected", user)

Admitted(w) ==
    LET r == call[w].req
        user == call[w].user
    IN  IF call[w].op = "Cancel"
        THEN req[r] # NoRow /\ req[r].status = "waiting" /\ req[r].submittedBy = user
        ELSE Engine!CanAct(r, user)

\* Nothing changes under a transaction that is alone: what it has read is still
\* so, and what it has written is what the atomic handler is to write.
SerialInv(w) ==
    LET doc == call[w].doc
        user == call[w].user
    IN
    /\ call[w].op = "Submit" /\ pc[w] \in {"findActive", "findLevels", "insertRequest", "commit"} =>
          \A s \in Requests : ~IsActive(req[s], doc)
    /\ call[w].op = "Submit" /\ pc[w] \in {"insertRequest", "commit"} =>
          \E c \in ConfigIds \cup {NoConfig}, list \in LevelLists :
             /\ c = NoConfig => list = <<>>
             /\ seen[w] = NewRequest(doc, user, c, list) /\ wlvl[w] = Snapshot(list)
    /\ call[w].op # "Submit" /\ pc[w] \in Deciding \cup {"commit"} =>
          seen[w] = req[call[w].req] /\ Admitted(w)
    /\ pc[w] = "skipRemaining" => Visible(w) = Target(w)
    /\ call[w].op # "Submit" /\ pc[w] \in {"updateStatus", "commit"} =>
          IF call[w].op = "Approve" THEN Visible(w) = Target(w)
          ELSE /\ Engine!SkipsCleanly(Target(w))
               /\ Visible(w) = Install(SkipRemainingPending(Target(w)), Target(w))
    /\ call[w].op # "Submit" /\ pc[w] = "commit" => wreq[w] = Outcome(w)

LEMMA SameSerial ==
    ASSUME NEW w \in Workers, SerialInv(w), UNCHANGED <<req, lvl, pc, call, seen, wreq, wlvl>>
    PROVE  SerialInv(w)'
<1>1. Target(w)' = Target(w) /\ Visible(w)' = Visible(w) /\ Outcome(w)' = Outcome(w)
  BY DEF Target, Visible, Outcome, Engine!Marked, Engine!MarkLevelAction
<1>2. Admitted(w) => Admitted(w)'
  BY DEF Admitted, Engine!CanAct
<1>3. Engine!SkipsCleanly(Target(w)) => Engine!SkipsCleanly(Target(w))'
  BY <1>1 DEF Engine!SkipsCleanly, Engine!SkipRemainingPending, Engine!ActionCheck
<1>4. Visible(w) = Install(SkipRemainingPending(Target(w)), Target(w))
      => (Visible(w) = Install(SkipRemainingPending(Target(w)), Target(w)))'
  BY <1>1 DEF Install, SkipRemainingPending
<1> QED BY <1>1, <1>2, <1>3, <1>4 DEF SerialInv

\* A call over, or not yet at the reads it relies on.
LEMMA NoSerial ==
    ASSUME NEW w \in Workers, pc'[w] \in {"idle", "done", "findActiveByDoc", "findByID"}
    PROVE  SerialInv(w)'
BY DEF SerialInv, Deciding

LEMMA MarkSerial ==
    ASSUME Inv, NEW w \in Workers, SerialInv(w), MarkLevel(w)
    PROVE  SerialInv(w)'
<1> DEFINE r == call[w].req
           at == seen[w].current
           user == call[w].user
           status == IF call[w].op = "Approve" THEN "approved" ELSE "rejected"
           rows == [k \in {at} |-> MarkLevelAction(lvl[r][k], status, user)]
           next == IF call[w].op = "Approve" THEN "updateStatus" ELSE "skipRemaining"
<1>1. /\ pc[w] = "markLevel" /\ pc' = [pc EXCEPT ![w] = next] /\ wlvl' = [wlvl EXCEPT ![w] = rows]
      /\ UNCHANGED <<config, req, lvl, call, cfg, seen, wreq, err>>
  BY DEF MarkLevel, Goto
<1>2. /\ call[w].op \in {"Approve", "Reject"} /\ r \in Requests /\ Read(w)
      /\ seen[w] = req[r] /\ Admitted(w)
  BY <1>1, DecisionFacts DEF Deciding, DecideInv, SerialInv
<1>3. DOMAIN lvl[r] = 1 .. req[r].total /\ at \in DOMAIN lvl[r] /\ at = req[r].current
      /\ lvl[r] \in [DOMAIN lvl[r] -> LevelRow]
  BY <1>2, CommittedRow DEF Read
<1>4. pc'[w] = next /\ wlvl'[w] = rows
  BY <1>1, ShapeFacts
<1>5. Visible(w)' = Target(w)
  <2>1. Visible(w)' = Install(rows, lvl[r])
    BY <1>1, <1>4 DEF Visible
  <2>2. Install(rows, lvl[r]) = [l \in DOMAIN lvl[r] |->
            IF l = at THEN MarkLevelAction(lvl[r][at], status, user) ELSE lvl[r][l]]
    BY <1>3 DEF Install
  <2>3. Target(w) = Engine!Marked(r, status, user)
    BY <1>2 DEF Target
  <2>4. Engine!Marked(r, status, user) = [lvl[r] EXCEPT ![at] = MarkLevelAction(lvl[r][at], status, user)]
    BY <1>3 DEF Engine!Marked, Engine!MarkLevelAction, MarkLevelAction
  <2> HIDE DEF status, user, at, r
  <2> QED BY <1>3, <2>1, <2>2, <2>3, <2>4
<1>6. Target(w)' = Target(w) /\ Admitted(w)'
  BY <1>1, <1>2 DEF Target, Admitted, Engine!Marked, Engine!MarkLevelAction, Engine!CanAct
<1> HIDE DEF rows
<1> QED BY <1>1, <1>2, <1>4, <1>5, <1>6 DEF SerialInv, Deciding

LEMMA SkipSerial ==
    ASSUME Inv, NEW w \in Workers, SerialInv(w), SkipRemaining(w)
    PROVE  SerialInv(w)'
<1> DEFINE r == call[w].req
           skipped == SkipRemainingPending(Visible(w))
           rows == Install(skipped, wlvl[w])
<1>1. /\ call[w].op \in {"Reject", "Cancel"} /\ r \in Requests /\ Read(w) /\ Wrote(w)
      /\ pc[w] = "skipRemaining" /\ seen[w] = req[r] /\ Admitted(w) /\ Visible(w) = Target(w)
  BY DecisionFacts DEF SkipRemaining, Deciding, DecideInv, SerialInv
<1>2. CASE pc' = [pc EXCEPT ![w] = "done"]
  BY <1>2, ShapeFacts, NoSerial
<1>3. CASE /\ wlvl' = [wlvl EXCEPT ![w] = rows] /\ pc' = [pc EXCEPT ![w] = "updateStatus"]
           /\ UNCHANGED <<config, req, lvl, call, cfg, seen, wreq, err>>
           /\ \A l \in DOMAIN skipped : ActionCheck(skipped[l])
  <2>1. pc'[w] = "updateStatus" /\ wlvl'[w] = rows
    BY <1>3, ShapeFacts
  <2>2. Visible(w)' = Install(rows, lvl[r])
    BY <1>3, <2>1 DEF Visible
  <2>3. Visible(w) = Install(wlvl[w], lvl[r])
    BY DEF Visible
  <2>4. Install(rows, lvl[r]) = Install(skipped, Visible(w))
    <3> HIDE DEF skipped, r
    <3> QED BY <2>3 DEF Install
  <2>5. Visible(w)' = Install(SkipRemainingPending(Target(w)), Target(w))
    BY <1>1, <2>2, <2>4
  <2>6. Engine!SkipsCleanly(Target(w))
    BY <1>1, <1>3 DEF Engine!SkipsCleanly, Engine!SkipRemainingPending, SkipRemainingPending,
                      Engine!ActionCheck, ActionCheck
  <2>7. Target(w)' = Target(w) /\ Admitted(w)'
    BY <1>1, <1>3 DEF Target, Admitted, Engine!Marked, Engine!MarkLevelAction, Engine!CanAct
  <2>8. Engine!SkipsCleanly(Target(w))'
    BY <2>6, <2>7 DEF Engine!SkipsCleanly, Engine!SkipRemainingPending, Engine!ActionCheck
  <2>9. (Visible(w) = Install(SkipRemainingPending(Target(w)), Target(w)))'
    BY <2>5, <2>7 DEF Install, SkipRemainingPending
  <2> HIDE DEF rows, skipped
  <2> QED BY <1>1, <1>3, <2>1, <2>7, <2>8, <2>9 DEF SerialInv, Deciding
<1> QED BY <1>2, <1>3 DEF SkipRemaining, Goto, Rollback, SkipsCleanly

\* Statements of w that write no table, the decision's UPDATEs of levels aside.
LEMMA ReadSerial ==
    ASSUME Inv, NEW w \in Workers, SerialInv(w),
           \/ FindActiveByDoc(w) \/ FindActive(w) \/ FindConfigLevels(w) \/ InsertRequest(w)
           \/ FindByID(w) \/ UpdateStatus(w)
    PROVE  SerialInv(w)'
<1>1. pc[w] # "idle" /\ call[w] # NoCall /\ SubmitInv(w) /\ DecideInv(w) /\ Clean(w) /\ call[w].req \in Requests
  <2>1. pc[w] # "idle" /\ call[w] # NoCall
    BY DEF Inv, WorkerInv, Clean, FindActiveByDoc, FindActive, FindConfigLevels, InsertRequest,
           FindByID, UpdateStatus
  <2> QED BY <2>1, CallFields
<1>2. CASE pc' = [pc EXCEPT ![w] = "done"]
  BY <1>2, ShapeFacts, NoSerial
<1>3. CASE FindActiveByDoc(w)
  <2>1. SUFFICES ASSUME pc' # [pc EXCEPT ![w] = "done"] PROVE SerialInv(w)'
    BY <1>2
  <2>2. /\ pc[w] = "findActiveByDoc" /\ pc' = [pc EXCEPT ![w] = "findActive"]
        /\ UNCHANGED <<req, lvl, call, cfg, seen, wreq, wlvl, err>>
        /\ ~ \E s \in Requests : IsActive(req[s], call[w].doc)
    BY <1>3, <2>1 DEF FindActiveByDoc, Goto, Rollback
  <2>3. pc'[w] = "findActive" /\ call[w].op = "Submit"
    BY <1>1, <2>2, ShapeFacts DEF DecideInv, Deciding
  <2> QED BY <2>2, <2>3 DEF SerialInv, Deciding, IsActive
<1>4. CASE FindActive(w)
  <2>1. /\ pc[w] = "findActive" /\ pc' = [pc EXCEPT ![w] = "findLevels"]
        /\ UNCHANGED <<req, lvl, call, seen, wreq, wlvl, err>>
    BY <1>4 DEF FindActive, Goto
  <2>2. pc'[w] = "findLevels" /\ call[w].op = "Submit"
    BY <1>1, <2>1, ShapeFacts DEF DecideInv, Deciding
  <2> QED BY <2>1, <2>2 DEF SerialInv, Deciding, IsActive
<1>5. CASE FindConfigLevels(w)
  <2> DEFINE list == IF cfg[w] = NoConfig THEN <<>> ELSE config[cfg[w]].levels
             row == NewRequest(call[w].doc, call[w].user, cfg[w], list)
             rows == Snapshot(list)
  <2>1. /\ pc[w] = "findLevels" /\ pc' = [pc EXCEPT ![w] = "insertRequest"]
        /\ seen' = [seen EXCEPT ![w] = row] /\ wlvl' = [wlvl EXCEPT ![w] = rows]
        /\ UNCHANGED <<config, req, lvl, call, cfg, wreq, err>>
    BY <1>5 DEF FindConfigLevels, Goto
  <2>2. call[w].op = "Submit"
    BY <1>1, <2>1 DEF DecideInv, Deciding
  <2>3. cfg[w] \in ConfigIds \cup {NoConfig} /\ list \in LevelLists /\ (cfg[w] = NoConfig => list = <<>>)
    BY ShapeFacts, LevelListsAssumption DEF ConfigRow
  <2>4. pc'[w] = "insertRequest" /\ seen'[w] = row /\ wlvl'[w] = rows
    BY <2>1, ShapeFacts
  <2>5. \E c \in ConfigIds \cup {NoConfig}, l \in LevelLists :
             /\ c = NoConfig => l = <<>>
             /\ seen'[w] = NewRequest(call[w].doc, call[w].user, c, l) /\ wlvl'[w] = Snapshot(l)
    <3> HIDE DEF list
    <3> QED BY <2>3, <2>4
  <2>6. \A s \in Requests : ~IsActive(req[s], call[w].doc)
    BY <2>1, <2>2 DEF SerialInv
  <2> HIDE DEF row, rows
  <2> QED BY <2>1, <2>2, <2>4, <2>5, <2>6 DEF SerialInv, Deciding, IsActive
<1>6. CASE InsertRequest(w)
  <2>1. SUFFICES ASSUME pc' # [pc EXCEPT ![w] = "done"] PROVE SerialInv(w)'
    BY <1>2
  <2>2. /\ pc[w] = "insertRequest" /\ pc' = [pc EXCEPT ![w] = "commit"]
        /\ UNCHANGED <<req, lvl, call, cfg, seen, wlvl, err>>
    BY <1>6, <2>1 DEF InsertRequest, Goto, Rollback
  <2>3. pc'[w] = "commit" /\ call[w].op = "Submit"
    BY <1>1, <2>2, ShapeFacts DEF DecideInv, Deciding
  <2> QED BY <2>2, <2>3 DEF SerialInv, Deciding, IsActive, NewRequest, Snapshot
<1>7. CASE FindByID(w)
  <2>1. SUFFICES ASSUME pc' # [pc EXCEPT ![w] = "done"] PROVE SerialInv(w)'
    BY <1>2
  <2> DEFINE r == call[w].req
             next == IF call[w].op = "Cancel" THEN "skipRemaining" ELSE "markLevel"
  <2>2. /\ pc[w] = "findByID" /\ pc' = [pc EXCEPT ![w] = next]
        /\ seen' = [seen EXCEPT ![w] = req[r]] /\ DecisionError(call[w]) = "nil"
        /\ UNCHANGED <<req, lvl, call, cfg, wreq, wlvl, err>>
    BY <1>7, <2>1 DEF FindByID, Goto, Rollback
  <2>3. /\ pc'[w] = next /\ seen'[w] = req[r] /\ call[w].op # "Submit"
        /\ r \in Requests /\ wlvl[w] = <<>>
    BY <1>1, <2>2, ShapeFacts DEF SubmitInv, Clean
  <2>4. Admitted(w)
    BY <2>2 DEF DecisionError, Admitted, Engine!CanAct
  <2>5. req[r] # NoRow
    BY <2>2 DEF DecisionError
  <2>6. Visible(w) = lvl[r]
    <3>1. lvl[r] \in [DOMAIN lvl[r] -> LevelRow] /\ DOMAIN wlvl[w] = {}
      BY <2>3, <2>5, CommittedRow
    <3>2. Visible(w) = [l \in DOMAIN lvl[r] |-> lvl[r][l]]
      BY <3>1 DEF Visible, Install
    <3> QED BY <3>1, <3>2
  <2>7. Visible(w)' = Visible(w) /\ Target(w)' = Target(w) /\ Admitted(w)'
    BY <2>2, <2>4 DEF Visible, Target, Admitted, Engine!Marked, Engine!MarkLevelAction, Engine!CanAct
  <2>8. call[w].op = "Cancel" => (Visible(w) = Target(w))'
    BY <2>6, <2>7 DEF Target
  <2> QED BY <2>2, <2>3, <2>7, <2>8 DEF SerialInv, Deciding
<1>8. CASE UpdateStatus(w)
  <2>1. SUFFICES ASSUME pc' # [pc EXCEPT ![w] = "done"] PROVE SerialInv(w)'
    BY <1>2
  <2>2. /\ pc[w] = "updateStatus" /\ pc' = [pc EXCEPT ![w] = "commit"]
        /\ wreq' = [wreq EXCEPT ![w] = Outcome(w)]
        /\ UNCHANGED <<req, lvl, call, cfg, seen, wlvl, err>>
    BY <1>8, <2>1 DEF UpdateStatus, Goto, Rollback
  <2>3. pc'[w] = "commit" /\ wreq'[w] = Outcome(w) /\ call[w].op # "Submit"
    BY <1>1, <2>2, ShapeFacts DEF SubmitInv
  <2>4. /\ Visible(w)' = Visible(w) /\ Target(w)' = Target(w) /\ Outcome(w)' = Outcome(w)
        /\ Admitted(w) => Admitted(w)'
    BY <2>2 DEF Visible, Target, Outcome, Admitted, Engine!Marked, Engine!MarkLevelAction, Engine!CanAct
  <2>5. Engine!SkipsCleanly(Target(w)) => Engine!SkipsCleanly(Target(w))'
    BY <2>4 DEF Engine!SkipsCleanly, Engine!SkipRemainingPending, Engine!ActionCheck
  <2>6. Visible(w) = Install(SkipRemainingPending(Target(w)), Target(w))
        => (Visible(w) = Install(SkipRemainingPending(Target(w)), Target(w)))'
    BY <2>4 DEF Install, SkipRemainingPending
  <2> QED BY <2>2, <2>3, <2>4, <2>5, <2>6 DEF SerialInv, Deciding
<1> QED BY <1>3, <1>4, <1>5, <1>6, <1>7, <1>8

LEMMA CommitEngine ==
    ASSUME Inv, NEW w \in Workers, SerialInv(w), Commit(w)
    PROVE  SerialInv(w)' /\ Engine!Next
<1> DEFINE r == call[w].req
           user == call[w].user
           doc == call[w].doc
<1>1. /\ pc[w] = "commit" /\ req' = [req EXCEPT ![r] = wreq[w]]
      /\ lvl' = [lvl EXCEPT ![r] = Visible(w)] /\ pc'[w] = "done"
  BY ShapeFacts DEF Commit, Goto
<1>2. /\ r \in Requests /\ user \in Users /\ call[w] # NoCall
      /\ call[w].op \in {"Submit", "Approve", "Reject", "Cancel"}
      /\ call[w].op = "Submit" => req[r] = NoRow /\ wreq[w] = seen[w] /\ Visible(w) = wlvl[w]
      /\ call[w].op = "Submit" => doc \in Docs
  BY <1>1, CommitFacts, CallFields DEF SubmitInv
<1>3. CASE call[w].op = "Submit"
  <2>1. PICK c \in ConfigIds \cup {NoConfig}, list \in LevelLists :
             /\ c = NoConfig => list = <<>>
             /\ seen[w] = NewRequest(doc, user, c, list) /\ wlvl[w] = Snapshot(list)
    BY <1>1, <1>3 DEF SerialInv
  <2>2. \A s \in Requests : ~IsActive(req[s], doc)
    BY <1>1, <1>3 DEF SerialInv
  <2>3. Engine!NewRequest(doc, user, c, list) = NewRequest(doc, user, c, list)
    BY DEF Engine!NewRequest, NewRequest, Engine!NilLevel, NilLevel
  <2>4. Engine!Snapshot(list) = Snapshot(list)
    BY DEF Engine!Snapshot, Snapshot
  <2>5. \A s \in Requests : ~Engine!IsActive(req[s], doc)
    BY <2>2 DEF Engine!IsActive, IsActive
  <2>6. Engine!Submit(r, doc, user, c, list)
    BY <1>1, <1>2, <1>3, <2>1, <2>3, <2>4, <2>5 DEF Engine!Submit
  <2> QED BY <1>1, <1>2, <1>3, <2>6, NoSerial DEF Engine!Next
<1>4. CASE call[w].op # "Submit"
  <2>1. seen[w] = req[r] /\ Admitted(w) /\ wreq[w] = Outcome(w)
    BY <1>1, <1>4 DEF SerialInv
  <2>2. IF call[w].op = "Approve" THEN Visible(w) = Target(w)
        ELSE /\ Engine!SkipsCleanly(Target(w))
             /\ Visible(w) = Install(SkipRemainingPending(Target(w)), Target(w))
    BY <1>1, <1>4 DEF SerialInv
  <2>3. Install(SkipRemainingPending(Target(w)), Target(w))
        = Engine!Install(Engine!SkipRemainingPending(Target(w)), Target(w))
    BY DEF Install, SkipRemainingPending, Engine!Install, Engine!SkipRemainingPending
  <2>4. \A row, at, who : Engine!Approved(row, at, who) = Approved(row, at, who)
    BY DEF Engine!Approved, Approved, Engine!UpdateRequestStatus, UpdateRequestStatus,
           Engine!NilLevel, NilLevel
  <2>5. \A row, status, at, who :
          Engine!UpdateRequestStatus(row, status, at, who) = UpdateRequestStatus(row, status, at, who)
    BY DEF Engine!UpdateRequestStatus, UpdateRequestStatus
  <2>6. CASE call[w].op = "Approve"
    <3>1. Engine!Approve(r, user)
      BY <1>1, <1>2, <2>1, <2>2, <2>4, <2>6, ShapeFacts DEF Engine!Approve, Admitted, Target, Outcome
    <3> QED BY <1>1, <1>2, <3>1, NoSerial DEF Engine!Next
  <2>7. CASE call[w].op = "Reject"
    <3>1. Target(w) = Engine!Marked(r, "rejected", user)
      BY <2>7 DEF Target
    <3>2. wreq[w] = Engine!UpdateRequestStatus(req[r], "rejected", Engine!NilLevel, user)
      BY <2>1, <2>5, <2>7 DEF Outcome, Engine!NilLevel, NilLevel
    <3>3. Engine!Reject(r, user)
      BY <1>1, <1>2, <2>1, <2>2, <2>3, <2>7, <3>1, <3>2, ShapeFacts DEF Engine!Reject, Admitted
    <3> QED BY <1>1, <1>2, <3>3, NoSerial DEF Engine!Next
  <2>8. CASE call[w].op = "Cancel"
    <3>1. Target(w) = lvl[r]
      BY <2>8 DEF Target
    <3>2. wreq[w] = Engine!UpdateRequestStatus(req[r], "cancelled", Engine!NilLevel, user)
      BY <2>1, <2>5, <2>8 DEF Outcome, Engine!NilLevel, NilLevel
    <3>3. Engine!Cancel(r, user)
      BY <1>1, <1>2, <2>1, <2>2, <2>3, <2>8, <3>1, <3>2, ShapeFacts DEF Engine!Cancel, Admitted
    <3> QED BY <1>1, <1>2, <3>3, NoSerial DEF Engine!Next
  <2> QED BY <1>2, <1>4, <2>6, <2>7, <2>8
<1> QED BY <1>3, <1>4

\* With a single worker, every step is one of the engine or changes no table.
LEMMA SerialStep ==
    ASSUME NEW w, Workers = {w}, Inv, SerialInv(w), [Next]_vars
    PROVE  SerialInv(w)' /\ [Engine!Next]_<<req, lvl>>
<1> w \in Workers
  OBVIOUS
<1>1. CASE UNCHANGED vars
  <2>1. UNCHANGED <<req, lvl, pc, call, seen, wreq, wlvl>>
    BY <1>1 DEF vars, txvars
  <2> QED BY <2>1, SameSerial
<1>2. ASSUME NEW c \in ConfigIds, NEW active \in BOOLEAN, NEW list \in LevelLists,
             CreateConfig(c, active, list) \/ UpdateConfig(c, active, list) \/ DeleteConfig(c)
      PROVE  SerialInv(w)' /\ UNCHANGED <<req, lvl>>
  <2>1. UNCHANGED <<req, lvl, pc, call, seen, wreq, wlvl>>
    BY <1>2 DEF CreateConfig, UpdateConfig, DeleteConfig, txvars
  <2> QED BY <2>1, SameSerial
<1>3. ASSUME NEW r \in Requests, NEW user \in Users,
             \/ \E doc \in Docs : BeginSubmit(w, r, doc, user)
             \/ \E op \in {"Approve", "Reject", "Cancel"} : BeginDecision(w, op, r, user)
      PROVE  SerialInv(w)' /\ UNCHANGED <<req, lvl>>
  <2>1. UNCHANGED <<req, lvl>> /\ pc'[w] \in {"findActiveByDoc", "findByID"}
    BY <1>3, ShapeFacts DEF BeginSubmit, BeginDecision, Goto
  <2> QED BY <2>1, NoSerial
<1>4. ASSUME Step(w) PROVE SerialInv(w)' /\ [Engine!Next]_<<req, lvl>>
  <2>1. CASE Commit(w)
    BY <2>1, CommitEngine
  <2>2. CASE Return(w)
    <3>1. UNCHANGED <<req, lvl>> /\ pc'[w] = "idle"
      BY <2>2, ShapeFacts DEF Return, Goto
    <3> QED BY <3>1, NoSerial
  <2>3. CASE MarkLevel(w)
    BY <2>3, MarkSerial DEF MarkLevel
  <2>4. CASE SkipRemaining(w)
    BY <2>4, SkipSerial DEF SkipRemaining, Rollback
  <2>5. CASE \/ FindActiveByDoc(w) \/ FindActive(w) \/ FindConfigLevels(w) \/ InsertRequest(w)
             \/ FindByID(w) \/ UpdateStatus(w)
    <3>1. UNCHANGED <<req, lvl>>
      BY <2>5 DEF FindActiveByDoc, FindActive, FindConfigLevels, InsertRequest, FindByID,
                  UpdateStatus, Rollback
    <3> QED BY <2>5, <3>1, ReadSerial
  <2> QED BY <1>4, <2>1, <2>2, <2>3, <2>4, <2>5 DEF Step
<1>5. ASSUME Fail(w) PROVE SerialInv(w)' /\ UNCHANGED <<req, lvl>>
  <2>1. UNCHANGED <<req, lvl>> /\ pc'[w] = "done"
    BY <1>5, ShapeFacts DEF Fail, Rollback, Goto
  <2> QED BY <2>1, NoSerial
<1>6. ASSUME NEW c \in ConfigIds, DeleteConfig(c) PROVE SerialInv(w)' /\ UNCHANGED <<req, lvl>>
  BY <1>2, <1>6, LevelListsAssumption
<1> QED BY <1>1, <1>2, <1>3, <1>4, <1>5, <1>6 DEF Next

(***************************************************************************)
(* The handlers of a program that serves one call at a time implement the  *)
(* atomic ones of ApprovalEngine, with or without the CHECK constraint,    *)
(* whatever administrators configure meanwhile and wherever a call fails:  *)
(* the tables change at the commit only, and then as the engine says.      *)
(***************************************************************************)
THEOREM TxImplementsEngine ==
    ASSUME NEW CONSTANT w, Workers = {w}
    PROVE  Spec => ImplementsEngine
<1>1. Init => Engine!Init /\ SerialInv(w)
  BY DEF Init, Engine!Init, SerialInv, Deciding
<1>2. Inv /\ SerialInv(w) /\ [Next]_vars => SerialInv(w)' /\ [Engine!Next]_<<req, lvl>>
  BY SerialStep
<1>3. [Engine!Next]_<<req, lvl>> => [Engine!Next]_Engine!vars
  BY DEF Engine!vars
<1> QED BY <1>1, <1>2, <1>3, InvAlways, PTL DEF Spec, ImplementsEngine, Engine!Spec

-----------------------------------------------------------------------------
(* What ApprovalEngine_proofs says of the atomic handlers holds of calls   *)
(* that do not overlap.                                                    *)

Proven == INSTANCE ApprovalEngine_proofs WITH Requests <- Requests, req <- req, lvl <- lvl

\* The two instances name the same operators.
LEMMA SameSkipping ==
    ASSUME NEW rows
    PROVE  /\ Engine!SkipRemainingPending(rows) = Proven!SkipRemainingPending(rows)
           /\ Engine!SkipsCleanly(rows) <=> Proven!SkipsCleanly(rows)
<1>1. Engine!SkipRemainingPending(rows) = Proven!SkipRemainingPending(rows)
  BY DEF Engine!SkipRemainingPending, Proven!SkipRemainingPending
<1> QED BY <1>1 DEF Engine!SkipsCleanly, Proven!SkipsCleanly, Engine!ActionCheck, Proven!ActionCheck

LEMMA SameUpdates ==
    /\ \A new, old : Engine!Install(new, old) = Proven!Install(new, old)
    /\ \A row, status, at, who : Engine!UpdateRequestStatus(row, status, at, who)
                               = Proven!UpdateRequestStatus(row, status, at, who)
    /\ Engine!NilLevel = Proven!NilLevel
BY DEF Engine!Install, Proven!Install, Engine!UpdateRequestStatus, Proven!UpdateRequestStatus,
   Engine!NilLevel, Proven!NilLevel

LEMMA SameDeciding ==
    ASSUME NEW r, NEW user
    PROVE  /\ Engine!CanAct(r, user) <=> Proven!CanAct(r, user)
           /\ \A status : Engine!Marked(r, status, user) = Proven!Marked(r, status, user)
BY DEF Engine!CanAct, Proven!CanAct, Engine!Marked, Proven!Marked,
   Engine!MarkLevelAction, Proven!MarkLevelAction

LEMMA SerialIsEngine == Engine!Spec => Proven!Spec
<1>1. Engine!Init => Proven!Init
  BY DEF Engine!Init, Proven!Init
<1>2. \A r, doc, user, c, list : Engine!Submit(r, doc, user, c, list) => Proven!Submit(r, doc, user, c, list)
  BY DEF Engine!Submit, Proven!Submit, Engine!NewRequest, Proven!NewRequest, Engine!Snapshot,
     Proven!Snapshot, Engine!IsActive, Proven!IsActive, Engine!NilLevel, Proven!NilLevel
<1>3. \A r, user : Engine!Approve(r, user) => Proven!Approve(r, user)
  BY SameDeciding, SameUpdates DEF Engine!Approve, Proven!Approve, Engine!Approved, Proven!Approved
<1>4. \A r, user : Engine!Reject(r, user) => Proven!Reject(r, user)
  BY SameDeciding, SameSkipping, SameUpdates DEF Engine!Reject, Proven!Reject
<1>5. \A r, user : Engine!Cancel(r, user) => Proven!Cancel(r, user)
  BY SameSkipping, SameUpdates DEF Engine!Cancel, Proven!Cancel
<1>6. [Engine!Next]_Engine!vars => [Proven!Next]_Proven!vars
  BY <1>2, <1>3, <1>4, <1>5 DEF Engine!Next, Proven!Next, Engine!vars, Proven!vars
<1> QED BY <1>1, <1>6, PTL DEF Engine!Spec, Proven!Spec

LEMMA ProvenAssumptions == NoRow \notin Proven!RequestRow
BY NoRowAssumption DEF RequestRow, Proven!RequestRow, RequestStatuses, Proven!RequestStatuses

(***************************************************************************)
(* Calls that do not overlap leave a trail that agrees with the status of  *)
(* every request, though each writes it in several statements.             *)
(***************************************************************************)
THEOREM TxSerialTrail ==
    ASSUME NEW CONSTANT w, Workers = {w}
    PROVE  Spec => []TrailMatchesStatus
<1>1. Proven!Spec => []Proven!TrailMatchesStatus
  BY ProvenAssumptions, EnforceAssumption, NoConfigAssumption, NoUserAssumption,
     LevelListsAssumption, Proven!EngineTrail, PTL
<1>2. \A row, rows : Proven!TrailOf(row, rows) <=> Engine!TrailOf(row, rows)
  BY DEF Proven!TrailOf, Engine!TrailOf, Proven!SplitAt, Engine!SplitAt
<1>3. Proven!TrailMatchesStatus => TrailMatchesStatus
  BY <1>2 DEF TrailMatchesStatus, Engine!TrailMatchesStatus, Proven!TrailMatchesStatus
<1> QED BY <1>1, <1>3, TxImplementsEngine, SerialIsEngine, PTL DEF ImplementsEngine

(***************************************************************************)
(* Calls that do not overlap never change a finalized request: the look at *)
(* its status suffices.  Of two that overlap this is false.                *)
(***************************************************************************)
THEOREM TxSerialFinality ==
    ASSUME NEW CONSTANT w, Workers = {w}
    PROVE  Spec => FinalizedIsHistory
<1>1. Proven!Spec => Proven!FinalizedIsHistory
  BY ProvenAssumptions, EnforceAssumption, NoConfigAssumption, NoUserAssumption,
     LevelListsAssumption, Proven!EngineFinality, PTL
<1>2. Proven!FinalizedIsHistory => FinalizedIsHistory
  BY PTL DEF Proven!FinalizedIsHistory, FinalizedIsHistory, Engine!FinalizedIsHistory,
     Proven!vars, Engine!vars
<1> QED BY <1>1, <1>2, TxImplementsEngine, SerialIsEngine, PTL DEF ImplementsEngine
=============================================================================
