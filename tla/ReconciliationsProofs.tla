----------------------- MODULE ReconciliationsProofs -------------------------
(***************************************************************************)
(* Reconciliations proved for any number of sessions, rows, fields and     *)
(* requests.                                                               *)
(***************************************************************************)
EXTENDS Reconciliations, TableProofs

-----------------------------------------------------------------------------
(* The invariant.                                                            *)

(* The statements of each operation. *)
StepsOf(op) ==
    CASE op = "create_transaction" -> {"insert_txn"}
      [] op \in {"update_transaction", "delete_transaction"} ->
           {"lock_txn", "check_freeze", "check_link", "write_txn"}
      [] op = "restore_transaction" ->
           {"lock_deleted_txn", "check_prior", "restore_txn", "restore_unlinked"}
      [] op = "create_reconciliation" -> {"insert_recon"}
      [] op = "update_reconciliation" -> {"read_recon", "write_recon"}
      [] op \in {"complete", "revert"} ->
           {"read_recon", "select_members", "take_members", "set_status",
            "select_bumped", "bump_members"}
      [] op = "delete_reconciliation" ->
           {"read_recon", "select_members", "take_members", "delete_recon"}
      [] op = "restore_reconciliation" -> {"read_deleted_recon", "restore_recon"}

(* A session is at a statement of the operation it was asked for. *)
AtItsOperation(s) ==
    /\ pc[s] # "idle" => request[s] \in Request /\ pc[s] \in StepsOf(request[s].op)
    /\ pc[s] = "check_link" => request[s].edit.link \in Recon

(* The transaction handlers past their SELECT ... FOR UPDATE. *)
OnActive == {"check_freeze", "check_link", "write_txn"}
OnDeleted == {"check_prior", "restore_txn", "restore_unlinked"}

(* They hold the lock of their one row, which is as they saw it. *)
HoldsItsRow(s) ==
    /\ pc[s] \in OnActive \cup OnDeleted =>
         txn.lock[request[s].id] = s /\ seen[s] = txn.row[request[s].id]
    /\ pc[s] \in OnActive => Active(txn.row[request[s].id])
    /\ pc[s] \in OnDeleted => Buried(txn.row[request[s].id])
    /\ pc[s] \in {"check_freeze", "check_prior"} => txn.row[request[s].id].link # NoRecon

(* The uncommitted version of a row that s has locked. *)
Uncommitted(s, t) ==
    LET v == txn.row[t]
        w == txn.latest[t] IN
    \/ pc[s] \in OnActive \cup OnDeleted /\ t = request[s].id /\ w = v
    \/ /\ Linked(v, request[s].id)
       /\ \/ /\ pc[s] \in {"take_members", "delete_recon"}
             /\ request[s].op = "delete_reconciliation"
             /\ w = Unassigned(v) /\ t \notin todo[s]
          \/ /\ pc[s] \in {"take_members", "set_status", "select_bumped"}
             /\ request[s].op # "delete_reconciliation"
             /\ w = v
          \/ /\ pc[s] = "bump_members"
             /\ w = IF t \in todo[s] THEN v ELSE Bumped(v)

LocksAreKnown(s) == \A t \in Txn : txn.lock[t] = s => Uncommitted(s, t)

(* A flip holds its reconciliation from its UPDATE to its commit. *)
HoldsItsRecon(s) ==
    LET r == request[s].id IN
    /\ pc[s] \in {"select_bumped", "bump_members"} =>
         /\ recon.lock[r] = s
         /\ recon.latest[r] = Flipped(recon.row[r], Target(request[s]))
    /\ \A q \in Recon : recon.lock[q] = s =>
         pc[s] \in {"select_bumped", "bump_members"} /\ q = r
    /\ pc[s] \in {"select_members", "take_members", "set_status", "select_bumped",
                  "bump_members", "delete_recon"} => recon.row[r] # Missing

(* Past its checks, a change of locked fields is of no counted row. *)
MayTouch(s) ==
    pc[s] \in {"check_link", "write_txn"} /\ TouchesLocked(request[s]) =>
      \A r \in Recon : counted[r][request[s].id] = NotCounted

SessionInv(s) == /\ AtItsOperation(s) /\ HoldsItsRow(s) /\ LocksAreKnown(s)
                 /\ HoldsItsRecon(s) /\ MayTouch(s)

(* Only a completed reconciliation has counted rows. *)
CountedAreCompleted ==
    \A r \in Recon : CountedIn(r) # {} => Completed(recon.row[r])

IInv == /\ TypeOK
        /\ Settled(txn, Txn) /\ Settled(recon, Recon)
        /\ \A s \in Session : SessionInv(s)
        /\ CountedAreCompleted
        /\ CountedStayFrozen

-----------------------------------------------------------------------------
(* What the statements make of a row.                                        *)

LEMMA BumpedTxnFacts ==
  ASSUME NEW v \in TxnRow
  PROVE  /\ Bumped(v) \in TxnRow /\ Bumped(v).deleted = v.deleted /\ Bumped(v).link = v.link
         /\ LockedFields(Bumped(v)) = LockedFields(v) /\ Bumped(v).version = v.version + 1
  BY DEF Bumped, TxnRow, TxnRows, LockedFields

LEMMA UnassignedFacts ==
  ASSUME NEW v \in TxnRow
  PROVE  /\ Unassigned(v) \in TxnRow /\ Unassigned(v).link = NoRecon
         /\ Unassigned(v).version = v.version + 1
<1> DEFINE u == [v EXCEPT !.link = NoRecon]
<1>1. u \in TxnRow /\ u.link = NoRecon /\ u.version = v.version
  BY DEF TxnRow, TxnRows
<1>2. Unassigned(v) = Bumped(u)
  BY DEF Unassigned
<1> HIDE DEF u
<1>3. QED
  BY <1>1, <1>2, BumpedTxnFacts

LEMMA SoftDeletedTxnFacts ==
  ASSUME NEW v \in TxnRow
  PROVE  /\ SoftDeleted(v) \in TxnRow /\ SoftDeleted(v).deleted
         /\ SoftDeleted(v).version = v.version + 1
<1> DEFINE u == [v EXCEPT !.deleted = TRUE]
<1>1. u \in TxnRow /\ u.deleted /\ u.version = v.version
  BY DEF TxnRow, TxnRows
<1>2. SoftDeleted(v) = Bumped(u)
  BY DEF SoftDeleted
<1> HIDE DEF u
<1>3. QED
  BY <1>1, <1>2, BumpedTxnFacts

LEMMA RestoredTxnFacts ==
  ASSUME NEW v \in TxnRow, NEW link \in Recon \cup {NoRecon}
  PROVE  RestoredTxn(v, link) \in TxnRow /\ RestoredTxn(v, link).version = v.version + 1
<1> DEFINE u == [v EXCEPT !.link = link]
           w == [u EXCEPT !.deleted = FALSE]
<1>1. u \in TxnRow /\ u.version = v.version
  BY DEF TxnRow, TxnRows
<1>2. RestoredTxn(v, link) = Bumped(w)
  BY DEF RestoredTxn, Restored
<1> HIDE DEF u
<1>3. w \in TxnRow /\ w.version = u.version
  BY <1>1 DEF TxnRow, TxnRows
<1> HIDE DEF w
<1>4. QED
  BY <1>1, <1>2, <1>3, BumpedTxnFacts

LEMMA EditedTxnFacts ==
  ASSUME NEW v \in TxnRow, NEW e \in Edit
  PROVE  /\ EditedTxn(v, e) \in TxnRow
         /\ EditedTxn(v, e).version = v.version + 1
         /\ e = NoEdit => /\ EditedTxn(v, e).link = v.link
                          /\ EditedTxn(v, e).deleted = v.deleted
                          /\ LockedFields(EditedTxn(v, e)) = LockedFields(v)
<1> DEFINE a == [v EXCEPT !.link = Given(e.link, v.link)]
           b == [a EXCEPT !.account = Given(e.account, v.account)]
           c == [b EXCEPT !.amount = Given(e.amount, v.amount)]
<1>1. EditedTxn(v, e) = Bumped(c)
  BY DEF EditedTxn
<1>2. /\ Given(e.link, v.link) \in Recon \cup {NoRecon}
      /\ Given(e.account, v.account) \in Account
      /\ Given(e.amount, v.amount) \in Amount
      /\ e = NoEdit => /\ Given(e.link, v.link) = v.link
                       /\ Given(e.account, v.account) = v.account
                       /\ Given(e.amount, v.amount) = v.amount
  BY DEF Edit, NoEdit, Given, TxnRow, TxnRows
<1>3. /\ a \in TxnRow /\ a.version = v.version /\ a.deleted = v.deleted
      /\ a.account = v.account /\ a.amount = v.amount /\ a.link = Given(e.link, v.link)
  BY <1>2 DEF TxnRow, TxnRows
<1> HIDE DEF a
<1>4. /\ b \in TxnRow /\ b.version = a.version /\ b.deleted = a.deleted
      /\ b.account = Given(e.account, v.account) /\ b.amount = a.amount /\ b.link = a.link
  BY <1>2, <1>3 DEF TxnRow, TxnRows
<1> HIDE DEF b
<1>5. /\ c \in TxnRow /\ c.version = b.version /\ c.deleted = b.deleted
      /\ c.account = b.account /\ c.amount = Given(e.amount, v.amount) /\ c.link = b.link
  BY <1>2, <1>4 DEF TxnRow, TxnRows
<1> HIDE DEF c
<1>6. c.version = v.version /\ c.deleted = v.deleted
  BY <1>3, <1>4, <1>5
<1>7. e = NoEdit => c.link = v.link /\ LockedFields(c) = LockedFields(v)
  BY <1>2, <1>3, <1>4, <1>5 DEF LockedFields
<1>8. QED
  BY <1>1, <1>5, <1>6, <1>7, BumpedTxnFacts

LEMMA BumpedReconFacts ==
  ASSUME NEW v \in ReconRow
  PROVE  /\ Bumped(v) \in ReconRow /\ Bumped(v).deleted = v.deleted
         /\ Bumped(v).status = v.status
  BY DEF Bumped, ReconRow, ReconRows

LEMMA FlippedFacts ==
  ASSUME NEW v \in ReconRow, NEW status \in {"DRAFT", "COMPLETED"}
  PROVE  /\ Flipped(v, status) \in ReconRow /\ Flipped(v, status).status = status
<1> DEFINE u == [v EXCEPT !.status = status]
<1>1. u \in ReconRow /\ u.status = status
  BY DEF ReconRow, ReconRows
<1>2. Flipped(v, status) = Bumped(u)
  BY DEF Flipped
<1> HIDE DEF u
<1>3. QED
  BY <1>1, <1>2, BumpedReconFacts

LEMMA KeptStatusFacts ==
  ASSUME NEW v \in ReconRow, NEW e, e.amount \in Amount \cup {Omitted}
  PROVE  /\ SoftDeleted(v) \in ReconRow /\ SoftDeleted(v).status = v.status
         /\ Restored(v) \in ReconRow /\ Restored(v).status = v.status
         /\ EditedRecon(v, e) \in ReconRow /\ EditedRecon(v, e).status = v.status
<1> DEFINE a == [v EXCEPT !.deleted = TRUE]
           b == [v EXCEPT !.deleted = FALSE]
           c == [v EXCEPT !.balance = Given(e.amount, v.balance)]
<1>1. /\ a \in ReconRow /\ a.status = v.status
      /\ b \in ReconRow /\ b.status = v.status
  BY DEF ReconRow, ReconRows
<1>2. Given(e.amount, v.balance) \in Amount
  BY DEF Given, ReconRow, ReconRows
<1>3. c \in ReconRow /\ c.status = v.status
  BY <1>2 DEF ReconRow, ReconRows
<1>4. SoftDeleted(v) = Bumped(a) /\ Restored(v) = Bumped(b) /\ EditedRecon(v, e) = Bumped(c)
  BY DEF SoftDeleted, Restored, EditedRecon
<1> HIDE DEF a, b, c
<1>5. QED
  BY <1>1, <1>3, <1>4, BumpedReconFacts

-----------------------------------------------------------------------------
(* Requests and the statements they lead to.                                 *)

TxnSteps == {"insert_txn", "lock_txn", "lock_deleted_txn"} \cup OnActive \cup OnDeleted
BatchSteps == {"select_members", "take_members"}
FlipSteps == {"set_status", "select_bumped", "bump_members"}
ReconSteps == {"insert_recon", "read_recon", "write_recon", "read_deleted_recon",
               "restore_recon", "delete_recon"} \cup BatchSteps \cup FlipSteps

LEMMA Stations ==
  ASSUME NEW s \in Session, AtItsOperation(s), pc[s] # "idle"
  PROVE  LET q == request[s] IN
         /\ q \in Request /\ q.edit \in Edit
         /\ pc[s] \in TxnSteps => q.id \in Txn
         /\ pc[s] \in ReconSteps => q.id \in Recon
         /\ pc[s] \in {"insert_txn", "insert_recon"} =>
              q.edit.account \in Account /\ q.edit.amount \in Amount
         /\ pc[s] \in {"lock_txn"} \cup OnActive =>
              q.op \in {"update_transaction", "delete_transaction"}
         /\ pc[s] = "write_recon" => q.op = "update_reconciliation"
         /\ pc[s] \in BatchSteps =>
              q.op \in {"complete", "revert", "delete_reconciliation"}
         /\ pc[s] \in FlipSteps => q.op \in {"complete", "revert"}
         /\ pc[s] = "delete_recon" => q.op = "delete_reconciliation"
<1>1. request[s] \in Request /\ pc[s] \in StepsOf(request[s].op)
  BY DEF AtItsOperation
<1>2. request[s].edit \in Edit
  BY <1>1 DEF Request, Edit, NoEdit
<1>3. QED
  BY <1>1, <1>2 DEF Request, StepsOf, TxnSteps, ReconSteps, BatchSteps, FlipSteps,
                    OnActive, OnDeleted

-----------------------------------------------------------------------------
(* What every step of one session leaves to the others.                      *)

Frames(s) == FrameOf(txn, txn', s, Txn) /\ FrameOf(recon, recon', s, Recon)

(* The locals of the other sessions do not move. *)
OnlyMoves(s) ==
    \A u \in Session \ {s} : /\ pc'[u] = pc[u] /\ request'[u] = request[u]
                             /\ seen'[u] = seen[u] /\ todo'[u] = todo[u]

(* Rows do not vanish, and nobody else's locked row joins a batch. *)
RowsRemain == \A r \in Recon : recon.row[r] # Missing => recon'.row[r] # Missing
OthersUncounted(s) ==
    \A r \in Recon, t \in Txn :
        txn.lock[t] \notin {Nobody, s} /\ counted[r][t] = NotCounted
          => counted'[r][t] = NotCounted

LEMMA Bystander ==
  ASSUME IInv, NEW s \in Session, Frames(s), OnlyMoves(s), RowsRemain, OthersUncounted(s),
         NEW u \in Session \ {s}
  PROVE  SessionInv(u)'
<1> USE SessionAssumption
<1>1. /\ SessionInv(u)
      /\ pc'[u] = pc[u] /\ request'[u] = request[u]
      /\ seen'[u] = seen[u] /\ todo'[u] = todo[u]
  BY DEF IInv, OnlyMoves
<1>2. AtItsOperation(u)'
  BY <1>1 DEF SessionInv, AtItsOperation
<1>3. \A t \in Txn : /\ txn'.lock[t] = u => txn.lock[t] = u
                     /\ txn.lock[t] = u => /\ txn'.lock[t] = u
                                           /\ txn'.row[t] = txn.row[t]
                                           /\ txn'.latest[t] = txn.latest[t]
  BY DEF Frames, FrameOf
<1>4. \A r \in Recon : /\ recon'.lock[r] = u => recon.lock[r] = u
                       /\ recon.lock[r] = u => /\ recon'.lock[r] = u
                                               /\ recon'.row[r] = recon.row[r]
                                               /\ recon'.latest[r] = recon.latest[r]
  BY DEF Frames, FrameOf
<1>5. pc[u] \in OnActive \cup OnDeleted => request[u].id \in Txn
  BY <1>1, Stations DEF SessionInv, OnActive, OnDeleted, TxnSteps
<1>6. HoldsItsRow(u)'
  BY <1>1, <1>3, <1>5 DEF SessionInv, HoldsItsRow, OnActive, OnDeleted
<1>7. LocksAreKnown(u)'
  BY <1>1, <1>3 DEF SessionInv, LocksAreKnown, Uncommitted
<1>8. HoldsItsRecon(u)'
  <2>1. pc[u] \in {"select_members", "take_members", "set_status", "select_bumped",
                   "bump_members", "delete_recon"} => request[u].id \in Recon
    BY <1>1, Stations DEF SessionInv, ReconSteps, BatchSteps, FlipSteps
  <2>2. QED
    BY <1>1, <1>4, <2>1 DEF SessionInv, HoldsItsRecon, RowsRemain, Target
<1>9. MayTouch(u)'
  BY <1>1, <1>5 DEF SessionInv, MayTouch, HoldsItsRow, OnActive, OthersUncounted,
                    TouchesLocked
<1>10. QED
  BY <1>2, <1>6, <1>7, <1>8, <1>9 DEF SessionInv

(* A session that holds nothing and does nothing satisfies its invariant.    *)
LEMMA AtEnd ==
  ASSUME TypeOK, NEW s \in Session, End(s),
         \A t \in Txn : txn'.lock[t] # s, \A r \in Recon : recon'.lock[r] # s
  PROVE  SessionInv(s)' /\ OnlyMoves(s)
<1>1. pc'[s] = "idle"
  BY DEF TypeOK, End
<1>2. SessionInv(s)'
  BY <1>1 DEF SessionInv, AtItsOperation, HoldsItsRow, LocksAreKnown, HoldsItsRecon,
              MayTouch, OnActive, OnDeleted
<1>3. OnlyMoves(s)
  BY DEF TypeOK, End, OnlyMoves
<1>4. QED
  BY <1>2, <1>3

(* A step that commits nothing keeps what is said of committed rows.         *)
LEMMA NothingCommitted ==
  ASSUME IInv, NEW s \in Session, txn'.row = txn.row, recon'.row = recon.row,
         UNCHANGED counted
  PROVE  /\ CountedAreCompleted' /\ CountedStayFrozen'
         /\ RowsRemain /\ OthersUncounted(s)
  BY DEF IInv, CountedAreCompleted, CountedStayFrozen, CountedIn, RowsRemain, OthersUncounted

(* The invariant after a step of s, from what the step has to show.          *)
LEMMA StepOf ==
  ASSUME IInv, NEW s \in Session, TypeOK', Settled(txn, Txn)', Settled(recon, Recon)',
         Frames(s), OnlyMoves(s), RowsRemain, OthersUncounted(s), SessionInv(s)',
         CountedAreCompleted', CountedStayFrozen'
  PROVE  IInv'
  BY Bystander DEF IInv

(* The tables are typed and settled. *)
LEMMA Typed ==
  ASSUME IInv
  PROVE  /\ txn \in Tables(Txn, TxnRow \cup {Missing}) /\ Settled(txn, Txn)
         /\ recon \in Tables(Recon, ReconRow \cup {Missing}) /\ Settled(recon, Recon)
  BY DEF IInv, TypeOK

LEMMA SameTable ==
  ASSUME NEW Id, NEW T, NEW s \in Session PROVE FrameOf(T, T, s, Id)
  BY DEF FrameOf

(* An error answer. *)
LEMMA AbandonStep ==
  ASSUME IInv, NEW s \in Session, Abandon(s) PROVE IInv'
<1>1. /\ txn' \in Tables(Txn, TxnRow \cup {Missing}) /\ Settled(txn', Txn)
      /\ FrameOf(txn, txn', s, Txn) /\ txn'.row = txn.row
      /\ \A t \in Txn : txn'.lock[t] # s
  BY Typed, RollbackFacts, SessionAssumption DEF Abandon
<1>2. /\ recon' \in Tables(Recon, ReconRow \cup {Missing}) /\ Settled(recon', Recon)
      /\ FrameOf(recon, recon', s, Recon) /\ recon'.row = recon.row
      /\ \A r \in Recon : recon'.lock[r] # s
  BY Typed, RollbackFacts, SessionAssumption DEF Abandon
<1>3. TypeOK'
  BY <1>1, <1>2 DEF Abandon, End, IInv, TypeOK, Steps
<1>4. SessionInv(s)' /\ OnlyMoves(s)
  BY <1>1, <1>2, AtEnd DEF Abandon, IInv
<1>5. UNCHANGED counted
  BY DEF Abandon
<1>6. QED
  BY <1>1, <1>2, <1>3, <1>4, <1>5, NothingCommitted, StepOf DEF Frames, Settled

-----------------------------------------------------------------------------
(* Steps that write no table.                                                *)

LEMMA LocalStep ==
  ASSUME IInv, NEW s \in Session, UNCHANGED <<txn, recon, counted>>,
         OnlyMoves(s), TypeOK', SessionInv(s)'
  PROVE  IInv'
<1>1. Frames(s)
  BY SameTable DEF Frames
<1>2. Settled(txn, Txn)' /\ Settled(recon, Recon)'
  BY Typed DEF Settled
<1>3. QED
  BY <1>1, <1>2, NothingCommitted, StepOf

LEMMA BeginStep ==
  ASSUME IInv, NEW s \in Session, NEW q \in Request, Begin(s, q) PROVE IInv'
<1>1. SessionInv(s) /\ TypeOK
  BY DEF IInv
<1>2. q.op \in Operation /\ FirstStep[q.op] \in StepsOf(q.op)
  BY DEF Request, FirstStep, StepsOf, Operation
<1>3. FirstStep[q.op] \in {"insert_txn", "lock_txn", "lock_deleted_txn", "insert_recon",
                           "read_recon", "read_deleted_recon"}
  BY <1>2 DEF FirstStep, Operation
<1>4. pc'[s] = FirstStep[q.op] /\ request'[s] = q
  BY <1>1 DEF Begin, TypeOK
<1>5. \A t \in Txn : txn.lock[t] # s
  BY <1>1 DEF SessionInv, LocksAreKnown, Uncommitted, Begin, OnActive, OnDeleted
<1>6. \A r \in Recon : recon.lock[r] # s
  BY <1>1 DEF SessionInv, HoldsItsRecon, Begin
<1>7. SessionInv(s)'
  <2>1. AtItsOperation(s)'
    BY <1>2, <1>3, <1>4 DEF AtItsOperation
  <2>2. HoldsItsRow(s)' /\ MayTouch(s)'
    BY <1>3, <1>4 DEF HoldsItsRow, MayTouch, OnActive, OnDeleted
  <2>3. LocksAreKnown(s)' /\ HoldsItsRecon(s)'
    BY <1>3, <1>4, <1>5, <1>6 DEF LocksAreKnown, HoldsItsRecon, Begin
  <2>4. QED
    BY <2>1, <2>2, <2>3 DEF SessionInv
<1>8. TypeOK'
  BY <1>1, <1>3 DEF TypeOK, Begin, Steps
<1>9. OnlyMoves(s)
  BY <1>1 DEF TypeOK, Begin, OnlyMoves
<1>10. QED
  BY <1>7, <1>8, <1>9, LocalStep DEF Begin

(* What a session keeps when only its pc moves on. *)
OnlyPc(s, steps) ==
    /\ \E step \in steps : Goto(s, step)
    /\ UNCHANGED <<txn, recon, request, seen, todo, counted, served>>

LEMMA PcFacts ==
  ASSUME IInv, NEW s \in Session, NEW steps \in SUBSET Steps, OnlyPc(s, steps)
  PROVE  pc'[s] \in steps /\ OnlyMoves(s) /\ TypeOK'
<1>1. TypeOK
  BY DEF IInv
<1>2. pc'[s] \in steps /\ OnlyMoves(s)
  BY <1>1 DEF TypeOK, OnlyPc, Goto, OnlyMoves
<1>3. TypeOK'
  BY <1>1 DEF TypeOK, OnlyPc, Goto
<1>4. QED
  BY <1>2, <1>3

(* A row whose reconciliation is not completed belongs to no counted batch.  *)
LEMMA Uncounted ==
  ASSUME IInv, NEW t \in Txn,
         txn.row[t].link \in Recon => ~ Completed(recon.row[txn.row[t].link])
  PROVE  \A r \in Recon : counted[r][t] = NotCounted
  BY DEF IInv, CountedStayFrozen, CountedAreCompleted, CountedIn, Linked

LEMMA AfterFreezeFacts ==
  ASSUME NEW q PROVE /\ AfterFreeze(q) \in {"check_link", "write_txn"}
                     /\ AfterFreeze(q) = "check_link" => q.edit.link \in Recon
  BY DEF AfterFreeze

LEMMA CheckFreezeStep ==
  ASSUME IInv, NEW s \in Session, CheckFreeze(s) PROVE IInv'
<1>1. CASE Refuse(s, Frozen(s))
  BY <1>1, AbandonStep DEF Refuse
<1>2. CASE /\ ~ Frozen(s)
           /\ Goto(s, AfterFreeze(request[s]))
           /\ UNCHANGED <<txn, recon, request, seen, todo, counted, served>>
  <2> DEFINE t == request[s].id
  <2>1. /\ pc[s] = "check_freeze" /\ SessionInv(s)
        /\ UNCHANGED <<txn, recon, request, seen, todo, counted>>
    BY <1>2 DEF CheckFreeze, IInv
  <2>2. /\ pc'[s] \in {"check_link", "write_txn"} /\ OnlyMoves(s) /\ TypeOK'
    BY <1>2, PcFacts, AfterFreezeFacts DEF OnlyPc, Steps
  <2>3. pc'[s] = "check_link" => request[s].edit.link \in Recon
    BY <1>2, AfterFreezeFacts DEF Goto, IInv, TypeOK
  <2>4. /\ request[s] \in Request /\ t \in Txn
        /\ request[s].op \in {"update_transaction", "delete_transaction"}
    BY <2>1, Stations DEF SessionInv, TxnSteps, OnActive
  <2>5. AtItsOperation(s)'
    BY <2>1, <2>2, <2>3, <2>4 DEF AtItsOperation, StepsOf
  <2>6. HoldsItsRow(s)'
    BY <2>1, <2>2 DEF SessionInv, HoldsItsRow, OnActive, OnDeleted
  <2>7. LocksAreKnown(s)'
    BY <2>1, <2>2 DEF SessionInv, LocksAreKnown, Uncommitted, OnActive, OnDeleted
  <2>8. HoldsItsRecon(s)'
    BY <2>1, <2>2 DEF SessionInv, HoldsItsRecon
  <2>9. MayTouch(s)'
    <3>1. seen[s] = txn.row[t]
      BY <2>1 DEF SessionInv, HoldsItsRow, OnActive
    <3>2. TouchesLocked(request[s]) => ~ Completed(recon.row[txn.row[t].link])
      BY <1>2, <3>1 DEF Frozen
    <3>3. TouchesLocked(request[s]) => \A r \in Recon : counted[r][t] = NotCounted
      BY <2>4, <3>2, Uncounted
    <3>4. QED
      BY <2>1, <3>3 DEF MayTouch, TouchesLocked
  <2>10. QED
    BY <2>1, <2>2, <2>5, <2>6, <2>7, <2>8, <2>9, LocalStep DEF SessionInv
<1>3. QED
  BY <1>1, <1>2 DEF CheckFreeze

LEMMA CheckLinkStep ==
  ASSUME IInv, NEW s \in Session, CheckLink(s) PROVE IInv'
<1> DEFINE ok == Assignable(recon.row[request[s].edit.link],
                            Given(request[s].edit.account, seen[s].account))
<1>1. CASE Refuse(s, ~ ok)
  BY <1>1, AbandonStep DEF Refuse
<1>2. CASE /\ Goto(s, "write_txn")
           /\ UNCHANGED <<txn, recon, request, seen, todo, counted, served>>
  <2>1. /\ pc[s] = "check_link" /\ SessionInv(s)
        /\ UNCHANGED <<txn, recon, request, seen, todo, counted>>
    BY <1>2 DEF CheckLink, IInv
  <2>2. /\ pc'[s] = "write_txn" /\ OnlyMoves(s) /\ TypeOK'
    BY <1>2, PcFacts, "write_txn" \in {"write_txn"}, {"write_txn"} \in SUBSET Steps
       DEF OnlyPc, Steps
  <2>3. /\ request[s] \in Request
        /\ request[s].op \in {"update_transaction", "delete_transaction"}
    BY <2>1, Stations DEF SessionInv, OnActive
  <2>4. AtItsOperation(s)'
    BY <2>1, <2>2, <2>3 DEF AtItsOperation, StepsOf
  <2>5. HoldsItsRow(s)'
    BY <2>1, <2>2 DEF SessionInv, HoldsItsRow, OnActive, OnDeleted
  <2>6. LocksAreKnown(s)'
    BY <2>1, <2>2 DEF SessionInv, LocksAreKnown, Uncommitted, OnActive, OnDeleted
  <2>7. HoldsItsRecon(s)' /\ MayTouch(s)'
    BY <2>1, <2>2 DEF SessionInv, HoldsItsRecon, MayTouch, TouchesLocked
  <2>8. QED
    BY <2>1, <2>2, <2>4, <2>5, <2>6, <2>7, LocalStep DEF SessionInv
<1>3. QED
  BY <1>1, <1>2 DEF CheckLink

LEMMA CheckPriorStep ==
  ASSUME IInv, NEW s \in Session, CheckPrior(s) PROVE IInv'
<1>1. /\ pc[s] = "check_prior" /\ SessionInv(s)
      /\ UNCHANGED <<txn, recon, request, seen, todo, counted>>
  BY DEF CheckPrior, IInv
<1>2. /\ pc'[s] \in {"restore_txn", "restore_unlinked"} /\ OnlyMoves(s) /\ TypeOK'
  <2>1. \E step \in {"restore_txn", "restore_unlinked"} : Goto(s, step)
    BY DEF CheckPrior
  <2>2. {"restore_txn", "restore_unlinked"} \in SUBSET Steps
    BY DEF Steps
  <2>3. OnlyPc(s, {"restore_txn", "restore_unlinked"})
    BY <2>1 DEF CheckPrior, OnlyPc
  <2>4. QED
    BY <2>2, <2>3, PcFacts
<1>3. AtItsOperation(s)'
  BY <1>1, <1>2 DEF SessionInv, AtItsOperation, StepsOf, Request
<1>4. HoldsItsRow(s)'
  BY <1>1, <1>2 DEF SessionInv, HoldsItsRow, OnActive, OnDeleted
<1>5. LocksAreKnown(s)'
  BY <1>1, <1>2 DEF SessionInv, LocksAreKnown, Uncommitted, OnActive, OnDeleted
<1>6. HoldsItsRecon(s)' /\ MayTouch(s)'
  BY <1>1, <1>2 DEF SessionInv, HoldsItsRecon, MayTouch
<1>7. QED
  BY <1>1, <1>2, <1>3, <1>4, <1>5, <1>6, LocalStep DEF SessionInv

(* The statements before which a session holds no lock. *)
Unheld == {"idle", "insert_txn", "lock_txn", "lock_deleted_txn", "insert_recon", "read_recon",
           "write_recon", "read_deleted_recon", "restore_recon", "select_members"}

LEMMA HoldsNothing ==
  ASSUME IInv, NEW s \in Session, pc[s] \in Unheld
  PROVE  /\ \A t \in Txn : txn.lock[t] # s
         /\ \A r \in Recon : recon.lock[r] # s
<1>1. SessionInv(s)
  BY DEF IInv
<1>2. \A t \in Txn : txn.lock[t] # s
  BY <1>1 DEF SessionInv, LocksAreKnown, Uncommitted, OnActive, OnDeleted, Unheld
<1>3. \A r \in Recon : recon.lock[r] # s
  BY <1>1 DEF SessionInv, HoldsItsRecon, Unheld
<1>4. QED
  BY <1>2, <1>3

LEMMA ReadReconStep ==
  ASSUME IInv, NEW s \in Session, ReadRecon(s) PROVE IInv'
<1> DEFINE r == request[s].id
<1>1. CASE Refuse(s, ~ Proceeds(request[s], recon.row[r]))
  BY <1>1, AbandonStep DEF Refuse
<1>2. CASE /\ Proceeds(request[s], recon.row[r])
           /\ seen' = [seen EXCEPT ![s] = recon.row[r]]
           /\ Goto(s, IF request[s].op = "update_reconciliation" THEN "write_recon"
                      ELSE "select_members")
           /\ UNCHANGED <<txn, recon, request, todo, counted, served>>
  <2>1. /\ pc[s] = "read_recon" /\ SessionInv(s) /\ TypeOK
        /\ \A t \in Txn : txn.lock[t] # s
        /\ \A p \in Recon : recon.lock[p] # s
    BY <1>2, HoldsNothing DEF ReadRecon, IInv, Unheld
  <2>2. request[s] \in Request /\ r \in Recon
    BY <2>1, Stations DEF SessionInv, ReconSteps
  <2>3. pc'[s] = IF request[s].op = "update_reconciliation" THEN "write_recon"
                 ELSE "select_members"
    BY <1>2, <2>1 DEF Goto, TypeOK
  <2>4. recon.row[r] \in ReconRow
    BY <1>2, <2>1, <2>2 DEF Proceeds, Active, TypeOK, Tables
  <2>5. TypeOK'
    BY <1>2, <2>1, <2>4 DEF TypeOK, Goto, Steps
  <2>6. OnlyMoves(s)
    BY <1>2, <2>1 DEF TypeOK, Goto, OnlyMoves
  <2>7. AtItsOperation(s)'
    BY <1>2, <2>1, <2>3 DEF SessionInv, AtItsOperation, StepsOf, Request
  <2>8. HoldsItsRow(s)' /\ MayTouch(s)'
    BY <2>3 DEF HoldsItsRow, MayTouch, OnActive, OnDeleted
  <2>9. LocksAreKnown(s)' /\ HoldsItsRecon(s)'
    BY <1>2, <2>1, <2>3 DEF LocksAreKnown, HoldsItsRecon, Proceeds, Active
  <2>10. QED
    BY <1>2, <2>5, <2>6, <2>7, <2>8, <2>9, LocalStep DEF SessionInv
<1>3. QED
  BY <1>1, <1>2 DEF ReadRecon

LEMMA ReadDeletedReconStep ==
  ASSUME IInv, NEW s \in Session, ReadDeletedRecon(s) PROVE IInv'
<1> DEFINE r == request[s].id
<1>1. CASE Refuse(s, ~ Buried(recon.row[r]))
  BY <1>1, AbandonStep DEF Refuse
<1>2. CASE /\ Buried(recon.row[r])
           /\ seen' = [seen EXCEPT ![s] = recon.row[r]]
           /\ Goto(s, "restore_recon")
           /\ UNCHANGED <<txn, recon, request, todo, counted, served>>
  <2>1. /\ pc[s] = "read_deleted_recon" /\ SessionInv(s) /\ TypeOK
        /\ \A t \in Txn : txn.lock[t] # s
        /\ \A p \in Recon : recon.lock[p] # s
    BY <1>2, HoldsNothing DEF ReadDeletedRecon, IInv, Unheld
  <2>2. request[s] \in Request /\ r \in Recon
    BY <2>1, Stations DEF SessionInv, ReconSteps
  <2>3. pc'[s] = "restore_recon"
    BY <1>2, <2>1 DEF Goto, TypeOK
  <2>4. recon.row[r] \in ReconRow
    BY <1>2, <2>1, <2>2 DEF Buried, TypeOK, Tables
  <2>5. TypeOK'
    BY <1>2, <2>1, <2>4 DEF TypeOK, Goto, Steps
  <2>6. OnlyMoves(s)
    BY <1>2, <2>1 DEF TypeOK, Goto, OnlyMoves
  <2>7. AtItsOperation(s)'
    BY <1>2, <2>1, <2>3 DEF SessionInv, AtItsOperation, StepsOf, Request
  <2>8. HoldsItsRow(s)' /\ MayTouch(s)'
    BY <2>3 DEF HoldsItsRow, MayTouch, OnActive, OnDeleted
  <2>9. LocksAreKnown(s)' /\ HoldsItsRecon(s)'
    BY <1>2, <2>1, <2>3 DEF LocksAreKnown, HoldsItsRecon
  <2>10. QED
    BY <1>2, <2>5, <2>6, <2>7, <2>8, <2>9, LocalStep DEF SessionInv
<1>3. QED
  BY <1>1, <1>2 DEF ReadDeletedRecon

(* The start of a statement on the members of a batch. *)
LEMMA SelectStep ==
  ASSUME IInv, NEW s \in Session, SelectMembers(s) \/ SelectBumped(s) PROVE IInv'
<1>1. SessionInv(s) /\ TypeOK /\ UNCHANGED <<txn, recon, request, seen, counted, served>>
  BY DEF IInv, SelectMembers, SelectBumped
<1>2. /\ todo' = [todo EXCEPT ![s] = MembersSeenBy(s)]
      /\ \/ pc[s] = "select_members" /\ pc' = [pc EXCEPT ![s] = "take_members"]
         \/ pc[s] = "select_bumped" /\ pc' = [pc EXCEPT ![s] = "bump_members"]
  BY DEF SelectMembers, SelectBumped, Goto
<1>3. TypeOK'
  <2>1. MembersSeenBy(s) \in SUBSET Txn
    BY DEF MembersSeenBy
  <2>2. pc' \in [Session -> Steps]
    BY <1>1, <1>2 DEF TypeOK, Steps
  <2>3. QED
    BY <1>1, <1>2, <2>1, <2>2 DEF TypeOK
<1>4. OnlyMoves(s)
  BY <1>1, <1>2 DEF TypeOK, OnlyMoves
<1>5. \/ pc[s] = "select_members" /\ pc'[s] = "take_members"
      \/ pc[s] = "select_bumped" /\ pc'[s] = "bump_members"
  BY <1>1, <1>2 DEF TypeOK
<1>6. AtItsOperation(s)'
  BY <1>1, <1>5 DEF SessionInv, AtItsOperation, StepsOf, Request
<1>7. HoldsItsRow(s)' /\ MayTouch(s)'
  BY <1>5 DEF HoldsItsRow, MayTouch, OnActive, OnDeleted
<1>8. LocksAreKnown(s)'
  <2>1. CASE pc[s] = "select_members"
    BY <2>1, <1>1, HoldsNothing DEF LocksAreKnown, Unheld
  <2>2. CASE pc[s] = "select_bumped"
    <3>1. SUFFICES ASSUME NEW t \in Txn, txn.lock[t] = s PROVE Uncommitted(s, t)'
      BY <1>1 DEF LocksAreKnown
    <3>2. Linked(txn.row[t], request[s].id) /\ txn.latest[t] = txn.row[t]
      BY <1>1, <2>2, <3>1
         DEF SessionInv, LocksAreKnown, Uncommitted, OnActive, OnDeleted
    <3>3. t \in todo'[s]
      BY <1>1, <1>2, <3>1, <3>2 DEF MembersSeenBy, Visible, TypeOK
    <3>4. QED
      BY <1>1, <1>5, <2>2, <3>2, <3>3 DEF Uncommitted
  <2>3. QED
    BY <1>5, <2>1, <2>2
<1>9. HoldsItsRecon(s)'
  <2>1. CASE pc[s] = "select_members"
    BY <2>1, <1>1, <1>5, HoldsNothing DEF SessionInv, HoldsItsRecon, Unheld
  <2>2. CASE pc[s] = "select_bumped"
    BY <2>2, <1>1, <1>5 DEF SessionInv, HoldsItsRecon, Target
  <2>3. QED
    BY <1>5, <2>1, <2>2
<1>10. QED
  BY <1>1, <1>3, <1>4, <1>6, <1>7, <1>8, <1>9, LocalStep DEF SessionInv

LEMMA MembersTakenStep ==
  ASSUME IInv, NEW s \in Session, MembersTaken(s) PROVE IInv'
<1> DEFINE next == IF request[s].op = "delete_reconciliation" THEN "delete_recon"
                   ELSE "set_status"
<1>1. CASE Refuse(s, NothingAssigned(s))
  BY <1>1, AbandonStep DEF Refuse
<1>2. CASE Goto(s, next) /\ UNCHANGED <<txn, recon, request, seen, todo, counted, served>>
  <2>1. /\ pc[s] = "take_members" /\ todo[s] = {} /\ SessionInv(s) /\ TypeOK
        /\ UNCHANGED <<txn, recon, request, seen, todo, counted>>
    BY <1>2 DEF MembersTaken, IInv
  <2>2. OnlyMoves(s) /\ TypeOK'
    <3>1. {"delete_recon", "set_status"} \in SUBSET Steps
      BY DEF Steps
    <3>2. OnlyPc(s, {"delete_recon", "set_status"})
      BY <1>2 DEF OnlyPc
    <3>3. QED
      BY <3>1, <3>2, PcFacts
  <2>3. pc'[s] = next
    BY <1>2, <2>1 DEF Goto, TypeOK
  <2>4. AtItsOperation(s)'
    BY <2>1, <2>3 DEF SessionInv, AtItsOperation, StepsOf, Request
  <2>5. HoldsItsRow(s)' /\ MayTouch(s)'
    BY <2>3 DEF HoldsItsRow, MayTouch, OnActive, OnDeleted
  <2>6. LocksAreKnown(s)'
    BY <2>1, <2>3 DEF SessionInv, LocksAreKnown, Uncommitted, OnActive, OnDeleted
  <2>7. HoldsItsRecon(s)'
    BY <2>1, <2>3 DEF SessionInv, HoldsItsRecon
  <2>8. QED
    BY <2>1, <2>2, <2>4, <2>5, <2>6, <2>7, LocalStep DEF SessionInv
<1>3. QED
  BY <1>1, <1>2 DEF MembersTaken

-----------------------------------------------------------------------------
(* Steps that lock or write rows and commit nothing.                         *)

LEMMA UncommittedStep ==
  ASSUME IInv, NEW s \in Session, TypeOK', Settled(txn, Txn)', Settled(recon, Recon)',
         Frames(s), OnlyMoves(s), SessionInv(s)',
         txn'.row = txn.row, recon'.row = recon.row, UNCHANGED counted
  PROVE  IInv'
  BY NothingCommitted, StepOf

(* SELECT ... FOR UPDATE of the request's own transaction. *)
LEMMA LockOwnFacts ==
  ASSUME IInv, NEW s \in Session, NEW t \in Txn, pc[s] \in Unheld,
         txn.row[t] # Missing, Free(txn, s, t), txn' = LockRow(txn, s, t),
         seen' = [seen EXCEPT ![s] = txn.row[t]], NEW step \in Steps, Goto(s, step),
         UNCHANGED <<recon, request, todo, counted, served>>
  PROVE  /\ TypeOK' /\ Settled(txn, Txn)' /\ Settled(recon, Recon)'
         /\ Frames(s) /\ OnlyMoves(s)
         /\ pc'[s] = step /\ seen'[s] = txn.row[t] /\ txn'.row = txn.row
         /\ \A u \in Txn : txn'.lock[u] = s <=> u = t
         /\ txn'.latest[t] = txn.row[t]
         /\ \A r \in Recon : recon.lock[r] # s
<1>1. /\ txn' \in Tables(Txn, TxnRow \cup {Missing}) /\ Settled(txn', Txn)
      /\ FrameOf(txn, txn', s, Txn)
      /\ txn'.row = txn.row /\ txn'.latest = txn.latest
      /\ \A u \in Txn : txn'.lock[u] = IF u = t THEN s ELSE txn.lock[u]
  BY Typed, LockFacts
<1>2. /\ \A u \in Txn : txn.lock[u] # s
      /\ \A r \in Recon : recon.lock[r] # s
  BY HoldsNothing
<1>3. TypeOK /\ txn.row[t] \in TxnRow /\ Settled(txn, Txn) /\ Settled(recon, Recon)
  BY DEF IInv, TypeOK, Tables
<1>4. TypeOK' /\ OnlyMoves(s) /\ pc'[s] = step /\ seen'[s] = txn.row[t]
  BY <1>1, <1>3 DEF TypeOK, Goto, OnlyMoves
<1>5. Frames(s)
  BY <1>1, SameTable DEF Frames
<1>6. txn'.latest[t] = txn.row[t]
  BY <1>1, <1>2, <1>3 DEF Settled, Free
<1>7. QED
  BY <1>1, <1>2, <1>3, <1>4, <1>5, <1>6 DEF Settled

LEMMA LockTxnStep ==
  ASSUME IInv, NEW s \in Session, LockTxn(s) PROVE IInv'
<1> DEFINE t == request[s].id
           next == IF txn.row[t].link = NoRecon THEN AfterFreeze(request[s])
                   ELSE "check_freeze"
<1>1. CASE Refuse(s, ~ Active(txn.row[t]))
  BY <1>1, AbandonStep DEF Refuse
<1>2. CASE /\ Active(txn.row[t]) /\ Free(txn, s, t)
           /\ txn' = LockRow(txn, s, t)
           /\ seen' = [seen EXCEPT ![s] = txn.row[t]]
           /\ Goto(s, next)
           /\ UNCHANGED <<recon, request, todo, counted, served>>
  <2>1. pc[s] = "lock_txn" /\ SessionInv(s)
    BY DEF LockTxn, FetchForUpdate, IInv
  <2>2. /\ request[s] \in Request /\ t \in Txn
        /\ request[s].op \in {"update_transaction", "delete_transaction"}
    BY <2>1, Stations DEF SessionInv, TxnSteps
  <2>3. /\ next \in OnActive
        /\ next = "check_link" => request[s].edit.link \in Recon
        /\ next = "check_freeze" <=> txn.row[t].link # NoRecon
    BY AfterFreezeFacts DEF OnActive
  <2>4. /\ TypeOK' /\ Settled(txn, Txn)' /\ Settled(recon, Recon)'
        /\ Frames(s) /\ OnlyMoves(s)
        /\ pc'[s] = next /\ seen'[s] = txn.row[t] /\ txn'.row = txn.row
        /\ \A u \in Txn : txn'.lock[u] = s <=> u = t
        /\ txn'.latest[t] = txn.row[t]
        /\ \A r \in Recon : recon.lock[r] # s
    <3>1. next \in Steps /\ pc[s] \in Unheld
      BY <2>1, <2>3 DEF OnActive, Steps, Unheld
    <3>2. txn.row[t] # Missing
      BY <1>2 DEF Active
    <3> HIDE DEF t, next
    <3>3. QED
      BY <1>2, <2>1, <2>2, <3>1, <3>2, LockOwnFacts
  <2>5. AtItsOperation(s)'
    BY <1>2, <2>2, <2>3, <2>4 DEF AtItsOperation, StepsOf, OnActive
  <2>6. HoldsItsRow(s)'
    BY <1>2, <2>2, <2>3, <2>4 DEF HoldsItsRow, OnActive, OnDeleted
  <2>7. LocksAreKnown(s)'
    BY <1>2, <2>2, <2>3, <2>4 DEF LocksAreKnown, Uncommitted
  <2>8. HoldsItsRecon(s)'
    BY <1>2, <2>3, <2>4 DEF HoldsItsRecon, OnActive
  <2>9. MayTouch(s)'
    <3>1. pc'[s] # "check_freeze" => \A r \in Recon : counted[r][t] = NotCounted
      BY <2>2, <2>3, <2>4, SentinelAssumption, Uncounted
    <3>2. QED
      BY <1>2, <3>1 DEF MayTouch, TouchesLocked
  <2>10. QED
    BY <1>2, <2>4, <2>5, <2>6, <2>7, <2>8, <2>9, UncommittedStep DEF SessionInv
<1>3. QED
  BY <1>1, <1>2 DEF LockTxn, FetchForUpdate

LEMMA LockDeletedTxnStep ==
  ASSUME IInv, NEW s \in Session, LockDeletedTxn(s) PROVE IInv'
<1> DEFINE t == request[s].id
           next == IF txn.row[t].link = NoRecon THEN "restore_txn" ELSE "check_prior"
<1>1. CASE Refuse(s, ~ Buried(txn.row[t]))
  BY <1>1, AbandonStep DEF Refuse
<1>2. CASE /\ Buried(txn.row[t]) /\ Free(txn, s, t)
           /\ txn' = LockRow(txn, s, t)
           /\ seen' = [seen EXCEPT ![s] = txn.row[t]]
           /\ Goto(s, next)
           /\ UNCHANGED <<recon, request, todo, counted, served>>
  <2>1. pc[s] = "lock_deleted_txn" /\ SessionInv(s)
    BY DEF LockDeletedTxn, FetchForUpdate, IInv
  <2>2. request[s] \in Request /\ t \in Txn /\ request[s].op = "restore_transaction"
    <3>1. request[s] \in Request /\ t \in Txn
      BY <2>1, Stations DEF SessionInv, TxnSteps
    <3>2. request[s].op = "restore_transaction"
      BY <2>1, <3>1 DEF SessionInv, AtItsOperation, StepsOf, Request
    <3>3. QED
      BY <3>1, <3>2
  <2>3. /\ TypeOK' /\ Settled(txn, Txn)' /\ Settled(recon, Recon)'
        /\ Frames(s) /\ OnlyMoves(s)
        /\ pc'[s] = next /\ seen'[s] = txn.row[t] /\ txn'.row = txn.row
        /\ \A u \in Txn : txn'.lock[u] = s <=> u = t
        /\ txn'.latest[t] = txn.row[t]
        /\ \A r \in Recon : recon.lock[r] # s
    <3>1. next \in Steps /\ pc[s] \in Unheld
      BY <2>1 DEF Steps, Unheld
    <3>2. txn.row[t] # Missing
      BY <1>2 DEF Buried
    <3> HIDE DEF t, next
    <3>3. QED
      BY <1>2, <2>1, <2>2, <3>1, <3>2, LockOwnFacts
  <2>4. AtItsOperation(s)'
    BY <1>2, <2>2, <2>3 DEF AtItsOperation, StepsOf
  <2>5. HoldsItsRow(s)'
    BY <1>2, <2>2, <2>3 DEF HoldsItsRow, OnActive, OnDeleted
  <2>6. LocksAreKnown(s)'
    BY <1>2, <2>2, <2>3 DEF LocksAreKnown, Uncommitted, OnDeleted
  <2>7. HoldsItsRecon(s)' /\ MayTouch(s)'
    BY <1>2, <2>3 DEF HoldsItsRecon, MayTouch
  <2>8. QED
    BY <1>2, <2>3, <2>4, <2>5, <2>6, <2>7, UncommittedStep DEF SessionInv
<1>3. QED
  BY <1>1, <1>2 DEF LockDeletedTxn, FetchForUpdate

(* A statement of s visits row t and locks or rewrites it. *)
VisitedRow(s, t) ==
    /\ txn' \in Tables(Txn, TxnRow \cup {Missing}) /\ Settled(txn', Txn)
    /\ FrameOf(txn, txn', s, Txn) /\ txn'.row = txn.row
    /\ Visited(s, t)
    /\ UNCHANGED <<recon, request, pc, seen, counted, served>>

LEMMA VisitFacts ==
  ASSUME IInv, NEW s \in Session, NEW t \in Txn, VisitedRow(s, t),
         pc[s] \in {"take_members", "bump_members"}, LocksAreKnown(s)'
  PROVE  IInv'
<1>1. TypeOK /\ SessionInv(s) /\ UNCHANGED <<recon, request, pc, seen, counted, served>>
  BY DEF IInv, VisitedRow
<1>2. todo' = [todo EXCEPT ![s] = todo[s] \ {t}]
  BY DEF VisitedRow, Visited
<1>3. TypeOK' /\ OnlyMoves(s)
  <2>1. todo[s] \ {t} \in SUBSET Txn
    BY <1>1 DEF TypeOK
  <2>2. OnlyMoves(s)
    BY <1>1, <1>2 DEF TypeOK, OnlyMoves
  <2>3. todo' \in [Session -> SUBSET Txn]
    BY <1>1, <1>2, <2>1 DEF TypeOK
  <2>4. QED
    BY <1>1, <2>2, <2>3 DEF TypeOK, VisitedRow
<1>4. Frames(s)
  BY <1>1, SameTable DEF Frames, VisitedRow
<1>5. AtItsOperation(s)'
  BY <1>1 DEF SessionInv, AtItsOperation
<1>6. HoldsItsRow(s)' /\ MayTouch(s)'
  BY <1>1 DEF HoldsItsRow, MayTouch, OnActive, OnDeleted
<1>7. HoldsItsRecon(s)'
  BY <1>1 DEF SessionInv, HoldsItsRecon, Target
<1>8. Settled(txn, Txn)' /\ Settled(recon, Recon)' /\ recon'.row = recon.row
  BY <1>1 DEF VisitedRow, IInv, Settled
<1>9. QED
  BY <1>1, <1>3, <1>4, <1>5, <1>6, <1>7, <1>8, UncommittedStep DEF SessionInv, VisitedRow

(* What a visiting statement of s finds in a row. *)
LEMMA VisibleFacts ==
  ASSUME IInv, NEW s \in Session, NEW t \in todo[s],
         pc[s] \in {"take_members", "bump_members"}
  PROVE  /\ t \in Txn
         /\ Visible(txn, s, t) = txn.row[t]
         /\ Linked(txn.row[t], request[s].id) =>
              txn.row[t] \in TxnRow /\ Unassigned(txn.row[t]) \in TxnRow
                /\ Bumped(txn.row[t]) \in TxnRow
         /\ txn.lock[t] = s => Linked(txn.row[t], request[s].id)
<1>1. TypeOK /\ SessionInv(s) /\ t \in Txn
  BY DEF IInv, TypeOK
<1>2. txn.lock[t] = s =>
        txn.latest[t] = txn.row[t] /\ Linked(txn.row[t], request[s].id)
  BY <1>1 DEF SessionInv, LocksAreKnown, Uncommitted, OnActive, OnDeleted
<1>3. Linked(txn.row[t], request[s].id) => txn.row[t] \in TxnRow
  BY <1>1 DEF Linked, Active, TypeOK, Tables
<1>4. txn.row[t] \in TxnRow =>
        Unassigned(txn.row[t]) \in TxnRow /\ Bumped(txn.row[t]) \in TxnRow
  BY BumpedTxnFacts, UnassignedFacts
<1>5. QED
  BY <1>1, <1>2, <1>3, <1>4 DEF Visible

LEMMA TakeMemberStep ==
  ASSUME IInv, NEW s \in Session, NEW t \in Txn, TakeMember(s, t) PROVE IInv'
<1> DEFINE r == request[s].id
           v == txn.row[t]
<1>1. /\ pc[s] = "take_members" /\ t \in todo[s] /\ Free(txn, s, t) /\ TypeOK
      /\ SessionInv(s) /\ Settled(txn, Txn)
      /\ Visited(s, t) /\ UNCHANGED <<recon, request, pc, seen, counted, served>>
  BY DEF TakeMember, IInv
<1>2. /\ Visible(txn, s, t) = v
      /\ Linked(v, r) => v \in TxnRow /\ Unassigned(v) \in TxnRow
      /\ txn.lock[t] = s => Linked(v, r)
  BY <1>1, VisibleFacts
<1>3. todo'[s] = todo[s] \ {t}
  BY <1>1 DEF Visited, TypeOK
<1>4. CASE ~ Linked(v, r)
  <2>1. txn' = txn
    BY <1>2, <1>4 DEF TakeMember
  <2>2. VisitedRow(s, t)
    BY <1>1, <2>1, Typed, SameTable DEF VisitedRow
  <2>3. LocksAreKnown(s)'
    BY <1>1, <1>3, <2>1 DEF SessionInv, LocksAreKnown, Uncommitted
  <2>4. QED
    BY <1>1, <2>2, <2>3, VisitFacts
<1>5. CASE Linked(v, r) /\ request[s].op = "delete_reconciliation"
  <2>1. txn' = WriteRow(txn, s, t, Unassigned(v))
    BY <1>2, <1>5 DEF TakeMember
  <2>2. /\ VisitedRow(s, t)
        /\ \A u \in Txn : /\ txn'.latest[u] = IF u = t THEN Unassigned(v) ELSE txn.latest[u]
                          /\ txn'.lock[u] = IF u = t THEN s ELSE txn.lock[u]
    BY <1>1, <1>2, <1>5, <2>1, Typed, WriteFacts DEF VisitedRow
  <2>3. LocksAreKnown(s)'
    BY <1>1, <1>3, <1>5, <2>2
       DEF SessionInv, LocksAreKnown, Uncommitted, VisitedRow, OnActive, OnDeleted
  <2>4. QED
    BY <1>1, <2>2, <2>3, VisitFacts
<1>6. CASE Linked(v, r) /\ request[s].op # "delete_reconciliation"
  <2>1. txn' = LockRow(txn, s, t)
    BY <1>2, <1>6 DEF TakeMember
  <2>2. /\ VisitedRow(s, t) /\ txn'.latest = txn.latest
        /\ \A u \in Txn : txn'.lock[u] = IF u = t THEN s ELSE txn.lock[u]
    BY <1>1, <2>1, Typed, LockFacts DEF VisitedRow
  <2>3. txn.latest[t] = v
    BY <1>1, <1>2, <1>6 DEF SessionInv, LocksAreKnown, Uncommitted, OnActive, OnDeleted,
                            Free, Settled
  <2>4. LocksAreKnown(s)'
    BY <1>1, <1>3, <1>6, <2>2, <2>3
       DEF SessionInv, LocksAreKnown, Uncommitted, VisitedRow, OnActive, OnDeleted
  <2>5. QED
    BY <1>1, <2>2, <2>4, VisitFacts
<1>7. QED
  BY <1>4, <1>5, <1>6

LEMMA BumpMemberStep ==
  ASSUME IInv, NEW s \in Session, NEW t \in Txn, BumpMember(s, t) PROVE IInv'
<1> DEFINE r == request[s].id
           v == txn.row[t]
<1>1. /\ pc[s] = "bump_members" /\ t \in todo[s] /\ Free(txn, s, t) /\ TypeOK
      /\ SessionInv(s)
      /\ Visited(s, t) /\ UNCHANGED <<recon, request, pc, seen, counted, served>>
  BY DEF BumpMember, IInv
<1>2. /\ Visible(txn, s, t) = v
      /\ Linked(v, r) => v \in TxnRow /\ Bumped(v) \in TxnRow
      /\ txn.lock[t] = s => Linked(v, r)
  BY <1>1, VisibleFacts
<1>3. todo'[s] = todo[s] \ {t}
  BY <1>1 DEF Visited, TypeOK
<1>4. CASE ~ Linked(v, r)
  <2>1. txn' = txn
    BY <1>2, <1>4 DEF BumpMember
  <2>2. VisitedRow(s, t)
    BY <1>1, <2>1, Typed, SameTable DEF VisitedRow
  <2>3. LocksAreKnown(s)'
    BY <1>1, <1>2, <1>3, <1>4, <2>1
       DEF SessionInv, LocksAreKnown, Uncommitted, OnActive, OnDeleted
  <2>4. QED
    BY <1>1, <2>2, <2>3, VisitFacts
<1>5. CASE Linked(v, r)
  <2>1. txn' = WriteRow(txn, s, t, Bumped(v))
    BY <1>2, <1>5 DEF BumpMember
  <2>2. /\ VisitedRow(s, t)
        /\ \A u \in Txn : /\ txn'.latest[u] = IF u = t THEN Bumped(v) ELSE txn.latest[u]
                          /\ txn'.lock[u] = IF u = t THEN s ELSE txn.lock[u]
    BY <1>1, <1>2, <1>5, <2>1, Typed, WriteFacts DEF VisitedRow
  <2>3. LocksAreKnown(s)'
    BY <1>1, <1>3, <1>5, <2>2
       DEF SessionInv, LocksAreKnown, Uncommitted, VisitedRow, OnActive, OnDeleted
  <2>4. QED
    BY <1>1, <2>2, <2>3, VisitFacts
<1>6. QED
  BY <1>4, <1>5

LEMMA SetStatusStep ==
  ASSUME IInv, NEW s \in Session, SetStatus(s) PROVE IInv'
<1> DEFINE r == request[s].id
           w == Flipped(recon.row[r], Target(request[s]))
<1>1. /\ pc[s] = "set_status" /\ Free(recon, s, r) /\ TypeOK /\ SessionInv(s)
      /\ recon' = WriteRow(recon, s, r, w) /\ pc' = [pc EXCEPT ![s] = "select_bumped"]
      /\ UNCHANGED <<txn, request, seen, todo, counted, served>>
  BY DEF SetStatus, Goto, IInv
<1>2. /\ r \in Recon /\ request[s].op \in {"complete", "revert"}
      /\ recon.row[r] # Missing /\ request[s] \in Request
  BY <1>1, Stations DEF SessionInv, HoldsItsRecon, ReconSteps, FlipSteps
<1>3. w \in ReconRow
  <2>1. recon.row[r] \in ReconRow
    BY <1>1, <1>2 DEF TypeOK, Tables
  <2>2. QED
    BY <2>1, FlippedFacts DEF Target
<1> HIDE DEF w
<1>4. /\ recon' \in Tables(Recon, ReconRow \cup {Missing}) /\ Settled(recon', Recon)
      /\ FrameOf(recon, recon', s, Recon) /\ recon'.row = recon.row
      /\ \A q \in Recon : /\ recon'.latest[q] = IF q = r THEN w ELSE recon.latest[q]
                          /\ recon'.lock[q] = IF q = r THEN s ELSE recon.lock[q]
  BY <1>1, <1>2, <1>3, Typed, WriteFacts
<1>5. TypeOK' /\ OnlyMoves(s) /\ pc'[s] = "select_bumped"
  BY <1>1, <1>4 DEF TypeOK, Steps, OnlyMoves
<1>6. Frames(s)
  BY <1>1, <1>4, SameTable DEF Frames
<1>7. AtItsOperation(s)'
  BY <1>1, <1>2, <1>5 DEF AtItsOperation, StepsOf
<1>8. HoldsItsRow(s)' /\ MayTouch(s)'
  BY <1>5 DEF HoldsItsRow, MayTouch, OnActive, OnDeleted
<1>9. LocksAreKnown(s)'
  BY <1>1, <1>2, <1>5 DEF SessionInv, LocksAreKnown, Uncommitted, OnActive, OnDeleted
<1>10. HoldsItsRecon(s)'
  <2>1. recon'.lock[r] = s /\ recon'.latest[r] = w
    BY <1>2, <1>4
  <2>2. w = Flipped(recon'.row[request'[s].id], Target(request'[s]))
    BY <1>1, <1>4 DEF w
  <2>3. \A q \in Recon : recon'.lock[q] = s => q = r
    BY <1>1, <1>4 DEF SessionInv, HoldsItsRecon
  <2>4. QED
    BY <1>1, <1>2, <1>4, <1>5, <2>1, <2>2, <2>3 DEF HoldsItsRecon
<1>11. Settled(txn, Txn)'
  BY <1>1, Typed
<1>12. QED
  BY <1>1, <1>4, <1>5, <1>6, <1>7, <1>8, <1>9, <1>10, <1>11, UncommittedStep DEF SessionInv

-----------------------------------------------------------------------------
(* Handlers that commit one transaction row.                                 *)

LEMMA CommitTxnStep ==
  ASSUME IInv, NEW s \in Session, NEW t \in Txn, NEW v \in TxnRow, Free(txn, s, t),
         txn' = Commit(WriteRow(txn, s, t, v), s, Txn), UNCHANGED <<recon, counted>>, End(s),
         \A u \in Txn : txn.lock[u] = s => u = t,
         \A r \in Recon : recon.lock[r] # s,
         \A r \in Recon : counted[r][t] # NotCounted =>
           Linked(v, r) /\ LockedFields(v) = LockedFields(txn.row[t])
  PROVE  IInv'
<1>1. /\ txn' \in Tables(Txn, TxnRow \cup {Missing}) /\ Settled(txn', Txn)
      /\ FrameOf(txn, txn', s, Txn)
      /\ \A u \in Txn : txn'.row[u] = (IF u = t THEN v ELSE Visible(txn, s, u))
                        /\ txn'.lock[u] # s
  BY Typed, WriteCommitFacts
<1>2. \A u \in Txn : txn'.row[u] = IF u = t THEN v ELSE txn.row[u]
  BY <1>1 DEF Visible
<1>3. TypeOK'
  BY <1>1 DEF IInv, TypeOK, End, Steps
<1>4. SessionInv(s)' /\ OnlyMoves(s)
  BY <1>1, AtEnd DEF IInv
<1>5. Frames(s) /\ Settled(txn, Txn)' /\ Settled(recon, Recon)'
  BY <1>1, SameTable, Typed DEF Frames, Settled
<1>6. CountedStayFrozen'
  <2>1. SUFFICES ASSUME NEW r \in Recon, NEW u \in Txn, counted[r][u] # NotCounted
                 PROVE  /\ Linked(txn'.row[u], r)
                        /\ LockedFields(txn'.row[u]) = counted[r][u]
    BY DEF CountedStayFrozen, CountedIn
  <2>2. Linked(txn.row[u], r) /\ LockedFields(txn.row[u]) = counted[r][u]
    BY <2>1 DEF IInv, CountedStayFrozen, CountedIn
  <2>3. QED
    BY <1>2, <2>1, <2>2
<1>7. CountedAreCompleted' /\ RowsRemain /\ OthersUncounted(s)
  BY DEF IInv, CountedAreCompleted, CountedIn, RowsRemain, OthersUncounted
<1>8. QED
  BY <1>3, <1>4, <1>5, <1>6, <1>7, StepOf

(* Nobody holds a row that does not exist. *)
LEMMA MissingIsFree ==
  ASSUME IInv
  PROVE  /\ \A t \in Txn : txn.row[t] = Missing => txn.lock[t] = Nobody
         /\ \A r \in Recon : recon.row[r] = Missing => recon.lock[r] = Nobody
<1>1. ASSUME NEW t \in Txn, txn.row[t] = Missing PROVE txn.lock[t] = Nobody
  <2>1. SUFFICES ASSUME NEW u \in Session, txn.lock[t] = u PROVE FALSE
    BY DEF IInv, TypeOK, Tables
  <2>2. SessionInv(u)
    BY DEF IInv
  <2>3. QED
    BY <1>1, <2>1, <2>2
       DEF SessionInv, LocksAreKnown, Uncommitted, HoldsItsRow, Linked, Active, Buried
<1>2. ASSUME NEW r \in Recon, recon.row[r] = Missing PROVE recon.lock[r] = Nobody
  <2>1. SUFFICES ASSUME NEW u \in Session, recon.lock[r] = u PROVE FALSE
    BY DEF IInv, TypeOK, Tables
  <2>2. SessionInv(u)
    BY DEF IInv
  <2>3. QED
    BY <1>2, <2>1, <2>2 DEF SessionInv, HoldsItsRecon
<1>3. QED
  BY <1>1, <1>2

(* A row that is in no batch is not counted. *)
LEMMA UnlinkedIsUncounted ==
  ASSUME IInv, NEW t \in Txn, ~ Active(txn.row[t])
  PROVE  \A r \in Recon : counted[r][t] = NotCounted
  BY DEF IInv, CountedStayFrozen, CountedIn, Linked

LEMMA InsertTxnStep ==
  ASSUME IInv, NEW s \in Session, InsertTxn(s) PROVE IInv'
<1> DEFINE t == request[s].id
           v == NewTxn(request[s].edit.account, request[s].edit.amount)
<1>1. CASE Refuse(s, txn.row[t] # Missing)
  BY <1>1, AbandonStep DEF Refuse
<1>2. CASE /\ txn.row[t] = Missing
           /\ txn' = Commit(WriteRow(txn, s, t, v), s, Txn)
           /\ UNCHANGED <<recon, counted>> /\ End(s)
  <2>1. pc[s] = "insert_txn" /\ SessionInv(s)
    BY DEF InsertTxn, IInv
  <2>2. t \in Txn /\ v \in TxnRow
    BY <2>1, Stations DEF SessionInv, TxnSteps, NewTxn, TxnRow, TxnRows
  <2>3. Free(txn, s, t)
    BY <1>2, <2>2, MissingIsFree DEF Free
  <2>4. /\ \A u \in Txn : txn.lock[u] # s
        /\ \A r \in Recon : recon.lock[r] # s
    BY <2>1, HoldsNothing DEF Unheld
  <2>5. \A r \in Recon : counted[r][t] = NotCounted
    BY <1>2, <2>2, UnlinkedIsUncounted DEF Active
  <2> HIDE DEF t, v
  <2>6. QED
    BY <1>2, <2>2, <2>3, <2>4, <2>5, CommitTxnStep
<1>3. QED
  BY <1>1, <1>2 DEF InsertTxn

(* The one lock and the version of a handler about to write its row. *)
LEMMA OwnRowFacts ==
  ASSUME IInv, NEW s \in Session, pc[s] \in {"write_txn", "restore_txn", "restore_unlinked"}
  PROVE  LET t == request[s].id IN
         /\ t \in Txn /\ request[s] \in Request
         /\ txn.row[t] \in TxnRow /\ txn.latest[t] = txn.row[t]
         /\ Free(txn, s, t)
         /\ \A u \in Txn : txn.lock[u] = s => u = t
         /\ \A r \in Recon : recon.lock[r] # s
<1> DEFINE t == request[s].id
<1>1. SessionInv(s) /\ TypeOK
  BY DEF IInv
<1>2. t \in Txn /\ request[s] \in Request
  BY <1>1, Stations DEF SessionInv, TxnSteps, OnActive, OnDeleted
<1>3. txn.lock[t] = s /\ txn.row[t] # Missing
  BY <1>1 DEF SessionInv, HoldsItsRow, OnActive, OnDeleted, Active, Buried
<1>4. txn.row[t] \in TxnRow
  BY <1>1, <1>2, <1>3 DEF TypeOK, Tables
<1>5. txn.latest[t] = txn.row[t]
  BY <1>1, <1>2, <1>3 DEF SessionInv, LocksAreKnown, Uncommitted
<1>6. \A u \in Txn : txn.lock[u] = s => u = t
  BY <1>1 DEF SessionInv, LocksAreKnown, Uncommitted
<1>7. \A r \in Recon : recon.lock[r] # s
  BY <1>1 DEF SessionInv, HoldsItsRecon
<1>8. QED
  BY <1>2, <1>3, <1>4, <1>5, <1>6, <1>7 DEF Free

LEMMA WriteTxnStep ==
  ASSUME IInv, NEW s \in Session, WriteTxn(s) PROVE IInv'
<1> DEFINE t == request[s].id
           w == IF request[s].op = "delete_transaction" THEN SoftDeleted(txn.row[t])
                ELSE EditedTxn(txn.row[t], request[s].edit)
<1>1. /\ pc[s] = "write_txn" /\ SessionInv(s)
      /\ UNCHANGED <<recon, counted>> /\ End(s)
  BY DEF WriteTxn, IInv
<1>2. /\ t \in Txn /\ request[s] \in Request
      /\ txn.row[t] \in TxnRow /\ txn.latest[t] = txn.row[t]
      /\ Free(txn, s, t)
      /\ \A u \in Txn : txn.lock[u] = s => u = t
      /\ \A r \in Recon : recon.lock[r] # s
  BY <1>1, OwnRowFacts
<1>3. request[s].edit \in Edit
  BY <1>1, Stations DEF SessionInv
<1>4. w \in TxnRow
  BY <1>2, <1>3, SoftDeletedTxnFacts, EditedTxnFacts
<1>5. txn' = Commit(WriteRow(txn, s, t, w), s, Txn)
  BY <1>2 DEF WriteTxn
<1>6. ASSUME NEW r \in Recon, counted[r][t] # NotCounted
      PROVE  Linked(w, r) /\ LockedFields(w) = LockedFields(txn.row[t])
  <2>1. ~ TouchesLocked(request[s])
    BY <1>1, <1>6 DEF SessionInv, MayTouch
  <2>2. w = EditedTxn(txn.row[t], NoEdit)
    BY <2>1 DEF TouchesLocked
  <2>3. /\ w.link = txn.row[t].link /\ w.deleted = txn.row[t].deleted
        /\ LockedFields(w) = LockedFields(txn.row[t])
    BY <1>2, <1>3, <2>1, <2>2, EditedTxnFacts DEF TouchesLocked
  <2>4. Linked(txn.row[t], r)
    BY <1>2, <1>6 DEF IInv, CountedStayFrozen, CountedIn
  <2> HIDE DEF w
  <2>5. QED
    BY <1>4, <2>3, <2>4, MissingAssumption DEF Linked, Active
<1> HIDE DEF t, w
<1>7. QED
  BY <1>1, <1>2, <1>4, <1>5, <1>6, CommitTxnStep

LEMMA RestoreTxnStep ==
  ASSUME IInv, NEW s \in Session, RestoreTxn(s) PROVE IInv'
<1> DEFINE t == request[s].id
           link == IF pc[s] = "restore_txn" THEN txn.row[t].link ELSE NoRecon
           w == RestoredTxn(txn.row[t], link)
<1>1. /\ pc[s] \in {"restore_txn", "restore_unlinked"} /\ SessionInv(s)
      /\ UNCHANGED <<recon, counted>> /\ End(s)
  BY DEF RestoreTxn, IInv
<1>2. /\ t \in Txn
      /\ txn.row[t] \in TxnRow /\ txn.latest[t] = txn.row[t]
      /\ Free(txn, s, t)
      /\ \A u \in Txn : txn.lock[u] = s => u = t
      /\ \A r \in Recon : recon.lock[r] # s
  BY <1>1, OwnRowFacts
<1>3. w \in TxnRow
  <2>1. link \in Recon \cup {NoRecon}
    BY <1>2 DEF TxnRow, TxnRows
  <2> HIDE DEF link
  <2>2. QED
    BY <1>2, <2>1, RestoredTxnFacts
<1>4. txn' = Commit(WriteRow(txn, s, t, w), s, Txn)
  BY <1>2 DEF RestoreTxn
<1>5. \A r \in Recon : counted[r][t] = NotCounted
  <2>1. Buried(txn.row[t])
    BY <1>1 DEF SessionInv, HoldsItsRow, OnDeleted
  <2>2. QED
    BY <1>2, <2>1, UnlinkedIsUncounted DEF Buried, Active
<1> HIDE DEF t, w
<1>6. QED
  BY <1>1, <1>2, <1>3, <1>4, <1>5, CommitTxnStep

-----------------------------------------------------------------------------
(* Handlers that commit one reconciliation row.                              *)

LEMMA CommitReconStep ==
  ASSUME IInv, NEW s \in Session, NEW r \in Recon, NEW w \in ReconRow, pc[s] \in Unheld,
         Free(recon, s, r), recon' = Commit(WriteRow(recon, s, r, w), s, Recon),
         UNCHANGED <<txn, counted>>, End(s),
         Completed(recon.row[r]) => w.status = "COMPLETED"
  PROVE  IInv'
<1>1. /\ recon' \in Tables(Recon, ReconRow \cup {Missing}) /\ Settled(recon', Recon)
      /\ FrameOf(recon, recon', s, Recon)
      /\ \A q \in Recon : recon'.row[q] = (IF q = r THEN w ELSE Visible(recon, s, q))
                          /\ recon'.lock[q] # s
  BY Typed, WriteCommitFacts
<1>2. /\ \A t \in Txn : txn.lock[t] # s
      /\ \A q \in Recon : recon'.row[q] = IF q = r THEN w ELSE recon.row[q]
  BY <1>1, HoldsNothing DEF Visible
<1>3. TypeOK'
  BY <1>1 DEF IInv, TypeOK, End, Steps
<1>4. SessionInv(s)' /\ OnlyMoves(s)
  BY <1>1, <1>2, AtEnd DEF IInv
<1>5. Frames(s) /\ Settled(txn, Txn)' /\ Settled(recon, Recon)'
  BY <1>1, SameTable, Typed DEF Frames, Settled
<1>6. CountedAreCompleted' /\ RowsRemain
  BY <1>2, MissingAssumption DEF IInv, CountedAreCompleted, CountedIn, Completed, RowsRemain
<1>7. CountedStayFrozen' /\ OthersUncounted(s)
  BY DEF IInv, CountedStayFrozen, CountedIn, OthersUncounted
<1>8. QED
  BY <1>3, <1>4, <1>5, <1>6, <1>7, StepOf

LEMMA InsertReconStep ==
  ASSUME IInv, NEW s \in Session, InsertRecon(s) PROVE IInv'
<1> DEFINE r == request[s].id
           w == NewRecon(request[s].edit.account, request[s].edit.amount)
<1>1. CASE Refuse(s, recon.row[r] # Missing)
  BY <1>1, AbandonStep DEF Refuse
<1>2. CASE /\ recon.row[r] = Missing
           /\ recon' = Commit(WriteRow(recon, s, r, w), s, Recon)
           /\ UNCHANGED <<txn, counted>> /\ End(s)
  <2>1. pc[s] = "insert_recon" /\ SessionInv(s)
    BY DEF InsertRecon, IInv
  <2>2. r \in Recon /\ w \in ReconRow
    BY <2>1, Stations DEF SessionInv, ReconSteps, NewRecon, ReconRow, ReconRows
  <2>3. Free(recon, s, r) /\ pc[s] \in Unheld /\ ~ Completed(recon.row[r])
    BY <1>2, <2>1, <2>2, MissingIsFree DEF Free, Unheld, Completed
  <2> HIDE DEF r, w
  <2>4. QED
    BY <1>2, <2>2, <2>3, CommitReconStep
<1>3. QED
  BY <1>1, <1>2 DEF InsertRecon

LEMMA WriteReconStep ==
  ASSUME IInv, NEW s \in Session, WriteRecon(s) PROVE IInv'
<1> DEFINE r == request[s].id
           w == EditedRecon(recon.row[r], request[s].edit)
<1>1. CASE Refuse(s, ~ Active(recon.row[r]))
  BY <1>1, AbandonStep DEF Refuse
<1>2. CASE /\ Active(recon.row[r]) /\ Free(recon, s, r)
           /\ recon' = Commit(WriteRow(recon, s, r, w), s, Recon)
           /\ UNCHANGED <<txn, counted>> /\ End(s)
  <2>1. pc[s] = "write_recon" /\ SessionInv(s) /\ TypeOK
    BY DEF WriteRecon, IInv
  <2>2. r \in Recon /\ request[s].edit \in Edit
    BY <2>1, Stations DEF SessionInv, ReconSteps
  <2>3. recon.row[r] \in ReconRow /\ request[s].edit.amount \in Amount \cup {Omitted}
    BY <1>2, <2>1, <2>2 DEF Active, TypeOK, Tables, Edit
  <2>4. w \in ReconRow /\ (Completed(recon.row[r]) => w.status = "COMPLETED")
    BY <2>3, KeptStatusFacts DEF Completed
  <2>5. pc[s] \in Unheld
    BY <2>1 DEF Unheld
  <2> HIDE DEF r, w
  <2>6. QED
    BY <1>2, <2>2, <2>4, <2>5, CommitReconStep
<1>3. QED
  BY <1>1, <1>2 DEF WriteRecon

LEMMA RestoreReconStep ==
  ASSUME IInv, NEW s \in Session, RestoreRecon(s) PROVE IInv'
<1> DEFINE r == request[s].id
           w == Restored(recon.row[r])
<1>1. CASE Refuse(s, ~ Buried(recon.row[r]))
  BY <1>1, AbandonStep DEF Refuse
<1>2. CASE /\ Buried(recon.row[r]) /\ Free(recon, s, r)
           /\ recon' = Commit(WriteRow(recon, s, r, w), s, Recon)
           /\ UNCHANGED <<txn, counted>> /\ End(s)
  <2>1. pc[s] = "restore_recon" /\ SessionInv(s) /\ TypeOK
    BY DEF RestoreRecon, IInv
  <2>2. r \in Recon /\ request[s].edit \in Edit
    BY <2>1, Stations DEF SessionInv, ReconSteps
  <2>3. recon.row[r] \in ReconRow /\ request[s].edit.amount \in Amount \cup {Omitted}
    BY <1>2, <2>1, <2>2 DEF Buried, TypeOK, Tables, Edit
  <2>4. w \in ReconRow /\ (Completed(recon.row[r]) => w.status = "COMPLETED")
    BY <2>3, KeptStatusFacts DEF Completed
  <2>5. pc[s] \in Unheld
    BY <2>1 DEF Unheld
  <2> HIDE DEF r, w
  <2>6. QED
    BY <1>2, <2>2, <2>4, <2>5, CommitReconStep
<1>3. QED
  BY <1>1, <1>2 DEF RestoreRecon

-----------------------------------------------------------------------------
(* Handlers that commit a whole batch.                                       *)

(* A session commits its rows of batch r and its row of reconciliation r.    *)
CommitsBatch(s, r) ==
    /\ txn' \in Tables(Txn, TxnRow \cup {Missing}) /\ Settled(txn', Txn)
    /\ FrameOf(txn, txn', s, Txn)
    /\ \A t \in Txn : txn'.lock[t] # s
    /\ \A t \in Txn : txn.lock[t] # s => txn'.row[t] = txn.row[t]
    /\ recon' \in Tables(Recon, ReconRow \cup {Missing}) /\ Settled(recon', Recon)
    /\ FrameOf(recon, recon', s, Recon)
    /\ \A q \in Recon : recon'.lock[q] # s
    /\ \A q \in Recon \ {r} : recon'.row[q] = recon.row[q]
    /\ recon'.row[r] # Missing
    /\ counted' \in [Recon -> [Txn -> Content \cup {NotCounted}]]
    /\ \A q \in Recon \ {r} : counted'[q] = counted[q]
    /\ End(s)

LEMMA CommitBatchStep ==
  ASSUME IInv, NEW s \in Session, NEW r \in Recon, CommitsBatch(s, r),
         \A t \in Txn : txn.lock[t] = s => Linked(txn.row[t], r),
         \A t \in Txn : counted'[r][t] # NotCounted =>
           /\ txn.lock[t] = s
           /\ Completed(recon'.row[r])
           /\ Linked(txn'.row[t], r) /\ LockedFields(txn'.row[t]) = counted'[r][t]
  PROVE  IInv'
<1>1. TypeOK'
  BY DEF IInv, TypeOK, CommitsBatch, End, Steps
<1>2. SessionInv(s)' /\ OnlyMoves(s)
  BY AtEnd DEF IInv, CommitsBatch
<1>3. Frames(s) /\ Settled(txn, Txn)' /\ Settled(recon, Recon)'
  BY DEF CommitsBatch, Frames, Settled
<1>4. CountedStayFrozen'
  <2>1. SUFFICES ASSUME NEW q \in Recon, NEW t \in Txn, counted'[q][t] # NotCounted
                 PROVE  /\ Linked(txn'.row[t], q)
                        /\ LockedFields(txn'.row[t]) = counted'[q][t]
    BY DEF CountedStayFrozen, CountedIn
  <2>2. CASE q = r
    BY <2>1, <2>2
  <2>3. CASE q # r
    <3>1. counted'[q] = counted[q]
      BY <2>3 DEF CommitsBatch
    <3>2. Linked(txn.row[t], q) /\ LockedFields(txn.row[t]) = counted[q][t]
      BY <2>1, <3>1 DEF IInv, CountedStayFrozen, CountedIn
    <3>3. txn.lock[t] # s
      BY <2>3, <3>2 DEF Linked
    <3>4. QED
      BY <3>1, <3>2, <3>3 DEF CommitsBatch
  <2>4. QED
    BY <2>2, <2>3
<1>5. CountedAreCompleted'
  BY DEF IInv, CountedAreCompleted, CountedIn, CommitsBatch
<1>6. RowsRemain
  BY DEF CommitsBatch, RowsRemain
<1>7. OthersUncounted(s)
  BY DEF CommitsBatch, OthersUncounted
<1>8. QED
  BY <1>1, <1>2, <1>3, <1>4, <1>5, <1>6, <1>7, StepOf

LEMMA BatchType ==
  ASSUME NEW rows, NEW members \in SUBSET Txn,
         \A t \in members : rows[t] \in TxnRow
  PROVE  /\ Batch(rows, members) \in [Txn -> Content \cup {NotCounted}]
         /\ \A t \in Txn : Batch(rows, members)[t] =
              IF t \in members THEN LockedFields(rows[t]) ELSE NotCounted
  BY DEF Batch, LockedFields, Content, TxnRow, TxnRows

LEMMA CommitFlipStep ==
  ASSUME IInv, NEW s \in Session, CommitFlip(s) PROVE IInv'
<1> DEFINE r == request[s].id
           members == IF request[s].op = "complete" THEN LockedBy(txn, s, Txn) ELSE {}
<1>1. /\ pc[s] = "bump_members" /\ todo[s] = {} /\ SessionInv(s) /\ TypeOK
      /\ txn' = Commit(txn, s, Txn) /\ recon' = Commit(recon, s, Recon)
      /\ counted' = [counted EXCEPT ![r] = Batch(txn.latest, members)] /\ End(s)
  BY DEF CommitFlip, IInv
<1>2. r \in Recon /\ request[s].op \in {"complete", "revert"}
  BY <1>1, Stations DEF SessionInv, ReconSteps, FlipSteps
<1>3. /\ recon.row[r] \in ReconRow /\ recon.lock[r] = s
      /\ recon.latest[r] = Flipped(recon.row[r], Target(request[s]))
      /\ \A q \in Recon : recon.lock[q] = s => q = r
  BY <1>1, <1>2 DEF SessionInv, HoldsItsRecon, TypeOK, Tables
<1>4. recon.latest[r] \in ReconRow /\ recon.latest[r].status = Target(request[s])
  BY <1>3, FlippedFacts DEF Target
<1>5. \A t \in Txn : txn.lock[t] = s =>
        Linked(txn.row[t], r) /\ txn.latest[t] = Bumped(txn.row[t])
  BY <1>1 DEF SessionInv, LocksAreKnown, Uncommitted, OnActive, OnDeleted
<1>6. \A t \in Txn : txn.lock[t] = s =>
        txn.latest[t] \in TxnRow /\ Linked(txn.latest[t], r)
  <2>1. SUFFICES ASSUME NEW t \in Txn, txn.lock[t] = s
                 PROVE  txn.latest[t] \in TxnRow /\ Linked(txn.latest[t], r)
    OBVIOUS
  <2>2. txn.row[t] \in TxnRow /\ Linked(txn.row[t], r)
    BY <1>1, <1>5, <2>1 DEF Linked, Active, TypeOK, Tables
  <2>3. QED
    BY <1>5, <2>1, <2>2, BumpedTxnFacts, MissingAssumption DEF Linked, Active
<1>7. /\ members \in SUBSET Txn
      /\ \A t \in members : txn.lock[t] = s /\ txn.latest[t] \in TxnRow
  BY <1>6 DEF LockedBy
<1> HIDE DEF members
<1>8. /\ Batch(txn.latest, members) \in [Txn -> Content \cup {NotCounted}]
      /\ \A t \in Txn : Batch(txn.latest, members)[t] =
           IF t \in members THEN LockedFields(txn.latest[t]) ELSE NotCounted
  BY <1>7, BatchType
<1>9. /\ txn' \in Tables(Txn, TxnRow \cup {Missing}) /\ Settled(txn', Txn)
      /\ FrameOf(txn, txn', s, Txn)
      /\ \A t \in Txn : txn'.lock[t] # s
      /\ \A t \in Txn : txn'.row[t] = Visible(txn, s, t)
  BY <1>1, Typed, CommitFacts, SessionAssumption
<1>10. /\ recon' \in Tables(Recon, ReconRow \cup {Missing}) /\ Settled(recon', Recon)
       /\ FrameOf(recon, recon', s, Recon)
       /\ \A q \in Recon : recon'.lock[q] # s
       /\ \A q \in Recon : recon'.row[q] = Visible(recon, s, q)
  BY <1>1, Typed, CommitFacts, SessionAssumption
<1>11. recon'.row[r] = recon.latest[r] /\ \A q \in Recon \ {r} : recon'.row[q] = recon.row[q]
  BY <1>2, <1>3, <1>10 DEF Visible
<1>12. \A t \in Txn : txn'.row[t] = IF txn.lock[t] = s THEN txn.latest[t] ELSE txn.row[t]
  BY <1>9 DEF Visible
<1>13. /\ counted' \in [Recon -> [Txn -> Content \cup {NotCounted}]]
       /\ counted'[r] = Batch(txn.latest, members)
       /\ \A q \in Recon \ {r} : counted'[q] = counted[q]
  BY <1>1, <1>2, <1>8 DEF TypeOK
<1>14. CommitsBatch(s, r)
  BY <1>1, <1>4, <1>9, <1>10, <1>11, <1>12, <1>13, MissingAssumption DEF CommitsBatch
<1>15. ASSUME NEW t \in Txn, counted'[r][t] # NotCounted
       PROVE  /\ txn.lock[t] = s
              /\ Completed(recon'.row[r])
              /\ Linked(txn'.row[t], r) /\ LockedFields(txn'.row[t]) = counted'[r][t]
  <2>1. t \in members /\ counted'[r][t] = LockedFields(txn.latest[t])
    BY <1>8, <1>13, <1>15
  <2>2. txn.lock[t] = s /\ request[s].op = "complete"
    BY <2>1, <1>7 DEF members
  <2>3. Completed(recon'.row[r])
    BY <1>4, <1>11, <2>2, MissingAssumption DEF Completed, Target
  <2>4. QED
    BY <1>6, <1>12, <2>1, <2>2, <2>3
<1> HIDE DEF r
<1>16. QED
  BY <1>2, <1>5, <1>14, <1>15, CommitBatchStep

LEMMA DeleteReconStep ==
  ASSUME IInv, NEW s \in Session, DeleteRecon(s) PROVE IInv'
<1> DEFINE r == request[s].id
           w == SoftDeleted(recon.row[r])
<1>1. /\ pc[s] = "delete_recon" /\ SessionInv(s) /\ TypeOK /\ Free(recon, s, r)
      /\ txn' = Commit(txn, s, Txn) /\ recon' = Commit(WriteRow(recon, s, r, w), s, Recon)
      /\ counted' = [counted EXCEPT ![r] = Batch(txn.row, {})] /\ End(s)
  BY DEF DeleteRecon, IInv
<1>2. r \in Recon /\ recon.row[r] \in ReconRow /\ request[s].edit \in Edit
  <2>1. r \in Recon /\ request[s].edit \in Edit
    BY <1>1, Stations DEF SessionInv, ReconSteps
  <2>2. recon.row[r] # Missing
    BY <1>1 DEF SessionInv, HoldsItsRecon
  <2>3. QED
    BY <1>1, <2>1, <2>2 DEF TypeOK, Tables
<1>3. w \in ReconRow
  <2>1. request[s].edit.amount \in Amount \cup {Omitted}
    BY <1>2 DEF Edit
  <2>2. QED
    BY <1>2, <2>1, KeptStatusFacts
<1>4. /\ \A t \in Txn : txn.lock[t] = s => Linked(txn.row[t], r)
      /\ \A q \in Recon : recon.lock[q] # s
  BY <1>1 DEF SessionInv, LocksAreKnown, Uncommitted, HoldsItsRecon, OnActive, OnDeleted
<1>5. /\ Batch(txn.row, {}) \in [Txn -> Content \cup {NotCounted}]
      /\ \A t \in Txn : Batch(txn.row, {})[t] = NotCounted
  BY BatchType
<1>6. /\ txn' \in Tables(Txn, TxnRow \cup {Missing}) /\ Settled(txn', Txn)
      /\ FrameOf(txn, txn', s, Txn)
      /\ \A t \in Txn : txn'.lock[t] # s
      /\ \A t \in Txn : txn.lock[t] # s => txn'.row[t] = txn.row[t]
  BY <1>1, Typed, CommitFacts, SessionAssumption DEF Visible
<1> HIDE DEF w
<1>7. /\ recon' \in Tables(Recon, ReconRow \cup {Missing}) /\ Settled(recon', Recon)
      /\ FrameOf(recon, recon', s, Recon)
      /\ \A q \in Recon : recon'.lock[q] # s
      /\ \A q \in Recon : recon'.row[q] = IF q = r THEN w ELSE Visible(recon, s, q)
  BY <1>1, <1>2, <1>3, Typed, WriteCommitFacts
<1>8. recon'.row[r] = w /\ \A q \in Recon \ {r} : recon'.row[q] = recon.row[q]
  BY <1>2, <1>4, <1>7 DEF Visible
<1>9. /\ counted' \in [Recon -> [Txn -> Content \cup {NotCounted}]]
      /\ counted'[r] = Batch(txn.row, {})
      /\ \A q \in Recon \ {r} : counted'[q] = counted[q]
  BY <1>1, <1>2, <1>5 DEF TypeOK
<1>10. CommitsBatch(s, r)
  BY <1>1, <1>3, <1>6, <1>7, <1>8, <1>9, MissingAssumption DEF CommitsBatch
<1>11. \A t \in Txn : counted'[r][t] = NotCounted
  BY <1>5, <1>9
<1> HIDE DEF r
<1>12. QED
  BY <1>2, <1>4, <1>10, <1>11, CommitBatchStep

-----------------------------------------------------------------------------
(* The invariant holds in every state.                                       *)

LEMMA InitInvariant ==
  ASSUME Init PROVE IInv
<1>1. PICK txns \in [Txn -> TxnRows({0}) \cup {Missing}],
           recons \in [Recon -> ReconRows({0}) \cup {Missing}] :
        /\ txn = AtRest(txns, Txn)
        /\ recon = AtRest(recons, Recon)
        /\ counted = [r \in Recon |->
             Batch(txns, IF Completed(recons[r]) THEN Members(txns, r) ELSE {})]
        /\ request = [s \in Session |-> NoRequest]
        /\ pc = [s \in Session |-> "idle"]
        /\ seen = [s \in Session |-> Missing]
        /\ todo = [s \in Session |-> {}]
        /\ served = 0
  BY DEF Init
<1>2. txns \in [Txn -> TxnRow \cup {Missing}] /\ recons \in [Recon -> ReconRow \cup {Missing}]
  BY DEF TxnRow, TxnRows, ReconRow, ReconRows
<1>3. /\ txn \in Tables(Txn, TxnRow \cup {Missing}) /\ Settled(txn, Txn)
      /\ recon \in Tables(Recon, ReconRow \cup {Missing}) /\ Settled(recon, Recon)
      /\ \A s \in Session : /\ \A t \in Txn : txn.lock[t] # s
                            /\ \A r \in Recon : recon.lock[r] # s
      /\ txn.row = txns /\ recon.row = recons
  BY <1>1, <1>2, SessionAssumption DEF Tables, Settled, AtRest
<1>4. ASSUME NEW r \in Recon
      PROVE  /\ counted[r] \in [Txn -> Content \cup {NotCounted}]
             /\ \A t \in Txn : counted[r][t] # NotCounted =>
                  /\ Completed(recon.row[r]) /\ Linked(txn.row[t], r)
                  /\ counted[r][t] = LockedFields(txn.row[t])
  <2> DEFINE members == IF Completed(recons[r]) THEN Members(txns, r) ELSE {}
  <2>1. counted[r] = Batch(txns, members)
    BY <1>1
  <2>2. members \in SUBSET Txn /\ \A t \in members : txns[t] \in TxnRow
    BY <1>2 DEF Members, Linked, Active
  <2>3. \A t \in members : Completed(recons[r]) /\ Linked(txns[t], r)
    BY DEF Members
  <2> HIDE DEF members
  <2>4. QED
    BY <1>3, <2>1, <2>2, <2>3, BatchType
<1>5. TypeOK
  <2>1. counted \in [Recon -> [Txn -> Content \cup {NotCounted}]]
    BY <1>1, <1>4
  <2>2. QED
    BY <1>1, <1>3, <2>1 DEF TypeOK, Steps
<1>6. \A s \in Session : SessionInv(s)
  BY <1>1, <1>3 DEF SessionInv, AtItsOperation, HoldsItsRow, LocksAreKnown, HoldsItsRecon,
                    MayTouch, OnActive, OnDeleted
<1>7. CountedAreCompleted /\ CountedStayFrozen
  BY <1>4 DEF CountedAreCompleted, CountedStayFrozen, CountedIn
<1>8. QED
  BY <1>3, <1>5, <1>6, <1>7 DEF IInv

LEMMA NextInvariant ==
  ASSUME IInv, [Next]_vars PROVE IInv'
<1>1. CASE UNCHANGED vars
  BY <1>1 DEF vars, IInv, TypeOK, Settled, SessionInv, AtItsOperation, HoldsItsRow,
              LocksAreKnown, Uncommitted, HoldsItsRecon, MayTouch, CountedAreCompleted,
              CountedStayFrozen, CountedIn, TouchesLocked, Target
<1>2. ASSUME NEW s \in Session, NEW q \in Request, Begin(s, q) PROVE IInv'
  BY <1>2, BeginStep
<1>3. ASSUME NEW s \in Session, Fail(s) PROVE IInv'
  BY <1>3, AbandonStep DEF Fail
<1>4. ASSUME NEW s \in Session, Step(s) PROVE IInv'
  <2>1. ASSUME NEW t \in Txn, TakeMember(s, t) \/ BumpMember(s, t) PROVE IInv'
    BY <2>1, TakeMemberStep, BumpMemberStep
  <2>2. CASE InsertTxn(s) \/ LockTxn(s) \/ CheckFreeze(s) \/ CheckLink(s) \/ WriteTxn(s)
    BY <2>2, InsertTxnStep, LockTxnStep, CheckFreezeStep, CheckLinkStep, WriteTxnStep
  <2>3. CASE LockDeletedTxn(s) \/ CheckPrior(s) \/ RestoreTxn(s)
    BY <2>3, LockDeletedTxnStep, CheckPriorStep, RestoreTxnStep
  <2>4. CASE InsertRecon(s) \/ ReadRecon(s) \/ WriteRecon(s) \/ ReadDeletedRecon(s)
               \/ RestoreRecon(s)
    BY <2>4, InsertReconStep, ReadReconStep, WriteReconStep, ReadDeletedReconStep,
       RestoreReconStep
  <2>5. CASE SelectMembers(s) \/ SelectBumped(s) \/ MembersTaken(s) \/ SetStatus(s)
               \/ CommitFlip(s) \/ DeleteRecon(s)
    BY <2>5, SelectStep, MembersTakenStep, SetStatusStep, CommitFlipStep, DeleteReconStep
  <2>6. CASE FlipFindsNothing(s)
    BY <2>6, AbandonStep DEF FlipFindsNothing, Refuse
  <2>7. QED
    BY <1>4, <2>1, <2>2, <2>3, <2>4, <2>5, <2>6 DEF Step
<1>5. QED
  BY <1>1, <1>2, <1>3, <1>4 DEF Next

LEMMA Invariance == Spec => []IInv
<1>1. Init => IInv
  BY InitInvariant
<1>2. IInv /\ [Next]_vars => IInv'
  BY NextInvariant
<1>3. QED
  BY <1>1, <1>2, PTL DEF Spec

-----------------------------------------------------------------------------
(* The results.                                                              *)

(* The tables, the requests and the handlers' locals keep their types.       *)
THEOREM TypeCorrect == Spec => []TypeOK
<1>1. IInv => TypeOK
  BY DEF IInv
<1>2. QED
  BY <1>1, Invariance, PTL

(***************************************************************************)
(* Whatever the transaction handlers and the flips of any number of        *)
(* sessions interleave to, a transaction that a completion counted keeps   *)
(* its assignment and its locked fields until the revert: the row lock of  *)
(* complete and the status read by the editing handler suffice.            *)
(***************************************************************************)
THEOREM CompletionFreezes == Spec => []CountedStayFrozen
<1>1. IInv => CountedStayFrozen
  BY DEF IInv
<1>2. QED
  BY <1>1, Invariance, PTL

(***************************************************************************)
(* The before image a transaction handler logs is the version its write    *)
(* replaces.                                                               *)
(***************************************************************************)
THEOREM AuditPairs == Spec => []AuditPairIsOneState
<1>1. IInv => AuditPairIsOneState
  BY DEF IInv, SessionInv, HoldsItsRow, AuditPairIsOneState, OnActive, OnDeleted
<1>2. QED
  BY <1>1, Invariance, PTL

-----------------------------------------------------------------------------
(* Versions.                                                                 *)

BumpedOrKept ==
    \A t \in Txn : txn.row[t] # Missing /\ txn'.row[t] # txn.row[t] =>
        txn'.row[t] # Missing /\ txn'.row[t].version = txn.row[t].version + 1

(* A handler that commits one row. *)
LEMMA OneRowBumped ==
  ASSUME IInv, NEW s \in Session, NEW t \in Txn, NEW v \in TxnRow, Free(txn, s, t),
         txn' = Commit(WriteRow(txn, s, t, v), s, Txn),
         \A u \in Txn : txn.lock[u] = s => u = t,
         txn.row[t] # Missing => v.version = txn.row[t].version + 1
  PROVE  BumpedOrKept
<1>1. \A u \in Txn : txn'.row[u] = IF u = t THEN v ELSE Visible(txn, s, u)
  BY Typed, WriteCommitFacts
<1>2. QED
  BY <1>1, MissingAssumption DEF BumpedOrKept, Visible

(* A handler that commits its batch. *)
LEMMA BatchBumped ==
  ASSUME IInv, NEW s \in Session, txn' = Commit(txn, s, Txn),
         \/ (pc[s] = "bump_members" /\ todo[s] = {})
         \/ pc[s] = "delete_recon"
  PROVE  BumpedOrKept
<1>1. \A t \in Txn : txn'.row[t] = Visible(txn, s, t)
  BY DEF Commit
<1>2. SUFFICES ASSUME NEW t \in Txn, txn.lock[t] = s
               PROVE  /\ txn'.row[t] # Missing
                      /\ txn'.row[t].version = txn.row[t].version + 1
  BY <1>1 DEF BumpedOrKept, Visible
<1>3. txn'.row[t] = txn.latest[t]
  BY <1>1, <1>2 DEF Visible
<1>4. /\ Linked(txn.row[t], request[s].id)
      /\ txn.latest[t] = Bumped(txn.row[t]) \/ txn.latest[t] = Unassigned(txn.row[t])
  BY <1>2 DEF IInv, SessionInv, LocksAreKnown, Uncommitted, OnActive, OnDeleted
<1>5. txn.row[t] \in TxnRow
  BY <1>4 DEF Linked, Active, IInv, TypeOK, Tables
<1>6. QED
  BY <1>3, <1>4, <1>5, BumpedTxnFacts, UnassignedFacts, MissingAssumption

(* Every other step leaves the committed rows alone. *)
LEMMA UncommittedKept ==
  ASSUME IInv, NEW s \in Session, txn'.row = txn.row PROVE BumpedOrKept
  BY DEF BumpedOrKept

LEMMA AbandonKeeps ==
  ASSUME NEW s \in Session, Abandon(s) PROVE txn'.row = txn.row
  BY DEF Abandon, Rollback

LEMMA InsertTxnBumps ==
  ASSUME IInv, NEW s \in Session, InsertTxn(s) PROVE BumpedOrKept
<1> DEFINE t == request[s].id
           v == NewTxn(request[s].edit.account, request[s].edit.amount)
<1>1. CASE Refuse(s, txn.row[t] # Missing)
  BY <1>1, AbandonKeeps, UncommittedKept DEF Refuse
<1>2. CASE txn.row[t] = Missing /\ txn' = Commit(WriteRow(txn, s, t, v), s, Txn)
  <2>1. pc[s] = "insert_txn" /\ SessionInv(s)
    BY DEF InsertTxn, IInv
  <2>2. t \in Txn /\ v \in TxnRow
    BY <2>1, Stations DEF SessionInv, TxnSteps, NewTxn, TxnRow, TxnRows
  <2>3. Free(txn, s, t)
    BY <1>2, <2>2, MissingIsFree DEF Free
  <2>4. \A u \in Txn : txn.lock[u] # s
    BY <2>1, HoldsNothing DEF Unheld
  <2> HIDE DEF t, v
  <2>5. QED
    BY <1>2, <2>2, <2>3, <2>4, OneRowBumped
<1>3. QED
  BY <1>1, <1>2 DEF InsertTxn

LEMMA WriteTxnBumps ==
  ASSUME IInv, NEW s \in Session, WriteTxn(s) PROVE BumpedOrKept
<1> DEFINE t == request[s].id
           w == IF request[s].op = "delete_transaction" THEN SoftDeleted(txn.row[t])
                ELSE EditedTxn(txn.row[t], request[s].edit)
<1>1. /\ t \in Txn /\ txn.row[t] \in TxnRow /\ txn.latest[t] = txn.row[t]
      /\ Free(txn, s, t) /\ \A u \in Txn : txn.lock[u] = s => u = t
  BY OwnRowFacts DEF WriteTxn
<1>2. request[s].edit \in Edit
  BY Stations DEF WriteTxn, IInv, SessionInv
<1>3. w \in TxnRow /\ w.version = txn.row[t].version + 1
  BY <1>1, <1>2, SoftDeletedTxnFacts, EditedTxnFacts
<1>4. txn' = Commit(WriteRow(txn, s, t, w), s, Txn)
  BY <1>1 DEF WriteTxn
<1> HIDE DEF t, w
<1>5. QED
  BY <1>1, <1>3, <1>4, OneRowBumped

LEMMA RestoreTxnBumps ==
  ASSUME IInv, NEW s \in Session, RestoreTxn(s) PROVE BumpedOrKept
<1> DEFINE t == request[s].id
           link == IF pc[s] = "restore_txn" THEN txn.row[t].link ELSE NoRecon
           w == RestoredTxn(txn.row[t], link)
<1>1. /\ t \in Txn /\ txn.row[t] \in TxnRow /\ txn.latest[t] = txn.row[t]
      /\ Free(txn, s, t) /\ \A u \in Txn : txn.lock[u] = s => u = t
  BY OwnRowFacts DEF RestoreTxn
<1>2. link \in Recon \cup {NoRecon}
  BY <1>1 DEF TxnRow, TxnRows
<1>3. txn' = Commit(WriteRow(txn, s, t, w), s, Txn)
  BY <1>1 DEF RestoreTxn
<1> HIDE DEF link
<1>4. w \in TxnRow /\ w.version = txn.row[t].version + 1
  BY <1>1, <1>2, RestoredTxnFacts
<1> HIDE DEF t, w
<1>5. QED
  BY <1>1, <1>3, <1>4, OneRowBumped

LEMMA StepBumps ==
  ASSUME IInv, NEW s \in Session, Step(s) PROVE BumpedOrKept
<1> USE AbandonKeeps, UncommittedKept
<1>1. CASE InsertTxn(s) \/ WriteTxn(s) \/ RestoreTxn(s)
  BY <1>1, InsertTxnBumps, WriteTxnBumps, RestoreTxnBumps
<1>2. CASE CommitFlip(s) \/ DeleteRecon(s)
  BY <1>2, BatchBumped DEF CommitFlip, DeleteRecon
<1>2a. CASE FlipFindsNothing(s)
  BY <1>2a DEF FlipFindsNothing, Refuse
<1>3. CASE LockTxn(s) \/ LockDeletedTxn(s)
  BY <1>3 DEF LockTxn, LockDeletedTxn, FetchForUpdate, LockRow,
       Refuse
<1>4. CASE CheckFreeze(s) \/ CheckLink(s) \/ CheckPrior(s)
  BY <1>4 DEF CheckFreeze, CheckLink, CheckPrior, Refuse
<1>5. CASE InsertRecon(s) \/ ReadRecon(s) \/ WriteRecon(s)
  BY <1>5 DEF InsertRecon, ReadRecon, WriteRecon, Refuse
<1>6. CASE ReadDeletedRecon(s) \/ RestoreRecon(s)
  BY <1>6 DEF ReadDeletedRecon, RestoreRecon, Refuse
<1>7. CASE SelectMembers(s) \/ SelectBumped(s) \/ MembersTaken(s) \/ SetStatus(s)
  BY <1>7 DEF SelectMembers, SelectBumped, MembersTaken, SetStatus, Refuse
<1>8. ASSUME NEW t \in Txn, TakeMember(s, t) \/ BumpMember(s, t) PROVE BumpedOrKept
  BY <1>8 DEF TakeMember, BumpMember, LockRow, WriteRow
<1>9. QED
  BY <1>1, <1>2, <1>2a, <1>3, <1>4, <1>5, <1>6, <1>7, <1>8 DEF Step

(***************************************************************************)
(* Every committed change of a transaction moves its version by one, for   *)
(* any number of sessions: the bump an UPDATE computes from an uncommitted *)
(* or earlier version of the row never reaches the table.                  *)
(***************************************************************************)
THEOREM VersionsCount == Spec => OneBumpPerChange
<1>1. IInv /\ [Next]_vars => [BumpedOrKept]_vars
  <2>1. ASSUME IInv, NEW s \in Session, NEW q \in Request, Begin(s, q) PROVE BumpedOrKept
    BY <2>1, UncommittedKept DEF Begin
  <2>2. ASSUME IInv, NEW s \in Session, Fail(s) PROVE BumpedOrKept
    BY <2>2, AbandonKeeps, UncommittedKept DEF Fail
  <2>3. QED
    BY <2>1, <2>2, StepBumps DEF Next
<1>2. [BumpedOrKept]_vars =>
        [\A t \in Txn : txn.row[t] # Missing /\ txn'.row[t] # txn.row[t] =>
           /\ txn'.row[t] # Missing
           /\ txn'.row[t].version = txn.row[t].version + 1]_vars
  BY DEF BumpedOrKept
<1>3. QED
  BY <1>1, <1>2, Invariance, PTL DEF Spec, OneBumpPerChange

-----------------------------------------------------------------------------
(* Completions.                                                              *)

(* A completion past its check of the members has locked one of them. *)
HoldsAMember(s) ==
    pc[s] \in FlipSteps /\ request[s].op = "complete" => \E t \in Txn : txn.lock[t] = s

MembersHeld == \A s \in Session : HoldsAMember(s)
CInv == IInv /\ MembersHeld

LEMMA LocksAfter ==
  ASSUME IInv, NEW s \in Session, NEW t, NEW v,
         \/ UNCHANGED txn
         \/ txn' = Rollback(txn, s, Txn)
         \/ txn' = Commit(txn, s, Txn)
         \/ Free(txn, s, t) /\ txn' = LockRow(txn, s, t)
         \/ Free(txn, s, t) /\ txn' = WriteRow(txn, s, t, v)
         \/ Free(txn, s, t) /\ txn' = Commit(WriteRow(txn, s, t, v), s, Txn)
  PROVE  \A u \in Session \ {s}, i \in Txn : txn.lock[i] = u => txn'.lock[i] = u
<1>1. SUFFICES ASSUME NEW u \in Session \ {s}, NEW i \in Txn, txn.lock[i] = u
               PROVE  txn'.lock[i] = u
  OBVIOUS
<1>2. txn.lock \in [Txn -> Session \cup {Nobody}] /\ u # Nobody
  BY SessionAssumption DEF IInv, TypeOK, Tables
<1>3. Free(txn, s, t) => t # i
  BY <1>1, <1>2 DEF Free
<1>4. CASE Free(txn, s, t) /\ txn' = Commit(WriteRow(txn, s, t, v), s, Txn)
  <2>1. txn'.lock[i] = LET l == [txn.lock EXCEPT ![t] = s][i] IN IF l = s THEN Nobody ELSE l
    BY <1>4 DEF Commit, WriteRow, Unlocked
  <2>2. [txn.lock EXCEPT ![t] = s][i] = u
    BY <1>1, <1>2, <1>3, <1>4
  <2>3. QED
    BY <2>1, <2>2
<1>5. QED
  BY <1>1, <1>2, <1>3, <1>4 DEF Rollback, Commit, LockRow, WriteRow, Unlocked

(* A request ends, or goes on to a statement before its check. *)
LEMMA EndHolds ==
  ASSUME CInv, NEW s \in Session, End(s),
         \A u \in Session \ {s}, t \in Txn : txn.lock[t] = u => txn'.lock[t] = u
  PROVE  MembersHeld'
<1>1. \A u \in Session \ {s} : HoldsAMember(u)'
  BY DEF CInv, MembersHeld, IInv, TypeOK, End, HoldsAMember
<1>2. HoldsAMember(s)'
  BY DEF CInv, MembersHeld, IInv, TypeOK, End, HoldsAMember, FlipSteps
<1>3. QED
  BY <1>1, <1>2 DEF MembersHeld

LEMMA AbandonHolds ==
  ASSUME CInv, NEW s \in Session, Abandon(s) PROVE MembersHeld'
<1>1. \A u \in Session \ {s}, t \in Txn : txn.lock[t] = u => txn'.lock[t] = u
  BY LocksAfter DEF CInv, Abandon
<1>2. QED
  BY <1>1, EndHolds DEF Abandon

LEMMA MoveHolds ==
  ASSUME CInv, NEW s \in Session, NEW step, Goto(s, step), UNCHANGED request,
         step \in FlipSteps => HoldsAMember(s)',
         \A u \in Session \ {s}, t \in Txn : txn.lock[t] = u => txn'.lock[t] = u
  PROVE  MembersHeld'
<1>1. \A u \in Session \ {s} : HoldsAMember(u)'
  BY DEF CInv, MembersHeld, IInv, TypeOK, Goto, HoldsAMember
<1>2. HoldsAMember(s)'
  BY DEF CInv, MembersHeld, IInv, TypeOK, Goto, HoldsAMember
<1>3. QED
  BY <1>1, <1>2 DEF MembersHeld

LEMMA StepHolds ==
  ASSUME CInv, NEW s \in Session, Step(s) PROVE MembersHeld'
<1> USE AbandonHolds, EndHolds, MoveHolds, LocksAfter DEF CInv
<1>0. TypeOK /\ SessionInv(s)
  BY DEF IInv
<1>1. CASE InsertTxn(s)
  <2>1. CASE Refuse(s, txn.row[request[s].id] # Missing)
    BY <2>1 DEF Refuse
  <2>2. CASE ~ Refuse(s, txn.row[request[s].id] # Missing)
    <3>1. request[s].id \in Txn
      BY <1>0, <1>1, Stations DEF InsertTxn, SessionInv, TxnSteps
    <3>2. Free(txn, s, request[s].id)
      BY <1>1, <2>2, <3>1, MissingIsFree DEF InsertTxn, Free
    <3>3. QED
      BY <1>1, <2>2, <3>2 DEF InsertTxn
  <2>3. QED
    BY <2>1, <2>2
<1>2. CASE WriteTxn(s) \/ RestoreTxn(s)
  BY <1>2, OwnRowFacts DEF WriteTxn, RestoreTxn
<1>3. CASE LockTxn(s)
  <2>1. CASE Refuse(s, ~ Active(txn.row[request[s].id]))
    BY <2>1 DEF Refuse
  <2>2. CASE Free(txn, s, request[s].id) /\ ~ Refuse(s, ~ Active(txn.row[request[s].id]))
    BY <1>3, <2>2, AfterFreezeFacts DEF LockTxn, FetchForUpdate, FlipSteps
  <2>3. QED
    BY <1>3, <2>1, <2>2 DEF LockTxn
<1>4. CASE LockDeletedTxn(s)
  <2>1. CASE Refuse(s, ~ Buried(txn.row[request[s].id]))
    BY <2>1 DEF Refuse
  <2>2. CASE Free(txn, s, request[s].id) /\ ~ Refuse(s, ~ Buried(txn.row[request[s].id]))
    BY <1>4, <2>2 DEF LockDeletedTxn, FetchForUpdate, FlipSteps
  <2>3. QED
    BY <1>4, <2>1, <2>2 DEF LockDeletedTxn
<1>5. CASE CheckFreeze(s) \/ CheckLink(s) \/ CheckPrior(s)
  BY <1>5, AfterFreezeFacts DEF CheckFreeze, CheckLink, CheckPrior, Refuse, FlipSteps
<1>6. CASE InsertRecon(s) \/ WriteRecon(s) \/ RestoreRecon(s)
  BY <1>6 DEF InsertRecon, WriteRecon, RestoreRecon, Refuse
<1>7. CASE ReadRecon(s) \/ ReadDeletedRecon(s) \/ SelectMembers(s)
  BY <1>7 DEF ReadRecon, ReadDeletedRecon, SelectMembers, Refuse, FlipSteps
<1>8. CASE MembersTaken(s)
  <2>1. CASE Refuse(s, NothingAssigned(s))
    BY <2>1 DEF Refuse
  <2>2. CASE /\ ~ NothingAssigned(s)
             /\ Goto(s, IF request[s].op = "delete_reconciliation" THEN "delete_recon"
                        ELSE "set_status")
             /\ UNCHANGED <<txn, recon, request, seen, todo, counted, served>>
    <3>1. request[s].op = "complete" => \E t \in Txn : txn.lock[t] = s
      BY <2>2 DEF NothingAssigned, LockedBy
    <3>2. HoldsAMember(s)'
      BY <2>2, <3>1 DEF HoldsAMember
    <3>3. QED
      BY <2>2, <3>2
  <2>3. QED
    BY <1>8, <2>1, <2>2 DEF MembersTaken
<1>9. CASE SetStatus(s) \/ SelectBumped(s)
  <2>1. pc[s] \in FlipSteps /\ UNCHANGED <<txn, request>>
    BY <1>9 DEF SetStatus, SelectBumped, FlipSteps
  <2>2. HoldsAMember(s)'
    BY <2>1 DEF MembersHeld, HoldsAMember
  <2>3. QED
    BY <1>9, <2>2 DEF SetStatus, SelectBumped
<1>10. ASSUME NEW t \in Txn, TakeMember(s, t) \/ BumpMember(s, t) PROVE MembersHeld'
  <2>1. /\ UNCHANGED <<pc, request>>
        /\ \A u \in Session \ {s}, i \in Txn : txn.lock[i] = u => txn'.lock[i] = u
    BY <1>10 DEF TakeMember, BumpMember
  <2>2. \A i \in Txn : txn.lock[i] = s => txn'.lock[i] = s
    BY <1>0, <1>10 DEF TakeMember, BumpMember, TypeOK, Tables, LockRow, WriteRow
  <2>3. QED
    BY <2>1, <2>2 DEF MembersHeld, HoldsAMember
<1>11. CASE CommitFlip(s) \/ DeleteRecon(s)
  BY <1>11 DEF CommitFlip, DeleteRecon
<1>12. CASE FlipFindsNothing(s)
  BY <1>12, AbandonHolds DEF FlipFindsNothing, Refuse
<1>13. QED
  BY <1>1, <1>2, <1>3, <1>4, <1>5, <1>6, <1>7, <1>8, <1>9, <1>10, <1>11, <1>12 DEF Step

LEMMA MembersInvariance == Spec => []CInv
<1>1. Init => MembersHeld
  BY DEF Init, MembersHeld, HoldsAMember, FlipSteps
<1>2. CInv /\ [Next]_vars => MembersHeld'
  <2>1. CASE UNCHANGED vars
    BY <2>1 DEF vars, CInv, MembersHeld, HoldsAMember
  <2>2. ASSUME CInv, NEW s \in Session, NEW q \in Request, Begin(s, q) PROVE MembersHeld'
    <3>1. pc' = [pc EXCEPT ![s] = FirstStep[q.op]] /\ request' = [request EXCEPT ![s] = q]
          /\ UNCHANGED txn
      BY <2>2 DEF Begin
    <3>2. FirstStep[q.op] \notin FlipSteps
      BY DEF Request, FirstStep, FlipSteps
    <3>3. QED
      BY <2>2, <3>1, <3>2 DEF CInv, IInv, TypeOK, MembersHeld, HoldsAMember
  <2>3. ASSUME CInv, NEW s \in Session, Fail(s) PROVE MembersHeld'
    BY <2>3, AbandonHolds DEF Fail
  <2>4. QED
    BY <2>1, <2>2, <2>3, StepHolds DEF Next
<1>3. QED
  BY <1>1, <1>2, Invariance, PTL DEF Spec, CInv

(* Batches that become completed are counted. *)
CompletionsCount ==
    \A r \in Recon : Completed(recon'.row[r]) /\ ~ Completed(recon.row[r]) => CountedIn(r)' # {}

(* A handler that commits one reconciliation and leaves its status alone. *)
LEMMA StatusKept ==
  ASSUME IInv, NEW s \in Session, NEW r \in Recon, NEW w \in ReconRow,
         Free(recon, s, r), recon' = Commit(WriteRow(recon, s, r, w), s, Recon),
         \A q \in Recon : recon.lock[q] # s,
         Completed(w) => Completed(recon.row[r])
  PROVE  CompletionsCount
<1>1. \A q \in Recon : recon'.row[q] = IF q = r THEN w ELSE Visible(recon, s, q)
  BY Typed, WriteCommitFacts
<1>2. \A q \in Recon : recon'.row[q] = IF q = r THEN w ELSE recon.row[q]
  BY <1>1 DEF Visible
<1>3. QED
  BY <1>2 DEF CompletionsCount

LEMMA NoStatusMoves ==
  ASSUME recon'.row = recon.row PROVE CompletionsCount
  BY DEF CompletionsCount

LEMMA AbandonKeepsRecon ==
  ASSUME NEW s \in Session, Abandon(s) PROVE recon'.row = recon.row
  BY DEF Abandon, Rollback

LEMMA ReconWritesKeepStatus ==
  ASSUME IInv, NEW s \in Session,
         InsertRecon(s) \/ WriteRecon(s) \/ RestoreRecon(s) \/ DeleteRecon(s)
  PROVE  CompletionsCount
<1> DEFINE r == request[s].id
           q == request[s]
<1> USE AbandonKeepsRecon, NoStatusMoves
<1>1. /\ SessionInv(s) /\ TypeOK
      /\ pc[s] \in {"insert_recon", "write_recon", "restore_recon", "delete_recon"}
  BY DEF IInv, InsertRecon, WriteRecon, RestoreRecon, DeleteRecon
<1>2. r \in Recon /\ q.edit \in Edit /\ \A p \in Recon : recon.lock[p] # s
  BY <1>1, Stations DEF SessionInv, ReconSteps, HoldsItsRecon
<1>3. q.edit.amount \in Amount \cup {Omitted}
  BY <1>2 DEF Edit
<1>4. recon.row[r] \in ReconRow \cup {Missing}
  BY <1>1, <1>2 DEF TypeOK, Tables
<1>5. CASE InsertRecon(s) /\ recon.row[r] = Missing
  <2> DEFINE w == NewRecon(q.edit.account, q.edit.amount)
  <2>1. pc[s] = "insert_recon"
    BY <1>5 DEF InsertRecon
  <2>2. w \in ReconRow /\ ~ Completed(w)
    BY <1>1, <2>1, Stations DEF SessionInv, NewRecon, ReconRow, ReconRows, Completed
  <2>3. Free(recon, s, r)
    BY <1>2, <1>5, MissingIsFree DEF Free
  <2>4. recon' = Commit(WriteRow(recon, s, r, w), s, Recon)
    BY <1>5 DEF InsertRecon, Refuse
  <2> HIDE DEF w, r, q
  <2>5. QED
    BY <1>2, <2>2, <2>3, <2>4, StatusKept
<1>6. CASE WriteRecon(s) /\ Active(recon.row[r])
  <2> DEFINE w == EditedRecon(recon.row[r], q.edit)
  <2>1. recon.row[r] \in ReconRow
    BY <1>4, <1>6 DEF Active
  <2>2. w \in ReconRow /\ (Completed(w) => Completed(recon.row[r]))
    BY <1>3, <2>1, KeptStatusFacts, MissingAssumption DEF Completed
  <2>3. Free(recon, s, r) /\ recon' = Commit(WriteRow(recon, s, r, w), s, Recon)
    BY <1>6 DEF WriteRecon, Refuse
  <2> HIDE DEF w, r, q
  <2>4. QED
    BY <1>2, <2>2, <2>3, StatusKept
<1>7. CASE RestoreRecon(s) /\ Buried(recon.row[r])
  <2> DEFINE w == Restored(recon.row[r])
  <2>1. recon.row[r] \in ReconRow
    BY <1>4, <1>7 DEF Buried
  <2>2. w \in ReconRow /\ (Completed(w) => Completed(recon.row[r]))
    BY <1>3, <2>1, KeptStatusFacts, MissingAssumption DEF Completed
  <2>3. Free(recon, s, r) /\ recon' = Commit(WriteRow(recon, s, r, w), s, Recon)
    BY <1>7 DEF RestoreRecon, Refuse
  <2> HIDE DEF w, r, q
  <2>4. QED
    BY <1>2, <2>2, <2>3, StatusKept
<1>8. CASE DeleteRecon(s)
  <2> DEFINE w == SoftDeleted(recon.row[r])
  <2>1. recon.row[r] \in ReconRow
    BY <1>1, <1>2, <1>4, <1>8 DEF DeleteRecon, SessionInv, HoldsItsRecon
  <2>2. w \in ReconRow /\ (Completed(w) => Completed(recon.row[r]))
    BY <1>3, <2>1, KeptStatusFacts, MissingAssumption DEF Completed
  <2>3. Free(recon, s, r) /\ recon' = Commit(WriteRow(recon, s, r, w), s, Recon)
    BY <1>8 DEF DeleteRecon
  <2> HIDE DEF w, r, q
  <2>4. QED
    BY <1>2, <2>2, <2>3, StatusKept
<1>9. QED
  BY <1>5, <1>6, <1>7, <1>8 DEF InsertRecon, WriteRecon, RestoreRecon, Refuse

LEMMA CommitFlipCounts ==
  ASSUME CInv, NEW s \in Session, CommitFlip(s) PROVE CompletionsCount
<1> DEFINE r == request[s].id
           members == IF request[s].op = "complete" THEN LockedBy(txn, s, Txn) ELSE {}
<1>1. /\ pc[s] = "bump_members" /\ todo[s] = {} /\ SessionInv(s) /\ TypeOK /\ HoldsAMember(s)
      /\ recon' = Commit(recon, s, Recon)
      /\ counted' = [counted EXCEPT ![r] = Batch(txn.latest, members)]
  BY DEF CommitFlip, CInv, IInv, MembersHeld
<1>2. r \in Recon /\ request[s].op \in {"complete", "revert"}
  BY <1>1, Stations DEF SessionInv, ReconSteps, FlipSteps
<1>3. /\ recon.row[r] \in ReconRow /\ recon.lock[r] = s
      /\ recon.latest[r] = Flipped(recon.row[r], Target(request[s]))
      /\ \A q \in Recon : recon.lock[q] = s => q = r
  BY <1>1, <1>2 DEF SessionInv, HoldsItsRecon, TypeOK, Tables
<1>4. recon.latest[r].status = Target(request[s])
  BY <1>3, FlippedFacts DEF Target
<1>5. \A q \in Recon : recon'.row[q] = IF q = r THEN recon.latest[r] ELSE recon.row[q]
  BY <1>1, <1>3 DEF Commit, Visible
<1>6. SUFFICES ASSUME request[s].op = "complete"
               PROVE  \E t \in Txn : counted'[r][t] # NotCounted
  <2>1. ASSUME NEW q \in Recon, Completed(recon'.row[q]), ~ Completed(recon.row[q])
        PROVE  q = r /\ request[s].op = "complete"
    BY <1>2, <1>4, <1>5, <2>1 DEF Completed, Target
  <2> HIDE DEF r
  <2>2. QED
    BY <2>1 DEF CompletionsCount, CountedIn
<1>7. PICK t \in Txn : txn.lock[t] = s
  BY <1>1, <1>6 DEF HoldsAMember, FlipSteps
<1>8. counted'[r][t] = LockedFields(txn.latest[t])
  BY <1>1, <1>2, <1>6, <1>7 DEF TypeOK, Batch, LockedBy
<1>9. txn.latest[t] \in TxnRow
  <2>1. Linked(txn.row[t], r) /\ txn.latest[t] = Bumped(txn.row[t])
    BY <1>1, <1>7 DEF SessionInv, LocksAreKnown, Uncommitted, OnActive, OnDeleted
  <2>2. QED
    BY <1>1, <2>1, BumpedTxnFacts DEF Linked, Active, TypeOK, Tables
<1>10. QED
  BY <1>8, <1>9, ContentAssumption DEF LockedFields, Content, TxnRow, TxnRows

LEMMA StepCounts ==
  ASSUME CInv, NEW s \in Session, Step(s) PROVE CompletionsCount
<1> USE AbandonKeepsRecon, NoStatusMoves DEF CInv
<1>1. CASE InsertTxn(s) \/ WriteTxn(s) \/ RestoreTxn(s)
  BY <1>1 DEF InsertTxn, WriteTxn, RestoreTxn, Refuse
<1>2. CASE LockTxn(s) \/ LockDeletedTxn(s)
  BY <1>2 DEF LockTxn, LockDeletedTxn, Refuse
<1>3. CASE CheckFreeze(s) \/ CheckLink(s) \/ CheckPrior(s)
  BY <1>3 DEF CheckFreeze, CheckLink, CheckPrior, Refuse
<1>4. CASE InsertRecon(s) \/ WriteRecon(s) \/ RestoreRecon(s) \/ DeleteRecon(s)
  BY <1>4, ReconWritesKeepStatus
<1>5. CASE ReadRecon(s) \/ ReadDeletedRecon(s) \/ SelectMembers(s) \/ SelectBumped(s)
  BY <1>5 DEF ReadRecon, ReadDeletedRecon, SelectMembers, SelectBumped, Refuse
<1>6. CASE MembersTaken(s) \/ SetStatus(s)
  BY <1>6 DEF MembersTaken, SetStatus, WriteRow, Refuse
<1>7. ASSUME NEW t \in Txn, TakeMember(s, t) \/ BumpMember(s, t) PROVE CompletionsCount
  BY <1>7 DEF TakeMember, BumpMember
<1>8. CASE CommitFlip(s)
  BY <1>8, CommitFlipCounts
<1>9. CASE FlipFindsNothing(s)
  BY <1>9 DEF FlipFindsNothing, Refuse
<1>10. QED
  BY <1>1, <1>2, <1>3, <1>4, <1>5, <1>6, <1>7, <1>8, <1>9 DEF Step

(***************************************************************************)
(* Whatever moves, deletes or reassigns its transactions while complete    *)
(* runs, the batch it completes has counted one: the rows the handler has  *)
(* locked are still members when it commits.                               *)
(***************************************************************************)
THEOREM NoEmptyCompletion == Spec => CompletesSomething
<1>1. CInv /\ [Next]_vars => [CompletionsCount]_vars
  <2>1. ASSUME CInv, NEW s \in Session, NEW q \in Request, Begin(s, q) PROVE CompletionsCount
    BY <2>1, NoStatusMoves DEF Begin
  <2>2. ASSUME CInv, NEW s \in Session, Fail(s) PROVE CompletionsCount
    BY <2>2, AbandonKeepsRecon, NoStatusMoves DEF Fail
  <2>3. QED
    BY <2>1, <2>2, StepCounts DEF Next
<1>2. [CompletionsCount]_vars =>
        [\A r \in Recon : Completed(recon'.row[r]) /\ ~ Completed(recon.row[r])
                           => CountedIn(r)' # {}]_vars
  BY DEF CompletionsCount
<1>3. QED
  BY <1>1, <1>2, MembersInvariance, PTL DEF Spec, CompletesSomething

-----------------------------------------------------------------------------
(* Requests served one at a time.                                            *)

(* Every request is served by the same session. *)
OneSession == \A s, u \in Session : s = u

(* What the ledger keeps when handlers do not interleave. *)
BatchesAreWhole ==
    /\ \A r \in Recon : Completed(recon.row[r]) =>
         ~ recon.row[r].deleted /\ Members(txn.row, r) = CountedIn(r)
    /\ \A t \in Txn : Active(txn.row[t]) /\ txn.row[t].link \in Recon =>
         Active(recon.row[txn.row[t].link])

(* What a handler read of its reconciliation is still true when it writes. *)
ReadStillHolds(s) ==
    pc[s] \in {"write_recon", "select_members", "take_members", "set_status",
               "select_bumped", "bump_members", "delete_recon"} =>
      Proceeds(request[s], recon.row[request[s].id])

(* So are the checks of the transaction handlers. *)
ChecksStillHold(s) ==
    LET q == request[s]
        link == txn.row[q.id].link IN
    /\ pc[s] = "write_txn" /\ q.edit.link \in Recon => Keeps(recon.row[q.edit.link])
    /\ pc[s] \in {"check_link", "write_txn"} /\ TouchesLocked(q) /\ link \in Recon =>
         ~ Completed(recon.row[link])
    /\ pc[s] = "restore_txn" /\ link \in Recon => Keeps(recon.row[link])

(* Every member of the batch is locked or about to be visited. *)
HoldsTheBatch(s) ==
    pc[s] \in {"take_members", "set_status", "select_bumped", "bump_members", "delete_recon"} =>
      \A t \in Txn : Linked(txn.row[t], request[s].id) =>
        txn.lock[t] = s \/ (pc[s] = "take_members" /\ t \in todo[s])

HandlerIsAlone(s) == ReadStillHolds(s) /\ ChecksStillHold(s) /\ HoldsTheBatch(s)

SInv == IInv /\ BatchesAreWhole /\ \A s \in Session : HandlerIsAlone(s)

LEMMA ReconImages ==
  ASSUME NEW v \in ReconRow, NEW e, e.amount \in Amount \cup {Omitted},
         NEW status \in {"DRAFT", "COMPLETED"}
  PROVE  /\ EditedRecon(v, e).deleted = v.deleted
         /\ EditedRecon(v, e).balance = Given(e.amount, v.balance)
         /\ ~ Restored(v).deleted /\ Restored(v).balance = v.balance
         /\ SoftDeleted(v).deleted /\ SoftDeleted(v).balance = v.balance
         /\ Flipped(v, status).deleted = v.deleted /\ Flipped(v, status).balance = v.balance
<1>1. ASSUME NEW u \in ReconRow PROVE Bumped(u).deleted = u.deleted /\ Bumped(u).balance = u.balance
  BY DEF Bumped, ReconRow, ReconRows
<1> DEFINE a == [v EXCEPT !.deleted = TRUE]
           b == [v EXCEPT !.deleted = FALSE]
           c == [v EXCEPT !.balance = Given(e.amount, v.balance)]
           d == [v EXCEPT !.status = status]
<1>2. Given(e.amount, v.balance) \in Amount
  BY DEF Given, ReconRow, ReconRows
<1>3. /\ a \in ReconRow /\ a.deleted /\ a.balance = v.balance
      /\ b \in ReconRow /\ ~ b.deleted /\ b.balance = v.balance
  BY DEF ReconRow, ReconRows
<1>4. /\ c \in ReconRow /\ c.deleted = v.deleted /\ c.balance = Given(e.amount, v.balance)
      /\ d \in ReconRow /\ d.deleted = v.deleted /\ d.balance = v.balance
  BY <1>2 DEF ReconRow, ReconRows
<1>5. /\ SoftDeleted(v) = Bumped(a) /\ Restored(v) = Bumped(b)
      /\ EditedRecon(v, e) = Bumped(c) /\ Flipped(v, status) = Bumped(d)
  BY DEF SoftDeleted, Restored, EditedRecon, Flipped
<1> HIDE DEF a, b, c, d
<1>6. QED
  BY <1>1, <1>3, <1>4, <1>5

LEMMA TxnImages ==
  ASSUME NEW v \in TxnRow, NEW e \in Edit, NEW link \in Recon \cup {NoRecon}
  PROVE  /\ EditedTxn(v, e).link = Given(e.link, v.link)
         /\ EditedTxn(v, e).deleted = v.deleted
         /\ RestoredTxn(v, link).link = link
<1> DEFINE a == [v EXCEPT !.link = Given(e.link, v.link)]
           b == [a EXCEPT !.account = Given(e.account, v.account)]
           c == [b EXCEPT !.amount = Given(e.amount, v.amount)]
           l == [v EXCEPT !.link = link]
           m == [l EXCEPT !.deleted = FALSE]
<1>1. EditedTxn(v, e) = Bumped(c) /\ RestoredTxn(v, link) = Bumped(m)
  BY DEF EditedTxn, RestoredTxn, Restored
<1>2. /\ Given(e.link, v.link) \in Recon \cup {NoRecon}
      /\ Given(e.account, v.account) \in Account /\ Given(e.amount, v.amount) \in Amount
  BY DEF Edit, Given, TxnRow, TxnRows
<1>3. /\ a \in TxnRow /\ a.deleted = v.deleted /\ a.link = Given(e.link, v.link)
      /\ a.account = v.account /\ a.amount = v.amount
      /\ l \in TxnRow /\ l.link = link
  BY <1>2 DEF TxnRow, TxnRows
<1> HIDE DEF a, l
<1>4. /\ b \in TxnRow /\ b.deleted = a.deleted /\ b.link = a.link /\ b.amount = a.amount
      /\ m \in TxnRow /\ m.link = link
  BY <1>2, <1>3 DEF TxnRow, TxnRows
<1> HIDE DEF b, m
<1>5. c \in TxnRow /\ c.deleted = b.deleted /\ c.link = b.link
  BY <1>2, <1>4 DEF TxnRow, TxnRows
<1> HIDE DEF c
<1>6. QED
  BY <1>1, <1>3, <1>4, <1>5, BumpedTxnFacts

-----------------------------------------------------------------------------
(* Steps of the only session.                                                *)

LEMMA LedgerKept ==
  ASSUME BatchesAreWhole, txn'.row = txn.row, recon'.row = recon.row, UNCHANGED counted
  PROVE  BatchesAreWhole'
  BY DEF BatchesAreWhole, Members, CountedIn

LEMMA AloneEnds ==
  ASSUME OneSession, SInv, IInv', NEW s \in Session, End(s), BatchesAreWhole'
  PROVE  SInv'
<1>1. pc'[s] = "idle"
  BY DEF SInv, IInv, TypeOK, End
<1>2. HandlerIsAlone(s)'
  BY <1>1 DEF HandlerIsAlone, ReadStillHolds, ChecksStillHold, HoldsTheBatch
<1>3. QED
  BY <1>2 DEF OneSession, SInv

LEMMA AloneMoves ==
  ASSUME OneSession, SInv, IInv', NEW s \in Session, HandlerIsAlone(s)',
         txn'.row = txn.row, recon'.row = recon.row, UNCHANGED counted
  PROVE  SInv'
  BY LedgerKept DEF OneSession, SInv

LEMMA AloneAbandons ==
  ASSUME OneSession, SInv, IInv', NEW s \in Session, Abandon(s) PROVE SInv'
<1>1. BatchesAreWhole'
  BY AbandonKeeps, AbandonKeepsRecon, LedgerKept DEF SInv, Abandon
<1>2. QED
  BY <1>1, AloneEnds DEF Abandon

LEMMA AloneBegins ==
  ASSUME OneSession, SInv, IInv', NEW s \in Session, NEW q \in Request, Begin(s, q)
  PROVE  SInv'
<1>1. pc'[s] = FirstStep[q.op]
  BY DEF SInv, IInv, TypeOK, Begin
<1>2. FirstStep[q.op] \in {"insert_txn", "lock_txn", "lock_deleted_txn", "insert_recon",
                           "read_recon", "read_deleted_recon"}
  BY DEF Request, FirstStep
<1>3. HandlerIsAlone(s)'
  BY <1>1, <1>2 DEF HandlerIsAlone, ReadStillHolds, ChecksStillHold, HoldsTheBatch
<1>4. QED
  BY <1>3, AloneMoves DEF Begin

(* One transaction is committed: it joins or leaves no completed batch. *)
LEMMA OneTxnRow ==
  ASSUME BatchesAreWhole, NEW t \in Txn, NEW w, UNCHANGED <<recon, counted>>,
         \A u \in Txn : txn'.row[u] = IF u = t THEN w ELSE txn.row[u],
         \A r \in Recon : Completed(recon.row[r]) => (Linked(w, r) <=> Linked(txn.row[t], r)),
         Active(w) /\ w.link \in Recon => Active(recon.row[w.link])
  PROVE  BatchesAreWhole'
<1>1. \A r \in Recon : Completed(recon.row[r]) => Members(txn'.row, r) = Members(txn.row, r)
  BY DEF Members
<1>2. QED
  BY <1>1 DEF BatchesAreWhole, CountedIn

(* One reconciliation is committed: it is not completed, nor deleted. *)
LEMMA OneReconRow ==
  ASSUME BatchesAreWhole, NEW r \in Recon, NEW w, UNCHANGED <<txn, counted>>,
         \A q \in Recon : recon'.row[q] = IF q = r THEN w ELSE recon.row[q],
         Completed(w) => Completed(recon.row[r]) /\ ~ w.deleted,
         Active(recon.row[r]) => Active(w)
  PROVE  BatchesAreWhole'
<1>1. \A q \in Recon : Members(txn.row, q)' = Members(txn.row, q) /\ CountedIn(q)' = CountedIn(q)
  BY DEF Members, CountedIn
<1>2. QED
  BY <1>1 DEF BatchesAreWhole

(* The rows a handler of one transaction commits. *)
LEMMA TxnCommitted ==
  ASSUME IInv, NEW s \in Session, NEW t \in Txn, NEW w \in TxnRow, Free(txn, s, t),
         txn' = Commit(WriteRow(txn, s, t, w), s, Txn),
         \A u \in Txn : txn.lock[u] = s => u = t
  PROVE  \A u \in Txn : txn'.row[u] = IF u = t THEN w ELSE txn.row[u]
<1>1. \A u \in Txn : txn'.row[u] = IF u = t THEN w ELSE Visible(txn, s, u)
  BY Typed, WriteCommitFacts
<1>2. QED
  BY <1>1 DEF Visible

LEMMA ReconCommitted ==
  ASSUME IInv, NEW s \in Session, NEW r \in Recon, NEW w \in ReconRow, Free(recon, s, r),
         recon' = Commit(WriteRow(recon, s, r, w), s, Recon),
         \A q \in Recon : recon.lock[q] # s
  PROVE  \A q \in Recon : recon'.row[q] = IF q = r THEN w ELSE recon.row[q]
<1>1. \A q \in Recon : recon'.row[q] = IF q = r THEN w ELSE Visible(recon, s, q)
  BY Typed, WriteCommitFacts
<1>2. QED
  BY <1>1 DEF Visible

LEMMA AloneInsertsTxn ==
  ASSUME OneSession, SInv, IInv', NEW s \in Session, InsertTxn(s) PROVE SInv'
<1> DEFINE t == request[s].id
           v == NewTxn(request[s].edit.account, request[s].edit.amount)
<1>1. CASE Refuse(s, txn.row[t] # Missing)
  BY <1>1, AloneAbandons DEF Refuse
<1>2. CASE /\ txn.row[t] = Missing /\ txn' = Commit(WriteRow(txn, s, t, v), s, Txn)
           /\ UNCHANGED <<recon, counted>> /\ End(s)
  <2>1. pc[s] = "insert_txn" /\ SessionInv(s) /\ IInv /\ BatchesAreWhole
    BY DEF InsertTxn, SInv, IInv
  <2>2. t \in Txn /\ v \in TxnRow /\ v.link = NoRecon
    BY <2>1, Stations DEF SessionInv, TxnSteps, NewTxn, TxnRow, TxnRows
  <2>3. Free(txn, s, t)
    BY <1>2, <2>1, <2>2, MissingIsFree DEF Free
  <2>4. \A u \in Txn : txn.lock[u] # s
    BY <2>1, HoldsNothing DEF Unheld
  <2> HIDE DEF t, v
  <2>5. \A u \in Txn : txn'.row[u] = IF u = t THEN v ELSE txn.row[u]
    BY <1>2, <2>1, <2>2, <2>3, <2>4, TxnCommitted
  <2>6. BatchesAreWhole'
    BY <1>2, <2>1, <2>2, <2>5, OneTxnRow, SentinelAssumption DEF Linked, Active
  <2>7. QED
    BY <1>2, <2>6, AloneEnds
<1>3. QED
  BY <1>1, <1>2 DEF InsertTxn

LEMMA AloneWritesTxn ==
  ASSUME OneSession, SInv, IInv', NEW s \in Session, WriteTxn(s) PROVE SInv'
<1> DEFINE q == request[s]
           t == q.id
           old == txn.row[t]
           w == IF q.op = "delete_transaction" THEN SoftDeleted(old) ELSE EditedTxn(old, q.edit)
<1>1. /\ pc[s] = "write_txn" /\ IInv /\ SessionInv(s) /\ BatchesAreWhole /\ HandlerIsAlone(s)
      /\ UNCHANGED <<recon, counted>> /\ End(s)
  BY DEF WriteTxn, SInv, IInv
<1>2. /\ t \in Txn /\ old \in TxnRow /\ txn.latest[t] = old
      /\ Free(txn, s, t) /\ \A u \in Txn : txn.lock[u] = s => u = t
  BY <1>1, OwnRowFacts
<1>3. q.edit \in Edit /\ Active(old)
  BY <1>1, Stations DEF SessionInv, HoldsItsRow, OnActive
<1>4. /\ w \in TxnRow
      /\ w.deleted = (q.op = "delete_transaction")
      /\ q.op # "delete_transaction" => w.link = Given(q.edit.link, old.link)
  <2>1. ~ old.deleted /\ old.link \in Recon \cup {NoRecon}
    BY <1>2, <1>3 DEF Active, TxnRow, TxnRows
  <2>2. w \in TxnRow /\ (q.op = "delete_transaction" => w.deleted)
    BY <1>2, <1>3, SoftDeletedTxnFacts, EditedTxnFacts
  <2>3. q.op # "delete_transaction" =>
          w.deleted = old.deleted /\ w.link = Given(q.edit.link, old.link)
    BY <1>2, <1>3, <2>1, TxnImages
  <2>4. w.deleted \in BOOLEAN
    BY <2>2 DEF TxnRow, TxnRows
  <2>5. QED
    BY <2>1, <2>2, <2>3, <2>4
<1>5. txn' = Commit(WriteRow(txn, s, t, w), s, Txn)
  BY <1>2 DEF WriteTxn
<1>6. /\ q.edit.link \in Recon => Keeps(recon.row[q.edit.link])
      /\ TouchesLocked(q) /\ old.link \in Recon => ~ Completed(recon.row[old.link])
  BY <1>1 DEF HandlerIsAlone, ChecksStillHold
<1>7. ~ TouchesLocked(q) => q.op # "delete_transaction" /\ q.edit.link = Omitted
  BY DEF TouchesLocked, NoEdit
<1>8. old # Missing /\ w # Missing
  BY <1>2, <1>4, MissingAssumption
<1> HIDE DEF w, old, t, q
<1>9. \A u \in Txn : txn'.row[u] = IF u = t THEN w ELSE txn.row[u]
  BY <1>1, <1>2, <1>4, <1>5, TxnCommitted
<1>10. Active(w) /\ w.link \in Recon => Active(recon.row[w.link])
  <2>1. old.link \in Recon => Active(recon.row[old.link])
    BY <1>1, <1>2, <1>3 DEF BatchesAreWhole, old
  <2>2. QED
    BY <1>4, <1>6, <2>1 DEF Active, Given, Keeps
<1>11. ASSUME NEW r \in Recon, Completed(recon.row[r])
       PROVE  Linked(w, r) <=> Linked(old, r)
  <2>1. CASE TouchesLocked(q)
    <3>1. ~ Linked(old, r)
      BY <1>6, <1>11, <2>1 DEF Linked
    <3>2. ~ Linked(w, r)
      BY <1>4, <1>6, <1>11, <2>1 DEF Linked, Active, Given, Keeps
    <3>3. QED
      BY <3>1, <3>2
  <2>2. CASE ~ TouchesLocked(q)
    BY <1>3, <1>4, <1>7, <1>8, <2>2 DEF Linked, Active, Given
  <2>3. QED
    BY <2>1, <2>2
<1>12. BatchesAreWhole'
  BY <1>1, <1>2, <1>9, <1>10, <1>11, OneTxnRow DEF old
<1>13. QED
  BY <1>1, <1>12, AloneEnds

LEMMA AloneRestoresTxn ==
  ASSUME OneSession, SInv, IInv', NEW s \in Session, RestoreTxn(s) PROVE SInv'
<1> DEFINE t == request[s].id
           old == txn.row[t]
           link == IF pc[s] = "restore_txn" THEN old.link ELSE NoRecon
           w == RestoredTxn(old, link)
<1>1. /\ pc[s] \in {"restore_txn", "restore_unlinked"}
      /\ IInv /\ SessionInv(s) /\ BatchesAreWhole /\ HandlerIsAlone(s)
      /\ UNCHANGED <<recon, counted>> /\ End(s)
  BY DEF RestoreTxn, SInv, IInv
<1>2. /\ t \in Txn /\ old \in TxnRow /\ txn.latest[t] = old
      /\ Free(txn, s, t) /\ \A u \in Txn : txn.lock[u] = s => u = t
  BY <1>1, OwnRowFacts
<1>3. Buried(old) /\ link \in Recon \cup {NoRecon}
  BY <1>1, <1>2 DEF SessionInv, HoldsItsRow, OnDeleted, TxnRow, TxnRows
<1>4. link \in Recon => Keeps(recon.row[link])
  BY <1>1, SentinelAssumption DEF HandlerIsAlone, ChecksStillHold
<1>5. txn' = Commit(WriteRow(txn, s, t, w), s, Txn)
  BY <1>2 DEF RestoreTxn
<1> HIDE DEF link
<1>6. w \in TxnRow /\ w.link = link
  <2>1. NoEdit \in Edit
    BY DEF NoEdit, Edit
  <2>2. QED
    BY <1>2, <1>3, <2>1, RestoredTxnFacts, TxnImages
<1> HIDE DEF w, old, t
<1>7. \A u \in Txn : txn'.row[u] = IF u = t THEN w ELSE txn.row[u]
  BY <1>1, <1>2, <1>5, <1>6, TxnCommitted
<1>8. Active(w) /\ w.link \in Recon => Active(recon.row[w.link])
  BY <1>4, <1>6 DEF Keeps
<1>9. \A r \in Recon : Completed(recon.row[r]) => ~ Linked(w, r) /\ ~ Linked(old, r)
  BY <1>3, <1>4, <1>6 DEF Linked, Active, Buried, Keeps
<1>10. BatchesAreWhole'
  BY <1>1, <1>2, <1>7, <1>8, <1>9, OneTxnRow DEF old
<1>11. QED
  BY <1>1, <1>10, AloneEnds

LEMMA AloneInsertsRecon ==
  ASSUME OneSession, SInv, IInv', NEW s \in Session, InsertRecon(s) PROVE SInv'
<1> DEFINE r == request[s].id
           w == NewRecon(request[s].edit.account, request[s].edit.amount)
<1>1. CASE Refuse(s, recon.row[r] # Missing)
  BY <1>1, AloneAbandons DEF Refuse
<1>2. CASE /\ recon.row[r] = Missing /\ recon' = Commit(WriteRow(recon, s, r, w), s, Recon)
           /\ UNCHANGED <<txn, counted>> /\ End(s)
  <2>1. pc[s] = "insert_recon" /\ SessionInv(s) /\ IInv /\ BatchesAreWhole
    BY DEF InsertRecon, SInv, IInv
  <2>2. r \in Recon /\ w \in ReconRow /\ ~ Completed(w)
    BY <2>1, Stations DEF SessionInv, ReconSteps, NewRecon, ReconRow, ReconRows, Completed
  <2>3. Free(recon, s, r) /\ \A q \in Recon : recon.lock[q] # s
    BY <1>2, <2>1, <2>2, MissingIsFree, HoldsNothing DEF Free, Unheld
  <2>4. ~ Active(recon.row[r])
    BY <1>2 DEF Active
  <2> HIDE DEF r, w
  <2>5. \A q \in Recon : recon'.row[q] = IF q = r THEN w ELSE recon.row[q]
    BY <1>2, <2>1, <2>2, <2>3, ReconCommitted
  <2>6. BatchesAreWhole'
    BY <1>2, <2>1, <2>2, <2>4, <2>5, OneReconRow
  <2>7. QED
    BY <1>2, <2>6, AloneEnds
<1>3. QED
  BY <1>1, <1>2 DEF InsertRecon

LEMMA AloneWritesRecon ==
  ASSUME OneSession, SInv, IInv', NEW s \in Session, WriteRecon(s) PROVE SInv'
<1> DEFINE r == request[s].id
           e == request[s].edit
           w == EditedRecon(recon.row[r], e)
<1>1. CASE Refuse(s, ~ Active(recon.row[r]))
  BY <1>1, AloneAbandons DEF Refuse
<1>2. CASE /\ Active(recon.row[r]) /\ Free(recon, s, r)
           /\ recon' = Commit(WriteRow(recon, s, r, w), s, Recon)
           /\ UNCHANGED <<txn, counted>> /\ End(s)
  <2>1. pc[s] = "write_recon" /\ SessionInv(s) /\ IInv /\ TypeOK /\ BatchesAreWhole
    BY DEF WriteRecon, SInv, IInv
  <2>2. r \in Recon /\ e \in Edit
    BY <2>1, Stations DEF SessionInv, ReconSteps
  <2>3. recon.row[r] \in ReconRow /\ e.amount \in Amount \cup {Omitted}
    BY <1>2, <2>1, <2>2 DEF Active, TypeOK, Tables, Edit
  <2>4. /\ w \in ReconRow /\ w.status = recon.row[r].status
        /\ w.deleted = recon.row[r].deleted
    BY <2>3, KeptStatusFacts, ReconImages
  <2>5. \A q \in Recon : recon.lock[q] # s
    BY <2>1, HoldsNothing DEF Unheld
  <2> HIDE DEF r, w, e
  <2>6. \A q \in Recon : recon'.row[q] = IF q = r THEN w ELSE recon.row[q]
    BY <1>2, <2>1, <2>2, <2>4, <2>5, ReconCommitted
  <2>7. /\ Completed(w) => Completed(recon.row[r]) /\ ~ w.deleted
        /\ Active(w)
    BY <1>2, <2>4, MissingAssumption DEF Active, Completed
  <2>8. BatchesAreWhole'
    BY <1>2, <2>1, <2>2, <2>6, <2>7, OneReconRow
  <2>9. QED
    BY <1>2, <2>8, AloneEnds
<1>3. QED
  BY <1>1, <1>2 DEF WriteRecon

LEMMA AloneRestoresRecon ==
  ASSUME OneSession, SInv, IInv', NEW s \in Session, RestoreRecon(s) PROVE SInv'
<1> DEFINE r == request[s].id
           w == Restored(recon.row[r])
<1>1. CASE Refuse(s, ~ Buried(recon.row[r]))
  BY <1>1, AloneAbandons DEF Refuse
<1>2. CASE /\ Buried(recon.row[r]) /\ Free(recon, s, r)
           /\ recon' = Commit(WriteRow(recon, s, r, w), s, Recon)
           /\ UNCHANGED <<txn, counted>> /\ End(s)
  <2>1. pc[s] = "restore_recon" /\ SessionInv(s) /\ IInv /\ TypeOK /\ BatchesAreWhole
    BY DEF RestoreRecon, SInv, IInv
  <2>2. r \in Recon /\ request[s].edit \in Edit
    BY <2>1, Stations DEF SessionInv, ReconSteps
  <2>3. recon.row[r] \in ReconRow /\ request[s].edit.amount \in Amount \cup {Omitted}
    BY <1>2, <2>1, <2>2 DEF Buried, TypeOK, Tables, Edit
  <2>4. w \in ReconRow /\ w.status = recon.row[r].status /\ ~ w.deleted
    BY <2>3, KeptStatusFacts, ReconImages
  <2>5. \A q \in Recon : recon.lock[q] # s
    BY <2>1, HoldsNothing DEF Unheld
  <2>6. ~ Completed(recon.row[r])
    BY <1>2, <2>1, <2>2 DEF BatchesAreWhole, Buried
  <2> HIDE DEF r, w
  <2>7. \A q \in Recon : recon'.row[q] = IF q = r THEN w ELSE recon.row[q]
    BY <1>2, <2>1, <2>2, <2>4, <2>5, ReconCommitted
  <2>8. ~ Completed(w) /\ Active(w)
    BY <1>2, <2>4, <2>6, MissingAssumption DEF Active, Buried, Completed
  <2>9. BatchesAreWhole'
    BY <1>2, <2>1, <2>2, <2>7, <2>8, OneReconRow
  <2>10. QED
    BY <1>2, <2>9, AloneEnds
<1>3. QED
  BY <1>1, <1>2 DEF RestoreRecon

LEMMA AloneFlips ==
  ASSUME OneSession, SInv, IInv', NEW s \in Session, CommitFlip(s) PROVE SInv'
<1> DEFINE r == request[s].id
           old == recon.row[r]
           w == Flipped(old, Target(request[s]))
           members == IF request[s].op = "complete" THEN LockedBy(txn, s, Txn) ELSE {}
<1>1. /\ pc[s] = "bump_members" /\ todo[s] = {} /\ IInv /\ SessionInv(s) /\ TypeOK
      /\ BatchesAreWhole /\ HandlerIsAlone(s)
      /\ txn' = Commit(txn, s, Txn) /\ recon' = Commit(recon, s, Recon)
      /\ counted' = [counted EXCEPT ![r] = Batch(txn.latest, members)] /\ End(s)
  BY DEF CommitFlip, SInv, IInv
<1>2. r \in Recon /\ request[s].op \in {"complete", "revert"}
  BY <1>1, Stations DEF SessionInv, ReconSteps, FlipSteps
<1>3. /\ old \in ReconRow /\ recon.lock[r] = s /\ recon.latest[r] = w
      /\ \A q \in Recon : recon.lock[q] = s => q = r
  BY <1>1, <1>2 DEF SessionInv, HoldsItsRecon, TypeOK, Tables
<1>4. /\ w \in ReconRow /\ w.status = Target(request[s]) /\ w.deleted = old.deleted
  <2>1. Target(request[s]) \in {"DRAFT", "COMPLETED"} /\ NoEdit.amount \in Amount \cup {Omitted}
    BY DEF Target, NoEdit
  <2>2. QED
    BY <1>3, <2>1, FlippedFacts, ReconImages
<1>5. Active(old)
  BY <1>1 DEF HandlerIsAlone, ReadStillHolds, Proceeds
<1>6. \A t \in Txn : Linked(txn.row[t], r) <=> txn.lock[t] = s
  BY <1>1 DEF HandlerIsAlone, HoldsTheBatch, SessionInv, LocksAreKnown, Uncommitted,
              OnActive, OnDeleted
<1>7. \A t \in Txn : txn.lock[t] = s =>
        txn.row[t] \in TxnRow /\ txn.latest[t] = Bumped(txn.row[t])
  BY <1>1, <1>6 DEF SessionInv, LocksAreKnown, Uncommitted, OnActive, OnDeleted, Linked,
                    Active, TypeOK, Tables
<1>8. \A t \in Txn : txn.lock[t] = s =>
        txn.latest[t] \in TxnRow /\ Active(txn.latest[t]) /\ txn.latest[t].link = r
  BY <1>6, <1>7, BumpedTxnFacts, MissingAssumption DEF Linked, Active
<1>9. \A t \in Txn : txn'.row[t] = IF txn.lock[t] = s THEN txn.latest[t] ELSE txn.row[t]
  BY <1>1 DEF Commit, Visible
<1>10. \A q \in Recon : recon'.row[q] = IF q = r THEN w ELSE recon.row[q]
  BY <1>1, <1>3 DEF Commit, Visible
<1>11. members \in SUBSET Txn /\ \A t \in members : txn.latest[t] \in TxnRow
  BY <1>8 DEF LockedBy
<1>12. /\ \A q \in Recon \ {r} : counted'[q] = counted[q]
       /\ \A t \in Txn : counted'[r][t] =
            IF t \in members THEN LockedFields(txn.latest[t]) ELSE NotCounted
  BY <1>1, <1>2, <1>11, BatchType DEF TypeOK
<1> HIDE DEF r, old, w, members
<1>13. \A t \in Txn, q \in Recon : Linked(txn'.row[t], q) <=> Linked(txn.row[t], q)
  BY <1>6, <1>8, <1>9 DEF Linked
<1>14. ASSUME NEW t \in members PROVE counted'[r][t] # NotCounted
  <2>1. counted'[r][t] = LockedFields(txn.latest[t]) /\ txn.latest[t] \in TxnRow
    BY <1>11, <1>12
  <2>2. LockedFields(txn.latest[t]) \in Content
    BY <2>1 DEF LockedFields, Content, TxnRow, TxnRows
  <2>3. QED
    BY <2>1, <2>2, ContentAssumption
<1>15. ASSUME NEW q \in Recon, Completed(recon'.row[q])
       PROVE  ~ recon'.row[q].deleted /\ \A t \in Txn :
                Linked(txn'.row[t], q) <=> counted'[q][t] # NotCounted
  <2>1. CASE q = r
    <3>1. request[s].op = "complete" /\ ~ w.deleted
      BY <1>4, <1>5, <1>10, <1>15, <2>1 DEF Completed, Target, Active
    <3>2. \A t \in Txn : t \in members <=> Linked(txn.row[t], r)
      BY <1>6, <3>1 DEF members, LockedBy
    <3>3. QED
      BY <1>10, <1>12, <1>13, <1>14, <2>1, <3>1, <3>2
  <2>2. CASE q # r
    <3>1. Completed(recon.row[q])
      BY <1>10, <1>15, <2>2
    <3>2. ~ recon.row[q].deleted /\ Members(txn.row, q) = CountedIn(q)
      BY <1>1, <3>1 DEF BatchesAreWhole
    <3>3. \A t \in Txn : Linked(txn.row[t], q) <=> counted[q][t] # NotCounted
      BY <3>2 DEF Members, CountedIn
    <3>4. QED
      BY <1>10, <1>12, <1>13, <2>2, <3>2, <3>3
  <2>3. QED
    BY <2>1, <2>2
<1>16. ASSUME NEW t \in Txn, Active(txn'.row[t]), txn'.row[t].link \in Recon
       PROVE  Active(recon'.row[txn'.row[t].link])
  <2>1. Linked(txn.row[t], txn'.row[t].link)
    BY <1>13, <1>16 DEF Linked
  <2>2. Active(recon.row[txn'.row[t].link])
    BY <1>1, <1>16, <2>1 DEF BatchesAreWhole, Linked
  <2>3. Active(w)
    BY <1>4, <1>5, MissingAssumption DEF Active
  <2>4. QED
    BY <1>10, <1>16, <2>2, <2>3
<1>17. BatchesAreWhole'
  BY <1>15, <1>16 DEF BatchesAreWhole, Members, CountedIn
<1>18. QED
  BY <1>1, <1>17, AloneEnds

LEMMA AloneDeletesRecon ==
  ASSUME OneSession, SInv, IInv', NEW s \in Session, DeleteRecon(s) PROVE SInv'
<1> DEFINE r == request[s].id
           old == recon.row[r]
           w == SoftDeleted(old)
<1>1. /\ pc[s] = "delete_recon" /\ IInv /\ SessionInv(s) /\ TypeOK
      /\ BatchesAreWhole /\ HandlerIsAlone(s) /\ Free(recon, s, r)
      /\ txn' = Commit(txn, s, Txn) /\ recon' = Commit(WriteRow(recon, s, r, w), s, Recon)
      /\ counted' = [counted EXCEPT ![r] = Batch(txn.row, {})] /\ End(s)
  BY DEF DeleteRecon, SInv, IInv
<1>2. r \in Recon /\ request[s].op = "delete_reconciliation"
  BY <1>1, Stations DEF SessionInv, ReconSteps
<1>3. ~ Completed(old) /\ old # Missing
  BY <1>1, <1>2 DEF HandlerIsAlone, ReadStillHolds, Proceeds, Active
<1>4. old \in ReconRow /\ \A q \in Recon : recon.lock[q] # s
  BY <1>1, <1>2, <1>3 DEF SessionInv, HoldsItsRecon, TypeOK, Tables
<1>5. w \in ReconRow /\ w.status = old.status
  <2>1. NoEdit.amount \in Amount \cup {Omitted}
    BY DEF NoEdit
  <2>2. QED
    BY <1>4, <2>1, KeptStatusFacts
<1>6. ~ Completed(w)
  BY <1>3, <1>5, MissingAssumption DEF Completed
<1>7. \A t \in Txn : Linked(txn.row[t], r) <=> txn.lock[t] = s
  BY <1>1 DEF HandlerIsAlone, HoldsTheBatch, SessionInv, LocksAreKnown, Uncommitted,
              OnActive, OnDeleted
<1>8. \A t \in Txn : txn.lock[t] = s =>
        txn.row[t] \in TxnRow /\ txn.latest[t] = Unassigned(txn.row[t])
  BY <1>1, <1>7 DEF SessionInv, LocksAreKnown, Uncommitted, OnActive, OnDeleted, Linked,
                    Active, TypeOK, Tables
<1>9. \A t \in Txn : txn.lock[t] = s => txn.latest[t].link = NoRecon
  BY <1>8, UnassignedFacts
<1>10. \A t \in Txn : txn'.row[t] = IF txn.lock[t] = s THEN txn.latest[t] ELSE txn.row[t]
  BY <1>1 DEF Commit, Visible
<1>11. /\ \A q \in Recon \ {r} : counted'[q] = counted[q]
  BY <1>1, <1>2 DEF TypeOK
<1> HIDE DEF r, old, w
<1>12. \A q \in Recon : recon'.row[q] = IF q = r THEN w ELSE recon.row[q]
  BY <1>1, <1>2, <1>4, <1>5, ReconCommitted
<1>13. \A t \in Txn, q \in Recon :
         Linked(txn'.row[t], q) <=> Linked(txn.row[t], q) /\ q # r
  BY <1>7, <1>9, <1>10, SentinelAssumption DEF Linked
<1>14. ASSUME NEW q \in Recon, Completed(recon'.row[q])
       PROVE  ~ recon'.row[q].deleted /\ \A t \in Txn :
                Linked(txn'.row[t], q) <=> counted'[q][t] # NotCounted
  <2>1. q # r /\ Completed(recon.row[q])
    BY <1>6, <1>12, <1>14
  <2>2. ~ recon.row[q].deleted /\ Members(txn.row, q) = CountedIn(q)
    BY <1>1, <2>1 DEF BatchesAreWhole
  <2>3. \A t \in Txn : Linked(txn.row[t], q) <=> counted[q][t] # NotCounted
    BY <2>2 DEF Members, CountedIn
  <2>4. QED
    BY <1>11, <1>12, <1>13, <2>1, <2>2, <2>3
<1>15. ASSUME NEW t \in Txn, Active(txn'.row[t]), txn'.row[t].link \in Recon
       PROVE  Active(recon'.row[txn'.row[t].link])
  <2>1. Linked(txn.row[t], txn'.row[t].link) /\ txn'.row[t].link # r
    BY <1>13, <1>15 DEF Linked
  <2>2. Active(recon.row[txn'.row[t].link])
    BY <1>1, <1>15, <2>1 DEF BatchesAreWhole, Linked
  <2>3. QED
    BY <1>12, <1>15, <2>1, <2>2
<1>16. BatchesAreWhole'
  BY <1>14, <1>15 DEF BatchesAreWhole, Members, CountedIn
<1>17. QED
  BY <1>1, <1>16, AloneEnds

(* Steps that commit nothing. *)
LEMMA AloneChecksTxn ==
  ASSUME OneSession, SInv, IInv', NEW s \in Session,
         LockTxn(s) \/ CheckFreeze(s) \/ CheckLink(s)
  PROVE  SInv'
<1> DEFINE q == request[s]
           t == q.id
<1>1. IInv /\ TypeOK /\ SessionInv(s) /\ HandlerIsAlone(s)
  BY DEF SInv, IInv
<1>2. pc[s] \in {"lock_txn", "check_freeze", "check_link"}
  BY DEF LockTxn, CheckFreeze, CheckLink
<1>3. CASE Abandon(s)
  BY <1>3, AloneAbandons
<1>4. CASE /\ LockTxn(s) /\ ~ Refuse(s, ~ Active(txn.row[t]))
  <2>1. /\ txn' = LockRow(txn, s, t) /\ UNCHANGED <<recon, request, counted>>
        /\ pc'[s] = IF txn.row[t].link = NoRecon THEN AfterFreeze(q) ELSE "check_freeze"
    BY <1>1, <1>4 DEF LockTxn, FetchForUpdate, Goto, TypeOK
  <2>2. txn'.row = txn.row
    BY <2>1 DEF LockRow
  <2>3. HandlerIsAlone(s)'
    BY <2>1, <2>2, SentinelAssumption
       DEF HandlerIsAlone, ReadStillHolds, ChecksStillHold, HoldsTheBatch, AfterFreeze
  <2>4. QED
    BY <2>1, <2>2, <2>3, AloneMoves
<1>5. CASE CheckFreeze(s) /\ ~ Refuse(s, Frozen(s))
  <2>1. /\ UNCHANGED <<txn, recon, request, counted>> /\ ~ Frozen(s) /\ pc[s] = "check_freeze"
        /\ pc'[s] = AfterFreeze(q)
    BY <1>1, <1>5 DEF CheckFreeze, Goto, TypeOK
  <2>2. TouchesLocked(q) => ~ Completed(recon.row[txn.row[t].link])
    BY <1>1, <2>1 DEF Frozen, SessionInv, HoldsItsRow, OnActive
  <2>3. HandlerIsAlone(s)'
    BY <2>1, <2>2
       DEF HandlerIsAlone, ReadStillHolds, ChecksStillHold, HoldsTheBatch, AfterFreeze,
           TouchesLocked
  <2>4. QED
    BY <2>1, <2>3, AloneMoves
<1>6. CASE CheckLink(s) /\ ~ Abandon(s)
  <2>1. /\ UNCHANGED <<txn, recon, request, counted>> /\ pc[s] = "check_link"
        /\ pc'[s] = "write_txn"
        /\ Assignable(recon.row[q.edit.link], Given(q.edit.account, seen[s].account))
    BY <1>1, <1>6 DEF CheckLink, Goto, TypeOK, Refuse
  <2>2. Keeps(recon.row[q.edit.link])
    BY <2>1 DEF Assignable, Keeps
  <2>3. HandlerIsAlone(s)'
    BY <1>1, <2>1, <2>2
       DEF HandlerIsAlone, ReadStillHolds, ChecksStillHold, HoldsTheBatch, TouchesLocked
  <2>4. QED
    BY <2>1, <2>3, AloneMoves
<1>7. QED
  BY <1>3, <1>4, <1>5, <1>6 DEF Refuse

LEMMA AloneChecksDeletedTxn ==
  ASSUME OneSession, SInv, IInv', NEW s \in Session, LockDeletedTxn(s) \/ CheckPrior(s)
  PROVE  SInv'
<1> DEFINE t == request[s].id
<1>1. IInv /\ TypeOK /\ SessionInv(s) /\ HandlerIsAlone(s)
  BY DEF SInv, IInv
<1>2. CASE Abandon(s)
  BY <1>2, AloneAbandons
<1>3. CASE LockDeletedTxn(s) /\ ~ Abandon(s)
  <2>1. /\ txn' = LockRow(txn, s, t) /\ UNCHANGED <<recon, request, counted>>
        /\ pc'[s] = IF txn.row[t].link = NoRecon THEN "restore_txn" ELSE "check_prior"
    BY <1>1, <1>3 DEF LockDeletedTxn, FetchForUpdate, Goto, TypeOK, Refuse
  <2>2. txn'.row = txn.row
    BY <2>1 DEF LockRow
  <2>3. HandlerIsAlone(s)'
    BY <2>1, <2>2, SentinelAssumption
       DEF HandlerIsAlone, ReadStillHolds, ChecksStillHold, HoldsTheBatch
  <2>4. QED
    BY <2>1, <2>2, <2>3, AloneMoves
<1>4. CASE CheckPrior(s)
  <2>1. /\ UNCHANGED <<txn, recon, request, counted>> /\ pc[s] = "check_prior"
        /\ pc'[s] = IF Keeps(recon.row[seen[s].link]) THEN "restore_txn"
                    ELSE "restore_unlinked"
    BY <1>1, <1>4 DEF CheckPrior, Goto, TypeOK
  <2>2. seen[s] = txn.row[t]
    BY <1>1, <2>1 DEF SessionInv, HoldsItsRow, OnDeleted
  <2>3. HandlerIsAlone(s)'
    BY <2>1, <2>2 DEF HandlerIsAlone, ReadStillHolds, ChecksStillHold, HoldsTheBatch
  <2>4. QED
    BY <2>1, <2>3, AloneMoves
<1>5. QED
  BY <1>2, <1>3, <1>4

LEMMA AloneReadsRecon ==
  ASSUME OneSession, SInv, IInv', NEW s \in Session, ReadRecon(s) \/ ReadDeletedRecon(s)
  PROVE  SInv'
<1>1. IInv /\ TypeOK /\ HandlerIsAlone(s)
  BY DEF SInv, IInv
<1>2. CASE Abandon(s)
  BY <1>2, AloneAbandons
<1>3. CASE ~ Abandon(s)
  <2>1. /\ UNCHANGED <<txn, recon, request, counted>>
        /\ pc'[s] \in {"write_recon", "select_members", "restore_recon"}
        /\ pc'[s] # "restore_recon" => Proceeds(request[s], recon.row[request[s].id])
    BY <1>1, <1>3 DEF ReadRecon, ReadDeletedRecon, Goto, TypeOK, Refuse
  <2>2. HandlerIsAlone(s)'
    BY <2>1 DEF HandlerIsAlone, ReadStillHolds, ChecksStillHold, HoldsTheBatch
  <2>3. QED
    BY <2>1, <2>2, AloneMoves
<1>4. QED
  BY <1>2, <1>3

LEMMA AloneSelects ==
  ASSUME OneSession, SInv, IInv', NEW s \in Session, SelectMembers(s) PROVE SInv'
<1>1. IInv /\ TypeOK /\ HandlerIsAlone(s) /\ pc[s] = "select_members"
  BY DEF SInv, IInv, SelectMembers
<1>2. /\ UNCHANGED <<txn, recon, request, counted>> /\ pc'[s] = "take_members"
      /\ todo'[s] = MembersSeenBy(s)
  BY <1>1 DEF SelectMembers, Goto, TypeOK
<1>3. \A t \in Txn : txn.lock[t] # s
  BY <1>1, HoldsNothing DEF Unheld
<1>4. \A t \in Txn : Linked(txn.row[t], request[s].id) => t \in todo'[s]
  BY <1>2, <1>3 DEF MembersSeenBy, Visible
<1>5. HandlerIsAlone(s)'
  BY <1>1, <1>2, <1>4 DEF HandlerIsAlone, ReadStillHolds, ChecksStillHold, HoldsTheBatch
<1>6. QED
  BY <1>2, <1>5, AloneMoves

LEMMA AloneTakesMember ==
  ASSUME OneSession, SInv, IInv', NEW s \in Session, NEW t \in Txn, TakeMember(s, t)
  PROVE  SInv'
<1> DEFINE v == Visible(txn, s, t)
           r == request[s].id
<1>1. IInv /\ TypeOK /\ SessionInv(s) /\ HandlerIsAlone(s) /\ pc[s] = "take_members"
  BY DEF SInv, IInv, TakeMember
<1>2. /\ UNCHANGED <<recon, request, pc, counted>> /\ todo'[s] = todo[s] \ {t}
      /\ t \in todo[s]
  BY <1>1 DEF TakeMember, Visited, TypeOK
<1>3. txn' = IF ~ Linked(v, r) THEN txn
             ELSE IF request[s].op = "delete_reconciliation" THEN WriteRow(txn, s, t, Unassigned(v))
             ELSE LockRow(txn, s, t)
  BY DEF TakeMember
<1> HIDE DEF v
<1>4. txn'.row = txn.row
  BY <1>3 DEF WriteRow, LockRow
<1>5. \A u \in Txn : txn.lock[u] = s => txn'.lock[u] = s
  BY <1>1, <1>3 DEF WriteRow, LockRow, TypeOK, Tables
<1>6. Linked(txn.row[t], r) => txn'.lock[t] = s
  <2>1. CASE txn.lock[t] = s
    BY <1>5, <2>1
  <2>2. CASE txn.lock[t] # s
    BY <1>1, <1>3, <2>2 DEF v, Visible, WriteRow, LockRow, TypeOK, Tables
  <2>3. QED
    BY <2>1, <2>2
<1>7. HandlerIsAlone(s)'
  <2>1. HoldsTheBatch(s)'
    BY <1>1, <1>2, <1>4, <1>5, <1>6 DEF HandlerIsAlone, HoldsTheBatch
  <2>2. ReadStillHolds(s)' /\ ChecksStillHold(s)'
    BY <1>1, <1>2, <1>4 DEF HandlerIsAlone, ReadStillHolds, ChecksStillHold
  <2>3. QED
    BY <2>1, <2>2 DEF HandlerIsAlone
<1>8. QED
  BY <1>2, <1>4, <1>7, AloneMoves

LEMMA AloneBumpsMember ==
  ASSUME OneSession, SInv, IInv', NEW s \in Session, NEW t \in Txn, BumpMember(s, t)
  PROVE  SInv'
<1>1. IInv /\ TypeOK /\ HandlerIsAlone(s) /\ pc[s] = "bump_members"
  BY DEF SInv, IInv, BumpMember
<1>2. /\ UNCHANGED <<recon, request, pc, counted>>
      /\ txn' = IF Linked(Visible(txn, s, t), request[s].id)
                THEN WriteRow(txn, s, t, Bumped(Visible(txn, s, t))) ELSE txn
  BY DEF BumpMember
<1>3. txn'.row = txn.row /\ \A u \in Txn : txn.lock[u] = s => txn'.lock[u] = s
  BY <1>1, <1>2 DEF WriteRow, TypeOK, Tables
<1>4. HandlerIsAlone(s)'
  BY <1>1, <1>2, <1>3 DEF HandlerIsAlone, ReadStillHolds, ChecksStillHold, HoldsTheBatch
<1>5. QED
  BY <1>2, <1>3, <1>4, AloneMoves

LEMMA AloneGoesOn ==
  ASSUME OneSession, SInv, IInv', NEW s \in Session,
         MembersTaken(s) \/ SetStatus(s) \/ SelectBumped(s)
  PROVE  SInv'
<1>1. IInv /\ TypeOK /\ HandlerIsAlone(s)
  BY DEF SInv, IInv
<1>2. CASE Abandon(s)
  BY <1>2, AloneAbandons
<1>3. CASE ~ Abandon(s)
  <2>1. /\ UNCHANGED <<txn, request, counted>> /\ recon'.row = recon.row
        /\ pc[s] \in {"take_members", "set_status", "select_bumped"}
        /\ pc[s] = "take_members" => todo[s] = {}
        /\ pc'[s] \in {"delete_recon", "set_status", "select_bumped", "bump_members"}
    BY <1>1, <1>3 DEF MembersTaken, SetStatus, SelectBumped, Goto, TypeOK, Refuse, WriteRow
  <2>2. HandlerIsAlone(s)'
    BY <1>1, <2>1 DEF HandlerIsAlone, ReadStillHolds, ChecksStillHold, HoldsTheBatch
  <2>3. QED
    BY <2>1, <2>2, AloneMoves
<1>4. QED
  BY <1>2, <1>3

LEMMA SerialInvariance == ASSUME OneSession PROVE Spec => []SInv
<1>1. Init => BatchesAreWhole
  <2>1. SUFFICES ASSUME Init PROVE BatchesAreWhole
    OBVIOUS
  <2>2. PICK txns \in [Txn -> TxnRows({0}) \cup {Missing}],
             recons \in [Recon -> ReconRows({0}) \cup {Missing}] :
          /\ Consistent(txns, recons)
          /\ txn.row = txns /\ recon.row = recons
          /\ counted = [r \in Recon |->
               Batch(txns, IF Completed(recons[r]) THEN Members(txns, r) ELSE {})]
    BY <2>1 DEF Init, AtRest
  <2>3. ASSUME NEW r \in Recon, Completed(recons[r]) PROVE Members(txns, r) = CountedIn(r)
    <3>1. counted[r] = Batch(txns, Members(txns, r))
      BY <2>2, <2>3
    <3>2. \A t \in Members(txns, r) : txns[t] \in TxnRow
      BY DEF Members, Linked, Active, TxnRow, TxnRows
    <3>3. \A t \in Txn : counted[r][t] =
            IF t \in Members(txns, r) THEN LockedFields(txns[t]) ELSE NotCounted
      BY <3>1, <3>2, BatchType DEF Members
    <3>4. \A t \in Members(txns, r) : LockedFields(txns[t]) \in Content
      BY <3>2 DEF LockedFields, Content, TxnRow, TxnRows
    <3>5. \A t \in Txn : t \in Members(txns, r) <=> counted[r][t] # NotCounted
      BY <3>3, <3>4, ContentAssumption
    <3>6. QED
      BY <3>5 DEF CountedIn, Members
  <2>4. QED
    BY <2>2, <2>3, SentinelAssumption DEF Consistent, BatchesAreWhole
<1>2. Init => \A s \in Session : HandlerIsAlone(s)
  BY DEF Init, HandlerIsAlone, ReadStillHolds, ChecksStillHold, HoldsTheBatch
<1>3. ASSUME SInv, IInv', [Next]_vars PROVE SInv'
  <2>1. CASE UNCHANGED vars
    BY <1>3, <2>1, LedgerKept DEF vars, SInv, HandlerIsAlone, ReadStillHolds,
       ChecksStillHold, HoldsTheBatch
  <2>2. ASSUME NEW s \in Session, NEW q \in Request, Begin(s, q) PROVE SInv'
    BY <1>3, <2>2, AloneBegins
  <2>3. ASSUME NEW s \in Session, Fail(s) PROVE SInv'
    BY <1>3, <2>3, AloneAbandons DEF Fail
  <2>4. ASSUME NEW s \in Session, Step(s) PROVE SInv'
    <3>1. ASSUME NEW t \in Txn, TakeMember(s, t) \/ BumpMember(s, t) PROVE SInv'
      BY <1>3, <3>1, AloneTakesMember, AloneBumpsMember
    <3>2. CASE InsertTxn(s) \/ WriteTxn(s) \/ RestoreTxn(s)
      BY <1>3, <3>2, AloneInsertsTxn, AloneWritesTxn, AloneRestoresTxn
    <3>3. CASE LockTxn(s) \/ CheckFreeze(s) \/ CheckLink(s) \/ LockDeletedTxn(s) \/ CheckPrior(s)
      BY <1>3, <3>3, AloneChecksTxn, AloneChecksDeletedTxn
    <3>4. CASE InsertRecon(s) \/ WriteRecon(s) \/ RestoreRecon(s)
      BY <1>3, <3>4, AloneInsertsRecon, AloneWritesRecon, AloneRestoresRecon
    <3>5. CASE ReadRecon(s) \/ ReadDeletedRecon(s) \/ SelectMembers(s) \/ MembersTaken(s)
                 \/ SetStatus(s) \/ SelectBumped(s)
      BY <1>3, <3>5, AloneReadsRecon, AloneSelects, AloneGoesOn
    <3>6. CASE CommitFlip(s) \/ DeleteRecon(s)
      BY <1>3, <3>6, AloneFlips, AloneDeletesRecon
    <3>7. CASE FlipFindsNothing(s)
      BY <1>3, <3>7, AloneAbandons DEF FlipFindsNothing, Refuse
    <3>8. QED
      BY <2>4, <3>1, <3>2, <3>3, <3>4, <3>5, <3>6, <3>7 DEF Step
  <2>5. QED
    BY <1>3, <2>1, <2>2, <2>3, <2>4 DEF Next
<1>4. Init /\ IInv => SInv
  BY <1>1, <1>2 DEF SInv
<1>5. SInv /\ IInv' /\ [Next]_vars => SInv'
  BY <1>3
<1>6. QED
  BY <1>4, <1>5, Invariance, PTL DEF Spec

(***************************************************************************)
(* Served one at a time, requests keep what the documentation promises:    *)
(* a completed batch holds what its completion counted and nothing else.   *)
(* Two sessions break it (the run recon_join).                             *)
(***************************************************************************)
THEOREM SerialBatches == ASSUME OneSession PROVE Spec => []NobodyJoinsCompleted
<1>1. SInv => NobodyJoinsCompleted
  BY DEF SInv, BatchesAreWhole, NobodyJoinsCompleted
<1>2. QED
  BY <1>1, SerialInvariance, PTL

(* Served one at a time, deletions leave no transaction in their batch.      *)
THEOREM SerialLinks == ASSUME OneSession PROVE Spec => []NoLinkToDeleted
<1>1. SInv => NoLinkToDeleted
  BY DEF SInv, BatchesAreWhole, NoLinkToDeleted, Members, Linked, Active, Buried
<1>2. QED
  BY <1>1, SerialInvariance, PTL

(* Served one at a time, deletions are of drafts only.                       *)
THEOREM SerialDeletions == ASSUME OneSession PROVE Spec => []CompletedIsNeverDeleted
<1>1. SInv => CompletedIsNeverDeleted
  BY DEF SInv, BatchesAreWhole, CompletedIsNeverDeleted, Buried
<1>2. QED
  BY <1>1, SerialInvariance, PTL

-----------------------------------------------------------------------------
(* The range of a completed batch, served one at a time.                     *)

RangesKept ==
    \A r \in Recon : Completed(recon.row[r]) /\ Completed(recon'.row[r]) =>
        recon'.row[r].balance = recon.row[r].balance

LEMMA ReconWritesKeepRanges ==
  ASSUME SInv, NEW s \in Session,
         InsertRecon(s) \/ WriteRecon(s) \/ RestoreRecon(s) \/ DeleteRecon(s)
  PROVE  RangesKept
<1> DEFINE r == request[s].id
           q == request[s]
<1>1. /\ IInv /\ SessionInv(s) /\ TypeOK /\ HandlerIsAlone(s)
      /\ pc[s] \in {"insert_recon", "write_recon", "restore_recon", "delete_recon"}
  BY DEF SInv, IInv, InsertRecon, WriteRecon, RestoreRecon, DeleteRecon
<1>2. r \in Recon /\ q.edit \in Edit /\ \A p \in Recon : recon.lock[p] # s
  BY <1>1, Stations DEF SessionInv, ReconSteps, HoldsItsRecon
<1>3. q.edit.amount \in Amount \cup {Omitted}
  BY <1>2 DEF Edit
<1>4. CASE Abandon(s)
  BY <1>4, AbandonKeepsRecon DEF RangesKept
<1>5. CASE ~ Abandon(s)
  <2>1. PICK w : /\ recon' = Commit(WriteRow(recon, s, r, w), s, Recon)
                 /\ \/ recon.row[r] = Missing
                    \/ /\ WriteRecon(s) /\ Active(recon.row[r])
                       /\ w = EditedRecon(recon.row[r], q.edit)
                    \/ w = Restored(recon.row[r])
                    \/ w = SoftDeleted(recon.row[r])
    BY <1>5 DEF InsertRecon, WriteRecon, RestoreRecon, DeleteRecon, Refuse
  <2>2. \A p \in Recon \ {r} : recon'.row[p] = recon.row[p]
    BY <1>1, <1>2, <2>1 DEF Commit, WriteRow, Visible, TypeOK, Tables
  <2>3. recon'.row[r] = w
    BY <1>1, <1>2, <2>1 DEF Commit, WriteRow, Visible, TypeOK, Tables
  <2>4. ASSUME Completed(recon.row[r]) PROVE w.balance = recon.row[r].balance
    <3>1. recon.row[r] \in ReconRow
      BY <1>1, <1>2, <2>4 DEF Completed, TypeOK, Tables
    <3>2. WriteRecon(s) => q.edit.amount = Omitted
      <4>1. ASSUME WriteRecon(s) PROVE q.edit.amount = Omitted
        <5>1. pc[s] = "write_recon" /\ q.op = "update_reconciliation"
          BY <1>1, <4>1, Stations DEF WriteRecon, SessionInv
        <5>2. Proceeds(q, recon.row[r])
          BY <1>1, <5>1 DEF HandlerIsAlone, ReadStillHolds
        <5>3. QED
          BY <2>4, <5>1, <5>2 DEF Proceeds
      <4>2. QED
        BY <4>1
    <3>3. recon.row[r] # Missing
      BY <2>4 DEF Completed
    <3>4. /\ EditedRecon(recon.row[r], q.edit).balance = Given(q.edit.amount, recon.row[r].balance)
          /\ Restored(recon.row[r]).balance = recon.row[r].balance
          /\ SoftDeleted(recon.row[r]).balance = recon.row[r].balance
      BY <1>3, <3>1, ReconImages
    <3>5. QED
      BY <2>1, <3>2, <3>3, <3>4 DEF Given
  <2> HIDE DEF r, q
  <2>5. QED
    BY <2>2, <2>3, <2>4 DEF RangesKept
<1>6. QED
  BY <1>4, <1>5

LEMMA FlipKeepsRanges ==
  ASSUME SInv, NEW s \in Session, CommitFlip(s) PROVE RangesKept
<1> DEFINE r == request[s].id
<1>1. /\ pc[s] = "bump_members" /\ IInv /\ SessionInv(s) /\ TypeOK
      /\ recon' = Commit(recon, s, Recon)
  BY DEF CommitFlip, SInv, IInv
<1>2. /\ r \in Recon /\ recon.row[r] \in ReconRow
      /\ recon.latest[r] = Flipped(recon.row[r], Target(request[s]))
      /\ \A q \in Recon : recon.lock[q] = s => q = r
  BY <1>1, Stations DEF SessionInv, ReconSteps, FlipSteps, HoldsItsRecon, TypeOK, Tables
<1>3. recon.latest[r].balance = recon.row[r].balance
  <2>1. Target(request[s]) \in {"DRAFT", "COMPLETED"} /\ NoEdit.amount \in Amount \cup {Omitted}
    BY DEF Target, NoEdit
  <2>2. QED
    BY <1>2, <2>1, ReconImages
<1>4. \A q \in Recon : recon'.row[q] = Visible(recon, s, q)
  BY <1>1 DEF Commit
<1> HIDE DEF r
<1>5. QED
  BY <1>2, <1>3, <1>4 DEF RangesKept, Visible

LEMMA StepKeepsRanges ==
  ASSUME SInv, NEW s \in Session, Step(s) PROVE RangesKept
<1>1. ASSUME recon'.row = recon.row PROVE RangesKept
  BY <1>1 DEF RangesKept
<1> USE <1>1, AbandonKeepsRecon
<1>2. CASE InsertTxn(s) \/ WriteTxn(s) \/ RestoreTxn(s)
  BY <1>2 DEF InsertTxn, WriteTxn, RestoreTxn, Refuse
<1>3. CASE LockTxn(s) \/ LockDeletedTxn(s)
  BY <1>3 DEF LockTxn, LockDeletedTxn, Refuse
<1>4. CASE CheckFreeze(s) \/ CheckLink(s) \/ CheckPrior(s)
  BY <1>4 DEF CheckFreeze, CheckLink, CheckPrior, Refuse
<1>5. CASE InsertRecon(s) \/ WriteRecon(s) \/ RestoreRecon(s) \/ DeleteRecon(s)
  BY <1>5, ReconWritesKeepRanges
<1>6. CASE ReadRecon(s) \/ ReadDeletedRecon(s) \/ SelectMembers(s) \/ SelectBumped(s)
  BY <1>6 DEF ReadRecon, ReadDeletedRecon, SelectMembers, SelectBumped, Refuse
<1>7. CASE MembersTaken(s) \/ SetStatus(s)
  BY <1>7 DEF MembersTaken, SetStatus, WriteRow, Refuse
<1>8. ASSUME NEW t \in Txn, TakeMember(s, t) \/ BumpMember(s, t) PROVE RangesKept
  BY <1>8 DEF TakeMember, BumpMember
<1>9. CASE CommitFlip(s)
  BY <1>9, FlipKeepsRanges
<1>10. CASE FlipFindsNothing(s)
  BY <1>10 DEF FlipFindsNothing, Refuse
<1>11. QED
  BY <1>2, <1>3, <1>4, <1>5, <1>6, <1>7, <1>8, <1>9, <1>10 DEF Step

(* Served one at a time, no request moves the range of a completed batch.    *)
THEOREM SerialRanges == ASSUME OneSession PROVE Spec => CompletedRangeIsFixed
<1>1. SInv /\ [Next]_vars => [RangesKept]_vars
  <2>1. ASSUME recon'.row = recon.row PROVE RangesKept
    BY <2>1 DEF RangesKept
  <2>2. ASSUME NEW s \in Session, NEW q \in Request, Begin(s, q) PROVE RangesKept
    BY <2>1, <2>2 DEF Begin
  <2>3. ASSUME NEW s \in Session, Fail(s) PROVE RangesKept
    BY <2>1, <2>3, AbandonKeepsRecon DEF Fail
  <2>4. QED
    BY <2>2, <2>3, StepKeepsRanges DEF Next
<1>2. [RangesKept]_vars =>
        [\A r \in Recon : Completed(recon.row[r]) /\ Completed(recon'.row[r]) =>
           recon'.row[r].balance = recon.row[r].balance]_vars
  BY DEF RangesKept
<1>3. QED
  BY <1>1, <1>2, SerialInvariance, PTL DEF Spec, CompletedRangeIsFixed
=============================================================================
