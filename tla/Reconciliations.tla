--------------------------- MODULE Reconciliations ---------------------------
(***************************************************************************)
(* Transactions and the reconciliations they are assigned to:              *)
(* app/helpers/transactions.py and app/helpers/reconciliations.py.         *)
(*                                                                         *)
(* Every request runs in one database transaction (run_idempotent) and is  *)
(* modelled statement by statement, because between two statements of one  *)
(* handler another handler may commit.  A handler reads the status of a    *)
(* reconciliation without locking it and locks the transaction rows it     *)
(* modifies; the freeze of a completed batch rests on the two together.    *)
(***************************************************************************)
EXTENDS Naturals, Table

CONSTANTS
    Txn, Recon,          \* ids of expense_transactions, expense_reconciliations
    Account, Amount,     \* amount stands for amount_cents, title and date
    NoRecon, Omitted,    \* SQL NULL; a field absent from the request body
    Missing, NotCounted, \* no row with that id; not part of a completed batch
    Workload,            \* the operations clients request
    MaxRequests          \* bound on the requests of a behaviour

Operation == {"create_transaction", "update_transaction", "delete_transaction",
              "restore_transaction", "create_reconciliation", "update_reconciliation",
              "complete", "revert", "delete_reconciliation", "restore_reconciliation"}

ASSUME WorkloadAssumption == Workload \subseteq Operation
ASSUME RequestsAssumption == MaxRequests \in Nat
ASSUME SentinelAssumption ==
    /\ NoRecon \notin Recon
    /\ Omitted \notin Recon \cup Account \cup Amount \cup {NoRecon}

VARIABLES
    txn,      \* the table of transactions
    recon,    \* the table of reconciliations
    request,  \* request[s]: what session s was asked
    pc,       \* pc[s]: the next statement of session s
    seen,     \* seen[s]: the row the handler of s read first (before_row)
    todo,     \* todo[s]: rows a multi-row statement of s has still to visit
    counted,  \* history: the locked fields of the rows a completion counted
    served    \* number of requests started

vars == <<txn, recon, request, pc, seen, todo, counted, served>>

-----------------------------------------------------------------------------
(* Rows.  version counts the updates of a row since the initial state.       *)

TxnRows(Version) == [deleted : BOOLEAN, link : Recon \cup {NoRecon},
                     account : Account, amount : Amount, version : Version]
ReconRows(Version) == [deleted : BOOLEAN, status : {"DRAFT", "COMPLETED"},
                       account : Account, balance : Amount, version : Version]
TxnRow == TxnRows(Nat)
ReconRow == ReconRows(Nat)

Active(v) == v # Missing /\ ~ v.deleted
Buried(v) == v # Missing /\ v.deleted
Completed(v) == v # Missing /\ v.status = "COMPLETED"

ASSUME MissingAssumption == Missing \notin TxnRow /\ Missing \notin ReconRow

(* The WHERE clause of the statements on the members of a batch. *)
Linked(v, r) == Active(v) /\ v.link = r

(* The transaction fields that completion locks, besides the link itself. *)
LockedFields(v) == [account |-> v.account, amount |-> v.amount]
Content == [account : Account, amount : Amount]
ASSUME ContentAssumption == NotCounted \notin Content

Members(rows, r) == {t \in Txn : Linked(rows[t], r)}
CountedIn(r) == {t \in Txn : counted[r][t] # NotCounted}

-----------------------------------------------------------------------------
(* Requests.  A field of the body is Omitted or a value; for a               *)
(* reconciliation, amount is the balances and dates, and name when Omitted.  *)

Edit == [link : Recon \cup {NoRecon, Omitted}, account : Account \cup {Omitted},
         amount : Amount \cup {Omitted}]
NoEdit == [link |-> Omitted, account |-> Omitted, amount |-> Omitted]

Request ==
    [op : {"update_transaction"}, id : Txn, edit : Edit]
      \cup [op : {"delete_transaction", "restore_transaction"}, id : Txn, edit : {NoEdit}]
      \cup [op : {"create_transaction"}, id : Txn,
            edit : [link : {Omitted}, account : Account, amount : Amount]]
      \cup [op : {"create_reconciliation"}, id : Recon,
            edit : [link : {Omitted}, account : Account, amount : Amount]]
      \cup [op : {"update_reconciliation"}, id : Recon,
            edit : [link : {Omitted}, account : {Omitted}, amount : Amount \cup {Omitted}]]
      \cup [op : {"complete", "revert", "delete_reconciliation", "restore_reconciliation"},
            id : Recon, edit : {NoEdit}]
NoRequest == [op |-> "none", id |-> Nobody, edit |-> NoEdit]

\* Mutant: fields absent from the body are written as well.
GivenAll(new, old) == new

Given(new, old) == IF new = Omitted THEN old ELSE new

(* Every UPDATE the engine builds moves version; soft_delete and restore. *)
Bumped(v) == [v EXCEPT !.version = @ + 1]
SoftDeleted(v) == Bumped([v EXCEPT !.deleted = TRUE])
Restored(v) == Bumped([v EXCEPT !.deleted = FALSE])

\* Mutant: a second UPDATE for the link, with a bump of its own.
EditedTwice(v, e) ==
    [v EXCEPT !.link = Given(e.link, @), !.account = Given(e.account, @),
              !.amount = Given(e.amount, @), !.version = @ + (IF e.link = Omitted THEN 1 ELSE 2)]

(* dynamic_update: the fields given, and one bump of version. *)
EditedTxn(v, e) == Bumped([v EXCEPT !.link = Given(e.link, @),
                                    !.account = Given(e.account, @),
                                    !.amount = Given(e.amount, @)])
EditedRecon(v, e) == Bumped([v EXCEPT !.balance = Given(e.amount, @)])

\* Mutant: the four fields are locked, the assignment is not.
TouchesFields(q) == q.op = "delete_transaction" \/ q.edit.account # Omitted
                      \/ q.edit.amount # Omitted

(* The request asks to change what a completed reconciliation locks. *)
TouchesLocked(q) == q.op = "delete_transaction" \/ q.edit # NoEdit

-----------------------------------------------------------------------------
(* Initial states: a ledger between requests, as requests served one at a    *)
(* time leave it.                                                            *)

NewTxn(account, amount) == [deleted |-> FALSE, link |-> NoRecon, account |-> account,
                            amount |-> amount, version |-> 0]
NewRecon(account, balance) == [deleted |-> FALSE, status |-> "DRAFT", account |-> account,
                               balance |-> balance, version |-> 0]

Consistent(txns, recons) ==
    /\ \A t \in Txn : Active(txns[t]) /\ txns[t].link # NoRecon =>
         /\ Active(recons[txns[t].link])
         /\ recons[txns[t].link].account = txns[t].account
    /\ \A t \in Txn : Buried(txns[t]) /\ txns[t].link # NoRecon =>
         recons[txns[t].link] # Missing
    /\ \A r \in Recon : Completed(recons[r]) =>
         ~ recons[r].deleted /\ Members(txns, r) # {}

(* The batch that a completion of the given members freezes. *)
Batch(rows, members) ==
    [t \in Txn |-> IF t \in members THEN LockedFields(rows[t]) ELSE NotCounted]

Init ==
    \E txns \in [Txn -> TxnRows({0}) \cup {Missing}],
       recons \in [Recon -> ReconRows({0}) \cup {Missing}] :
         /\ Consistent(txns, recons)
         /\ txn = AtRest(txns, Txn)
         /\ recon = AtRest(recons, Recon)
         /\ counted = [r \in Recon |->
              Batch(txns, IF Completed(recons[r]) THEN Members(txns, r) ELSE {})]
         /\ request = [s \in Session |-> NoRequest]
         /\ pc = [s \in Session |-> "idle"]
         /\ seen = [s \in Session |-> Missing]
         /\ todo = [s \in Session |-> {}]
         /\ served = 0

-----------------------------------------------------------------------------
(* The life of a request.                                                    *)

FirstStep == [create_transaction     |-> "insert_txn",
              update_transaction     |-> "lock_txn",
              delete_transaction     |-> "lock_txn",
              restore_transaction    |-> "lock_deleted_txn",
              create_reconciliation  |-> "insert_recon",
              update_reconciliation  |-> "read_recon",
              complete               |-> "read_recon",
              revert                 |-> "read_recon",
              delete_reconciliation  |-> "read_recon",
              restore_reconciliation |-> "read_deleted_recon"]

Begin(s, q) ==
    /\ pc[s] = "idle"
    /\ served < MaxRequests
    /\ q.op \in Workload
    /\ request' = [request EXCEPT ![s] = q]
    /\ pc' = [pc EXCEPT ![s] = FirstStep[q.op]]
    /\ served' = served + 1
    /\ UNCHANGED <<txn, recon, seen, todo, counted>>

Goto(s, step) == pc' = [pc EXCEPT ![s] = step]

(* The request is answered and its session forgets it. *)
End(s) ==
    /\ pc' = [pc EXCEPT ![s] = "idle"]
    /\ request' = [request EXCEPT ![s] = NoRequest]
    /\ seen' = [seen EXCEPT ![s] = Missing]
    /\ todo' = [todo EXCEPT ![s] = {}]
    /\ UNCHANGED served

(* An error answer: the transaction of the request rolls back. *)
Abandon(s) ==
    /\ txn' = Rollback(txn, s, Txn)
    /\ recon' = Rollback(recon, s, Recon)
    /\ UNCHANGED counted
    /\ End(s)

(* A check of the handler refuses the request: 404, 409 or 422. *)
Refuse(s, refused) == refused /\ Abandon(s)

-----------------------------------------------------------------------------
(* create_transaction; the row is never assigned to a reconciliation.        *)

InsertTxn(s) ==
    LET t == request[s].id IN
    /\ pc[s] = "insert_txn"
    /\ \/ /\ txn.row[t] = Missing
          /\ txn' = Commit(WriteRow(txn, s, t, NewTxn(request[s].edit.account,
                                                      request[s].edit.amount)), s, Txn)
          /\ UNCHANGED <<recon, counted>>
          /\ End(s)
       \/ Refuse(s, txn.row[t] # Missing)

-----------------------------------------------------------------------------
(* update_transaction and delete_transaction.                                *)

(* The assignment is checked next, when the request makes one. *)
AfterFreeze(q) == IF q.edit.link \in Recon THEN "check_link" ELSE "write_txn"

\* Mutant: for_update is forgotten.
FetchOnly(s, t) == txn

(* fetch_owned_row_or_404 with for_update. *)
FetchForUpdate(s, t) == LockRow(txn, s, t)

LockTxn(s) ==
    LET t == request[s].id IN
    /\ pc[s] = "lock_txn"
    /\ \/ /\ Active(txn.row[t]) /\ Free(txn, s, t)
          /\ txn' = FetchForUpdate(s, t)
          /\ seen' = [seen EXCEPT ![s] = txn.row[t]]
          /\ Goto(s, IF txn.row[t].link = NoRecon THEN AfterFreeze(request[s])
                     ELSE "check_freeze")
          /\ UNCHANGED <<recon, request, todo, counted, served>>
       \/ Refuse(s, ~ Active(txn.row[t]))

(* fetch_recon_status of the row's own reconciliation, deleted or not. *)
Frozen(s) == Completed(recon.row[seen[s].link]) /\ TouchesLocked(request[s])

CheckFreeze(s) ==
    /\ pc[s] = "check_freeze"
    /\ \/ /\ ~ Frozen(s)
          /\ Goto(s, AfterFreeze(request[s]))
          /\ UNCHANGED <<txn, recon, request, seen, todo, counted, served>>
       \/ Refuse(s, Frozen(s))

\* Mutant: a completed reconciliation accepts new members.
AssignableToAny(v, account) == Active(v) /\ v.account = account

(* The reconciliation the request assigns the row to. *)
Assignable(v, account) == Active(v) /\ v.account = account /\ ~ Completed(v)

CheckLink(s) ==
    LET e == request[s].edit
        ok == Assignable(recon.row[e.link], Given(e.account, seen[s].account)) IN
    /\ pc[s] = "check_link"
    /\ \/ /\ ok
          /\ Goto(s, "write_txn")
          /\ UNCHANGED <<txn, recon, request, seen, todo, counted, served>>
       \/ Refuse(s, ~ ok)

(* dynamic_update or soft_delete (which keeps the link), the log entry, COMMIT. *)
WriteTxn(s) ==
    LET t == request[s].id
        v == txn.latest[t] IN
    /\ pc[s] = "write_txn"
    /\ txn' = Commit(WriteRow(txn, s, t, IF request[s].op = "delete_transaction"
                                         THEN SoftDeleted(v)
                                         ELSE EditedTxn(v, request[s].edit)), s, Txn)
    /\ UNCHANGED <<recon, counted>>
    /\ End(s)

-----------------------------------------------------------------------------
(* restore_transaction.                                                      *)

LockDeletedTxn(s) ==
    LET t == request[s].id IN
    /\ pc[s] = "lock_deleted_txn"
    /\ \/ /\ Buried(txn.row[t]) /\ Free(txn, s, t)
          /\ txn' = FetchForUpdate(s, t)
          /\ seen' = [seen EXCEPT ![s] = txn.row[t]]
          /\ Goto(s, IF txn.row[t].link = NoRecon THEN "restore_txn" ELSE "check_prior")
          /\ UNCHANGED <<recon, request, todo, counted, served>>
       \/ Refuse(s, ~ Buried(txn.row[t]))

\* Mutant: only a completed reconciliation is unlinked.
KeepsUnlessCompleted(v) == ~ Completed(v)

(* Whether the row may come back into the batch it was deleted from. *)
Keeps(v) == Active(v) /\ ~ Completed(v)

CheckPrior(s) ==
    /\ pc[s] = "check_prior"
    /\ Goto(s, IF Keeps(recon.row[seen[s].link]) THEN "restore_txn" ELSE "restore_unlinked")
    /\ UNCHANGED <<txn, recon, request, seen, todo, counted, served>>

RestoredTxn(v, link) == Restored([v EXCEPT !.link = link])

RestoreTxn(s) ==
    LET t == request[s].id
        v == txn.latest[t] IN
    /\ pc[s] \in {"restore_txn", "restore_unlinked"}
    /\ txn' = Commit(WriteRow(txn, s, t,
                RestoredTxn(v, IF pc[s] = "restore_txn" THEN v.link ELSE NoRecon)), s, Txn)
    /\ UNCHANGED <<recon, counted>>
    /\ End(s)

-----------------------------------------------------------------------------
(* create_, update_ and restore_reconciliation.                              *)

InsertRecon(s) ==
    LET r == request[s].id IN
    /\ pc[s] = "insert_recon"
    /\ \/ /\ recon.row[r] = Missing
          /\ recon' = Commit(WriteRow(recon, s, r, NewRecon(request[s].edit.account,
                                                            request[s].edit.amount)), s, Recon)
          /\ UNCHANGED <<txn, counted>>
          /\ End(s)
       \/ Refuse(s, recon.row[r] # Missing)

(***************************************************************************)
(* fetch_reconciliation, without a lock, and the checks on what it read.   *)
(* A flip to the status the row already holds is answered at once.         *)
(***************************************************************************)
Target(q) == IF q.op = "complete" THEN "COMPLETED" ELSE "DRAFT"

\* Mutants: a status check is missing from the deletion or the edit.
DeletesAnyway(q, v) ==
    /\ Active(v)
    /\ q.op \in {"complete", "revert"} => v.status # Target(q)
    /\ q.op = "update_reconciliation" => ~ (Completed(v) /\ q.edit.amount # Omitted)
EditsAnyway(q, v) ==
    /\ Active(v)
    /\ q.op \in {"complete", "revert"} => v.status # Target(q)
    /\ q.op = "delete_reconciliation" => ~ Completed(v)

Proceeds(q, v) ==
    /\ Active(v)
    /\ q.op \in {"complete", "revert"} => v.status # Target(q)
    /\ q.op = "delete_reconciliation" => ~ Completed(v)
    /\ q.op = "update_reconciliation" => ~ (Completed(v) /\ q.edit.amount # Omitted)

ReadRecon(s) ==
    LET v == recon.row[request[s].id] IN
    /\ pc[s] = "read_recon"
    /\ \/ /\ Proceeds(request[s], v)
          /\ seen' = [seen EXCEPT ![s] = v]
          /\ Goto(s, IF request[s].op = "update_reconciliation" THEN "write_recon"
                     ELSE "select_members")
          /\ UNCHANGED <<txn, recon, request, todo, counted, served>>
       \/ Refuse(s, ~ Proceeds(request[s], v))

(* dynamic_update: its predicate is deleted_at IS NULL, not the status. *)
WriteRecon(s) ==
    LET r == request[s].id IN
    /\ pc[s] = "write_recon"
    /\ \/ /\ Active(recon.row[r]) /\ Free(recon, s, r)
          /\ recon' = Commit(WriteRow(recon, s, r,
                        EditedRecon(recon.row[r], request[s].edit)), s, Recon)
          /\ UNCHANGED <<txn, counted>>
          /\ End(s)
       \/ Refuse(s, ~ Active(recon.row[r]))

ReadDeletedRecon(s) ==
    LET r == request[s].id IN
    /\ pc[s] = "read_deleted_recon"
    /\ \/ /\ Buried(recon.row[r])
          /\ seen' = [seen EXCEPT ![s] = recon.row[r]]
          /\ Goto(s, "restore_recon")
          /\ UNCHANGED <<txn, recon, request, todo, counted, served>>
       \/ Refuse(s, ~ Buried(recon.row[r]))

(* query_builder.restore: 409 when the row is no longer deleted. *)
RestoreRecon(s) ==
    LET r == request[s].id
        v == recon.row[r] IN
    /\ pc[s] = "restore_recon"
    /\ \/ /\ Buried(v) /\ Free(recon, s, r)
          /\ recon' = Commit(WriteRow(recon, s, r, Restored(v)), s, Recon)
          /\ UNCHANGED <<txn, counted>>
          /\ End(s)
       \/ Refuse(s, ~ Buried(v))

-----------------------------------------------------------------------------
(* Statements on all the members of a batch.  The statement finds its rows   *)
(* in its snapshot, then locks them one by one; a row that changed while it  *)
(* waited is visited only if it still matches.                               *)

MembersSeenBy(s) ==
    {t \in Txn : Linked(Visible(txn, s, t), request[s].id)}

(* The SELECT ... FOR UPDATE of a flip, or the UPDATE of a delete, starts. *)
SelectMembers(s) ==
    /\ pc[s] = "select_members"
    /\ todo' = [todo EXCEPT ![s] = MembersSeenBy(s)]
    /\ Goto(s, "take_members")
    /\ UNCHANGED <<txn, recon, request, seen, counted, served>>

Visited(s, t) == todo' = [todo EXCEPT ![s] = @ \ {t}]

Unassigned(v) == Bumped([v EXCEPT !.link = NoRecon])

TakeMember(s, t) ==
    LET v == Visible(txn, s, t) IN
    /\ pc[s] = "take_members"
    /\ t \in todo[s]
    /\ Free(txn, s, t)
    /\ txn' = IF ~ Linked(v, request[s].id) THEN txn
              ELSE IF request[s].op = "delete_reconciliation"
              THEN WriteRow(txn, s, t, Unassigned(v))
              ELSE LockRow(txn, s, t)
    /\ Visited(s, t)
    /\ UNCHANGED <<recon, request, pc, seen, counted, served>>

\* Mutant: complete does not require one.
MayBeEmpty(s) == FALSE

(* complete requires a member; revert and delete require nothing. *)
NothingAssigned(s) == request[s].op = "complete" /\ LockedBy(txn, s, Txn) = {}

MembersTaken(s) ==
    /\ pc[s] = "take_members"
    /\ todo[s] = {}
    /\ \/ /\ ~ NothingAssigned(s)
          /\ Goto(s, IF request[s].op = "delete_reconciliation" THEN "delete_recon"
                     ELSE "set_status")
          /\ UNCHANGED <<txn, recon, request, seen, todo, counted, served>>
       \/ Refuse(s, NothingAssigned(s))

-----------------------------------------------------------------------------
(* _transition_status, after the members are locked.                         *)

Flipped(v, status) == Bumped([v EXCEPT !.status = status])

(* UPDATE ... SET status WHERE id: no predicate on the old status. *)
SetStatus(s) ==
    LET r == request[s].id IN
    /\ pc[s] = "set_status"
    /\ Free(recon, s, r)
    /\ recon' = WriteRow(recon, s, r, Flipped(recon.row[r], Target(request[s])))
    /\ Goto(s, "select_bumped")
    /\ UNCHANGED <<txn, request, seen, todo, counted, served>>

(* The UPDATE that bumps the members has a snapshot of its own. *)
SelectBumped(s) ==
    /\ pc[s] = "select_bumped"
    /\ todo' = [todo EXCEPT ![s] = MembersSeenBy(s)]
    /\ Goto(s, "bump_members")
    /\ UNCHANGED <<txn, recon, request, seen, counted, served>>

BumpMember(s, t) ==
    LET v == Visible(txn, s, t) IN
    /\ pc[s] = "bump_members"
    /\ t \in todo[s]
    /\ Free(txn, s, t)
    /\ txn' = IF Linked(v, request[s].id) THEN WriteRow(txn, s, t, Bumped(v)) ELSE txn
    /\ Visited(s, t)
    /\ UNCHANGED <<recon, request, pc, seen, counted, served>>

(* The row is fetched again for its after image: it must still be active. *)
Refetched(s) == Active(Visible(recon, s, request[s].id))

(* The batch of r is the rows its completion holds; a revert dissolves it. *)
CommitFlip(s) ==
    LET r == request[s].id IN
    /\ pc[s] = "bump_members"
    /\ todo[s] = {}
    /\ Refetched(s)
    /\ txn' = Commit(txn, s, Txn)
    /\ recon' = Commit(recon, s, Recon)
    /\ counted' = [counted EXCEPT ![r] =
         Batch(txn.latest, IF request[s].op = "complete" THEN LockedBy(txn, s, Txn) ELSE {})]
    /\ End(s)

(* A deletion that committed before the row was flipped: there is no after     *)
(* image, and the flip fails.                                                *)
FlipFindsNothing(s) ==
    /\ pc[s] = "bump_members"
    /\ todo[s] = {}
    /\ Refuse(s, ~ Refetched(s))

-----------------------------------------------------------------------------
(* delete_reconciliation, after its members are unassigned: soft_delete has  *)
(* no predicate on deleted_at or on the status.                              *)

DeleteRecon(s) ==
    LET r == request[s].id IN
    /\ pc[s] = "delete_recon"
    /\ Free(recon, s, r)
    /\ recon' = Commit(WriteRow(recon, s, r, SoftDeleted(recon.row[r])), s, Recon)
    /\ txn' = Commit(txn, s, Txn)
    /\ counted' = [counted EXCEPT ![r] = Batch(txn.row, {})]
    /\ End(s)

-----------------------------------------------------------------------------

(***************************************************************************)
(* A statement fails or the process stops: the transaction rolls back.     *)
(* PostgreSQL does this to a session of a deadlock, and command_timeout to *)
(* one that waits for a lock too long.                                     *)
(***************************************************************************)
Fail(s) == pc[s] # "idle" /\ Abandon(s)

\* Mutant: neither a deadlock nor a timeout ends a wait.
NeverBlocked(s) == FALSE

(* The next statement of s waits for a row another session has locked. *)
Blocked(s) ==
    LET i == request[s].id IN
    \/ pc[s] = "lock_txn" /\ Active(txn.row[i]) /\ ~ Free(txn, s, i)
    \/ pc[s] = "lock_deleted_txn" /\ Buried(txn.row[i]) /\ ~ Free(txn, s, i)
    \/ pc[s] \in {"write_recon", "restore_recon", "set_status", "delete_recon"}
         /\ ~ Free(recon, s, i)
    \/ pc[s] \in {"take_members", "bump_members"} /\ todo[s] # {}
         /\ \A t \in todo[s] : ~ Free(txn, s, t)

TimeOut(s) == Blocked(s) /\ Fail(s)

Step(s) == \/ InsertTxn(s) \/ LockTxn(s) \/ CheckFreeze(s) \/ CheckLink(s) \/ WriteTxn(s)
           \/ LockDeletedTxn(s) \/ CheckPrior(s) \/ RestoreTxn(s)
           \/ InsertRecon(s) \/ ReadRecon(s) \/ WriteRecon(s)
           \/ ReadDeletedRecon(s) \/ RestoreRecon(s)
           \/ SelectMembers(s) \/ (\E t \in Txn : TakeMember(s, t)) \/ MembersTaken(s)
           \/ SetStatus(s) \/ SelectBumped(s) \/ (\E t \in Txn : BumpMember(s, t))
           \/ CommitFlip(s) \/ FlipFindsNothing(s) \/ DeleteRecon(s)

Next == \E s \in Session : (\E q \in Request : Begin(s, q)) \/ Step(s) \/ Fail(s)

(* Statements that can run do run, and a wait is cut short in the end. *)
Fairness == \A s \in Session : WF_vars(Step(s)) /\ WF_vars(TimeOut(s))

Spec == Init /\ [][Next]_vars /\ Fairness

-----------------------------------------------------------------------------
(* What the two handlers promise.                                            *)

Steps == {"idle", "insert_txn", "lock_txn", "check_freeze", "check_link", "write_txn",
          "lock_deleted_txn", "check_prior", "restore_txn", "restore_unlinked",
          "insert_recon", "read_recon", "write_recon", "read_deleted_recon",
          "restore_recon", "select_members", "take_members", "set_status",
          "select_bumped", "bump_members", "delete_recon"}

TypeOK ==
    /\ txn \in Tables(Txn, TxnRow \cup {Missing})
    /\ recon \in Tables(Recon, ReconRow \cup {Missing})
    /\ request \in [Session -> Request \cup {NoRequest}]
    /\ pc \in [Session -> Steps]
    /\ seen \in [Session -> TxnRow \cup ReconRow \cup {Missing}]
    /\ todo \in [Session -> SUBSET Txn]
    /\ counted \in [Recon -> [Txn -> Content \cup {NotCounted}]]
    /\ served \in Nat

(***************************************************************************)
(* The freeze of a completed batch: from the commit of complete until its  *)
(* revert or the deletion of the batch, the transactions it counted stay   *)
(* assigned to it, undeleted, and keep their locked fields, although no    *)
(* handler that checks the status locks the reconciliation row.            *)
(***************************************************************************)
CountedStayFrozen ==
    \A r \in Recon : \A t \in CountedIn(r) :
        Linked(txn.row[t], r) /\ LockedFields(txn.row[t]) = counted[r][t]

(***************************************************************************)
(* A handler about to write a transaction row holds its lock and has in    *)
(* seen the very version it replaces, so the before and after images of    *)
(* its activity_log entry describe one state of the row.                   *)
(***************************************************************************)
AuditPairIsOneState ==
    \A s \in Session : pc[s] \in {"write_txn", "restore_txn", "restore_unlinked"} =>
        txn.lock[request[s].id] = s /\ seen[s] = txn.row[request[s].id]

(***************************************************************************)
(* Every committed change of a transaction is one bump of its version,     *)
(* whichever handler made it: two states of a row never share a version    *)
(* and one request never uses up two.                                      *)
(***************************************************************************)
OneBumpPerChange ==
    [][\A t \in Txn : txn.row[t] # Missing /\ txn'.row[t] # txn.row[t] =>
         /\ txn'.row[t] # Missing
         /\ txn'.row[t].version = txn.row[t].version + 1]_vars

(***************************************************************************)
(* A batch that becomes completed has counted at least one transaction,    *)
(* also when its members are moved or deleted while complete runs.         *)
(***************************************************************************)
CompletesSomething ==
    [][\A r \in Recon : Completed(recon'.row[r]) /\ ~ Completed(recon.row[r])
                         => CountedIn(r)' # {}]_vars

(***************************************************************************)
(* A completed batch holds exactly the transactions its completion         *)
(* counted, so that its difference_cents is the one the user confirmed.    *)
(***************************************************************************)
NobodyJoinsCompleted ==
    \A r \in Recon : Completed(recon.row[r]) => Members(txn.row, r) = CountedIn(r)

(* No transaction in the ledger points to a deleted reconciliation.          *)
NoLinkToDeleted ==
    \A r \in Recon : Buried(recon.row[r]) => Members(txn.row, r) = {}

(* Only a draft is ever deleted; a completed batch must be reverted first.   *)
CompletedIsNeverDeleted ==
    \A r \in Recon : ~ (Buried(recon.row[r]) /\ Completed(recon.row[r]))

(***************************************************************************)
(* The balances and dates of a completed reconciliation do not change      *)
(* while it stays completed.                                               *)
(***************************************************************************)
CompletedRangeIsFixed ==
    [][\A r \in Recon : Completed(recon.row[r]) /\ Completed(recon'.row[r]) =>
         recon'.row[r].balance = recon.row[r].balance]_vars

(* Every request ends, although sessions wait for each other's rows.         *)
EveryRequestEnds == \A s \in Session : pc[s] # "idle" ~> pc[s] = "idle"
=============================================================================
