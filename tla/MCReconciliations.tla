-------------------------- MODULE MCReconciliations --------------------------
(* Reconciliations on small instances: two transactions, one or two          *)
(* reconciliations, one or two sessions, a few requests from every           *)
(* consistent ledger.                                                        *)
EXTENDS Reconciliations, TLC

CONSTANTS s1, s2, t1, t2, r1, r2, acc1, x, y

MCSession == {s1, s2}
MCOneSession == {s1}
MCTxn == {t1, t2}
MCRecon == {r1, r2}
MCOneRecon == {r1}
MCOneAccount == {acc1}
MCAmount == {x, y}
MCOneAmount == {x}

(* An INSERT waits for nobody; an edit of a batch waits as a revert does.     *)
MCWaiting ==
    Operation \ {"create_transaction", "create_reconciliation", "update_reconciliation"}

(* Every row is there from the start, deleted or not. *)
MCInit == /\ Init
          /\ \A t \in Txn : txn.row[t] # Missing
          /\ \A r \in Recon : recon.row[r] # Missing
MCSpec == MCInit /\ [][Next]_vars /\ Fairness

Symmetry == Permutations(Session) \cup Permutations(Txn)
              \cup Permutations(Recon) \cup Permutations(Amount)
=============================================================================
