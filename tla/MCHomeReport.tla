---------------------------- MODULE MCHomeReport ----------------------------
(* HomeReport on ledgers of up to two rows.  A day lasts two instants and    *)
(* starts one after its UTC day, so instant 4 is the end of local day 1 but  *)
(* the start of UTC day 2; months last a day.  Amounts of 5 at 1.3 and 1.7   *)
(* fall on the half, 6.5 and 8.5.                                            *)
EXTENDS HomeReport, TLC

CONSTANTS t1, t2, usd, pen, food, rent, h

MCTxn == {t1, t2}
MCAccount == {usd, pen}
MCDollars == {usd}
MCCategory == {food, rent}
MCTag == {h}
MCInstant == {4, 5, 7}
MCRow == {r \in [account : Account, instant : Instant, amount : {5},
                 inflow : BOOLEAN, category : Category \cup {Opening},
                 tags : SUBSET Tag] :
            /\ r.tags # {} => r.category = food
            /\ r.account = pen => r.instant = 4 /\ r.category = food /\ r.tags = {}}
MCOffset == -1
MCDay == 1 .. 2
MCRate == {13, 17}
MCSeeds == {[d \in Day |-> NoRate], [d \in Day |-> IF d = 1 THEN 13 ELSE NoRate],
            [d \in Day |-> IF d = 1 THEN 17 ELSE 13]}

MCScenes == {"writes", "time"}

\* Bound: the clock and the jobs run around dashboards of few rows.
MCInit ==
    /\ Init
    /\ scene = "time" =>
         /\ dropped = {}
         /\ \A t \in Txn : ledger[t] # NoRow =>
              ledger[t].category = food /\ ledger[t].tags = {} /\ ledger[t].inflow

MCSpec == MCInit /\ [][Next]_vars

Symmetry == Permutations(Txn)
=============================================================================
