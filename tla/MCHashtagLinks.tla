--------------------------- MODULE MCHashtagLinks ---------------------------
(* HashtagLinks on small instances: one or two transactions, a draft, one    *)
(* or two hashtags, one or two sessions.                                     *)
EXTENDS HashtagLinks, TLC

CONSTANTS s1, s2, t1, t2, d1, h1, h2

MCSession == {s1, s2}
MCOneSession == {s1}
MCTxn == {t1, t2}
MCOneTxn == {t1}
MCDraft == {d1}
MCTag == {h1, h2}
MCOneTag == {h1}

NoRestore == Operation \ {"restore_transaction"}

Symmetry == Permutations(Session) \cup Permutations(Txn) \cup Permutations(Tag)
=============================================================================
