--------------------------- MODULE MCReferenceData ---------------------------
(* ReferenceData on a small instance: an account, two categories, one or two *)
(* transactions and a draft, a name and the reserved one.                    *)
EXTENDS ReferenceData, TLC

CONSTANTS s1, s2, a1, c1, c2, h1, t1, t2, d1, food, opening, cash

MCSession == {s1, s2}
MCOneSession == {s1}
MCAccount == {a1}
MCNobody == {}
MCCategory == {c1, c2}
MCOneTxn == {t1}
MCTxn == {t1, t2}
MCDraft == {d1}
MCNoDraft == {}
MCAccountName == {cash}
MCName == {food, opening}
MCSpare == {c2}
MCSpareDraft == {c2, d1}

(* A batch of one runs the statements of create_transaction.                 *)
NoSingle == Operation \ {"create_transaction"}

Symmetry == Permutations(Session)
=============================================================================
