----------------------------- MODULE TableProofs -----------------------------
(***************************************************************************)
(* What the statements on a table do to it: they keep its type, leave      *)
(* alone the rows other sessions have locked, and leave no uncommitted     *)
(* version on an unlocked row.                                             *)
(***************************************************************************)
EXTENDS Table, TLAPS

(* U is T after statements of s on rows that were free for it. *)
FrameOf(T, U, s, Id) ==
    \A i \in Id :
        IF T.lock[i] \in {Nobody, s} THEN U.lock[i] \in {Nobody, s}
        ELSE /\ U.lock[i] = T.lock[i]
             /\ U.latest[i] = T.latest[i]
             /\ U.row[i] = T.row[i]

LEMMA LockFacts ==
  ASSUME NEW Id, NEW Row, NEW T \in Tables(Id, Row), NEW s \in Session, NEW i \in Id,
         Free(T, s, i), Settled(T, Id)
  PROVE  LET U == LockRow(T, s, i) IN
         /\ U \in Tables(Id, Row) /\ Settled(U, Id) /\ FrameOf(T, U, s, Id)
         /\ U.row = T.row /\ U.latest = T.latest
         /\ \A j \in Id : U.lock[j] = IF j = i THEN s ELSE T.lock[j]
  BY SessionAssumption DEF Tables, Settled, FrameOf, Free, LockRow

LEMMA WriteFacts ==
  ASSUME NEW Id, NEW Row, NEW T \in Tables(Id, Row), NEW s \in Session, NEW i \in Id,
         NEW v \in Row, Free(T, s, i), Settled(T, Id)
  PROVE  LET U == WriteRow(T, s, i, v) IN
         /\ U \in Tables(Id, Row) /\ Settled(U, Id) /\ FrameOf(T, U, s, Id)
         /\ U.row = T.row
         /\ \A j \in Id : /\ U.latest[j] = IF j = i THEN v ELSE T.latest[j]
                          /\ U.lock[j] = IF j = i THEN s ELSE T.lock[j]
  BY SessionAssumption DEF Tables, Settled, FrameOf, Free, WriteRow

LEMMA CommitFacts ==
  ASSUME NEW Id, NEW Row, NEW T \in Tables(Id, Row), NEW s \in Session, Settled(T, Id)
  PROVE  LET U == Commit(T, s, Id) IN
         /\ U \in Tables(Id, Row) /\ Settled(U, Id) /\ FrameOf(T, U, s, Id)
         /\ U.latest = T.latest
         /\ \A j \in Id : /\ U.row[j] = Visible(T, s, j)
                          /\ U.lock[j] = IF T.lock[j] = s THEN Nobody ELSE T.lock[j]
  BY SessionAssumption DEF Tables, Settled, FrameOf, Commit, Visible, Unlocked

LEMMA RollbackFacts ==
  ASSUME NEW Id, NEW Row, NEW T \in Tables(Id, Row), NEW s \in Session, Settled(T, Id)
  PROVE  LET U == Rollback(T, s, Id) IN
         /\ U \in Tables(Id, Row) /\ Settled(U, Id) /\ FrameOf(T, U, s, Id)
         /\ U.row = T.row
         /\ \A j \in Id : U.lock[j] = IF T.lock[j] = s THEN Nobody ELSE T.lock[j]
  BY SessionAssumption DEF Tables, Settled, FrameOf, Rollback, Unlocked

(* A handler whose last write and commit are one step. *)
LEMMA WriteCommitFacts ==
  ASSUME NEW Id, NEW Row, NEW T \in Tables(Id, Row), NEW s \in Session, NEW i \in Id,
         NEW v \in Row, Free(T, s, i), Settled(T, Id)
  PROVE  LET U == Commit(WriteRow(T, s, i, v), s, Id) IN
         /\ U \in Tables(Id, Row) /\ Settled(U, Id) /\ FrameOf(T, U, s, Id)
         /\ \A j \in Id : /\ U.row[j] = IF j = i THEN v ELSE Visible(T, s, j)
                          /\ U.lock[j] # s
  BY SessionAssumption
     DEF Tables, Settled, FrameOf, Free, WriteRow, Commit, Visible, Unlocked
=============================================================================
