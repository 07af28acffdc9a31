-------------------------------- MODULE Table --------------------------------
(***************************************************************************)
(* A PostgreSQL table as the engine uses it: READ COMMITTED transactions,  *)
(* row locks taken by SELECT ... FOR UPDATE, UPDATE and INSERT and held to *)
(* the end of the transaction, writes invisible to others until COMMIT.    *)
(* The operators below have no state of their own: a module keeps a table  *)
(* in a variable and applies them to it.                                   *)
(***************************************************************************)
CONSTANTS Session,  \* the transactions that may be open at one time
          Nobody    \* "no session"

ASSUME SessionAssumption == Nobody \notin Session

(***************************************************************************)
(* T.row is the committed table, T.lock[i] the session that has row i      *)
(* locked and T.latest[i] what row i becomes if that session commits.      *)
(***************************************************************************)
Tables(Id, Row) == [row    : [Id -> Row],
                    latest : [Id -> Row],
                    lock   : [Id -> Session \cup {Nobody}]]

(* An unlocked row has no uncommitted version. *)
Settled(T, Id) == \A i \in Id : T.lock[i] = Nobody => T.latest[i] = T.row[i]

(* The table at rest. *)
AtRest(rows, Id) == [row |-> rows, latest |-> rows, lock |-> [i \in Id |-> Nobody]]

(* What a statement of s reads: committed rows and its own writes. *)
Visible(T, s, i) == IF T.lock[i] = s THEN T.latest[i] ELSE T.row[i]

(* A statement of s that needs the lock of row i does not wait. *)
Free(T, s, i) == T.lock[i] \in {Nobody, s}

(* SELECT ... FOR UPDATE of row i. *)
LockRow(T, s, i) == [row |-> T.row, latest |-> T.latest,
                     lock |-> [T.lock EXCEPT ![i] = s]]

(* UPDATE or INSERT of row i, which also locks it. *)
WriteRow(T, s, i, v) == [row |-> T.row, latest |-> [T.latest EXCEPT ![i] = v],
                         lock |-> [T.lock EXCEPT ![i] = s]]

Unlocked(T, s, Id) == [i \in Id |-> IF T.lock[i] = s THEN Nobody ELSE T.lock[i]]

(* COMMIT and ROLLBACK of s. *)
Commit(T, s, Id) == [row    |-> [i \in Id |-> Visible(T, s, i)],
                     latest |-> T.latest,
                     lock   |-> Unlocked(T, s, Id)]
Rollback(T, s, Id) ==
    [row    |-> T.row,
     latest |-> [i \in Id |-> IF T.lock[i] = s THEN T.row[i] ELSE T.latest[i]],
     lock   |-> Unlocked(T, s, Id)]

(* The rows s has locked. *)
LockedBy(T, s, Id) == {i \in Id : T.lock[i] = s}
=============================================================================
