---------------------------- MODULE MCIdempotency ----------------------------
(* Idempotency on a small instance: a retry, a key reused for another       *)
(* request, a one-time secret, a row without fingerprint, and a pool smaller *)
(* than the number of attempts.                                              *)
EXTENDS Idempotency, TLC

CONSTANTS a1, a2, a3, k1, f1, f2, l1

MCAttempt == {a1, a2, a3}
MCKey == {k1}
MCFingerprint == {f1, f2}
MCSecret == {f2}
MCLockId == {l1}
MCLockOf == [k \in Key |-> l1]
=============================================================================
