----------------------------- MODULE Idempotency -----------------------------
(***************************************************************************)
(* app/helpers/idempotency.py: run_idempotent, the only transaction        *)
(* boundary of the engine's write path.  Every attempt takes a connection  *)
(* of the pool, opens a transaction, takes the advisory lock of its key,   *)
(* reads the key's row, runs the write, stores the response and commits.   *)
(* The steps of different attempts interleave; an attempt may fail or lose *)
(* its connection at any of them.                                          *)
(***************************************************************************)
EXTENDS Naturals, FiniteSets

CONSTANTS
    Attempt, Key, Fingerprint, Secret, Nobody, Legacy,
    LockId,    \* the values of _lock_id
    LockOf,    \* LockOf[k]: the advisory lock of key k; may collide
    PoolSize   \* max_size of the connection pool

NoKey == "no key"

ASSUME AttemptAssumption == Nobody \notin Attempt /\ Legacy \notin Attempt
                            /\ Nobody # Legacy
ASSUME KeyAssumption == NoKey \notin Key
ASSUME FingerprintAssumption == Secret \subseteq Fingerprint
                                /\ Nobody \notin Fingerprint
ASSUME LockAssumption == LockOf \in [Key -> LockId]
ASSUME PoolAssumption == PoolSize \in Nat \ {0}

VARIABLES
    pc,       \* pc[a]: where a is in run_idempotent
    request,  \* request[a]: key and fingerprint of the HTTP request
    keys,     \* the committed rows of idempotency_keys
    pending,  \* pending[a]: the key row a has inserted and not committed
    lock,     \* lock[l]: the transaction that holds advisory lock l
    written,  \* the attempts whose work is committed
    reply,    \* reply[a]: what run_idempotent returns or raises
    answer    \* answer[a]: what reached the client

vars == <<pc, request, keys, pending, lock, written, reply, answer>>

(***************************************************************************)
(* A row of idempotency_keys.  A response body is identified by the        *)
(* attempt whose work produced it; body Nobody is the JSON null stored for *)
(* a one-time secret, and fp Nobody is request_hash = ''.                  *)
(***************************************************************************)
KeyRow == [by   : Attempt \cup {Legacy},
           fp   : Fingerprint \cup {Nobody},
           body : Attempt \cup {Legacy, Nobody}]
NoRow == [by |-> Nobody, fp |-> Nobody, body |-> Nobody]
LegacyRow == [by |-> Legacy, fp |-> Nobody, body |-> Legacy]

NoRequest == [key |-> NoKey, fp |-> Nobody]
Answer == [kind : {"pending", "refused", "failed"}, of : {Nobody}]
            \cup [kind : {"fresh", "replay"}, of : Attempt \cup {Legacy}]
Pending == [kind |-> "pending", of |-> Nobody]
Failed == [kind |-> "failed", of |-> Nobody]
Refused == [kind |-> "refused", of |-> Nobody]

(* The attempts that hold a connection of the pool. *)
InTransaction == {"lock", "select", "work", "store", "commit"}
Connected == {a \in Attempt : pc[a] \in InTransaction}

Init == /\ pc = [a \in Attempt |-> "unsent"]
        /\ request = [a \in Attempt |-> NoRequest]
        /\ keys \in [Key -> {NoRow, LegacyRow}]
        /\ pending = [a \in Attempt |-> NoRow]
        /\ lock = [l \in LockId |-> Nobody]
        /\ written = {}
        /\ reply = [a \in Attempt |-> Pending]
        /\ answer = [a \in Attempt |-> Pending]

(* The request arrives; capture_request_fingerprint hashes it. *)
Arrive(a) ==
    /\ pc[a] = "unsent"
    /\ \E k \in Key \cup {NoKey}, f \in Fingerprint :
         request' = [request EXCEPT ![a] = [key |-> k, fp |-> f]]
    /\ pc' = [pc EXCEPT ![a] = "pool"]
    /\ UNCHANGED <<keys, pending, lock, written, reply, answer>>

(* db.pool.acquire() and conn.transaction(); without a key there is no claim. *)
Connect(a) ==
    /\ pc[a] = "pool"
    /\ Cardinality(Connected) < PoolSize
    /\ pc' = [pc EXCEPT ![a] = IF request[a].key = NoKey THEN "work" ELSE "lock"]
    /\ UNCHANGED <<request, keys, pending, lock, written, reply, answer>>

\* Mutant: the two attempts do not wait for each other.
NoWait(a) == TRUE

LockFree(a) == lock[LockOf[request[a].key]] = Nobody

(* SELECT pg_advisory_xact_lock: waits while another transaction holds it. *)
Lock(a) ==
    /\ pc[a] = "lock"
    /\ LockFree(a)
    /\ lock' = [lock EXCEPT ![LockOf[request[a].key]] = a]
    /\ pc' = [pc EXCEPT ![a] = "select"]
    /\ UNCHANGED <<request, keys, pending, written, reply, answer>>

\* Mutants: the fingerprint is not compared; the stored null is served.
NoMismatch(row, fp) == FALSE
ClaimedUnchecked(row) == [kind |-> "replay", of |-> row.body]

(* What _claim decides on the row it reads. *)
Mismatch(row, fp) == row.fp # Nobody /\ row.fp # fp
Claimed(row) == IF row.body = Nobody THEN Refused
                ELSE [kind |-> "replay", of |-> row.body]

(* The row exists: replay it, or 409 on a mismatch or a stored null. *)
Replay(a) ==
    /\ pc[a] = "select"
    /\ LET row == keys[request[a].key] IN
         /\ row # NoRow
         /\ reply' = [reply EXCEPT ![a] =
                        IF Mismatch(row, request[a].fp) THEN Refused ELSE Claimed(row)]
    /\ pc' = [pc EXCEPT ![a] = "commit"]
    /\ UNCHANGED <<request, keys, pending, lock, written, answer>>

(* No row: this attempt performs the write. *)
Claim(a) ==
    /\ pc[a] = "select"
    /\ keys[request[a].key] = NoRow
    /\ pc' = [pc EXCEPT ![a] = "work"]
    /\ UNCHANGED <<request, keys, pending, lock, written, reply, answer>>

(* work(conn) succeeds; its statements stay uncommitted. *)
Work(a) ==
    /\ pc[a] = "work"
    /\ reply' = [reply EXCEPT ![a] = [kind |-> "fresh", of |-> a]]
    /\ pc' = [pc EXCEPT ![a] = IF request[a].key = NoKey THEN "commit" ELSE "store"]
    /\ UNCHANGED <<request, keys, pending, lock, written, answer>>

\* Mutants: the secret is stored; a secret response claims no key.
SnapshotOfAll(a) == a
RowUnlessSecret(a) == IF request[a].fp \in Secret THEN NoRow
                      ELSE [by |-> a, fp |-> request[a].fp, body |-> a]

(* The row that a stores: null for a one-time secret (store_snapshot=False). *)
Snapshot(a) == IF request[a].fp \in Secret THEN Nobody ELSE a
RowOf(a) == [by |-> a, fp |-> request[a].fp, body |-> Snapshot(a)]

(***************************************************************************)
(* _store: INSERT ... ON CONFLICT DO NOTHING.  It waits for another        *)
(* transaction's uncommitted row of the same key and does nothing when a   *)
(* committed one is there.                                                 *)
(***************************************************************************)
Store(a) ==
    LET k == request[a].key IN
    /\ pc[a] = "store"
    /\ \A b \in Attempt \ {a} : pending[b] # NoRow => request[b].key # k
    /\ pending' = [pending EXCEPT ![a] =
                     IF keys[k] # NoRow THEN NoRow ELSE RowOf(a)]
    /\ pc' = [pc EXCEPT ![a] = "commit"]
    /\ UNCHANGED <<request, keys, lock, written, reply, answer>>

\* Mutant: a session-level lock, which outlives the transaction.
StillLocked(a) == lock

(* The end of the transaction of a: its advisory lock goes with it. *)
Unlocked(a) == [l \in LockId |-> IF lock[l] = a THEN Nobody ELSE lock[l]]

(* COMMIT publishes the write and the key row together. *)
Commit(a) ==
    /\ pc[a] = "commit"
    /\ keys' = IF pending[a] = NoRow THEN keys
               ELSE [keys EXCEPT ![request[a].key] = pending[a]]
    /\ written' = IF reply[a].kind = "fresh" THEN written \cup {a} ELSE written
    /\ pending' = [pending EXCEPT ![a] = NoRow]
    /\ lock' = Unlocked(a)
    /\ pc' = [pc EXCEPT ![a] = "respond"]
    /\ UNCHANGED <<request, reply, answer>>

(* The response is sent after the transaction has ended. *)
Respond(a) ==
    /\ pc[a] = "respond"
    /\ answer' = [answer EXCEPT ![a] = reply[a]]
    /\ pc' = [pc EXCEPT ![a] = "done"]
    /\ UNCHANGED <<request, keys, pending, lock, written, reply>>

(***************************************************************************)
(* The attempt fails: work raises, a statement exceeds command_timeout,    *)
(* the process stops, or the client's connection drops.  Before COMMIT the *)
(* transaction rolls back; after it the write stands and only the answer   *)
(* is lost.                                                                *)
(***************************************************************************)
Fail(a) ==
    /\ pc[a] \notin {"unsent", "done"}
    /\ pending' = [pending EXCEPT ![a] = NoRow]
    /\ lock' = Unlocked(a)
    /\ answer' = [answer EXCEPT ![a] = Failed]
    /\ pc' = [pc EXCEPT ![a] = "done"]
    /\ UNCHANGED <<request, keys, written, reply>>

Step(a) == \/ Connect(a) \/ Lock(a) \/ Replay(a) \/ Claim(a) \/ Work(a)
           \/ Store(a) \/ Commit(a) \/ Respond(a)

Next == \E a \in Attempt : Arrive(a) \/ Step(a) \/ Fail(a)

(* The event loop and the database keep serving an attempt that can move. *)
Fairness == \A a \in Attempt : WF_vars(Step(a))

Spec == Init /\ [][Next]_vars /\ Fairness

-----------------------------------------------------------------------------

TypeOK == /\ pc \in [Attempt -> {"unsent", "pool", "respond", "done"} \cup InTransaction]
          /\ request \in [Attempt -> [key : Key \cup {NoKey},
                                      fp : Fingerprint \cup {Nobody}]]
          /\ keys \in [Key -> KeyRow \cup {NoRow}]
          /\ pending \in [Attempt -> KeyRow \cup {NoRow}]
          /\ lock \in [LockId -> Attempt \cup {Nobody}]
          /\ written \subseteq Attempt
          /\ reply \in [Attempt -> Answer]
          /\ answer \in [Attempt -> Answer]

(***************************************************************************)
(* Two attempts with one key never both commit their work, however their   *)
(* steps interleave and whichever of them fail and are retried: the module *)
(* docstring's "No double writes possible, no race window".                *)
(***************************************************************************)
AtMostOnce ==
    \A a, b \in written : request[a].key = request[b].key /\ a # b
                            => request[a].key = NoKey

(***************************************************************************)
(* The key is claimed exactly when its write is in the database: a write   *)
(* without its key would be repeated by a retry, a key without its write   *)
(* would swallow the retry.                                                *)
(***************************************************************************)
ClaimedIffWritten ==
    /\ \A a \in written : request[a].key # NoKey => keys[request[a].key].by = a
    /\ \A k \in Key : keys[k].by \in Attempt => /\ keys[k].by \in written
                                                /\ request[keys[k].by].key = k

(***************************************************************************)
(* A client is only ever told of a write that is in the database: a fresh  *)
(* answer of its own one, a replay of the one write of its key, made by    *)
(* the same request and not carrying a one-time secret.                    *)
(***************************************************************************)
AnswersAreTrue ==
    \A a \in Attempt : LET w == answer[a].of IN
      /\ answer[a].kind = "fresh" => w = a /\ a \in written
      /\ answer[a].kind = "replay" =>
           /\ a \notin written
           /\ keys[request[a].key].by = w
           /\ w # Legacy => /\ w \in written
                            /\ request[w].fp = request[a].fp
                            /\ request[w].fp \notin Secret

(***************************************************************************)
(* Every request is answered: an attempt waits for a connection and for    *)
(* its key's lock, never for ever, because the one it waits for holds all  *)
(* it needs to finish.                                                     *)
(***************************************************************************)
EveryRequestEnds == \A a \in Attempt : pc[a] = "pool" ~> pc[a] = "done"

(* The winner of a key is the attempt that inserted its row. *)
Promise == INSTANCE ExactlyOnce WITH winner <- [k \in Key |-> keys[k].by]

(* run_idempotent implements the promise the clients rely on. *)
ImplementsExactlyOnce == Promise!Spec
=============================================================================
