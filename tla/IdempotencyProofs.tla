-------------------------- MODULE IdempotencyProofs --------------------------
(***************************************************************************)
(* Idempotency proved for any number of attempts, keys and connections and *)
(* any collisions of the advisory lock ids: a key's write happens at most  *)
(* once, key and write are atomic, and run_idempotent implements           *)
(* ExactlyOnce.                                                            *)
(***************************************************************************)
EXTENDS Idempotency, TLAPS

(* The steps of an attempt that holds the lock of its key. *)
Critical == {"select", "work", "store", "commit"}

Keyed(a) == request[a].key \in Key

(* Whoever is past the lock holds it until its transaction ends. *)
LockHeld == \A a \in Attempt : pc[a] \in Critical /\ Keyed(a)
                                 => lock[LockOf[request[a].key]] = a

(* Only an attempt with a key takes the steps of the claim. *)
ClaimIsKeyed == \A a \in Attempt : /\ pc[a] \in {"lock", "select", "store"} => Keyed(a)
                                   /\ pc[a] = "unsent" => request[a] = NoRequest
                                   /\ pc[a] # "unsent" => request[a].fp \in Fingerprint

(* A row of the key table is the row of an attempt that wrote, or older. *)
RowsAreTrue ==
    \A k \in Key : \/ keys[k] \in {NoRow, LegacyRow}
                   \/ \E a \in written : request[a].key = k /\ keys[k] = RowOf(a)

(* A write is committed together with the row of its key. *)
WritesAreClaimed ==
    \A a \in written : /\ pc[a] \in {"respond", "done"}
                       /\ Keyed(a) => keys[request[a].key] = RowOf(a)

(* Between claim and commit the key of an attempt stays free. *)
ClaimStands ==
    \A a \in Attempt :
      /\ pc[a] \in {"work", "store"} /\ Keyed(a) => keys[request[a].key] = NoRow
      /\ pc[a] = "commit" /\ reply[a].kind = "fresh" /\ Keyed(a) =>
           keys[request[a].key] = NoRow /\ pending[a] = RowOf(a)
      /\ pending[a] # NoRow => pc[a] = "commit" /\ reply[a].kind = "fresh" /\ Keyed(a)

(* What an attempt is about to answer is true of the database. *)
ReplyFits(a) ==
    \/ /\ reply[a] = [kind |-> "fresh", of |-> a]
       /\ pc[a] = "respond" => a \in written
    \/ /\ Keyed(a) /\ a \notin written
       /\ keys[request[a].key] # NoRow
       /\ \/ reply[a] = Refused
          \/ /\ reply[a] = [kind |-> "replay", of |-> keys[request[a].key].by]
             /\ \/ keys[request[a].key] = LegacyRow
                \/ /\ keys[request[a].key].fp = request[a].fp
                   /\ request[a].fp \notin Secret

ReplyStands(a) ==
    /\ pc[a] \in {"store", "commit", "respond"} => ReplyFits(a)
    /\ pc[a] = "store" => reply[a].kind = "fresh"
    /\ pc[a] # "done" => answer[a] = Pending
    /\ answer[a] \notin {Pending, Failed} =>
         /\ ReplyFits(a) /\ answer[a] = reply[a]
         /\ reply[a].kind = "fresh" => a \in written

RepliesFit == \A a \in Attempt : ReplyStands(a)

IInv == /\ TypeOK /\ LockHeld /\ ClaimIsKeyed /\ RowsAreTrue
        /\ WritesAreClaimed /\ ClaimStands /\ RepliesFit


-----------------------------------------------------------------------------

(* Types, and that only attempts with a key reach the statements on keys.    *)
LEMMA Typing == Spec => [](TypeOK /\ ClaimIsKeyed)
<1> USE AttemptAssumption, KeyAssumption, FingerprintAssumption, LockAssumption
<1> DEFINE T == TypeOK /\ ClaimIsKeyed
<1>1. Init => T
  BY DEF Init, TypeOK, ClaimIsKeyed, InTransaction, KeyRow, LegacyRow, NoRow, NoRequest,
         Answer, Pending
<1>2. T /\ [Next]_vars => T'
  <2> SUFFICES ASSUME TypeOK, ClaimIsKeyed, [Next]_vars PROVE T'
    OBVIOUS
  <2> USE DEF TypeOK, InTransaction, ClaimIsKeyed, Keyed
  <2>1. ASSUME NEW a \in Attempt, Arrive(a) PROVE T'
    BY <2>1 DEF Arrive
  <2>2. ASSUME NEW a \in Attempt, Connect(a) PROVE T'
    BY <2>2 DEF Connect
  <2>3. ASSUME NEW a \in Attempt, Lock(a) PROVE T'
    BY <2>3 DEF Lock
  <2>4. ASSUME NEW a \in Attempt, Replay(a) PROVE T'
    <3>1. keys[request[a].key] \in KeyRow \cup {NoRow}
      BY <2>4 DEF Replay
    <3>2. (IF Mismatch(keys[request[a].key], request[a].fp) THEN Refused
           ELSE Claimed(keys[request[a].key])) \in Answer
      BY <2>4, <3>1 DEF Replay, Claimed, Refused, Answer, KeyRow, NoRow
    <3>3. QED
      BY <2>4, <3>2 DEF Replay
  <2>5. ASSUME NEW a \in Attempt, Claim(a) PROVE T'
    BY <2>5 DEF Claim
  <2>6. ASSUME NEW a \in Attempt, Work(a) PROVE T'
    BY <2>6 DEF Work, Answer
  <2>7. ASSUME NEW a \in Attempt, Store(a) PROVE T'
    BY <2>7 DEF Store, RowOf, Snapshot, KeyRow
  <2>8. ASSUME NEW a \in Attempt, Commit(a) PROVE T'
    BY <2>8 DEF Commit, Unlocked
  <2>9. ASSUME NEW a \in Attempt, Respond(a) PROVE T'
    BY <2>9 DEF Respond
  <2>10. ASSUME NEW a \in Attempt, Fail(a) PROVE T'
    BY <2>10 DEF Fail, Unlocked, Failed, Answer
  <2>11. CASE UNCHANGED vars
    BY <2>11 DEF vars
  <2>12. QED
    BY <2>1, <2>2, <2>3, <2>4, <2>5, <2>6, <2>7, <2>8, <2>9, <2>10, <2>11 DEF Next, Step
<1>3. QED
  BY <1>1, <1>2, PTL DEF Spec

(* Every variable of run_idempotent keeps its type. *)
THEOREM TypeCorrect == Spec => []TypeOK
  BY Typing, PTL

-----------------------------------------------------------------------------

(* The row an attempt inserts is told from "no row" by its author. *)
LEMMA RowOfIsRow ==
  ASSUME NEW a \in Attempt PROVE RowOf(a) # NoRow /\ RowOf(a).by = a
  BY AttemptAssumption DEF RowOf, NoRow

(* The lock of a key has one holder, so one attempt at a time is past it. *)
LEMMA OneHolder ==
  ASSUME LockHeld, NEW a \in Attempt, NEW b \in Attempt,
         pc[a] \in Critical, pc[b] \in Critical, Keyed(a), request[a].key = request[b].key
  PROVE  a = b
  BY DEF LockHeld, Keyed

LEMMA LockHeldStep ==
  ASSUME TypeOK, ClaimIsKeyed, LockHeld, [Next]_vars PROVE LockHeld'
<1> USE AttemptAssumption, KeyAssumption, LockAssumption
    DEF TypeOK, InTransaction, ClaimIsKeyed, LockHeld, Keyed, Critical
<1>1. ASSUME NEW a \in Attempt, Arrive(a) PROVE LockHeld'
  BY <1>1 DEF Arrive
<1>2. ASSUME NEW a \in Attempt, Connect(a) PROVE LockHeld'
  BY <1>2 DEF Connect
<1>3. ASSUME NEW a \in Attempt, Lock(a) PROVE LockHeld'
  BY <1>3 DEF Lock, LockFree
<1>4. ASSUME NEW a \in Attempt, Replay(a) \/ Claim(a) \/ Work(a) \/ Store(a) PROVE LockHeld'
  BY <1>4 DEF Replay, Claim, Work, Store
<1>5. ASSUME NEW a \in Attempt, Commit(a) \/ Respond(a) \/ Fail(a) PROVE LockHeld'
  BY <1>5 DEF Commit, Respond, Fail, Unlocked
<1>6. CASE UNCHANGED vars
  BY <1>6 DEF vars
<1>7. QED
  BY <1>1, <1>2, <1>3, <1>4, <1>5, <1>6 DEF Next, Step

(* What the steps below leave unchanged: the requests already sent.          *)
LEMMA RequestsStand ==
  ASSUME TypeOK, ClaimIsKeyed, NEW a \in Attempt, [Next]_vars, pc[a] # "unsent"
  PROVE  /\ request'[a] = request[a]
         /\ RowOf(a)' = RowOf(a)
         /\ Keyed(a)' = Keyed(a)
<1>1. request'[a] = request[a]
  BY DEF TypeOK, Next, Step, Arrive, Connect, Lock, Replay, Claim, Work, Store, Commit,
         Respond, Fail, vars
<1>2. QED
  BY <1>1 DEF RowOf, Snapshot, Keyed

(* A committed row stands: only an attempt whose key is free inserts one.    *)
LEMMA KeysArePermanent ==
  ASSUME IInv, [Next]_vars, NEW k \in Key, keys[k] # NoRow
  PROVE  keys'[k] = keys[k]
<1> USE DEF IInv, TypeOK
<1>1. ASSUME NEW a \in Attempt, Commit(a) PROVE keys'[k] = keys[k]
  BY <1>1 DEF Commit, ClaimStands, Keyed
<1>2. QED
  BY <1>1 DEF Next, Step, Arrive, Connect, Lock, Replay, Claim, Work, Store,
              Respond, Fail, vars

LEMMA ClaimStandsStep ==
  ASSUME IInv, [Next]_vars PROVE ClaimStands'
<1> USE AttemptAssumption, KeyAssumption
    DEF IInv, TypeOK, InTransaction, ClaimStands, Keyed
<1>1. ASSUME NEW b \in Attempt, Arrive(b) PROVE ClaimStands'
  BY <1>1 DEF Arrive, RowOf, Snapshot
<1>2. ASSUME NEW b \in Attempt, Connect(b) \/ Lock(b) PROVE ClaimStands'
  BY <1>2 DEF Connect, Lock, RowOf, Snapshot, NoRequest
<1>3. ASSUME NEW b \in Attempt, Replay(b) PROVE ClaimStands'
  BY <1>3 DEF Replay, RowOf, Snapshot, Claimed, Refused
<1>4. ASSUME NEW b \in Attempt, Claim(b) PROVE ClaimStands'
  BY <1>4 DEF Claim, RowOf, Snapshot
<1>5. ASSUME NEW b \in Attempt, Work(b) PROVE ClaimStands'
  BY <1>5 DEF Work, RowOf, Snapshot
<1>6. ASSUME NEW b \in Attempt, Store(b) PROVE ClaimStands'
  BY <1>6, RowOfIsRow DEF Store, RowOf, Snapshot, RepliesFit, ReplyStands, ClaimIsKeyed
<1>7. ASSUME NEW b \in Attempt, Commit(b) PROVE ClaimStands'
  <2>1. ASSUME NEW a \in Attempt, a # b, Keyed(a), pc[a] \in {"work", "store", "commit"},
               keys[request[a].key] = NoRow
        PROVE  keys'[request[a].key] = NoRow
    <3>1. CASE pending[b] = NoRow
      BY <3>1, <1>7, <2>1 DEF Commit
    <3>2. CASE pending[b] # NoRow
      <4>1. SUFFICES ASSUME request[a].key = request[b].key PROVE FALSE
        BY <3>2, <1>7, <2>1 DEF Commit
      <4>2. pc[a] \in Critical /\ pc[b] \in Critical
        BY <2>1, <1>7 DEF Commit, Critical
      <4>3. a = b
        BY <4>1, <4>2, <2>1, OneHolder
      <4>4. QED
        BY <4>3, <2>1
    <3>3. QED
      BY <3>1, <3>2
  <2>2. QED
    BY <1>7, <2>1 DEF Commit, RowOf, Snapshot
<1>8. ASSUME NEW b \in Attempt, Respond(b) \/ Fail(b) PROVE ClaimStands'
  BY <1>8 DEF Respond, Fail, RowOf, Snapshot
<1>9. CASE UNCHANGED vars
  BY <1>9 DEF vars, RowOf, Snapshot
<1>10. QED
  BY <1>1, <1>2, <1>3, <1>4, <1>5, <1>6, <1>7, <1>8, <1>9 DEF Next, Step

LEMMA WritesAreClaimedStep ==
  ASSUME IInv, [Next]_vars PROVE WritesAreClaimed' /\ RowsAreTrue'
<1> USE AttemptAssumption, KeyAssumption DEF IInv, TypeOK, InTransaction
<1>1. ASSUME NEW b \in Attempt, Commit(b) PROVE WritesAreClaimed' /\ RowsAreTrue'
  <2>1. \A a \in Attempt : RowOf(a)' = RowOf(a) /\ Keyed(a)' = Keyed(a)
    BY <1>1 DEF Commit, RowOf, Snapshot, Keyed
  <2>2. WritesAreClaimed'
    <3> SUFFICES ASSUME NEW a \in Attempt, a \in written'
                 PROVE  /\ pc'[a] \in {"respond", "done"}
                        /\ Keyed(a) => keys'[request[a].key] = RowOf(a)
      BY <1>1, <2>1 DEF Commit, WritesAreClaimed
    <3>1. CASE a \in written
      BY <3>1, <1>1, KeysArePermanent, RowOfIsRow DEF Commit, WritesAreClaimed, Keyed
    <3>2. CASE a \notin written
      BY <3>2, <1>1, RowOfIsRow DEF Commit, ClaimStands, Keyed
    <3>3. QED
      BY <3>1, <3>2
  <2>3. RowsAreTrue'
    <3> SUFFICES ASSUME NEW k \in Key, keys'[k] \notin {NoRow, LegacyRow}
                 PROVE  \E a \in written' : request[a].key = k /\ keys'[k] = RowOf(a)
      BY <1>1, <2>1 DEF Commit, RowsAreTrue
    <3>1. CASE keys'[k] = keys[k]
      BY <3>1, <1>1 DEF Commit, RowsAreTrue
    <3>2. CASE keys'[k] # keys[k]
      <4>1. /\ pending[b] # NoRow
            /\ request[b].key = k
            /\ keys'[k] = pending[b]
        BY <3>2, <1>1 DEF Commit
      <4>2. b \in written' /\ pending[b] = RowOf(b)
        BY <4>1, <1>1 DEF Commit, ClaimStands
      <4>3. QED
        BY <4>1, <4>2
    <3>3. QED
      BY <3>1, <3>2
  <2>4. QED
    BY <2>2, <2>3
<1>2. ASSUME UNCHANGED <<keys, written>>,
             \A a \in written : pc'[a] \in {"respond", "done"}
      PROVE  WritesAreClaimed' /\ RowsAreTrue'
  <2>1. \A a \in written : request'[a] = request[a] /\ RowOf(a)' = RowOf(a)
                             /\ Keyed(a)' = Keyed(a)
    BY RequestsStand DEF WritesAreClaimed
  <2>2. QED
    BY <1>2, <2>1 DEF WritesAreClaimed, RowsAreTrue
<1>3. ASSUME ~ \E b \in Attempt : Commit(b)
      PROVE  /\ UNCHANGED <<keys, written>>
             /\ \A a \in written : pc'[a] \in {"respond", "done"}
  BY <1>3 DEF Next, Step, Arrive, Connect, Lock, Replay, Claim, Work, Store,
              Respond, Fail, vars, WritesAreClaimed
<1>4. QED
  BY <1>1, <1>2, <1>3

(* An attempt that does not move keeps its reply, which stays true.          *)
LEMMA ReplyKept ==
  ASSUME IInv, [Next]_vars, NEW a \in Attempt, pc[a] # "unsent", ReplyFits(a),
         reply'[a] = reply[a], pc'[a] = "respond" => pc[a] = "respond",
         a \in written' <=> a \in written
  PROVE  ReplyFits(a)'
<1>1. request'[a] = request[a]
  BY RequestsStand DEF IInv
<1>2. Keyed(a) /\ keys[request[a].key] # NoRow => keys'[request[a].key] = keys[request[a].key]
  BY KeysArePermanent DEF Keyed
<1>3. QED
  BY <1>1, <1>2 DEF ReplyFits, Keyed

LEMMA BystanderStands ==
  ASSUME IInv, [Next]_vars, NEW a \in Attempt, pc'[a] = pc[a], reply'[a] = reply[a],
         answer'[a] = answer[a], a \in written' <=> a \in written
  PROVE  ReplyStands(a)'
<1>1. CASE pc[a] = "unsent"
  BY <1>1 DEF IInv, RepliesFit, ReplyStands
<1>2. CASE pc[a] # "unsent"
  <2>1. ReplyFits(a) => ReplyFits(a)'
    BY <1>2, ReplyKept
  <2>2. QED
    BY <2>1 DEF IInv, RepliesFit, ReplyStands
<1>3. QED
  BY <1>1, <1>2

(* The reply of the attempt that moves, action by action. *)
LEMMA ActorStands ==
  ASSUME IInv, [Next]_vars, NEW a \in Attempt, Arrive(a) \/ Step(a) \/ Fail(a)
  PROVE  ReplyStands(a)'
<1> USE AttemptAssumption, KeyAssumption, FingerprintAssumption
    DEF IInv, TypeOK, InTransaction, RepliesFit
<1>1. CASE Arrive(a) \/ Connect(a) \/ Lock(a) \/ Claim(a)
  BY <1>1 DEF Arrive, Connect, Lock, Claim, ReplyStands
<1>2. CASE Replay(a)
  <2> DEFINE row == keys[request[a].key]
  <2>1. Keyed(a) /\ row # NoRow /\ a \notin written /\ request[a].fp \in Fingerprint
    BY <1>2 DEF Replay, ClaimIsKeyed, WritesAreClaimed
  <2>2. ~ Mismatch(row, request[a].fp) /\ row.body # Nobody =>
          /\ row.body = row.by
          /\ row # LegacyRow => row.fp = request[a].fp /\ request[a].fp \notin Secret
    <3>1. CASE row = LegacyRow
      BY <3>1 DEF LegacyRow
    <3>2. ASSUME NEW b \in written, request[b].key = request[a].key, row = RowOf(b)
          PROVE  ~ Mismatch(row, request[a].fp) /\ row.body # Nobody =>
                   /\ row.body = row.by
                   /\ row.fp = request[a].fp /\ request[a].fp \notin Secret
      <4>1. pc[b] # "unsent" /\ request[b].fp \in Fingerprint
        BY <3>2 DEF WritesAreClaimed, ClaimIsKeyed
      <4>2. QED
        BY <3>2, <4>1 DEF RowOf, Snapshot, Mismatch
    <3>3. QED
      BY <2>1, <3>1, <3>2 DEF RowsAreTrue, Keyed
  <2>3. ReplyFits(a)'
    <3>1. reply'[a] = Refused \/ ( /\ ~ Mismatch(row, request[a].fp) /\ row.body # Nobody
                                   /\ reply'[a] = [kind |-> "replay", of |-> row.body])
      BY <1>2 DEF Replay, Claimed
    <3>2. UNCHANGED <<request, keys, written>>
      BY <1>2 DEF Replay
    <3>3. QED
      BY <3>1, <3>2, <2>1, <2>2 DEF ReplyFits, Keyed
  <2>4. QED
    BY <1>2, <2>3 DEF Replay, ReplyStands, Pending, Failed
<1>3. CASE Work(a)
  BY <1>3 DEF Work, ReplyStands, ReplyFits
<1>4. CASE Store(a)
  <2>1. ReplyFits(a)'
    BY <1>4, ReplyKept DEF Store, ReplyStands
  <2>2. QED
    BY <1>4, <2>1 DEF Store, ReplyStands
<1>5. CASE Commit(a)
  <2>1. CASE reply[a].kind = "fresh"
    BY <1>5, <2>1 DEF Commit, ReplyStands, ReplyFits, Refused
  <2>2. CASE reply[a].kind # "fresh"
    <3>1. /\ Keyed(a) /\ a \notin written
          /\ keys[request[a].key] # NoRow
      BY <1>5, <2>2 DEF Commit, ReplyStands, ReplyFits
    <3>2. keys'[request[a].key] = keys[request[a].key]
      BY <3>1, KeysArePermanent DEF Keyed
    <3>3. QED
      BY <1>5, <2>2, <3>1, <3>2 DEF Commit, ReplyStands, ReplyFits, Keyed
  <2>3. QED
    BY <2>1, <2>2
<1>6. CASE Respond(a)
  <2>1. ReplyFits(a)'
    BY <1>6, ReplyKept DEF Respond, ReplyStands
  <2>2. QED
    BY <1>6, <2>1 DEF Respond, ReplyStands, ReplyFits, Refused
<1>7. CASE Fail(a)
  BY <1>7 DEF Fail, ReplyStands
<1>8. QED
  BY <1>1, <1>2, <1>3, <1>4, <1>5, <1>6, <1>7 DEF Step

LEMMA RepliesFitStep ==
  ASSUME IInv, [Next]_vars PROVE RepliesFit'
<1>1. ASSUME NEW a \in Attempt, NEW b \in Attempt \ {a}, Arrive(b) \/ Step(b) \/ Fail(b)
      PROVE  ReplyStands(a)'
  <2>1. /\ pc'[a] = pc[a] /\ reply'[a] = reply[a] /\ answer'[a] = answer[a]
        /\ a \in written' <=> a \in written
    BY <1>1 DEF IInv, TypeOK, Step, Arrive, Connect, Lock, Replay, Claim, Work, Store,
                Commit, Respond, Fail
  <2>2. QED
    BY <2>1, BystanderStands
<1>2. CASE UNCHANGED vars
  BY <1>2, BystanderStands DEF vars, RepliesFit
<1>3. QED
  BY <1>1, <1>2, ActorStands DEF Next, RepliesFit

(* The invariant that carries the three theorems below. *)
LEMMA Invariance == Spec => []IInv
<1>1. Init => LockHeld /\ RowsAreTrue /\ WritesAreClaimed /\ ClaimStands /\ RepliesFit
  BY DEF Init, LockHeld, RowsAreTrue, WritesAreClaimed, ClaimStands, RepliesFit,
         ReplyStands, Critical
<1>2. IInv /\ [Next]_vars /\ (TypeOK /\ ClaimIsKeyed)' => IInv'
  BY LockHeldStep, WritesAreClaimedStep, ClaimStandsStep, RepliesFitStep DEF IInv
<1>3. QED
  BY <1>1, <1>2, Typing, PTL DEF Spec, IInv

(***************************************************************************)
(* No key's work is committed twice, for any number of concurrent retries  *)
(* and any collisions of the lock ids.                                     *)
(***************************************************************************)
THEOREM NoDoubleWrite == Spec => []AtMostOnce
<1>1. IInv => AtMostOnce
  <2> SUFFICES ASSUME IInv, NEW a \in written, NEW b \in written,
                      request[a].key = request[b].key, a # b, request[a].key # NoKey
               PROVE  FALSE
    BY DEF AtMostOnce
  <2>1. Keyed(a) /\ Keyed(b) /\ a \in Attempt /\ b \in Attempt
    BY DEF IInv, TypeOK, Keyed
  <2>2. RowOf(a) = RowOf(b)
    BY <2>1 DEF IInv, WritesAreClaimed
  <2>3. QED
    BY <2>1, <2>2, RowOfIsRow
<1>2. QED
  BY <1>1, Invariance, PTL

(* A key is claimed exactly when its write is in the database.               *)
THEOREM Atomicity == Spec => []ClaimedIffWritten
<1>1. IInv => ClaimedIffWritten
  <2> SUFFICES ASSUME IInv PROVE ClaimedIffWritten
    OBVIOUS
  <2>1. \A a \in written : request[a].key # NoKey => keys[request[a].key].by = a
    BY RowOfIsRow DEF IInv, TypeOK, WritesAreClaimed, Keyed
  <2>2. \A k \in Key : keys[k].by \in Attempt =>
           keys[k].by \in written /\ request[keys[k].by].key = k
    BY RowOfIsRow, AttemptAssumption
       DEF IInv, TypeOK, RowsAreTrue, NoRow, LegacyRow
  <2>3. QED
    BY <2>1, <2>2 DEF ClaimedIffWritten
<1>2. QED
  BY <1>1, Invariance, PTL

(* The row a replay was read from is the row of the write it names.          *)
LEMMA ReplayedRow ==
  ASSUME IInv, NEW a \in Attempt, answer[a].kind = "replay"
  PROVE  /\ Keyed(a) /\ a \notin written
         /\ keys[request[a].key].by = answer[a].of
         /\ keys[request[a].key] # LegacyRow =>
              /\ answer[a].of \in written
              /\ answer[a].of # Legacy
              /\ request[answer[a].of].fp = request[a].fp
              /\ request[a].fp \notin Secret
<1> USE AttemptAssumption DEF IInv, TypeOK
<1>1. answer[a] = reply[a] /\ ReplyFits(a)
  BY DEF RepliesFit, ReplyStands, Pending, Failed
<1>2. /\ Keyed(a) /\ a \notin written /\ keys[request[a].key] # NoRow
      /\ keys[request[a].key].by = answer[a].of
      /\ keys[request[a].key] # LegacyRow =>
           keys[request[a].key].fp = request[a].fp /\ request[a].fp \notin Secret
  BY <1>1 DEF ReplyFits, Refused
<1>3. ASSUME keys[request[a].key] # LegacyRow
      PROVE  /\ answer[a].of \in written /\ answer[a].of # Legacy
             /\ request[answer[a].of].fp = request[a].fp
  <2>1. PICK b \in written : keys[request[a].key] = RowOf(b)
    BY <1>2, <1>3 DEF RowsAreTrue, Keyed
  <2>2. answer[a].of = b
    BY <1>2, <2>1 DEF RowOf
  <2>3. request[b].fp = request[a].fp
    BY <1>2, <1>3, <2>1 DEF RowOf
  <2>4. QED
    BY <2>2, <2>3
<1>4. QED
  BY <1>2, <1>3

(* A client is told only of writes that are in the database.                 *)
THEOREM TrueAnswers == Spec => []AnswersAreTrue
<1>1. IInv => AnswersAreTrue
  <2> SUFFICES ASSUME IInv, NEW a \in Attempt
               PROVE  /\ answer[a].kind = "fresh" => answer[a].of = a /\ a \in written
                      /\ answer[a].kind = "replay" =>
                           /\ a \notin written
                           /\ keys[request[a].key].by = answer[a].of
                           /\ answer[a].of # Legacy =>
                                /\ answer[a].of \in written
                                /\ request[answer[a].of].fp = request[a].fp
                                /\ request[answer[a].of].fp \notin Secret
    BY DEF AnswersAreTrue
  <2>1. ASSUME answer[a].kind = "fresh" PROVE answer[a].of = a /\ a \in written
    <3>1. answer[a] \notin {Pending, Failed}
      BY <2>1 DEF Pending, Failed
    <3>2. ReplyFits(a) /\ reply[a].kind = "fresh" /\ answer[a] = reply[a] /\ a \in written
      BY <2>1, <3>1 DEF IInv, RepliesFit, ReplyStands
    <3>3. QED
      BY <3>2 DEF ReplyFits
  <2>2. ASSUME answer[a].kind = "replay", answer[a].of # Legacy
        PROVE  keys[request[a].key] # LegacyRow
    BY <2>2, ReplayedRow DEF LegacyRow
  <2>3. QED
    BY <2>1, <2>2, ReplayedRow
<1>2. QED
  BY <1>1, Invariance, PTL

-----------------------------------------------------------------------------

(***************************************************************************)
(* run_idempotent implements ExactlyOnce: COMMIT of a fresh write is the   *)
(* abstract Write, the response is the abstract Reply, every other step is *)
(* invisible to the client.                                                *)
(***************************************************************************)
THEOREM Refinement == Spec => ImplementsExactlyOnce
<1> USE AttemptAssumption, KeyAssumption
<1>1. Init => Promise!Init
  <2> SUFFICES ASSUME Init PROVE Promise!Init
    OBVIOUS
  <2>1. [k \in Key |-> keys[k].by] \in [Key -> {Nobody, Legacy}]
    BY DEF Init, NoRow, LegacyRow
  <2>2. QED
    BY <2>1 DEF Init, Promise!Init, NoRequest, Promise!NoRequest, NoKey, Promise!NoKey,
                Pending, Promise!Pending
<1>2. IInv /\ [Next]_vars => [Promise!Next]_Promise!vars
  <2> SUFFICES ASSUME IInv, [Next]_vars PROVE [Promise!Next]_Promise!vars
    OBVIOUS
  <2> USE DEF IInv, TypeOK, InTransaction
  <2>1. ASSUME NEW a \in Attempt, Arrive(a) PROVE Promise!Send(a)
    BY <2>1 DEF Arrive, Promise!Send, ClaimIsKeyed, NoRequest, Promise!NoRequest,
                NoKey, Promise!NoKey
  <2>2. ASSUME NEW a \in Attempt,
               Connect(a) \/ Lock(a) \/ Replay(a) \/ Claim(a) \/ Work(a) \/ Store(a)
        PROVE  UNCHANGED Promise!vars
    BY <2>2 DEF Connect, Lock, Replay, Claim, Work, Store, Promise!vars
  <2>3. ASSUME NEW a \in Attempt, Commit(a) PROVE Promise!Write(a) \/ UNCHANGED Promise!vars
    <3>1. CASE reply[a].kind = "fresh"
      <4>1. request[a] # Promise!NoRequest /\ answer[a] = Promise!Pending /\ a \notin written
        BY <2>3, FingerprintAssumption DEF Commit, ClaimIsKeyed, Promise!NoRequest, RepliesFit, ReplyStands,
                    Pending, Promise!Pending, WritesAreClaimed
      <4>2. CASE Keyed(a)
        <5>1. keys[request[a].key] = NoRow /\ pending[a] = RowOf(a)
          BY <4>2, <3>1, <2>3 DEF Commit, ClaimStands
        <5>2. keys' = [keys EXCEPT ![request[a].key] = RowOf(a)]
          BY <5>1, <2>3, RowOfIsRow DEF Commit
        <5>3. [k \in Key |-> keys'[k].by]
                = [[k \in Key |-> keys[k].by] EXCEPT ![request[a].key] = a]
          BY <5>2, RowOfIsRow
        <5>4. [k \in Key |-> keys[k].by][request[a].key] = Nobody
          BY <5>1, <4>2 DEF Keyed, NoRow
        <5>5. QED
          BY <4>1, <4>2, <3>1, <2>3, <5>3, <5>4 DEF Commit, Promise!Write, Keyed
      <4>3. CASE ~ Keyed(a)
        <5>1. request[a].key = Promise!NoKey
          BY <4>3 DEF Keyed, NoKey, Promise!NoKey
        <5>2. pending[a] = NoRow
          BY <4>3 DEF ClaimStands
        <5>3. QED
          BY <5>1, <5>2, <4>1, <3>1, <2>3 DEF Commit, Promise!Write
      <4>4. QED
        BY <4>2, <4>3
    <3>2. CASE reply[a].kind # "fresh"
      <4>1. pending[a] = NoRow
        BY <3>2 DEF ClaimStands
      <4>2. QED
        BY <4>1, <3>2, <2>3 DEF Commit, Promise!vars
    <3>3. QED
      BY <3>1, <3>2
  <2>4. ASSUME NEW a \in Attempt, Respond(a) \/ Fail(a) PROVE Promise!Reply(a)
    <3>1. /\ request[a] # Promise!NoRequest /\ answer[a] = Promise!Pending
          /\ UNCHANGED <<request, written, keys>>
      BY <2>4, FingerprintAssumption
         DEF Respond, Fail, ClaimIsKeyed, Promise!NoRequest, RepliesFit, ReplyStands,
             Pending, Promise!Pending
    <3>2. CASE Fail(a)
      <4>1. answer' = [answer EXCEPT ![a] = Promise!Failed]
        BY <3>2 DEF Fail, Failed, Promise!Failed
      <4>2. Promise!Failed \in Promise!Answer \ {Promise!Pending}
        BY DEF Promise!Failed, Promise!Answer, Promise!Pending
      <4>3. QED
        BY <3>1, <4>1, <4>2 DEF Promise!Reply, Promise!Fits
    <3>3. CASE Respond(a)
      <4>1. ReplyFits(a) /\ pc[a] = "respond" /\ answer' = [answer EXCEPT ![a] = reply[a]]
        BY <3>3 DEF Respond, RepliesFit, ReplyStands
      <4>2. reply[a] \in Promise!Answer \ {Promise!Pending}
        BY <4>1, <3>1 DEF ReplyFits, Refused, Promise!Answer, Answer, Promise!Pending
      <4>3. Promise!Fits(a, reply[a])
        <5> DEFINE k == request[a].key
        <5>1. CASE reply[a] = [kind |-> "fresh", of |-> a] /\ a \in written
          BY <5>1 DEF Promise!Fits
        <5>2. CASE /\ Keyed(a) /\ a \notin written /\ keys[k] # NoRow
                   /\ reply[a] = Refused
          <6>1. keys[k].by \notin {Nobody, a}
            BY <5>2 DEF RowsAreTrue, RowOf, LegacyRow, Keyed
          <6>2. QED
            BY <5>2, <6>1 DEF Promise!Fits, Refused, Keyed
        <5>3. CASE /\ Keyed(a) /\ a \notin written /\ keys[k] # NoRow
                   /\ reply[a] = [kind |-> "replay", of |-> keys[k].by]
                   /\ \/ keys[k] = LegacyRow
                      \/ keys[k].fp = request[a].fp /\ request[a].fp \notin Secret
          <6>1. \/ keys[k].by = Legacy
                \/ request[keys[k].by].fp = request[a].fp /\ request[a].fp \notin Secret
            BY <5>3 DEF RowsAreTrue, RowOf, LegacyRow, Keyed
          <6>2. keys[k].by \notin {Nobody, a}
            BY <5>3 DEF RowsAreTrue, RowOf, LegacyRow, Keyed
          <6>3. QED
            BY <5>3, <6>1, <6>2 DEF Promise!Fits, Keyed
        <5>4. QED
          BY <4>1, <5>1, <5>2, <5>3 DEF ReplyFits
      <4>4. QED
        BY <3>1, <4>1, <4>2, <4>3 DEF Promise!Reply
    <3>4. QED
      BY <2>4, <3>2, <3>3
  <2>5. CASE UNCHANGED vars
    BY <2>5 DEF vars, Promise!vars
  <2>6. QED
    BY <2>1, <2>2, <2>3, <2>4, <2>5 DEF Next, Step, Promise!Next
<1>3. QED
  BY <1>1, <1>2, Invariance, PTL DEF Spec, ImplementsExactlyOnce, Promise!Spec
=============================================================================
