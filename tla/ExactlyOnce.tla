----------------------------- MODULE ExactlyOnce -----------------------------
(***************************************************************************)
(* What the write endpoints of the engine promise a client that sends an   *)
(* X-Idempotency-Key (engine-spec.md, "Idempotency"): the write of a key   *)
(* happens once, atomically with the claim of the key, and every later     *)
(* attempt with the same key is answered from that one write or refused.   *)
(* Connections, locks, transactions and the key table are not visible      *)
(* here: an attempt takes effect in one step.                              *)
(***************************************************************************)
CONSTANTS
    Attempt,      \* HTTP requests; a client's retry is another attempt
    Key,          \* (user, X-Idempotency-Key) pairs
    Fingerprint,  \* requests up to method, path, query string and body
    Secret,       \* the requests whose response holds a one-time secret
    Nobody,       \* "no attempt"
    Legacy        \* the attempts whose rows were stored without fingerprint

NoKey == "no key"

(***************************************************************************)
(* The write that an answer is about: "fresh" is the attempt's own write,  *)
(* "replay" the stored answer of another one, "refused" a 409 that names   *)
(* no write, "failed" an error or a lost connection.                       *)
(***************************************************************************)
Answer == [kind : {"pending", "refused", "failed"}, of : {Nobody}]
            \cup [kind : {"fresh", "replay"}, of : Attempt \cup {Legacy}]

Pending == [kind |-> "pending", of |-> Nobody]
Failed == [kind |-> "failed", of |-> Nobody]

VARIABLES
    request,  \* request[a]: the key and fingerprint a was sent with
    written,  \* the attempts whose write is in the database
    winner,   \* winner[k]: the attempt whose write stands for key k
    answer    \* answer[a]: what the client of a was told

vars == <<request, written, winner, answer>>

NoRequest == [key |-> NoKey, fp |-> Nobody]

Init == /\ request = [a \in Attempt |-> NoRequest]
        /\ written = {}
        /\ winner \in [Key -> {Nobody, Legacy}]
        /\ answer = [a \in Attempt |-> Pending]

(* A client sends an attempt, with or without a key. *)
Send(a) == /\ request[a] = NoRequest
           /\ \E k \in Key \cup {NoKey}, f \in Fingerprint :
                request' = [request EXCEPT ![a] = [key |-> k, fp |-> f]]
           /\ UNCHANGED <<written, winner, answer>>

(* The write of a, with the claim of its key when it has one. *)
Write(a) == /\ request[a] # NoRequest
            /\ answer[a] = Pending
            /\ a \notin written
            /\ \/ /\ request[a].key = NoKey
                  /\ UNCHANGED winner
               \/ /\ request[a].key \in Key
                  /\ winner[request[a].key] = Nobody
                  /\ winner' = [winner EXCEPT ![request[a].key] = a]
            /\ written' = written \cup {a}
            /\ UNCHANGED <<request, answer>>

(* The answers a may be given once its key's winner is known. *)
Fits(a, ans) ==
    LET w == winner[request[a].key] IN
    \/ ans = Failed
    \/ a \in written /\ ans = [kind |-> "fresh", of |-> a]
    \/ /\ request[a].key \in Key /\ w \notin {Nobody, a}
       /\ a \notin written
       /\ \/ ans = [kind |-> "refused", of |-> Nobody]
          \/ /\ w = Legacy \/ /\ request[w].fp = request[a].fp
                              /\ request[w].fp \notin Secret
             /\ ans = [kind |-> "replay", of |-> w]

Reply(a) == /\ request[a] # NoRequest
            /\ answer[a] = Pending
            /\ \E ans \in Answer \ {Pending} :
                 Fits(a, ans) /\ answer' = [answer EXCEPT ![a] = ans]
            /\ UNCHANGED <<request, written, winner>>

Next == \E a \in Attempt : Send(a) \/ Write(a) \/ Reply(a)

Spec == Init /\ [][Next]_vars
=============================================================================
