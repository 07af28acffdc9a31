-------------------------------- MODULE SignIn --------------------------------
(* One user's own rows: the profile, the settings and the access tokens.     *)
(*                                                                           *)
(* A request authenticates with a token on a connection of its own, then     *)
(* works in a transaction, statement by statement (Table), and its activity  *)
(* log entries commit with it.  A token names an existing user (sql/016), so *)
(* whoever signs in has a users row and only the settings may be missing:    *)
(* the branch of bootstrap that inserts the user is out of reach.            *)
EXTENDS Naturals, Sequences, Table

CONSTANTS
    Token,
    Value,          \* display names and time zones
    Missing,        \* a row that does not exist
    MaxRequests     \* bound: the requests of a behaviour

ASSUME MissingAssumption == Missing \notin Value \cup {"active", "revoked"}
ASSUME RequestsAssumption == MaxRequests \in Nat
ASSUME TokenAssumption == {"user", "settings"} \cap Token = {}

Id == {"user", "settings"} \cup Token
TokenState == {"active", "revoked"}
RowOf == Value \cup TokenState \cup {Missing}
Change == {"created", "updated", "deleted"}

VARIABLES
    rows,       \* users, user_settings and personal_access_tokens
    log,        \* committed activity_log: how often each change of each row
    pending,    \* the entries each open transaction has written
    request,    \* what each session serves
    pc,         \* its next statement
    seen,       \* the row it read
    served      \* requests begun

vars == <<rows, log, pending, request, pc, seen, served>>

NoRequest == [op |-> "none"]
NoLog == [e \in Id \X Change |-> 0]

Request ==
    [op : {"bootstrap", "update_settings", "update_profile"}, value : Value]
      \cup [op : {"create", "revoke"}, token : Token]

Target(q) ==
    CASE q.op = "update_settings" -> "settings"
      [] q.op \in {"update_profile", "bootstrap"} -> "user"
      [] OTHER -> q.token

\* Mutant: a sign-in looks for the settings before it touches the user.
PlanUnordered(op) ==
    CASE op = "bootstrap" -> <<"find_settings", "touch_user", "add_settings", "commit">>
      [] op \in {"update_settings", "update_profile", "revoke"} ->
           <<"fetch", "write", "commit">>
      [] op = "create" -> <<"mint", "commit">>

\* The statements of each handler.
Plan(op) ==
    CASE op = "bootstrap" -> <<"touch_user", "find_settings", "add_settings", "commit">>
      [] op \in {"update_settings", "update_profile", "revoke"} ->
           <<"fetch", "write", "commit">>
      [] op = "create" -> <<"mint", "commit">>

Statement == {"touch_user", "find_settings", "add_settings", "fetch", "write", "mint",
              "commit"}

TypeOK ==
    /\ rows \in Tables(Id, RowOf)
    /\ log \in [Id \X Change -> Nat]
    /\ pending \in [Session -> [Id \X Change -> Nat]]
    /\ request \in [Session -> Request \cup {NoRequest}]
    /\ pc \in [Session -> Seq(Statement)]
    /\ seen \in [Session -> RowOf]
    /\ served \in 0 .. MaxRequests
    /\ {rows.row["user"], rows.latest["user"]} \subseteq Value

Init ==
    /\ \E table \in [Id -> RowOf] :
         /\ table["user"] \in Value
         /\ table["settings"] \in Value \cup {Missing}
         /\ \A t \in Token : table[t] \in TokenState \cup {Missing}
         /\ \E t \in Token : table[t] = "active"
         /\ rows = AtRest(table, Id)
    /\ log = NoLog
    /\ pending = [s \in Session |-> NoLog]
    /\ request = [s \in Session |-> NoRequest]
    /\ pc = [s \in Session |-> <<>>]
    /\ seen = [s \in Session |-> Missing]
    /\ served = 0

------------------------------------------------------------------------------
At(s, statement) == pc[s] # <<>> /\ Head(pc[s]) = statement

\* get_current_user: an active token, read outside the request's transaction.
Authenticates(t) == rows.row[t] = "active"

Begin(s, q) ==
    /\ pc[s] = <<>>
    /\ served < MaxRequests
    /\ \E t \in Token : Authenticates(t)
    /\ request' = [request EXCEPT ![s] = q]
    /\ pc' = [pc EXCEPT ![s] = Plan(q.op)]
    /\ served' = served + 1
    /\ UNCHANGED <<rows, log, pending, seen>>

Proceed(s) == pc' = [pc EXCEPT ![s] = Tail(@)] /\ UNCHANGED <<log, request, served>>

Writes(s, i, v, change) ==
    /\ Free(rows, s, i)
    /\ rows' = WriteRow(rows, s, i, v)
    /\ pending' = [pending EXCEPT ![s][<<i, change>>] = @ + 1]

\* bootstrap bumps last_login_at, which is not logged but locks the user's row.
TouchUser(s) ==
    /\ At(s, "touch_user")
    /\ Free(rows, s, "user")
    /\ rows' = LockRow(rows, s, "user")
    /\ Proceed(s)
    /\ UNCHANGED <<pending, seen>>

FindSettings(s) ==
    /\ At(s, "find_settings")
    /\ seen' = [seen EXCEPT ![s] = Visible(rows, s, "settings")]
    /\ Proceed(s)
    /\ UNCHANGED <<rows, pending>>

\* An INSERT waits for another that has not committed, and fails on a row that
\* is there.
AddSettings(s) ==
    /\ At(s, "add_settings")
    /\ \/ /\ seen[s] = Missing
          /\ Visible(rows, s, "settings") = Missing
          /\ Writes(s, "settings", request[s].value, "created")
       \/ /\ seen[s] # Missing
          /\ UNCHANGED <<rows, pending>>
    /\ Proceed(s)
    /\ UNCHANGED seen

\* The before image: 404 unless the row is there, and a token active.
Fetch(s) ==
    /\ At(s, "fetch")
    /\ LET row == Visible(rows, s, Target(request[s]))
       IN  /\ row \notin {Missing, "revoked"}
           /\ seen' = [seen EXCEPT ![s] = row]
    /\ Proceed(s)
    /\ UNCHANGED <<rows, pending>>

\* The UPDATE names the row by its key alone.
Write(s) ==
    /\ At(s, "write")
    /\ IF request[s].op = "revoke"
         THEN Writes(s, request[s].token, "revoked", "deleted")
         ELSE Writes(s, Target(request[s]), request[s].value, "updated")
    /\ Proceed(s)
    /\ UNCHANGED seen

\* A new token has a fresh key.
Mint(s) ==
    /\ At(s, "mint")
    /\ rows.row[request[s].token] = Missing
    /\ rows.lock[request[s].token] = Nobody
    /\ Writes(s, request[s].token, "active", "created")
    /\ Proceed(s)
    /\ UNCHANGED seen

End(s) ==
    /\ request' = [request EXCEPT ![s] = NoRequest]
    /\ pc' = [pc EXCEPT ![s] = <<>>]
    /\ seen' = [seen EXCEPT ![s] = Missing]
    /\ pending' = [pending EXCEPT ![s] = NoLog]
    /\ UNCHANGED served

\* Mutant: the log is written beside the transaction.
LoggedAnyway(s) == [e \in Id \X Change |-> log[e] + pending[s][e]]

\* A rollback takes the entries with it.
LoggedOnRollback(s) == log

CommitAll(s) ==
    /\ At(s, "commit")
    /\ rows' = Commit(rows, s, Id)
    /\ log' = [e \in Id \X Change |-> log[e] + pending[s][e]]
    /\ End(s)

\* An error answer, a failed statement or a lost connection.
Abandon(s) ==
    /\ pc[s] # <<>>
    /\ rows' = Rollback(rows, s, Id)
    /\ log' = LoggedOnRollback(s)
    /\ End(s)

Next == \E s \in Session :
    \/ \E q \in Request : Begin(s, q)
    \/ TouchUser(s)
    \/ FindSettings(s)
    \/ AddSettings(s)
    \/ Fetch(s)
    \/ Write(s)
    \/ Mint(s)
    \/ CommitAll(s)
    \/ Abandon(s)

Spec == Init /\ [][Next]_vars

------------------------------------------------------------------------------
(* Properties *)

\* Two first sign-ins at once never collide on the settings: bootstrap reads
\* them without a lock and inserts what it did not find, but it has locked the
\* user's row by then, so the second waits there and finds the first one's.
SignInsDoNotCollide ==
    \A s \in Session : At(s, "add_settings") /\ seen[s] = Missing =>
        /\ Free(rows, s, "settings")
        /\ Visible(rows, s, "settings") = Missing

\* The activity log tells what the tables hold, whatever requests overlapped or
\* failed: a row is logged as created at most once and then is there, and a
\* token has been logged as deleted only if it is revoked.
LogMatchesRows ==
    /\ \A i \in Id : log[<<i, "created">>] <= 1
    /\ \A i \in Id : log[<<i, "created">>] = 1 => rows.row[i] # Missing
    /\ \A t \in Token : log[<<t, "deleted">>] > 0 => rows.row[t] = "revoked"
=============================================================================
