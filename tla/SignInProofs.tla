----------------------------- MODULE SignInProofs -----------------------------
(***************************************************************************)
(* SignIn proved for any number of sessions, tokens, values and requests.  *)
(***************************************************************************)
EXTENDS SignIn, TableProofs

------------------------------------------------------------------------------
(* The invariant. *)

(* What is left of the plan of a session's request. *)
AtItsPlan(s) ==
    /\ request[s].op = "none" => pc[s] = <<>>
    /\ request[s].op = "bootstrap" =>
         pc[s] \in {<<"touch_user", "find_settings", "add_settings", "commit">>,
                    <<"find_settings", "add_settings", "commit">>,
                    <<"add_settings", "commit">>, <<"commit">>}
    /\ request[s].op \in {"update_settings", "update_profile", "revoke"} =>
         pc[s] \in {<<"fetch", "write", "commit">>, <<"write", "commit">>, <<"commit">>}
    /\ request[s].op = "create" => pc[s] \in {<<"mint", "commit">>, <<"commit">>}

(* A sign-in holds the user's row from its first statement on. *)
HoldsTheUser(s) ==
    request[s].op = "bootstrap" /\ ~ At(s, "touch_user") => rows.lock["user"] = s

(* Until its last statement a transaction has logged nothing. *)
NothingPending(s) == ~ At(s, "commit") => pending[s] = NoLog

(* Before its last statement it has written nothing but the user's row. *)
NothingHeld(s) == ~ At(s, "commit") => \A i \in Id \ {"user"} : rows.lock[i] # s

(* What an UPDATE is about to change is there. *)
UpdatesWhatIs(s) == At(s, "write") => rows.row[Target(request[s])] # Missing

(* Whoever has written the settings is a sign-in, unless they were there. *)
SettingsHolder(s) ==
    rows.lock["settings"] = s =>
        request[s].op = "bootstrap" \/ rows.row["settings"] # Missing

(* The entries of an open transaction are about its uncommitted rows. *)
PendingMatches(s) ==
    /\ \A i \in Id : pending[s][<<i, "created">>] # 0 =>
         /\ pending[s][<<i, "created">>] = 1
         /\ rows.lock[i] = s /\ rows.row[i] = Missing /\ rows.latest[i] # Missing
    /\ \A t \in Token : pending[s][<<t, "deleted">>] # 0 =>
         rows.lock[t] = s /\ rows.latest[t] = "revoked"

SessionInv(s) == /\ AtItsPlan(s) /\ HoldsTheUser(s) /\ NothingPending(s) /\ NothingHeld(s)
                 /\ UpdatesWhatIs(s) /\ SettingsHolder(s) /\ PendingMatches(s)

(* No open transaction removes a row or revives a token. *)
RowsOnlyGrow ==
    /\ \A i \in Id : rows.row[i] # Missing => rows.latest[i] # Missing
    /\ \A t \in Token : rows.row[t] = "revoked" => rows.latest[t] = "revoked"

IInv == /\ TypeOK
        /\ Settled(rows, Id)
        /\ RowsOnlyGrow
        /\ \A s \in Session : SessionInv(s)
        /\ SignInsDoNotCollide
        /\ LogMatchesRows

------------------------------------------------------------------------------
(* The statements of a plan. *)

LEMMA RequestFacts ==
  ASSUME NEW q \in Request \cup {NoRequest}
  PROVE  /\ q.op \in {"none", "bootstrap", "update_settings", "update_profile", "create",
                      "revoke"}
         /\ q.op = "none" => q = NoRequest
         /\ q.op \in {"bootstrap", "update_settings", "update_profile"} => q.value \in Value
         /\ q.op \in {"create", "revoke"} => q.token \in Token
         /\ q.op # "none" => Target(q) \in Id
  BY DEF Request, NoRequest, Target, Id

(* Where a session is when it has come to the rest of its plan. *)
LEMMA Heads ==
  ASSUME NEW s
  PROVE  /\ pc[s] = <<>> => \A x : ~ At(s, x)
         /\ pc[s] = <<"touch_user", "find_settings", "add_settings", "commit">> =>
              At(s, "touch_user") /\ \A x : At(s, x) => x = "touch_user"
         /\ pc[s] = <<"find_settings", "add_settings", "commit">> =>
              At(s, "find_settings") /\ \A x : At(s, x) => x = "find_settings"
         /\ pc[s] = <<"add_settings", "commit">> =>
              At(s, "add_settings") /\ \A x : At(s, x) => x = "add_settings"
         /\ pc[s] = <<"fetch", "write", "commit">> =>
              At(s, "fetch") /\ \A x : At(s, x) => x = "fetch"
         /\ pc[s] = <<"write", "commit">> =>
              At(s, "write") /\ \A x : At(s, x) => x = "write"
         /\ pc[s] = <<"mint", "commit">> =>
              At(s, "mint") /\ \A x : At(s, x) => x = "mint"
         /\ pc[s] = <<"commit">> =>
              At(s, "commit") /\ \A x : At(s, x) => x = "commit"
  BY SMT DEF At

LEMMA Tails ==
  /\ Tail(<<"touch_user", "find_settings", "add_settings", "commit">>) =
       <<"find_settings", "add_settings", "commit">>
  /\ Tail(<<"find_settings", "add_settings", "commit">>) = <<"add_settings", "commit">>
  /\ Tail(<<"add_settings", "commit">>) = <<"commit">>
  /\ Tail(<<"fetch", "write", "commit">>) = <<"write", "commit">>
  /\ Tail(<<"write", "commit">>) = <<"commit">>
  /\ Tail(<<"mint", "commit">>) = <<"commit">>
  BY SMT

LEMMA Statements ==
  ASSUME NEW s \in Session, request[s] \in Request \cup {NoRequest}, AtItsPlan(s)
  PROVE  LET op == request[s].op
             rest == Tail(pc[s]) IN
         /\ pc[s] = <<>> => op = "none"
         /\ At(s, "touch_user") => /\ op = "bootstrap"
                                   /\ rest = <<"find_settings", "add_settings", "commit">>
         /\ At(s, "find_settings") => op = "bootstrap" /\ rest = <<"add_settings", "commit">>
         /\ At(s, "add_settings") => op = "bootstrap" /\ rest = <<"commit">>
         /\ At(s, "fetch") => /\ op \in {"update_settings", "update_profile", "revoke"}
                              /\ rest = <<"write", "commit">>
         /\ At(s, "write") => /\ op \in {"update_settings", "update_profile", "revoke"}
                              /\ rest = <<"commit">>
         /\ At(s, "mint") => op = "create" /\ rest = <<"commit">>
<1>1. request[s].op \in {"none", "bootstrap", "update_settings", "update_profile", "create",
                         "revoke"}
  BY RequestFacts
<1>2. CASE request[s].op = "none"
  <2>1. CASE pc[s] = <<>>
    BY <1>2, <2>1, Heads, Tails, Zenon
  <2>2. QED
    BY <1>2, <2>1 DEF AtItsPlan
<1>3. CASE request[s].op = "bootstrap"
  <2>1. CASE pc[s] = <<"touch_user", "find_settings", "add_settings", "commit">>
    BY <1>3, <2>1, Heads, Tails, Zenon
  <2>2. CASE pc[s] = <<"find_settings", "add_settings", "commit">>
    BY <1>3, <2>2, Heads, Tails, Zenon
  <2>3. CASE pc[s] = <<"add_settings", "commit">>
    BY <1>3, <2>3, Heads, Tails, Zenon
  <2>4. CASE pc[s] = <<"commit">>
    BY <1>3, <2>4, Heads, Tails, Zenon
  <2>5. QED
    BY <1>3, <2>1, <2>2, <2>3, <2>4 DEF AtItsPlan
<1>4. CASE request[s].op \in {"update_settings", "update_profile", "revoke"}
  <2>1. CASE pc[s] = <<"fetch", "write", "commit">>
    BY <1>4, <2>1, Heads, Tails, Zenon
  <2>2. CASE pc[s] = <<"write", "commit">>
    BY <1>4, <2>2, Heads, Tails, Zenon
  <2>3. CASE pc[s] = <<"commit">>
    BY <1>4, <2>3, Heads, Tails, Zenon
  <2>4. QED
    BY <1>4, <2>1, <2>2, <2>3 DEF AtItsPlan
<1>5. CASE request[s].op = "create"
  <2>1. CASE pc[s] = <<"mint", "commit">>
    BY <1>5, <2>1, Heads, Tails, Zenon
  <2>2. CASE pc[s] = <<"commit">>
    BY <1>5, <2>2, Heads, Tails, Zenon
  <2>3. QED
    BY <1>5, <2>1, <2>2 DEF AtItsPlan
<1>6. QED
  BY <1>1, <1>2, <1>3, <1>4, <1>5

LEMMA Typed ==
  /\ <<>> \in Seq(Statement)
  /\ <<"touch_user", "find_settings", "add_settings", "commit">> \in Seq(Statement)
  /\ <<"find_settings", "add_settings", "commit">> \in Seq(Statement)
  /\ <<"add_settings", "commit">> \in Seq(Statement)
  /\ <<"fetch", "write", "commit">> \in Seq(Statement)
  /\ <<"write", "commit">> \in Seq(Statement)
  /\ <<"mint", "commit">> \in Seq(Statement)
  /\ <<"commit">> \in Seq(Statement)
  BY SMT DEF Statement

LEMMA Plans ==
  ASSUME NEW q \in Request
  PROVE  /\ q.op = "bootstrap" =>
              Plan(q.op) = <<"touch_user", "find_settings", "add_settings", "commit">>
         /\ q.op \in {"update_settings", "update_profile", "revoke"} =>
              Plan(q.op) = <<"fetch", "write", "commit">>
         /\ q.op = "create" => Plan(q.op) = <<"mint", "commit">>
  BY DEF Plan, Request

------------------------------------------------------------------------------
(* A step of one session and the invariant of the others. *)

NoCollision(s) ==
    At(s, "add_settings") /\ seen[s] = Missing =>
        Free(rows, s, "settings") /\ Visible(rows, s, "settings") = Missing

(* What a step of s leaves of the sessions and of the tables. *)
Leaves(s) ==
    /\ \A o \in Session \ {s} : /\ request'[o] = request[o] /\ pc'[o] = pc[o]
                                /\ seen'[o] = seen[o] /\ pending'[o] = pending[o]
    /\ FrameOf(rows, rows', s, Id)
    /\ \A i \in Id : rows.lock[i] # s => rows'.row[i] = rows.row[i]
    /\ \A i \in Id : rows.row[i] # Missing => rows'.row[i] # Missing

LEMMA OtherSession ==
  ASSUME IInv, NEW s \in Session, NEW o \in Session \ {s}, Leaves(s), SessionInv(s)'
  PROVE  SessionInv(o)' /\ NoCollision(o)'
<1>1. SessionInv(o) /\ NoCollision(o) /\ request[o] \in Request \cup {NoRequest}
  BY DEF IInv, SignInsDoNotCollide, NoCollision, TypeOK
<1>2. \A x : At(o, x)' <=> At(o, x)
  BY DEF Leaves, At
<1>3. o # Nobody /\ s # Nobody /\ o # s
  BY SessionAssumption
<1>4. \A i \in Id : rows.lock[i] = o =>
        rows'.lock[i] = o /\ rows'.row[i] = rows.row[i] /\ rows'.latest[i] = rows.latest[i]
  BY <1>3 DEF Leaves, FrameOf
<1>5. \A i \in Id : rows'.lock[i] = o => rows.lock[i] = o
  BY <1>3 DEF Leaves, FrameOf
<1>6. "user" \in Id /\ "settings" \in Id /\ Token \subseteq Id
  BY DEF Id
<1>7. AtItsPlan(o)'
  BY <1>1 DEF SessionInv, AtItsPlan, Leaves
<1>8. HoldsTheUser(o)'
  BY <1>1, <1>2, <1>4, <1>6 DEF SessionInv, HoldsTheUser, Leaves
<1>9. NothingPending(o)' /\ NothingHeld(o)'
  BY <1>1, <1>2, <1>5 DEF SessionInv, NothingPending, NothingHeld, Leaves
<1>10. UpdatesWhatIs(o)'
  <2>1. At(o, "write") => request[o].op # "none"
    BY <1>1, Heads DEF SessionInv, AtItsPlan
  <2>2. Target(request[o])' = Target(request[o])
    BY DEF Target, Leaves
  <2>3. QED
    BY <1>1, <1>2, <2>1, <2>2, RequestFacts DEF SessionInv, UpdatesWhatIs, Leaves
<1>11. SettingsHolder(o)'
  BY <1>1, <1>5, <1>6 DEF SessionInv, SettingsHolder, Leaves
<1>12. PendingMatches(o)'
  BY <1>1, <1>4, <1>6 DEF SessionInv, PendingMatches, Leaves
<1>13. NoCollision(o)'
  <2>1. SUFFICES ASSUME At(o, "add_settings"), seen[o] = Missing
                 PROVE  Free(rows', o, "settings") /\ Visible(rows', o, "settings") = Missing
    BY <1>2 DEF NoCollision, Leaves
  <2>2. ~ At(o, "commit") /\ ~ At(o, "touch_user") /\ request[o].op = "bootstrap"
    BY <1>1, <2>1, Statements DEF At, SessionInv
  <2>3. rows.lock["settings"] # o /\ rows.lock["user"] = o
    BY <1>1, <1>6, <2>2 DEF SessionInv, NothingHeld, HoldsTheUser
  <2>4. rows.lock["settings"] = Nobody /\ rows.row["settings"] = Missing
    BY <1>1, <2>1, <2>3 DEF NoCollision, Free, Visible
  <2>5. rows'.row["settings"] = Missing /\ rows'.lock["settings"] \in {Nobody, s}
    BY <1>3, <1>6, <2>4 DEF Leaves, FrameOf
  <2>6. rows'.lock["settings"] # s
    <3>1. SUFFICES ASSUME rows'.lock["settings"] = s PROVE FALSE
      OBVIOUS
    <3>2. request'[s].op = "bootstrap"
      BY <2>5, <3>1 DEF SessionInv, SettingsHolder
    <3>3. At(s, "commit")'
      BY <1>6, <3>1 DEF SessionInv, NothingHeld
    <3>4. ~ At(s, "touch_user")'
      BY <3>3 DEF At
    <3>5. rows'.lock["user"] = s
      BY <3>2, <3>4 DEF SessionInv, HoldsTheUser
    <3>6. QED
      BY <1>3, <1>4, <1>6, <2>3, <3>5
  <2>7. QED
    BY <1>3, <2>5, <2>6 DEF Free, Visible
<1>14. QED
  BY <1>7, <1>8, <1>9, <1>10, <1>11, <1>12, <1>13 DEF SessionInv

LEMMA Assemble ==
  ASSUME IInv, NEW s \in Session, Leaves(s), TypeOK', Settled(rows', Id), RowsOnlyGrow',
         SessionInv(s)', NoCollision(s)', LogMatchesRows'
  PROVE  IInv'
<1>1. \A o \in Session \ {s} : SessionInv(o)' /\ NoCollision(o)'
  BY OtherSession
<1>2. \A o \in Session : SessionInv(o)'
  BY <1>1
<1>3. SignInsDoNotCollide'
  BY <1>1 DEF SignInsDoNotCollide, NoCollision
<1>4. QED
  BY <1>2, <1>3 DEF IInv

------------------------------------------------------------------------------
(* The steps. *)

LEMMA Initial == Init => IInv
<1> SUFFICES ASSUME Init PROVE IInv
  OBVIOUS
<1>1. PICK table \in [Id -> RowOf] :
         /\ table["user"] \in Value
         /\ \A t \in Token : table[t] \in TokenState \cup {Missing}
         /\ rows = AtRest(table, Id)
  BY DEF Init
<1>2. rows \in Tables(Id, RowOf) /\ Settled(rows, Id) /\ rows.row = table
         /\ \A i \in Id : rows.lock[i] = Nobody /\ rows.latest[i] = rows.row[i]
  BY <1>1 DEF Tables, Settled, AtRest
<1>3. NoLog \in [Id \X Change -> Nat] /\ \A e \in Id \X Change : NoLog[e] = 0
  BY DEF NoLog
<1>4. TypeOK
  <2>1. pc \in [Session -> Seq(Statement)] /\ seen \in [Session -> RowOf]
    BY Typed DEF Init, RowOf
  <2>2. /\ log \in [Id \X Change -> Nat] /\ pending \in [Session -> [Id \X Change -> Nat]]
        /\ request \in [Session -> Request \cup {NoRequest}] /\ served \in 0 .. MaxRequests
    BY <1>3, RequestsAssumption DEF Init
  <2>3. rows.row["user"] \in Value /\ rows.latest["user"] \in Value
    BY <1>1, <1>2 DEF Id
  <2>4. QED
    BY <1>2, <2>1, <2>2, <2>3 DEF TypeOK
<1>5. RowsOnlyGrow
  BY <1>2 DEF RowsOnlyGrow, Id
<1>6. \A s \in Session : pc[s] = <<>> /\ request[s].op = "none" /\ pending[s] = NoLog
  BY DEF Init, NoRequest
<1>7. \A s \in Session : \A x : ~ At(s, x)
  BY <1>6, Heads
<1>8. Id \X {"created", "deleted"} \subseteq Id \X Change /\ Token \subseteq Id
         /\ "settings" \in Id
  BY DEF Change, Id
<1>9. ASSUME NEW s \in Session PROVE SessionInv(s)
  <2>1. AtItsPlan(s) /\ HoldsTheUser(s) /\ UpdatesWhatIs(s)
    BY <1>6, <1>7, Zenon DEF AtItsPlan, HoldsTheUser, UpdatesWhatIs
  <2>2. NothingPending(s) /\ NothingHeld(s) /\ SettingsHolder(s)
    BY <1>2, <1>6, <1>8, SessionAssumption DEF NothingPending, NothingHeld, SettingsHolder
  <2>3. PendingMatches(s)
    BY <1>3, <1>6, <1>8 DEF PendingMatches
  <2>4. QED
    BY <2>1, <2>2, <2>3 DEF SessionInv
<1>10. SignInsDoNotCollide
  BY <1>7 DEF SignInsDoNotCollide
<1>11. LogMatchesRows
  BY <1>3, <1>8 DEF LogMatchesRows, Init
<1>12. QED
  BY <1>2, <1>4, <1>5, <1>9, <1>10, <1>11 DEF IInv

LEMMA KeepsBegin ==
  ASSUME IInv, NEW s \in Session, NEW q \in Request, Begin(s, q)
  PROVE  IInv'
<1>1. SessionInv(s) /\ TypeOK /\ Settled(rows, Id)
  BY DEF IInv
<1>2. rows' = rows /\ pending' = pending /\ log' = log /\ seen' = seen
  BY DEF Begin
<1>3. request'[s] = q /\ pc'[s] = Plan(q.op)
  BY <1>1 DEF Begin, TypeOK
<1>4. \A x : ~ At(s, x)
  BY Heads DEF Begin
<1>5. q.op \in {"bootstrap", "update_settings", "update_profile", "create", "revoke"}
  BY RequestFacts DEF Request
<1>6. AtItsPlan(s)'
  BY <1>3, <1>5, Plans DEF AtItsPlan
<1>7. /\ q.op = "bootstrap" => At(s, "touch_user")'
      /\ ~ At(s, "commit")' /\ ~ At(s, "write")' /\ ~ At(s, "add_settings")'
  <2>1. CASE q.op = "bootstrap"
    BY <1>3, <2>1, Plans, SMT DEF At
  <2>2. CASE q.op \in {"update_settings", "update_profile", "revoke"}
    BY <1>3, <2>2, Plans, SMT DEF At
  <2>3. CASE q.op = "create"
    BY <1>3, <2>3, Plans, SMT DEF At
  <2>4. QED
    BY <1>5, <2>1, <2>2, <2>3
<1>8. TypeOK'
  <2>1. Plan(q.op) \in Seq(Statement)
    BY <1>5, Plans, Typed
  <2>2. request' \in [Session -> Request \cup {NoRequest}] /\ pc' \in [Session -> Seq(Statement)]
    BY <1>1, <2>1 DEF TypeOK, Begin
  <2>3. served' \in 0 .. MaxRequests
    BY <1>1, RequestsAssumption DEF TypeOK, Begin
  <2>4. QED
    BY <1>1, <1>2, <2>2, <2>3 DEF TypeOK
<1>9. SessionInv(s)'
  <2>1. HoldsTheUser(s)'
    BY <1>3, <1>7 DEF HoldsTheUser
  <2>2. NothingPending(s)' /\ NothingHeld(s)' /\ UpdatesWhatIs(s)'
    BY <1>1, <1>2, <1>4, <1>7 DEF SessionInv, NothingPending, NothingHeld, UpdatesWhatIs
  <2>3. SettingsHolder(s)'
    BY <1>1, <1>2, <1>4 DEF SessionInv, NothingHeld, SettingsHolder, Id
  <2>4. PendingMatches(s)'
    BY <1>1, <1>2 DEF SessionInv, PendingMatches
  <2>5. QED
    BY <1>6, <2>1, <2>2, <2>3, <2>4 DEF SessionInv
<1>10. Leaves(s)
  BY <1>1, <1>2, SessionAssumption DEF Leaves, FrameOf, Begin, TypeOK
<1>11. RowsOnlyGrow' /\ LogMatchesRows' /\ NoCollision(s)' /\ Settled(rows', Id)
  BY <1>1, <1>2, <1>7 DEF IInv, RowsOnlyGrow, LogMatchesRows, NoCollision
<1>12. QED
  BY <1>8, <1>9, <1>10, <1>11, Assemble

(* A statement is over and the transaction goes on. *)
LEMMA Proceeds ==
  ASSUME IInv, NEW s \in Session, Proceed(s), pc[s] # <<>>, ~ At(s, "commit")
  PROVE  /\ request' = request /\ log' = log /\ served' = served
         /\ pc' \in [Session -> Seq(Statement)]
         /\ \A o \in Session \ {s} : pc'[o] = pc[o]
         /\ AtItsPlan(s)' /\ ~ At(s, "touch_user")'
         /\ At(s, "touch_user") => /\ ~ At(s, "commit")' /\ ~ At(s, "write")'
                                   /\ ~ At(s, "add_settings")'
         /\ At(s, "find_settings") => ~ At(s, "commit")' /\ ~ At(s, "write")'
         /\ At(s, "fetch") => ~ At(s, "commit")' /\ ~ At(s, "add_settings")'
         /\ At(s, "add_settings") \/ At(s, "write") \/ At(s, "mint") =>
              At(s, "commit")' /\ ~ At(s, "write")' /\ ~ At(s, "add_settings")'
<1>1. request' = request /\ log' = log /\ served' = served
  BY DEF Proceed
<1>2. SessionInv(s) /\ request[s] \in Request \cup {NoRequest}
         /\ pc \in [Session -> Seq(Statement)]
  BY DEF IInv, TypeOK
<1>3. pc' = [pc EXCEPT ![s] = Tail(pc[s])] /\ pc'[s] = Tail(pc[s])
  BY <1>2 DEF Proceed
<1>4. CASE At(s, "touch_user")
  <2>1. pc'[s] = <<"find_settings", "add_settings", "commit">> /\ (\A x : At(s, x) => x = "touch_user")
          /\ request[s].op = "bootstrap"
    BY <1>2, <1>3, <1>4, Statements DEF SessionInv, At
  <2>2. ~ At(s, "touch_user")' /\ ~ At(s, "commit")'
          /\ ~ At(s, "write")' /\ ~ At(s, "add_settings")'
    BY <2>1, SMT DEF At
  <2>3. AtItsPlan(s)'
    BY <1>1, <2>1 DEF AtItsPlan
  <2>4. pc' \in [Session -> Seq(Statement)]
    BY <1>2, <1>3, <2>1, Typed
  <2>5. ~ At(s, "add_settings") /\ ~ At(s, "write") /\ ~ At(s, "mint") /\ ~ At(s, "find_settings") /\ ~ At(s, "fetch")
    BY <2>1
  <2>6. QED
    BY <1>1, <1>2, <1>3, <2>2, <2>3, <2>4, <2>5
<1>5. CASE At(s, "find_settings")
  <2>1. pc'[s] = <<"add_settings", "commit">> /\ (\A x : At(s, x) => x = "find_settings")
          /\ request[s].op = "bootstrap"
    BY <1>2, <1>3, <1>5, Statements DEF SessionInv, At
  <2>2. ~ At(s, "touch_user")' /\ ~ At(s, "commit")'
          /\ ~ At(s, "write")'
    BY <2>1, SMT DEF At
  <2>3. AtItsPlan(s)'
    BY <1>1, <2>1 DEF AtItsPlan
  <2>4. pc' \in [Session -> Seq(Statement)]
    BY <1>2, <1>3, <2>1, Typed
  <2>5. ~ At(s, "add_settings") /\ ~ At(s, "write") /\ ~ At(s, "mint") /\ ~ At(s, "touch_user") /\ ~ At(s, "fetch")
    BY <2>1
  <2>6. QED
    BY <1>1, <1>2, <1>3, <2>2, <2>3, <2>4, <2>5
<1>6. CASE At(s, "fetch")
  <2>1. pc'[s] = <<"write", "commit">> /\ (\A x : At(s, x) => x = "fetch")
          /\ request[s].op \in {"update_settings", "update_profile", "revoke"}
    BY <1>2, <1>3, <1>6, Statements DEF SessionInv, At
  <2>2. ~ At(s, "touch_user")' /\ ~ At(s, "commit")'
          /\ ~ At(s, "add_settings")'
    BY <2>1, SMT DEF At
  <2>3. AtItsPlan(s)'
    BY <1>1, <2>1 DEF AtItsPlan
  <2>4. pc' \in [Session -> Seq(Statement)]
    BY <1>2, <1>3, <2>1, Typed
  <2>5. ~ At(s, "add_settings") /\ ~ At(s, "write") /\ ~ At(s, "mint") /\ ~ At(s, "touch_user") /\ ~ At(s, "find_settings")
    BY <2>1
  <2>6. QED
    BY <1>1, <1>2, <1>3, <2>2, <2>3, <2>4, <2>5
<1>7. CASE At(s, "add_settings") \/ At(s, "write") \/ At(s, "mint")
  <2>1. pc'[s] = <<"commit">> /\ request[s].op # "none"
          /\ \A x : At(s, x) => x \in {"add_settings", "write", "mint"}
    BY <1>2, <1>3, <1>7, Statements DEF SessionInv, At
  <2>2. At(s, "commit")' /\ ~ At(s, "write")' /\ ~ At(s, "add_settings")'
          /\ ~ At(s, "touch_user")'
    BY <2>1, SMT DEF At
  <2>3. AtItsPlan(s)'
    BY <1>1, <2>1 DEF AtItsPlan
  <2>4. pc' \in [Session -> Seq(Statement)]
    BY <1>2, <1>3, <2>1, Typed
  <2>5. ~ At(s, "touch_user") /\ ~ At(s, "find_settings") /\ ~ At(s, "fetch")
    BY <2>1
  <2>6. QED
    BY <1>1, <1>2, <1>3, <2>2, <2>3, <2>4, <2>5
<1>8. At(s, "touch_user") \/ At(s, "find_settings") \/ At(s, "fetch")
        \/ At(s, "add_settings") \/ At(s, "write") \/ At(s, "mint")
  BY <1>2, Heads, RequestFacts, Zenon DEF SessionInv, AtItsPlan
<1>9. QED
  BY <1>4, <1>5, <1>6, <1>7, <1>8

KeepsRevoked(i, v) == i \in Token /\ rows.row[i] = "revoked" => v = "revoked"

LogsOnce(s, i, change) ==
    \A e \in Id \X Change :
        pending'[s][e] = IF e = <<i, change>> THEN pending[s][e] + 1 ELSE pending[s][e]

(* A write adds one entry to the log of its transaction. *)
LEMMA WritesFacts ==
  ASSUME IInv, NEW s \in Session, NEW i \in Id, NEW v \in RowOf, NEW change \in Change,
         Writes(s, i, v, change), v # Missing,
         KeepsRevoked(i, v)
  PROVE  /\ rows' \in Tables(Id, RowOf) /\ Settled(rows', Id) /\ FrameOf(rows, rows', s, Id)
         /\ rows'.row = rows.row /\ RowsOnlyGrow'
         /\ \A j \in Id : /\ rows'.latest[j] = IF j = i THEN v ELSE rows.latest[j]
                          /\ rows'.lock[j] = IF j = i THEN s ELSE rows.lock[j]
         /\ pending' \in [Session -> [Id \X Change -> Nat]]
         /\ \A o \in Session \ {s} : pending'[o] = pending[o]
         /\ LogsOnce(s, i, change)
<1>1. rows \in Tables(Id, RowOf) /\ Settled(rows, Id)
         /\ pending \in [Session -> [Id \X Change -> Nat]]
  BY DEF IInv, TypeOK
<1>2. rows' = WriteRow(rows, s, i, v) /\ Free(rows, s, i)
  BY DEF Writes
<1>3. /\ rows' \in Tables(Id, RowOf) /\ Settled(rows', Id) /\ FrameOf(rows, rows', s, Id)
      /\ rows'.row = rows.row
      /\ \A j \in Id : /\ rows'.latest[j] = IF j = i THEN v ELSE rows.latest[j]
                       /\ rows'.lock[j] = IF j = i THEN s ELSE rows.lock[j]
  BY <1>1, <1>2, WriteFacts
<1>4. RowsOnlyGrow'
  BY <1>3 DEF IInv, RowsOnlyGrow, KeepsRevoked, Id
<1> DEFINE e0 == <<i, change>>
           p == [pending[s] EXCEPT ![e0] = pending[s][e0] + 1]
<1>5. e0 \in Id \X Change
  OBVIOUS
<1>6. pending' = [pending EXCEPT ![s] = p]
  BY <1>1 DEF Writes
<1> HIDE DEF e0
<1>7. p \in [Id \X Change -> Nat]
         /\ \A e \in Id \X Change : p[e] = IF e = e0 THEN pending[s][e] + 1 ELSE pending[s][e]
  BY <1>1, <1>5
<1> HIDE DEF p
<1>8. pending' \in [Session -> [Id \X Change -> Nat]] /\ pending'[s] = p
        /\ \A o \in Session \ {s} : pending'[o] = pending[o]
  BY <1>1, <1>6, <1>7
<1>9. QED
  BY <1>3, <1>4, <1>7, <1>8 DEF e0, LogsOnce

(* What the statements that only read or lock have in common. *)
LEMMA KeepsReading ==
  ASSUME IInv, NEW s \in Session, Proceed(s), pc[s] # <<>>, ~ At(s, "commit"),
         ~ At(s, "write"), ~ At(s, "mint"),
         rows' = rows \/ (At(s, "touch_user") /\ Free(rows, s, "user")
                          /\ rows' = LockRow(rows, s, "user")),
         pending' = pending, seen' \in [Session -> RowOf],
         \A o \in Session \ {s} : seen'[o] = seen[o],
         UpdatesWhatIs(s)', HoldsTheUser(s)', NoCollision(s)'
  PROVE  IInv'
<1>1. SessionInv(s) /\ TypeOK /\ Settled(rows, Id) /\ rows \in Tables(Id, RowOf)
        /\ "user" \in Id /\ "settings" \in Id /\ s # Nobody
  BY SessionAssumption DEF IInv, TypeOK, Id
<1>2. /\ rows' \in Tables(Id, RowOf) /\ Settled(rows', Id) /\ FrameOf(rows, rows', s, Id)
      /\ rows'.row = rows.row /\ rows'.latest = rows.latest
      /\ \A i \in Id \ {"user"} : rows'.lock[i] = rows.lock[i]
      /\ \A i \in Id : rows.lock[i] = s => rows'.lock[i] = s
  <2>1. CASE rows' = rows
    BY <1>1, <2>1 DEF FrameOf
  <2>2. CASE Free(rows, s, "user") /\ rows' = LockRow(rows, s, "user")
    BY <1>1, <2>2, LockFacts
  <2>3. QED
    BY <2>1, <2>2
<1>3. /\ request' = request /\ log' = log /\ served' = served
      /\ pc' \in [Session -> Seq(Statement)] /\ AtItsPlan(s)'
      /\ \A o \in Session \ {s} : pc'[o] = pc[o]
  BY Proceeds
<1>4. TypeOK'
  <2>1. {rows'.row["user"], rows'.latest["user"]} \subseteq Value
    BY <1>1, <1>2 DEF TypeOK
  <2>2. QED
    BY <1>1, <1>2, <1>3, <2>1 DEF TypeOK
<1>5. Leaves(s)
  BY <1>2, <1>3 DEF Leaves
<1>6. NothingHeld(s)' /\ NothingPending(s)'
  BY <1>1, <1>2 DEF SessionInv, NothingHeld, NothingPending
<1>7. SettingsHolder(s)'
  BY <1>1, <1>2 DEF SessionInv, NothingHeld, SettingsHolder, Id
<1>8. PendingMatches(s)'
  BY <1>1, <1>2 DEF SessionInv, PendingMatches, Id
<1>9. SessionInv(s)'
  BY <1>3, <1>6, <1>7, <1>8 DEF SessionInv
<1>10. RowsOnlyGrow' /\ LogMatchesRows'
  BY <1>2, <1>3 DEF IInv, RowsOnlyGrow, LogMatchesRows
<1>11. QED
  BY <1>2, <1>4, <1>5, <1>9, <1>10, Assemble

LEMMA KeepsTouchUser ==
  ASSUME IInv, NEW s \in Session, TouchUser(s)
  PROVE  IInv'
<1>1. At(s, "touch_user") /\ pc[s] # <<>> /\ Proceed(s)
        /\ ~ At(s, "commit") /\ ~ At(s, "write") /\ ~ At(s, "mint") /\ ~ At(s, "add_settings")
  BY DEF TouchUser, At
<1>2. ~ At(s, "commit")' /\ ~ At(s, "write")' /\ ~ At(s, "add_settings")'
  BY <1>1, Proceeds
<1>3. Free(rows, s, "user") /\ rows' = LockRow(rows, s, "user") /\ pending' = pending
        /\ seen' = seen /\ seen \in [Session -> RowOf]
  BY DEF TouchUser, IInv, TypeOK
<1>4. rows'.lock["user"] = s
  <2>1. rows \in Tables(Id, RowOf) /\ Settled(rows, Id) /\ "user" \in Id
    BY DEF IInv, TypeOK, Id
  <2>2. QED
    BY <1>3, <2>1, LockFacts
<1>5. UpdatesWhatIs(s)' /\ HoldsTheUser(s)' /\ NoCollision(s)'
  BY <1>2, <1>4 DEF UpdatesWhatIs, HoldsTheUser, NoCollision
<1>6. QED
  BY <1>1, <1>3, <1>5, KeepsReading

LEMMA KeepsFindSettings ==
  ASSUME IInv, NEW s \in Session, FindSettings(s)
  PROVE  IInv'
<1>1. At(s, "find_settings") /\ pc[s] # <<>> /\ Proceed(s) /\ ~ At(s, "touch_user")
        /\ ~ At(s, "commit") /\ ~ At(s, "write") /\ ~ At(s, "mint") /\ ~ At(s, "add_settings")
  BY DEF FindSettings, At
<1>2. ~ At(s, "commit")' /\ ~ At(s, "write")' /\ request' = request
  BY <1>1, Proceeds
<1>3. rows \in Tables(Id, RowOf) /\ "settings" \in Id /\ "user" \in Id /\ SessionInv(s)
        /\ request[s] \in Request \cup {NoRequest} /\ s # Nobody
  BY SessionAssumption DEF IInv, TypeOK, Id
<1>4. rows' = rows /\ pending' = pending
        /\ seen' = [seen EXCEPT ![s] = Visible(rows, s, "settings")]
  BY DEF FindSettings
<1>5. seen' \in [Session -> RowOf] /\ seen'[s] = Visible(rows, s, "settings")
        /\ \A o \in Session \ {s} : seen'[o] = seen[o]
  BY <1>3, <1>4 DEF IInv, TypeOK, Tables, Visible
<1>6. request[s].op = "bootstrap" /\ rows.lock["user"] = s /\ rows.lock["settings"] # s
  <2>1. request[s].op = "bootstrap"
    BY <1>1, <1>3, Statements DEF SessionInv
  <2>2. QED
    BY <1>1, <1>3, <2>1 DEF SessionInv, HoldsTheUser, NothingHeld
<1>7. NoCollision(s)'
  <2>1. SUFFICES ASSUME rows.row["settings"] = Missing PROVE rows.lock["settings"] = Nobody
    BY <1>3, <1>4, <1>5, <1>6 DEF NoCollision, Free, Visible
  <2>2. SUFFICES ASSUME NEW o \in Session, rows.lock["settings"] = o PROVE FALSE
    BY <1>3 DEF Tables
  <2>3. SessionInv(o)
    BY DEF IInv
  <2>4. request[o].op = "bootstrap" /\ At(o, "commit")
    BY <1>3, <2>1, <2>2, <2>3 DEF SessionInv, SettingsHolder, NothingHeld, Id
  <2>5. rows.lock["user"] = o
    BY <2>3, <2>4 DEF SessionInv, HoldsTheUser, At
  <2>6. QED
    BY <1>6, <2>2, <2>5
<1>8. UpdatesWhatIs(s)' /\ HoldsTheUser(s)'
  BY <1>2, <1>4, <1>6 DEF UpdatesWhatIs, HoldsTheUser
<1>9. QED
  BY <1>1, <1>4, <1>5, <1>7, <1>8, KeepsReading

LEMMA KeepsFetch ==
  ASSUME IInv, NEW s \in Session, Fetch(s)
  PROVE  IInv'
<1>1. At(s, "fetch") /\ pc[s] # <<>> /\ Proceed(s) /\ ~ At(s, "touch_user")
        /\ ~ At(s, "commit") /\ ~ At(s, "write") /\ ~ At(s, "mint") /\ ~ At(s, "add_settings")
  BY DEF Fetch, At
<1>2. ~ At(s, "commit")' /\ ~ At(s, "add_settings")' /\ request' = request
  BY <1>1, Proceeds
<1>3. rows \in Tables(Id, RowOf) /\ SessionInv(s) /\ request[s] \in Request \cup {NoRequest}
        /\ seen \in [Session -> RowOf]
  BY DEF IInv, TypeOK
<1>4. request[s].op \in {"update_settings", "update_profile", "revoke"}
  BY <1>1, <1>3, Statements DEF SessionInv
<1> DEFINE i == Target(request[s])
<1>5. i \in Id
  BY <1>3, <1>4, RequestFacts
<1>6. rows' = rows /\ pending' = pending /\ Visible(rows, s, i) # Missing
        /\ seen' = [seen EXCEPT ![s] = Visible(rows, s, i)]
  BY DEF Fetch
<1>7. seen' \in [Session -> RowOf] /\ \A o \in Session \ {s} : seen'[o] = seen[o]
  BY <1>3, <1>5, <1>6 DEF Tables, Visible
<1>8. rows.row[i] # Missing
  <2>1. CASE i = "user"
    BY <2>1, MissingAssumption DEF IInv, TypeOK
  <2>2. CASE i # "user"
    BY <1>1, <1>3, <1>5, <1>6, <2>2 DEF SessionInv, NothingHeld, Visible
  <2>3. QED
    BY <2>1, <2>2
<1>9. UpdatesWhatIs(s)' /\ HoldsTheUser(s)' /\ NoCollision(s)'
  <2>1. Target(request[s])' = i
    BY <1>2 DEF Target
  <2>2. QED
    BY <1>2, <1>4, <1>6, <1>8, <2>1 DEF UpdatesWhatIs, HoldsTheUser, NoCollision
<1>10. QED
  BY <1>1, <1>6, <1>7, <1>9, KeepsReading

(* What the statements that write a row and its entry have in common. *)
LEMMA KeepsWriting ==
  ASSUME IInv, NEW s \in Session, NEW i \in Id, NEW v \in RowOf, NEW change \in Change,
         At(s, "add_settings") \/ At(s, "write") \/ At(s, "mint"),
         Writes(s, i, v, change), Proceed(s), seen' = seen, v # Missing,
         KeepsRevoked(i, v),
         i = "user" => v \in Value,
         change = "created" => rows.row[i] = Missing,
         change = "deleted" => i \in Token /\ v = "revoked",
         i = "settings" => request[s].op = "bootstrap" \/ rows.row["settings"] # Missing
  PROVE  IInv'
<1>1. SessionInv(s) /\ TypeOK /\ Settled(rows, Id) /\ rows \in Tables(Id, RowOf)
        /\ "user" \in Id /\ "settings" \in Id /\ Token \subseteq Id
  BY DEF IInv, TypeOK, Id
<1>2. pc[s] # <<>> /\ ~ At(s, "commit") /\ ~ At(s, "touch_user")
  BY DEF At
<1>3. /\ request' = request /\ log' = log /\ served' = served
      /\ pc' \in [Session -> Seq(Statement)] /\ AtItsPlan(s)'
      /\ \A o \in Session \ {s} : pc'[o] = pc[o]
      /\ At(s, "commit")' /\ ~ At(s, "write")' /\ ~ At(s, "add_settings")'
  BY <1>2, Proceeds
<1>4. /\ rows' \in Tables(Id, RowOf) /\ Settled(rows', Id) /\ FrameOf(rows, rows', s, Id)
      /\ rows'.row = rows.row /\ RowsOnlyGrow'
      /\ \A j \in Id : /\ rows'.latest[j] = IF j = i THEN v ELSE rows.latest[j]
                       /\ rows'.lock[j] = IF j = i THEN s ELSE rows.lock[j]
      /\ pending' \in [Session -> [Id \X Change -> Nat]]
      /\ \A o \in Session \ {s} : pending'[o] = pending[o]
      /\ LogsOnce(s, i, change)
  BY WritesFacts, Zenon
<1>5. TypeOK'
  <2>1. {rows'.row["user"], rows'.latest["user"]} \subseteq Value
    BY <1>1, <1>4 DEF TypeOK
  <2>2. QED
    BY <1>1, <1>3, <1>4, <2>1 DEF TypeOK
<1>6. Leaves(s)
  BY <1>3, <1>4 DEF Leaves
<1>7. HoldsTheUser(s)'
  BY <1>1, <1>2, <1>3, <1>4 DEF SessionInv, HoldsTheUser
<1>8. NothingHeld(s)' /\ NothingPending(s)' /\ UpdatesWhatIs(s)' /\ NoCollision(s)'
  BY <1>3 DEF NothingHeld, NothingPending, UpdatesWhatIs, NoCollision
<1>9. SettingsHolder(s)'
  <2>1. SUFFICES ASSUME rows'.lock["settings"] = s
                 PROVE  request[s].op = "bootstrap" \/ rows.row["settings"] # Missing
    BY <1>3, <1>4 DEF SettingsHolder
  <2>2. CASE i = "settings"
    BY <2>2
  <2>3. CASE i # "settings"
    BY <1>1, <1>4, <2>1, <2>3 DEF SessionInv, SettingsHolder
  <2>4. QED
    BY <2>2, <2>3
<1>10. PendingMatches(s)'
  <2>1. \A e \in Id \X Change : pending[s][e] = 0
    BY <1>1, <1>2 DEF SessionInv, NothingPending, NoLog
  <2>2. \A e \in Id \X Change : pending'[s][e] = IF e = <<i, change>> THEN 1 ELSE 0
    BY <1>4, <2>1 DEF LogsOnce
  <2>3. \A j \in Id, c \in Change : pending'[s][<<j, c>>] # 0 =>
          j = i /\ c = change /\ pending'[s][<<j, c>>] = 1
    BY <2>2
  <2>4. rows'.lock[i] = s /\ rows'.latest[i] = v
    BY <1>4
  <2>5. "created" \in Change /\ "deleted" \in Change
    BY DEF Change
  <2>6. ASSUME NEW j \in Id, pending'[s][<<j, "created">>] # 0
        PROVE  /\ pending'[s][<<j, "created">>] = 1
               /\ rows'.lock[j] = s /\ rows'.row[j] = Missing /\ rows'.latest[j] # Missing
    BY <1>4, <2>3, <2>4, <2>5, <2>6
  <2>7. ASSUME NEW t \in Token, pending'[s][<<t, "deleted">>] # 0
        PROVE  rows'.lock[t] = s /\ rows'.latest[t] = "revoked"
    BY <1>1, <2>3, <2>4, <2>5, <2>7
  <2>8. QED
    BY <2>6, <2>7 DEF PendingMatches
<1>11. SessionInv(s)'
  BY <1>3, <1>7, <1>8, <1>9, <1>10 DEF SessionInv
<1>12. LogMatchesRows'
  BY <1>3, <1>4 DEF IInv, LogMatchesRows
<1>13. QED
  BY <1>4, <1>5, <1>6, <1>8, <1>11, <1>12, Assemble

LEMMA KeepsAddSettings ==
  ASSUME IInv, NEW s \in Session, AddSettings(s)
  PROVE  IInv'
<1>1. At(s, "add_settings") /\ pc[s] # <<>> /\ Proceed(s) /\ seen' = seen
        /\ ~ At(s, "commit") /\ ~ At(s, "write") /\ ~ At(s, "mint") /\ ~ At(s, "touch_user")
  BY DEF AddSettings, At
<1>2. SessionInv(s) /\ request[s] \in Request \cup {NoRequest} /\ seen \in [Session -> RowOf]
        /\ "settings" \in Id
  BY DEF IInv, TypeOK, Id
<1>3. request[s].op = "bootstrap" /\ request[s].value \in Value
  BY <1>1, <1>2, Statements, RequestFacts DEF SessionInv
<1>4. ~ At(s, "write")' /\ ~ At(s, "add_settings")' /\ request' = request
  BY <1>1, Proceeds
<1>5. CASE seen[s] = Missing /\ Visible(rows, s, "settings") = Missing
           /\ Writes(s, "settings", request[s].value, "created")
  <2>1. rows.lock["settings"] # s
    BY <1>1, <1>2 DEF SessionInv, NothingHeld
  <2>2. rows.row["settings"] = Missing
    BY <1>5, <2>1 DEF Visible
  <2>3. request[s].value \in RowOf /\ request[s].value # Missing /\ "settings" \notin Token
    BY <1>3, MissingAssumption, TokenAssumption DEF RowOf
  <2>4. QED
    BY <1>1, <1>2, <1>3, <1>5, <2>2, <2>3, KeepsWriting DEF Change, KeepsRevoked
<1>6. CASE UNCHANGED <<rows, pending>>
  <2>1. rows' = rows /\ pending' = pending
    BY <1>6
  <2>2. UpdatesWhatIs(s)' /\ NoCollision(s)'
    BY <1>4 DEF UpdatesWhatIs, NoCollision
  <2>3. HoldsTheUser(s)'
    BY <1>1, <1>2, <1>4, <2>1 DEF SessionInv, HoldsTheUser
  <2>4. QED
    BY <1>1, <1>2, <2>1, <2>2, <2>3, KeepsReading
<1>7. QED
  BY <1>5, <1>6 DEF AddSettings

LEMMA KeepsWrite ==
  ASSUME IInv, NEW s \in Session, Write(s)
  PROVE  IInv'
<1>1. At(s, "write") /\ Proceed(s) /\ seen' = seen
  BY DEF Write
<1>2. SessionInv(s) /\ request[s] \in Request \cup {NoRequest}
  BY DEF IInv, TypeOK
<1>3. request[s].op \in {"update_settings", "update_profile", "revoke"}
  BY <1>1, <1>2, Statements DEF SessionInv
<1>4. Target(request[s]) \in Id /\ rows.row[Target(request[s])] # Missing
  BY <1>1, <1>2, <1>3, RequestFacts DEF SessionInv, UpdatesWhatIs
<1>5. CASE request[s].op = "revoke"
  <2>1. Target(request[s]) = request[s].token /\ request[s].token \in Token
          /\ request[s].token \notin {"settings", "user"}
    BY <1>2, <1>5, RequestFacts, TokenAssumption DEF Target
  <2>2. Writes(s, request[s].token, "revoked", "deleted")
    BY <1>5 DEF Write
  <2>3. "revoked" \in RowOf /\ "revoked" # Missing
    BY MissingAssumption DEF RowOf, TokenState
  <2>4. QED
    BY <1>1, <1>4, <2>1, <2>2, <2>3, KeepsWriting DEF Change, KeepsRevoked
<1>6. CASE request[s].op # "revoke"
  <2>1. Target(request[s]) \in {"settings", "user"} /\ request[s].value \in Value
    BY <1>2, <1>3, <1>6, RequestFacts DEF Target
  <2>2. Writes(s, Target(request[s]), request[s].value, "updated")
    BY <1>6 DEF Write
  <2>3. request[s].value \in RowOf /\ request[s].value # Missing
          /\ Target(request[s]) \notin Token
    BY <2>1, MissingAssumption, TokenAssumption DEF RowOf
  <2>4. QED
    BY <1>1, <1>4, <2>1, <2>2, <2>3, KeepsWriting DEF Change, KeepsRevoked
<1>7. QED
  BY <1>5, <1>6

LEMMA KeepsMint ==
  ASSUME IInv, NEW s \in Session, Mint(s)
  PROVE  IInv'
<1>1. At(s, "mint") /\ Proceed(s) /\ seen' = seen /\ rows.row[request[s].token] = Missing
        /\ Writes(s, request[s].token, "active", "created")
  BY DEF Mint
<1>2. SessionInv(s) /\ request[s] \in Request \cup {NoRequest}
  BY DEF IInv, TypeOK
<1>3. request[s].token \in Token /\ request[s].token \in Id /\ request[s].token \notin {"settings", "user"}
  BY <1>1, <1>2, Statements, RequestFacts, TokenAssumption DEF SessionInv, Id
<1>4. "active" \in RowOf /\ "active" # Missing /\ "revoked" # Missing
  BY MissingAssumption DEF RowOf, TokenState
<1>5. QED
  BY <1>1, <1>3, <1>4, KeepsWriting DEF Change, KeepsRevoked

(* A session whose request is over satisfies its part by doing nothing. *)
LEMMA IdleSession ==
  ASSUME IInv, NEW s \in Session, End(s), Settled(rows', Id),
         \A j \in Id : rows'.lock[j] # s
  PROVE  /\ SessionInv(s)' /\ NoCollision(s)'
         /\ \A o \in Session \ {s} : /\ request'[o] = request[o] /\ pc'[o] = pc[o]
                                     /\ seen'[o] = seen[o] /\ pending'[o] = pending[o]
         /\ request' \in [Session -> Request \cup {NoRequest}] /\ served' = served
         /\ pc' \in [Session -> Seq(Statement)] /\ seen' \in [Session -> RowOf]
         /\ pending' \in [Session -> [Id \X Change -> Nat]]
<1>1. NoLog \in [Id \X Change -> Nat] /\ (\A e \in Id \X Change : NoLog[e] = 0)
        /\ Missing \in RowOf
  BY DEF NoLog, RowOf
<1>2. /\ request' \in [Session -> Request \cup {NoRequest}] /\ served' = served
      /\ pc' \in [Session -> Seq(Statement)] /\ seen' \in [Session -> RowOf]
      /\ pending' \in [Session -> [Id \X Change -> Nat]]
      /\ request'[s] = NoRequest /\ pc'[s] = <<>> /\ pending'[s] = NoLog
      /\ \A o \in Session \ {s} : /\ request'[o] = request[o] /\ pc'[o] = pc[o]
                                  /\ seen'[o] = seen[o] /\ pending'[o] = pending[o]
  BY <1>1, Typed DEF IInv, TypeOK, End
<1>3. ~ At(s, "touch_user")' /\ ~ At(s, "add_settings")' /\ ~ At(s, "write")'
  BY <1>2 DEF At
<1>4. AtItsPlan(s)' /\ HoldsTheUser(s)'
  BY <1>2 DEF AtItsPlan, HoldsTheUser, NoRequest
<1>5. NothingPending(s)' /\ NothingHeld(s)' /\ UpdatesWhatIs(s)' /\ SettingsHolder(s)'
        /\ NoCollision(s)'
  BY <1>2, <1>3 DEF NothingPending, NothingHeld, UpdatesWhatIs, SettingsHolder, NoCollision, Id
<1>6. PendingMatches(s)'
  <2>1. \A j \in Id : <<j, "created">> \in Id \X Change /\ <<j, "deleted">> \in Id \X Change
    BY DEF Change
  <2>2. QED
    BY <1>1, <1>2, <2>1 DEF PendingMatches, Id
<1>7. QED
  BY <1>2, <1>4, <1>5, <1>6 DEF SessionInv

LEMMA KeepsAbandon ==
  ASSUME IInv, NEW s \in Session, Abandon(s)
  PROVE  IInv'
<1>1. rows \in Tables(Id, RowOf) /\ Settled(rows, Id) /\ s # Nobody /\ Token \subseteq Id
        /\ "user" \in Id
  BY SessionAssumption DEF IInv, TypeOK, Id
<1>2. rows' = Rollback(rows, s, Id) /\ log' = log /\ End(s)
  BY DEF Abandon, LoggedOnRollback
<1>3. /\ rows' \in Tables(Id, RowOf) /\ Settled(rows', Id) /\ FrameOf(rows, rows', s, Id)
      /\ rows'.row = rows.row
      /\ \A j \in Id : rows'.lock[j] = IF rows.lock[j] = s THEN Nobody ELSE rows.lock[j]
  BY <1>1, <1>2, RollbackFacts
<1>4. \A j \in Id : rows'.lock[j] # s
  BY <1>1, <1>3
<1>5. \A j \in Id : rows'.latest[j] \in {rows.row[j], rows.latest[j]}
  BY <1>2 DEF Rollback
<1>6. RowsOnlyGrow'
  BY <1>1, <1>3, <1>5 DEF IInv, RowsOnlyGrow
<1>7. TypeOK'
  <2>1. {rows'.row["user"], rows'.latest["user"]} \subseteq Value
          /\ log' \in [Id \X Change -> Nat] /\ served \in 0 .. MaxRequests
    BY <1>1, <1>2, <1>3, <1>5 DEF IInv, TypeOK
  <2>2. QED
    BY <1>2, <1>3, <1>4, <2>1, IdleSession DEF TypeOK
<1>8. Leaves(s)
  BY <1>2, <1>3, <1>4, IdleSession DEF Leaves
<1>9. LogMatchesRows'
  BY <1>2, <1>3 DEF IInv, LogMatchesRows
<1>10. QED
  BY <1>2, <1>3, <1>4, <1>6, <1>7, <1>8, <1>9, IdleSession, Assemble

LEMMA KeepsCommit ==
  ASSUME IInv, NEW s \in Session, CommitAll(s)
  PROVE  IInv'
<1>1. rows \in Tables(Id, RowOf) /\ Settled(rows, Id) /\ s # Nobody /\ Token \subseteq Id
        /\ "user" \in Id /\ SessionInv(s) /\ RowsOnlyGrow /\ LogMatchesRows
        /\ log \in [Id \X Change -> Nat] /\ pending[s] \in [Id \X Change -> Nat]
  BY SessionAssumption DEF IInv, TypeOK, Id
<1>2. rows' = Commit(rows, s, Id) /\ End(s)
        /\ log' = [e \in Id \X Change |-> log[e] + pending[s][e]]
  BY DEF CommitAll
<1>3. /\ rows' \in Tables(Id, RowOf) /\ Settled(rows', Id) /\ FrameOf(rows, rows', s, Id)
      /\ rows'.latest = rows.latest
      /\ \A j \in Id : /\ rows'.row[j] = Visible(rows, s, j)
                       /\ rows'.lock[j] = IF rows.lock[j] = s THEN Nobody ELSE rows.lock[j]
  BY <1>1, <1>2, CommitFacts
<1>4. \A j \in Id : rows'.lock[j] # s
  BY <1>1, <1>3
<1>5. \A j \in Id : rows'.row[j] = IF rows.lock[j] = s THEN rows.latest[j] ELSE rows.row[j]
  BY <1>3 DEF Visible
<1>6. \A j \in Id : rows.row[j] # Missing => rows'.row[j] # Missing
  BY <1>1, <1>5 DEF RowsOnlyGrow
<1>7. RowsOnlyGrow'
  BY <1>1, <1>3, <1>5 DEF RowsOnlyGrow
<1>8. TypeOK'
  <2>1. {rows'.row["user"], rows'.latest["user"]} \subseteq Value
    BY <1>1, <1>3, <1>5 DEF IInv, TypeOK
  <2>2. log' \in [Id \X Change -> Nat] /\ served \in 0 .. MaxRequests
    BY <1>1, <1>2 DEF IInv, TypeOK
  <2>3. QED
    BY <1>2, <1>3, <1>4, <2>1, <2>2, IdleSession DEF TypeOK
<1>9. Leaves(s)
  BY <1>2, <1>3, <1>4, <1>5, <1>6, IdleSession DEF Leaves
<1>10. LogMatchesRows'
  <2>1. \A j \in Id : <<j, "created">> \in Id \X Change /\ <<j, "deleted">> \in Id \X Change
    BY DEF Change
  <2>2. \A e \in Id \X Change : log'[e] = log[e] + pending[s][e] /\ log[e] \in Nat
                               /\ pending[s][e] \in Nat
    BY <1>1, <1>2
  <2>3. ASSUME NEW i \in Id
        PROVE  /\ log'[<<i, "created">>] <= 1
               /\ log'[<<i, "created">>] = 1 => rows'.row[i] # Missing
    <3> DEFINE before == log[<<i, "created">>]
               added  == pending[s][<<i, "created">>]
               after  == log'[<<i, "created">>]
    <3>1. after = before + added /\ before \in Nat /\ added \in Nat
      BY <2>1, <2>2
    <3>2. before <= 1 /\ (before = 1 => rows.row[i] # Missing)
      BY <1>1 DEF LogMatchesRows
    <3>3. added # 0 => /\ added = 1 /\ rows.lock[i] = s /\ rows.row[i] = Missing
                       /\ rows.latest[i] # Missing
      BY <1>1 DEF SessionInv, PendingMatches
    <3> HIDE DEF before, added, after
    <3>4. added = 0 => after <= 1 /\ (after = 1 => rows'.row[i] # Missing)
      BY <1>6, <3>1, <3>2
    <3>5. added # 0 => after = 1 /\ rows'.row[i] # Missing
      BY <1>5, <3>1, <3>2, <3>3
    <3>6. after <= 1 /\ (after = 1 => rows'.row[i] # Missing)
      BY <3>4, <3>5
    <3>7. QED
      BY <3>6 DEF after
  <2>4. ASSUME NEW t \in Token, log'[<<t, "deleted">>] > 0
        PROVE  rows'.row[t] = "revoked"
    <3>1. t \in Id
      BY <1>1
    <3>2. CASE pending[s][<<t, "deleted">>] = 0
      <4>1. log'[<<t, "deleted">>] = log[<<t, "deleted">>] + 0 /\ log[<<t, "deleted">>] \in Nat
        BY <2>1, <2>2, <3>1, <3>2
      <4>2. rows.row[t] = "revoked"
        BY <1>1, <2>4, <4>1, SMT DEF LogMatchesRows
      <4>3. QED
        BY <1>1, <1>5, <3>1, <4>2 DEF RowsOnlyGrow
    <3>3. CASE pending[s][<<t, "deleted">>] # 0
      BY <1>1, <1>5, <3>1, <3>3 DEF SessionInv, PendingMatches
    <3>4. QED
      BY <3>2, <3>3
  <2>5. QED
    BY <2>3, <2>4 DEF LogMatchesRows
<1>11. QED
  BY <1>2, <1>3, <1>4, <1>7, <1>8, <1>9, <1>10, IdleSession, Assemble

------------------------------------------------------------------------------
(* The theorems. *)

LEMMA Inductive == IInv /\ [Next]_vars => IInv'
<1> SUFFICES ASSUME IInv, [Next]_vars PROVE IInv'
  OBVIOUS
<1>1. CASE UNCHANGED vars
  BY <1>1 DEF vars, IInv, TypeOK, Settled, RowsOnlyGrow, SessionInv, AtItsPlan, HoldsTheUser,
              NothingPending, NothingHeld, UpdatesWhatIs, SettingsHolder, PendingMatches,
              SignInsDoNotCollide, LogMatchesRows, At, Target, Free, Visible
<1>2. CASE Next
  <2>1. PICK s \in Session :
          \/ \E q \in Request : Begin(s, q)
          \/ TouchUser(s) \/ FindSettings(s) \/ AddSettings(s) \/ Fetch(s) \/ Write(s)
          \/ Mint(s) \/ CommitAll(s) \/ Abandon(s)
    BY <1>2 DEF Next
  <2>2. QED
    BY <2>1, KeepsBegin, KeepsTouchUser, KeepsFindSettings, KeepsAddSettings, KeepsFetch,
       KeepsWrite, KeepsMint, KeepsCommit, KeepsAbandon
<1>3. QED
  BY <1>1, <1>2

LEMMA Invariant == Spec => []IInv
<1>1. Init => IInv
  BY Initial
<1>2. IInv /\ [Next]_vars => IInv'
  BY Inductive
<1>3. QED
  BY <1>1, <1>2, PTL DEF Spec

(***************************************************************************)
(* The tables, the log and the requests in progress keep their types.      *)
(***************************************************************************)
THEOREM TypeCorrect == Spec => []TypeOK
<1>1. IInv => TypeOK
  BY DEF IInv
<1>2. QED
  BY <1>1, Invariant, PTL

(***************************************************************************)
(* However many sign-ins run at once, the INSERT of the settings never     *)
(* meets another one: bootstrap holds the user's row by then.              *)
(***************************************************************************)
THEOREM SignInsTakeTurns == Spec => []SignInsDoNotCollide
<1>1. IInv => SignInsDoNotCollide
  BY DEF IInv
<1>2. QED
  BY <1>1, Invariant, PTL

(***************************************************************************)
(* The activity log never tells of a creation or a revocation that is not  *)
(* in the tables, and of no creation twice.                                *)
(***************************************************************************)
THEOREM LogIsTrue == Spec => []LogMatchesRows
<1>1. IInv => LogMatchesRows
  BY DEF IInv
<1>2. QED
  BY <1>1, Invariant, PTL
=============================================================================
